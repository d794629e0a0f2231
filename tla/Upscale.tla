------------------------------ MODULE Upscale ------------------------------
(***************************************************************************)
(* Upscaling (processor.rs dispatch_upscale and what app.rs makes of its   *)
(* results): one run at a time, on a thread of its own, cancelled through  *)
(* a flag that is read between tiles and a terminate request that not      *)
(* every backend honours.  The images also take cut-outs, reduced here to  *)
(* what they do to an item: one `job` per item names the run it waits for, *)
(* whichever engine it is.                                                 *)
(***************************************************************************)
EXTENDS Integers, Sequences, SequencesExt

CONSTANTS
    Pictures,       \* the items
    Tiles,          \* tiles of one upscale
    MaxDispatches, MaxMoves,   \* bounds on runs, and on what else the user does
    Hasty           \* the user may start a run on an item before the last one there has ended

ASSUME UpscaleAssumption == Tiles \in Nat \ {0} /\ {MaxDispatches, MaxMoves} \subseteq Nat

VARIABLES
    model,       \* "upscale" or "cutout"
    item,        \* the pictures: [version, job, processing]
    active,      \* upscale_active
    cancelling,  \* upscale_cancel, and the terminate flag of the RunOptions
    thread,      \* [item, run, at, left] or NoThread
    results,     \* upscale_result_rx
    cutouts,     \* cut-outs with the bridge: [item, run]
    asked,       \* those the registry cancels
    dispatches, moves

upVars == <<model, item, active, cancelling, thread, results, cutouts, asked, dispatches, moves>>

Unawaited == [engine |-> "none", run |-> 0, version |-> 0]
NoThread  == [item |-> "none", run |-> 0, at |-> "off", left |-> 0]

UpInit ==
    /\ model = "upscale"
    /\ item = [p \in Pictures |-> [version |-> 0, job |-> Unawaited, processing |-> FALSE]]
    /\ active = FALSE /\ cancelling = FALSE /\ thread = NoThread /\ results = <<>>
    /\ cutouts = {} /\ asked = {} /\ dispatches = 0 /\ moves = 0

\* start_job, which a cut-out follows with the status; job_is_current, and the end of an awaited run: finish_job commits
\* a new state, the others leave the item on the one it shows.
Started(it, engine) ==
    [it EXCEPT !.job = [engine |-> engine, run |-> dispatches + 1, version |-> it.version],
               !.processing = @ \/ engine = "cutout"]
Stepped(it) == [it EXCEPT !.version = @ + 1]
Awaits(it) == it.job # Unawaited /\ it.job.version = it.version
Landed(it)    == [version |-> it.version + 1, job |-> Unawaited, processing |-> FALSE]
Abandoned(it) == [it EXCEPT !.job = Unawaited, !.processing = FALSE]

----------------------------------------------------------------------------
(* The GUI thread                                                          *)

\* cancel_upscale: nothing to cancel when nothing is in flight.
CancelUpscale == cancelling' = (active \/ cancelling)

Resting(p) ==
    /\ thread.item # p
    /\ \A r \in Range(results) \cup cutouts : r.item # p
Dispatches(p, engine) ==
    /\ model = engine /\ dispatches < MaxDispatches
    /\ Hasty \/ Resting(p)
    /\ dispatches' = dispatches + 1
    /\ item' = [item EXCEPT ![p] = Started(@, engine)]

\* dispatch_upscale_intent and dispatch_upscale: with too little memory, the run
\* is refused after the item has started to wait for it.
Upscale(p) ==
    /\ Dispatches(p, "upscale") /\ ~active
    /\ \/ /\ active' = TRUE /\ cancelling' = FALSE
          /\ thread' = [item |-> p, run |-> dispatches', at |-> "decode", left |-> Tiles]
       \/ UNCHANGED <<active, cancelling, thread>>
    /\ UNCHANGED <<model, results, cutouts, asked, moves>>

\* process_items, which looks at the status alone.
CutOut(p) ==
    /\ Dispatches(p, "cutout") /\ ~item[p].processing
    /\ cutouts' = cutouts \cup {[item |-> p, run |-> dispatches']}
    /\ asked' = {}
    /\ UNCHANGED <<model, active, cancelling, thread, results, moves>>

Moves == moves < MaxMoves /\ moves' = moves + 1 /\ UNCHANGED <<dispatches, results, thread, active>>

\* Escape, or the capsule.
Cancel == Moves /\ active /\ CancelUpscale /\ UNCHANGED <<model, item, cutouts, asked>>

\* A model change cancels the upscale.  The picker is disabled while one runs or
\* the selected image is being cut out: another image can be selected first.
SwitchEngine ==
    /\ Moves /\ ~active /\ \E p \in Pictures : ~item[p].processing
    /\ CancelUpscale
    /\ model' = (IF model = "upscale" THEN "cutout" ELSE "upscale")
    /\ UNCHANGED <<item, cutouts, asked>>

\* handle_cancel_all_and_reset.
CancelEverything ==
    /\ Moves /\ CancelUpscale /\ asked' = cutouts
    /\ item' = [p \in Pictures |-> IF item[p].processing THEN Abandoned(item[p]) ELSE item[p]]
    /\ UNCHANGED <<model, cutouts>>

\* step_targets: what the item waits for is cancelled, then another state is
\* restored.
StepTo(p) ==
    /\ Moves
    /\ item' = [item EXCEPT ![p] = Abandoned(Stepped(@))]
    /\ IF item[p].job.engine = "upscale" THEN CancelUpscale ELSE UNCHANGED cancelling
    /\ asked' = IF item[p].processing /\ item[p].job.engine # "upscale"
                THEN asked \cup {c \in cutouts : c.item = p} ELSE asked
    /\ UNCHANGED <<model, cutouts>>

\* A further step is committed by hand.
Commit(p) ==
    /\ Moves /\ item' = [item EXCEPT ![p] = Stepped(@)]
    /\ UNCHANGED <<model, cancelling, cutouts, asked>>

\* pump_upscale_results: a failure leaves the item waiting.
WrongTaken(items, r) ==   \* a result is taken without asking whether it is awaited
    IF r.outcome = "done" THEN [items EXCEPT ![r.item] = Landed(@)] ELSE items
Taken(items, r) ==
    IF r.outcome = "done" /\ Awaits(items[r.item]) THEN [items EXCEPT ![r.item] = Landed(@)]
    ELSE IF r.outcome = "cancelled" THEN [items EXCEPT ![r.item].job = Unawaited]
    ELSE items
PumpUpscale ==
    /\ results # <<>>
    /\ item' = FoldLeft(Taken, item, results) /\ results' = <<>>
    /\ UNCHANGED <<model, active, cancelling, thread, cutouts, asked, dispatches, moves>>

\* on_batch_item_done.
CutOutEnds(c) ==
    /\ cutouts' = cutouts \ {c} /\ asked' = asked \ {c}
    /\ LET it == item[c.item]
           awaited == it.processing /\ Awaits(it)
       IN  \E outcome \in {"done", "failed"} \cup (IF c \in asked THEN {"cancelled"} ELSE {}) :
               item' = [item EXCEPT ![c.item] =
                   CASE awaited /\ outcome = "done"                -> Landed(it)
                     [] awaited /\ outcome = "failed"              -> Abandoned(it)
                     [] it.processing /\ outcome = "cancelled"     -> Abandoned(it)
                     [] OTHER                                      -> it]
    /\ UNCHANGED <<model, active, cancelling, thread, results, dispatches, moves>>

----------------------------------------------------------------------------
(* The thread                                                              *)

ThreadStep(at, left) ==
    /\ thread' = [thread EXCEPT !.at = at, !.left = left]
    /\ UNCHANGED <<model, item, active, cancelling, results, cutouts, asked, dispatches, moves>>

\* The result is sent before the flag is cleared.
Answer(outcome) ==
    /\ results' = Append(results, [item |-> thread.item, run |-> thread.run, outcome |-> outcome])
    /\ thread' = [thread EXCEPT !.at = "sent"]
    /\ UNCHANGED <<model, item, active, cancelling, cutouts, asked, dispatches, moves>>

Decode == thread.at = "decode" /\ (ThreadStep("build", thread.left) \/ Answer("failed"))
Build  == thread.at = "build" /\ (ThreadStep("gap", thread.left) \/ Answer("failed"))
\* upscale_tiled, between two tiles.
NextTile == thread.at = "gap" /\ IF cancelling THEN Answer("cancelled") ELSE ThreadStep("tile", thread.left - 1)
\* The model on one tile; a backend may honour the terminate request or not.
RunTile ==
    /\ thread.at = "tile"
    /\ \/ IF thread.left > 0 THEN ThreadStep("gap", thread.left) ELSE Answer("done")
       \/ cancelling /\ Answer("cancelled")
       \/ Answer("failed")
Leave ==
    /\ thread.at = "sent" /\ thread' = NoThread /\ active' = FALSE
    /\ UNCHANGED <<model, item, cancelling, results, cutouts, asked, dispatches, moves>>

Thread == Decode \/ Build \/ NextTile \/ RunTile \/ Leave

UpNext ==
    \/ \E p \in Pictures : Upscale(p) \/ CutOut(p) \/ StepTo(p) \/ Commit(p)
    \/ Cancel \/ SwitchEngine \/ CancelEverything \/ PumpUpscale
    \/ \E c \in cutouts : CutOutEnds(c)
    \/ Thread

----------------------------------------------------------------------------
(* Properties                                                              *)

UpTypeOK ==
    /\ \A p \in Pictures : item[p].job.version <= item[p].version
    /\ active <=> thread # NoThread
    /\ thread.left \in 0 .. Tiles
    /\ \A c \in cutouts : c.run <= dispatches

\* An answer ends the wait for its own run and for no other run of the image
\* (app.rs on_batch_item_done, "Skip results the item no longer waits for", and
\* pump_upscale_results): not after an undo, a further step, a cancel, or a run
\* of the other engine.
EndsItsOwnRun ==
    [][LET ended == (Range(results) \ Range(results')) \cup (cutouts \ cutouts')
       IN  \A p \in Pictures :
               (ended # {} /\ item'[p] # item[p])
                   => \E r \in ended : r.item = p /\ r.run = item[p].job.run]_upVars
=============================================================================
