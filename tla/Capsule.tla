------------------------------ MODULE Capsule ------------------------------
(***************************************************************************)
(* The progress capsule: one slot that every run is shown in               *)
(* (dispatch_progress.rs, and the calls of processor.rs, app.rs and        *)
(* canvas.rs around it).  Background removal, eraser strokes and upscales  *)
(* may go on at the same time; the slot shows the one begun last.  Threads *)
(* look whether the slot is still theirs, and write to it afterwards.      *)
(*                                                                         *)
(* `crossed` is kept for the properties alone: the runs whose capsule an   *)
(* older run has written to, having looked before they began.              *)
(***************************************************************************)
EXTENDS Integers, Sequences, FiniteSets

CONSTANTS
    Canvases,        \* the images that are erased on
    Crops, Patches,  \* outer units of a Stable Diffusion stroke; counts inside of a unit
    Batch, Late,     \* images of a batch: its first window, and those streamed to it
    MaxBegun         \* bound on the runs begun

ASSUME CapsuleAssumption == {Crops, Patches, Batch} \subseteq Nat \ {0} /\ {Late, MaxBegun} \subseteq Nat

VARIABLES
    newest,    \* run: bumped by every begin
    slot,      \* inner: what is shown, or Blank
    begun,     \* those begun, by number
    asked,     \* runs whose cancel flag is set
    batch,     \* in_flight and seg_run: [run, left, total, late, going]
    selected,  \* the image shown
    crossed

capsuleVars == <<newest, slot, begun, asked, batch, selected, crossed>>

Blank   == [run |-> 0]
NoBatch == [run |-> 0, left |-> 0, total |-> 0, late |-> 0, going |-> FALSE]

CapsuleInit ==
    /\ newest = 0 /\ slot = Blank /\ begun = <<>> /\ asked = {} /\ batch = NoBatch
    /\ selected \in Canvases /\ crossed = {}

Eraser(r) == begun[r].kind \in {"lama", "sd"}

\* is_inpaint_in_flight, is_upscale_in_flight.
ErasedOn(c) == \E r \in DOMAIN begun : Eraser(r) /\ begun[r].image = c /\ begun[r].owed
Upscaling   == \E r \in DOMAIN begun : begun[r].kind = "Upscale" /\ begun[r].owed

----------------------------------------------------------------------------
(* DispatchProgress: counts on two levels, and the share they come to      *)

Outer(done, total) == [level |-> "outer", done |-> done, total |-> total]
Inner(done, total) == [level |-> "inner", done |-> done, total |-> total]

\* apply.
Applied(p, report) ==
    IF p = Blank THEN Blank
    ELSE IF report.level = "outer" THEN [p EXCEPT !.outer = <<report.done, report.total>>]
    ELSE [p EXCEPT !.inner = <<report.done, report.total>>]

\* flat_counter; <<0, 0>> while nothing is counted.
FlatCounter(p) ==
    IF p.outer = <<>> THEN p.inner
    ELSE LET oc == p.outer[1]  ot == p.outer[2]  ic == p.inner[1]  it == p.inner[2]
             Capped(n, total) == <<IF n < total THEN n ELSE total, total>>
         IN  IF it = 0 THEN Capped(oc, ot) ELSE Capped(oc * it + ic, ot * it)

\* What a run reports: an upscale and LaMa count tiles, Stable Diffusion crops
\* and the steps of each.
Reports(kind) ==
    LET unit == Patches + 2   \* reports of a crop: its start, and a step at a time
        Of(k, j) == IF j = 0 THEN Outer(k, Crops) ELSE Inner(j - 1, Patches)
    IN  IF kind = "sd"
        THEN [n \in 1 .. Crops * unit + 1 |-> IF n > Crops * unit THEN Outer(Crops, Crops)
                                              ELSE Of((n - 1) \div unit, (n - 1) % unit)]
        ELSE [n \in 1 .. Patches + 1 |-> Inner(n - 1, Patches)]

----------------------------------------------------------------------------
(* DispatchProgressSlot and RunSink                                        *)

\* begin: only the GUI thread calls it.
BeginRun(kind, image, at) ==
    /\ newest < MaxBegun /\ newest' = newest + 1
    /\ begun' = Append(begun, [kind |-> kind, image |-> image, at |-> at, told |-> 0, owed |-> TRUE])
    /\ slot' = [run |-> newest', kind |-> IF kind \in {"lama", "sd"} THEN "Inpaint" ELSE kind,
                outer |-> <<>>, inner |-> <<0, 0>>, stopping |-> FALSE]

Current(r) == newest = r

\* What the GUI thread does for a run in one go: look, then write.
EndRun(r)         == slot' = IF Current(r) THEN Blank ELSE slot
ReportRun(r, rep) == slot' = IF Current(r) THEN Applied(slot, rep) ELSE slot

\* mark_cancelling goes by the kind of run alone.
MarkCancelling(kind) == IF slot # Blank /\ slot.kind = kind THEN [slot EXCEPT !.stopping = TRUE] ELSE slot

----------------------------------------------------------------------------
(* The runs that a thread of this process reports: LaMa and upscales       *)

Goes(r, from, to) ==
    /\ r \in DOMAIN begun /\ begun[r].at = from
    /\ begun' = [begun EXCEPT ![r].at = to, ![r].told = IF to \in {"over", "ends", "clears"} THEN 0 ELSE @]
    /\ UNCHANGED <<newest, asked, batch, selected>>

\* report: the slot is left alone when it is another's.
Look(r) ==
    /\ r \in DOMAIN begun /\ begun[r].at = "works" /\ begun[r].told < Len(Reports(begun[r].kind))
    /\ begun' = [begun EXCEPT ![r].told = @ + 1, ![r].at = IF Current(r) THEN "writes" ELSE "works"]
    /\ UNCHANGED <<newest, slot, asked, batch, selected, crossed>>
Crosses(r) == crossed' = IF Current(r) THEN crossed ELSE crossed \cup {newest}
Write(r) ==
    /\ Goes(r, "writes", "works") /\ Crosses(r)
    /\ slot' = Applied(slot, Reports(begun[r].kind)[begun[r].told])

\* It is done, has failed or has seen its flag.  An upscale sends its result and
\* gives up the engine before it ends the run, LaMa ends the run first.
Sends(r) ==
    /\ r \in DOMAIN begun /\ begun[r].kind = "Upscale" /\ begun[r].at = "works"
    /\ begun' = [begun EXCEPT ![r].at = "ends", ![r].owed = FALSE]
    /\ UNCHANGED <<newest, slot, asked, batch, selected, crossed>>
LookToEnd(r) ==
    /\ r \in DOMAIN begun /\ begun[r].kind \in {"lama", "Upscale"}
    /\ Goes(r, IF begun[r].kind = "lama" THEN "works" ELSE "ends", IF Current(r) THEN "clears" ELSE "over")
    /\ UNCHANGED <<slot, crossed>>
Clear(r) == Goes(r, "clears", "over") /\ Crosses(r) /\ slot' = Blank

\* drain_inpaint_results: the result has come.
Drain(r) ==
    /\ r \in DOMAIN begun /\ begun[r].owed /\ Eraser(r) /\ begun[r].at \in {"over", "dropped"}
    /\ begun' = [begun EXCEPT ![r].owed = FALSE]
    /\ UNCHANGED <<newest, slot, asked, batch, selected, crossed>>

----------------------------------------------------------------------------
(* Stable Diffusion strokes: their helper, and what the bridge forwards    *)

\* dispatch_inpaint_sd: a stroke that is cancelled before it is sent, or whose
\* files cannot be written, is answered without its run being ended.
HelperSends(r)   == Goes(r, "helper", "child") /\ UNCHANGED <<slot, crossed>>
HelperAnswers(r) == Goes(r, "helper", "dropped") /\ UNCHANGED <<slot, crossed>>

\* pump_inpaint_subprocess.
PumpReport(r) ==
    /\ r \in DOMAIN begun /\ begun[r].at = "child" /\ begun[r].told < Len(Reports("sd"))
    /\ begun' = [begun EXCEPT ![r].told = @ + 1]
    /\ ReportRun(r, Reports("sd")[begun'[r].told])
    /\ UNCHANGED <<newest, asked, batch, selected, crossed>>
PumpAnswer(r) == Goes(r, "child", "over") /\ EndRun(r) /\ UNCHANGED crossed

----------------------------------------------------------------------------
(* The batch: track_dispatch, take_recipe, track_streamed, drain_recipes   *)

Count(b)     == Outer(b.total - b.left, b.total)
SegOver(r)   == begun' = [begun EXCEPT ![r].at = "over", ![r].owed = FALSE]
BatchStep(b) == batch' = b /\ UNCHANGED <<newest, asked, selected, crossed>>

\* take_recipe: the count is told, and with the last item the run ends.
ItemEnds ==
    /\ batch.left > 0
    /\ LET left == [batch EXCEPT !.left = @ - 1]
       IN  IF left.left > 0 \/ batch.run = 0
           THEN BatchStep(left) /\ UNCHANGED begun /\ ReportRun(batch.run, Count(left))
           ELSE BatchStep([left EXCEPT !.run = 0]) /\ SegOver(batch.run) /\ EndRun(batch.run)

\* track_streamed: one that comes after the last item is not counted.
Streams ==
    /\ batch.late > 0 /\ batch.going
    /\ LET late == [batch EXCEPT !.late = @ - 1]
           more == [late EXCEPT !.left = @ + 1, !.total = @ + 1]
       IN  IF batch.left > 0 THEN BatchStep(more) /\ ReportRun(batch.run, Count(more))
           ELSE BatchStep(late) /\ UNCHANGED slot
    /\ UNCHANGED begun

\* on_batch_complete, on_cancelled, whatever of the batch was answered by then.
BatchEnds ==
    /\ batch.going
    /\ BatchStep(NoBatch)
    /\ IF batch.run # 0 THEN SegOver(batch.run) /\ EndRun(batch.run) ELSE UNCHANGED <<begun, slot>>

----------------------------------------------------------------------------
(* The user                                                                *)

Starts == UNCHANGED <<asked, selected, crossed>>

\* dispatch_inpaint: the brush is locked while a stroke is in flight on the image.
EraseShown(engine) ==
    /\ ~ErasedOn(selected)
    /\ BeginRun(engine, selected, IF engine = "sd" THEN "helper" ELSE "works")
    /\ Starts /\ UNCHANGED batch
UpscaleShown == ~Upscaling /\ BeginRun("Upscale", selected, "works") /\ Starts /\ UNCHANGED batch
ProcessBatch ==
    /\ ~batch.going /\ Starts
    /\ newest < MaxBegun /\ newest' = newest + 1
    /\ begun' = Append(begun, [kind |-> "Seg", image |-> selected, at |-> "batch", told |-> 0, owed |-> TRUE])
    /\ batch' = [run |-> newest', left |-> Batch, total |-> Batch, late |-> Late, going |-> TRUE]
    /\ slot' = [run |-> newest', kind |-> "Seg", outer |-> <<0, Batch>>, inner |-> <<0, 0>>, stopping |-> FALSE]

Orders == UNCHANGED <<newest, crossed>>
Select(c) == Orders /\ c # selected /\ selected' = c /\ UNCHANGED <<slot, begun, asked, batch>>

Strokes(C) == {r \in DOMAIN begun : Eraser(r) /\ begun[r].owed /\ begun[r].image \in C}
Upscales   == {r \in DOMAIN begun : begun[r].kind = "Upscale" /\ begun[r].owed}

\* cancel_inpaint_for, cancel_upscale.
StopStroke(c) ==
    /\ asked' = asked \cup Strokes({c}) /\ slot' = MarkCancelling("Inpaint")
    /\ UNCHANGED <<begun, batch>>
StopUpscale ==
    /\ asked' = asked \cup Upscales /\ slot' = MarkCancelling("Upscale")
    /\ UNCHANGED <<begun, batch>>

\* handle_cancel_all_and_reset: the batch's run ends here, the others stop later.
StopEverything ==
    /\ asked' = asked \cup Strokes(Canvases) \cup Upscales \cup {batch.run}
    /\ batch' = [batch EXCEPT !.run = 0, !.late = 0]
    /\ IF batch.run # 0 THEN SegOver(batch.run) ELSE UNCHANGED begun
    /\ slot' = IF batch.run # 0 /\ Current(batch.run) THEN Blank
               ELSE IF Upscaling THEN MarkCancelling("Upscale") ELSE slot

\* The button of the capsule, by cancel_target_for.
WrongTarget(c) == TRUE   \* whatever image is shown
Target(c) == ErasedOn(c)
Click ==
    /\ Orders /\ slot # Blank /\ ~slot.stopping /\ UNCHANGED selected
    /\ \/ slot.kind = "Inpaint" /\ Target(selected) /\ StopStroke(selected)
       \/ slot.kind = "Upscale" /\ Upscaling /\ StopUpscale
       \/ slot.kind = "Seg" /\ StopEverything

\* apply_cancel_shortcut; a stroke is stopped without the capsule saying so.
Escape ==
    /\ Orders /\ UNCHANGED selected
    /\ \/ Upscaling /\ StopUpscale
       \/ /\ ~Upscaling /\ Strokes(Canvases) # {}
          /\ asked' = asked \cup Strokes(Canvases) /\ UNCHANGED <<slot, begun, batch>>
       \/ ~Upscaling /\ Strokes(Canvases) = {} /\ batch.going /\ StopEverything

----------------------------------------------------------------------------

Thread(r) == Look(r) \/ Write(r) \/ Sends(r) \/ LookToEnd(r) \/ Clear(r)
Forwards(r) == Drain(r) \/ HelperSends(r) \/ HelperAnswers(r) \/ PumpReport(r) \/ PumpAnswer(r)
Batching == ItemEnds \/ Streams \/ BatchEnds

CapsuleNext ==
    \/ \E r \in DOMAIN begun : Thread(r) \/ Forwards(r)
    \/ Batching
    \/ \E engine \in {"lama", "sd"} : EraseShown(engine)
    \/ UpscaleShown \/ ProcessBatch
    \/ \E c \in Canvases : Select(c)
    \/ Click \/ Escape

CapsuleSpec == CapsuleInit /\ [][CapsuleNext]_capsuleVars

----------------------------------------------------------------------------
(* Properties                                                              *)

Going(r)   == begun[r].at \notin {"over", "dropped"}
Dropped(r) == begun[r].at = "dropped"

\* What the capsule shows is the run begun last, and that run is still going on
\* (dispatch_progress.rs:240, "`None` when no dispatch is in flight"), except for
\* a stroke answered by its own helper; and while that run goes on it is shown,
\* unless an older one wrote to the slot that it had seen to be its own.
ShowsTheNewest ==
    /\ slot # Blank => slot.run = newest /\ (Going(newest) \/ Dropped(newest))
    /\ newest > 0 /\ Going(newest) /\ newest \notin crossed => slot # Blank

\* The capsule says that a run is stopping only when it has been told to, or when
\* another stroke has: they are not told apart.
StoppingIsTold ==
    (slot # Blank /\ slot.stopping) =>
        slot.run \in asked \/ (Eraser(slot.run) /\ \E r \in asked : r \in DOMAIN begun /\ Eraser(r))

\* The share shown lies between that of the outer units that are done and that of
\* one more.
NotLess(p, q) == p[1] * q[2] <= q[1] * p[2]
CountsItsUnit ==
    slot # Blank /\ slot.outer # <<>> =>
        /\ NotLess(slot.outer, FlatCounter(slot))
        /\ NotLess(FlatCounter(slot), <<slot.outer[1] + 1, slot.outer[2]>>)

CapsuleOK == ShowsTheNewest /\ StoppingIsTold /\ CountsItsUnit

\* A click stops the run the capsule shows, or a batch with everything else; of
\* strokes on two images it may stop the one on the image shown, although "the
\* click does nothing rather than stop another item's stroke"
\* (dispatch_progress.rs:36).
ClickStopsTheShown ==
    [][Click => \/ slot.kind = "Seg"
                \/ asked' = asked \cup {slot.run}
                \/ Cardinality(Strokes(Canvases)) > 1 /\ asked' = asked \cup Strokes({selected})
                \/ Dropped(slot.run)]_capsuleVars

\* The share done never goes back within a run ("Monotonic by construction",
\* dispatch_progress.rs:225), but for one unit when its own count begins, whose start
\* was counted with the inner count of the one before (inpaint_sd.rs:300, 750), and
\* when an image joins the batch.
ShareGrows ==
    [][slot # Blank /\ slot' # Blank /\ slot'.run = slot.run /\ newest' \notin crossed' =>
          \/ NotLess(FlatCounter(slot), FlatCounter(slot'))
          \/ slot'.inner[1] = 0 /\ slot'.outer # <<>>
          \/ batch'.total > batch.total]_capsuleVars

\* What a click and the counts tell of a run.
CapsuleTells == ClickStopsTheShown /\ ShareGrows
=============================================================================
