------------------------------ MODULE Preview ------------------------------
(***************************************************************************)
(* Live preview (gui/live_preview.rs and its half of gui/app.rs): the      *)
(* result of the shown image follows its knobs and its selection without   *)
(* Process being pressed.  A tweak waits for a debounce, a worker computes *)
(* the result, and it lands if the image is still in the state it was      *)
(* computed for.  A tripwire, once per frame, asks for a preview where the *)
(* knobs differ from those the result was made with.                       *)
(*                                                                         *)
(* A state of the timeline is [kind, knobs, sel, made, born]: `made` is    *)
(* what its result was made with, and `born` tells the steps apart, for    *)
(* the properties alone.                                                   *)
(***************************************************************************)
EXTENDS Timeline, FiniteSets

CONSTANTS
    Knobs,
    Selections,  \* "none" and the strokes
    MaxTweaks,   \* bound on what the user does
    MayFail      \* a worker may come back without a result

ASSUME PreviewAssumption == MaxTweaks \in Nat /\ MayFail \in BOOLEAN

VARIABLES
    hist,        \* the item's timeline
    waiting,     \* LivePreview.pending: "no", "debouncing", "due"
    inflight,    \* the generation in flight; 0 for none
    generation,  \* generation_counter
    checked,     \* last_drift_check: the knobs it found in order
    workers,     \* the previews being computed
    finished,    \* the result channel
    tweaks, failed   \* bound; whether a worker ever failed

prevVars == <<hist, waiting, inflight, generation, checked, workers, finished, tweaks, failed>>

Never == "never"

PrevInit ==
    /\ \E k \in Knobs :
           hist = NewTimeline([kind |-> "Process", knobs |-> k, sel |-> "none", born |-> 0,
                               made |-> [knobs |-> k, sel |-> "none", born |-> 0]])
    /\ waiting = "no" /\ inflight = 0 /\ generation = 0 /\ checked = Never
    /\ workers = {} /\ finished = {}
    /\ tweaks = 0 /\ failed = FALSE

PrevShown == Shown(hist)
Knob == PrevShown.knobs

\* mark_tweak, and then flush: a request that is there keeps its debounce.
Asked(flush) == IF flush \/ waiting = "due" THEN "due" ELSE "debouncing"

----------------------------------------------------------------------------
(* What the user does                                                      *)

UserActs == tweaks < MaxTweaks /\ tweaks' = tweaks + 1 /\ UNCHANGED failed

\* apply_toolbar_change: a knob moves, by itself or soon after another one; a
\* settled edit does not wait for the debounce.
Tweak(k, soon, settled) ==
    /\ UserActs /\ k # Knob
    /\ LET born == IF Joins(hist, [kind |-> "Adjust"], soon) THEN PrevShown.born ELSE tweaks'
       IN  hist' = Pushed(hist, [PrevShown EXCEPT !.kind = "Adjust", !.knobs = k, !.born = born], soon)
    /\ waiting' = Asked(settled)
    /\ UNCHANGED <<inflight, generation, checked, workers, finished>>

\* A brush stroke is committed, and dispatch_brush_rerun.
Brush(s) ==
    /\ UserActs /\ s # PrevShown.sel
    /\ hist' = Pushed(hist, [PrevShown EXCEPT !.kind = "Stroke", !.sel = s, !.born = tweaks'], FALSE)
    /\ waiting' = Asked(TRUE)
    /\ UNCHANGED <<inflight, generation, checked, workers, finished>>

\* LivePreview::cancel.
Cancelled ==
    /\ waiting' = "no" /\ inflight' = 0
    /\ workers' = {IF w.gen = inflight THEN [w EXCEPT !.cancelled = TRUE] ELSE w : w \in workers}

\* step_targets: the preview goes, even where there is nothing to step to.
StepBack    == hist' = IF CanUndo(hist) THEN Undone(hist) ELSE hist
StepForward == hist' = IF CanRedo(hist) THEN Redone(hist) ELSE hist
StepTargets ==
    /\ UserActs /\ Cancelled
    /\ StepBack \/ StepForward
    /\ UNCHANGED <<generation, checked, finished>>

----------------------------------------------------------------------------
(* One frame                                                               *)

\* recipe_drift_tripwire, on a frame with nothing in flight whose knobs were not
\* the last it checked.
Watching == inflight = 0 /\ checked # Knob
Tripped  == Watching /\ PrevShown.made.knobs # Knob

\* tick: what is due goes to a worker, if its inputs are at hand.
Due(ready) == ready /\ (waiting = "due" \/ Tripped)
Newest(ready) == generation + (IF Due(ready) THEN 1 ELSE 0)
Dispatched ==
    [gen |-> generation + 1, version |-> hist.version, cancelled |-> FALSE,
     made |-> [knobs |-> Knob, sel |-> PrevShown.sel, born |-> PrevShown.born]]

\* drain_results keeps only the preview that is in flight, after tick.
Drained(ready) ==
    {r \in finished : r.gen = (IF Due(ready) THEN Newest(ready) ELSE inflight)}

\* apply_completed_previews.
WrongApplied(landed) ==   \* the version is not compared
    IF landed = {} THEN hist
    ELSE Amended(hist, [PrevShown EXCEPT !.made = (CHOOSE r \in landed : TRUE).made])
Applied(landed) ==
    LET fit == {r \in landed : r.version = hist.version}
    IN  IF fit = {} THEN hist
        ELSE Amended(hist, [PrevShown EXCEPT !.made = (CHOOSE r \in fit : TRUE).made])

\* pump_live_preview.
Frame(ready) ==
    /\ checked' = IF ~Watching THEN checked ELSE IF Tripped THEN Never ELSE Knob
    /\ waiting' = IF Due(ready) THEN "no" ELSE IF Tripped THEN "due" ELSE waiting
    /\ generation' = Newest(ready)
    /\ workers' = workers \cup (IF Due(ready) THEN {Dispatched} ELSE {})
    /\ LET landed == Drained(ready)
       IN  /\ inflight' = IF landed # {} THEN 0 ELSE IF Due(ready) THEN Newest(ready) ELSE inflight
           /\ hist' = Applied(landed)
    /\ finished' = {}
    /\ UNCHANGED <<tweaks, failed>>

Debounced ==
    /\ waiting = "debouncing" /\ waiting' = "due"
    /\ UNCHANGED <<hist, inflight, generation, checked, workers, finished, tweaks, failed>>

\* A worker ends; a cancelled one says nothing.
WorkerEnds(w) ==
    /\ workers' = workers \ {w}
    /\ \/ /\ finished' = IF w.cancelled THEN finished ELSE finished \cup {w}
          /\ UNCHANGED failed
       \/ MayFail /\ failed' = TRUE /\ UNCHANGED finished
    /\ UNCHANGED <<hist, waiting, inflight, generation, checked, tweaks>>

PrevNext ==
    \/ \E k \in Knobs, soon, settled \in BOOLEAN : Tweak(k, soon, settled)
    \/ \E s \in Selections : Brush(s)
    \/ StepTargets
    \/ \E ready \in BOOLEAN : Frame(ready)
    \/ Debounced
    \/ \E w \in workers : WorkerEnds(w)

\* Frames keep coming, the inputs of a preview are there in the end, and a
\* worker ends.
PrevFairness ==
    /\ WF_prevVars(Frame(TRUE)) /\ WF_prevVars(Debounced)
    /\ WF_prevVars(\E w \in workers : WorkerEnds(w))

----------------------------------------------------------------------------
(* Properties                                                              *)

PrevTypeOK ==
    /\ Len(hist.states) \in 1 .. Depth /\ hist.at \in DOMAIN hist.states
    /\ waiting \in {"no", "debouncing", "due"}
    /\ inflight \in 0 .. generation
    /\ \A w \in workers \cup finished : w.gen <= generation
    /\ inflight # 0 => failed \/ inflight \in {w.gen : w \in workers \cup finished}

\* While an image stays in one state, its result is only ever replaced by one
\* that was computed for this state (live_preview.rs:137, app.rs
\* apply_completed_previews): neither an undo, nor a further step, nor a
\* superseded worker brings back what another state showed.
PreviewLands ==
    [][(hist'.version = hist.version /\ Shown(hist').made # PrevShown.made)
           => Shown(hist').made.born = Shown(hist').born]_prevVars

\* The result catches up with the knobs once the user stops: what a dropped or
\* superseded preview leaves behind is noticed by the tripwire, unless it has
\* already checked these very knobs, or a worker has failed and stays in flight.
KnobsCatchUp ==
    (PrevShown.made.knobs # Knob)
        ~> (PrevShown.made.knobs = Knob \/ checked = Knob \/ failed)
=============================================================================
