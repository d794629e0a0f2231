------------------------------ MODULE Timeline ------------------------------
(***************************************************************************)
(* The history of one image (gui/timeline.rs): its states in order, the    *)
(* one shown, and a version that lets a job recognise on landing whether   *)
(* the image still shows what the job started from.                        *)
(***************************************************************************)
EXTENDS Integers, Sequences

CONSTANT Depth   \* TIMELINE_DEPTH

ASSUME TimelineAssumption == Depth \in Nat \ {0}

NewTimeline(original) == [states |-> <<original>>, at |-> 1, version |-> 0]

Shown(t)   == t.states[t.at]
CanUndo(t) == t.at > 1
CanRedo(t) == t.at < Len(t.states)

\* The newest Depth states.
Latest(s) == SubSeq(s, IF Len(s) > Depth THEN Len(s) - Depth + 1 ELSE 1, Len(s))

\* A knob change right after another one, with nothing to redo, joins it: no
\* new state, no new version.
Joins(t, s, soon) ==
    /\ s.kind = "Adjust" /\ Shown(t).kind = "Adjust"
    /\ soon /\ ~CanRedo(t)

\* current_mut: the shown state is filled in.
Amended(t, s) == [t EXCEPT !.states[t.at] = s]

\* push: what could be redone goes.
Pushed(t, s, soon) ==
    IF Joins(t, s, soon) THEN Amended(t, s)
    ELSE LET states == Latest(Append(SubSeq(t.states, 1, t.at), s))
         IN  [states |-> states, at |-> Len(states), version |-> t.version + 1]

Undone(t) == [t EXCEPT !.at = @ - 1, !.version = @ + 1]
Redone(t) == [t EXCEPT !.at = @ + 1, !.version = @ + 1]
=============================================================================
