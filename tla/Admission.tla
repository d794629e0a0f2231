----------------------------- MODULE Admission -----------------------------
(***************************************************************************)
(* The admission controller of gui/memory.rs: images wait, dearest first,  *)
(* until their estimated memory fits what the images in flight leave of    *)
(* the budget.  When nothing is in flight and nothing fits, the cheapest   *)
(* one is let in all the same.                                             *)
(*                                                                         *)
(* The state of a controller is a record, so that the GUI's handlers can   *)
(* make several calls in one step; `AdmSpec` is one controller under any     *)
(* sequence of calls.                                                      *)
(***************************************************************************)
EXTENDS Integers, Sequences, Functions, Queues, Tally

CONSTANTS
    Images,
    Cost,      \* estimate_cost: bytes an image needs while it is in flight
    Budget     \* budget_bytes

ASSUME AdmissionAssumption ==
    /\ IsFiniteSet(Images)
    /\ Cost \in [Images -> Nat \ {0}]   \* the pixels of an image take bytes
    /\ Budget \in Nat

VARIABLE ctrl   \* [waiting, held, committed]: pending, admitted, committed_bytes

----------------------------------------------------------------------------
(* The controller                                                          *)

EmptyController == [waiting |-> <<>>, held |-> {}, committed |-> 0]

\* enqueue: `pending` sorted by descending cost; images of equal cost in any
\* order the caller's map gave them.
Ordered(line) == \A m, n \in DOMAIN line : m < n => Cost[line[m]] >= Cost[line[n]]
Lines(S) == {line \in [1 .. Cardinality(S) -> S] : Distinct(line) /\ Ordered(line)}

\* saturating_sub.
Less(m, n) == IF m < n THEN 0 ELSE m - n

Remaining(c) == Less(Budget, c.committed)
Fitting(c)   == {n \in DOMAIN c.waiting : Cost[c.waiting[n]] <= Remaining(c)}
First(S)     == CHOOSE n \in S : \A m \in S : n <= m

\* position(..): the dearest image that fits; else, with nothing in flight, the
\* last one.
WrongForced(c) == Fitting(c) = {} /\ c.waiting # <<>>   \* forced in beside others
Forced(c) == Fitting(c) = {} /\ c.held = {} /\ c.waiting # <<>>
CanAdmit(c)  == Fitting(c) # {} \/ Forced(c)
Chosen(c)    == c.waiting[IF Fitting(c) # {} THEN First(Fitting(c)) ELSE Len(c.waiting)]

\* try_admit_next.
WrongAdmittedStays(c) ==   \* the image is not taken off the line
    [c EXCEPT !.held = @ \cup {Chosen(c)}, !.committed = @ + Cost[Chosen(c)]]
Admitted(c) ==
    [waiting   |-> Without(c.waiting, {Chosen(c)}),
     held      |-> c.held \cup {Chosen(c)},
     committed |-> c.committed + Cost[Chosen(c)]]

Released(c, i) ==
    IF i \in c.held THEN [c EXCEPT !.held = @ \ {i}, !.committed = Less(@, Cost[i])] ELSE c

IsComplete(c) == c.waiting = <<>> /\ c.held = {}

\* `while let Some(id) = ctrl.try_admit_next()`, up to and with the first image of
\* `stop`: in each round one image is let in, if one can be.
AdmitLoop(c, stop) ==
    LET after[n \in 0 .. Len(c.waiting)] ==
            IF n = 0 THEN c
            ELSE IF CanAdmit(after[n-1]) /\ (after[n-1].held \ c.held) \cap stop = {}
                 THEN Admitted(after[n-1]) ELSE after[n-1]
    IN  after[Len(c.waiting)]
AdmitAll(c) == AdmitLoop(c, {})

----------------------------------------------------------------------------
(* One controller under any sequence of calls                              *)

AdmInit == \E S \in SUBSET Images : \E line \in Lines(S) : ctrl = [EmptyController EXCEPT !.waiting = line]

TryAdmitNext == CanAdmit(ctrl) /\ ctrl' = Admitted(ctrl)
Release(i)   == ctrl' = Released(ctrl, i)
AdmNext      == TryAdmitNext \/ \E i \in Images : Release(i)
AdmSpec      == AdmInit /\ [][AdmNext]_ctrl

----------------------------------------------------------------------------
(* What it keeps, whatever the calls                                       *)

\* An image waits once, or is in flight, never both.
Placed(c) ==
    /\ c.waiting \in Seq(Images) /\ Distinct(c.waiting)
    /\ c.held \subseteq Images
    /\ Range(c.waiting) \cap c.held = {}

\* committed_bytes is the sum of what is in flight: no release is forgotten or
\* counted twice, and the saturating subtraction never has to saturate.
Balanced(c) == c.committed = Total(Cost, c.held)

\* The budget is only ever exceeded by one image that is in flight alone
\* (memory.rs:95, "force-admit the smallest to guarantee forward progress").
WithinMeans(c) == c.committed <= Budget \/ \E i \in Images : c.held = {i}

ControllerOK == Placed(ctrl) /\ Balanced(ctrl) /\ WithinMeans(ctrl)
=============================================================================
