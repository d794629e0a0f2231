---------------------------- MODULE BatchService ----------------------------
(***************************************************************************)
(* What the bridge promises the GUI about one batch, without the child, the *)
(* queues or the retries: it answers images it was asked for, each one at  *)
(* most once; when it says the batch is complete, every image of the       *)
(* request that the user did not withdraw has been answered; and once the  *)
(* batch is over it says nothing more.                                     *)
(***************************************************************************)
EXTENDS Naturals

CONSTANTS
    Items,
    Request     \* the images of the BatchProcess message

VARIABLES
    asked,      \* images asked for: the request, and what was streamed to it
    withdrawn,  \* images the user has cancelled
    answers,    \* how often each image has been answered
    over        \* BatchComplete or Cancelled has been sent

vars == <<asked, withdrawn, answers, over>>

Init ==
    /\ asked = Request /\ withdrawn = {}
    /\ answers = [i \in Items |-> 0]
    /\ over = FALSE

Unanswered == {i \in asked : answers[i] = 0}

Ask(i) ==
    /\ asked' = asked \cup {i}
    /\ UNCHANGED <<withdrawn, answers, over>>

Withdraw(S) ==
    /\ withdrawn' = withdrawn \cup S
    /\ UNCHANGED <<asked, answers, over>>

\* One step of the bridge may answer several images and end the batch at once.
Tell(S) == answers' = [i \in Items |-> IF i \in S THEN 1 ELSE answers[i]]

Answer(S) ==
    /\ ~over /\ Tell(S)
    /\ UNCHANGED <<asked, withdrawn, over>>

Complete(S) ==
    /\ ~over /\ Tell(S) /\ over' = TRUE
    /\ (Request \ withdrawn) \cap Unanswered \subseteq S
    /\ UNCHANGED <<asked, withdrawn>>

Abort ==
    /\ ~over /\ withdrawn = Items /\ over' = TRUE
    /\ UNCHANGED <<asked, withdrawn, answers>>

Next ==
    \/ \E i \in Items : Ask(i)
    \/ \E S \in SUBSET Items : Withdraw(S)
    \/ \E S \in SUBSET Unanswered : Answer(S) \/ Complete(S)
    \/ Abort

Spec == Init /\ [][Next]_vars
=============================================================================
