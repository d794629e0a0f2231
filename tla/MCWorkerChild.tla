--------------------------- MODULE MCWorkerChild ---------------------------
(***************************************************************************)
(* Instances for TLC of the child and its jobs (WorkerChild), and of its   *)
(* beginning and end (Handshake).  `part` says which; the other stays as   *)
(* it began.                                                               *)
(***************************************************************************)
EXTENDS WorkerChild, Handshake, TLC

CONSTANTS j1, j2, j3

\* Two light jobs and one as heavy as the budget.
Weights3 == (j1 :> 1) @@ (j2 :> 2) @@ (j3 :> 3)

TwoWholeOneCached == {[j \in Jobs |-> IF j = j2 THEN "cached" ELSE "whole"]}
AllInpaint        == {[j \in Jobs |-> "inpaint"]}
SegOrInpaint      == TwoWholeOneCached \cup AllInpaint

----------------------------------------------------------------------------

VARIABLE part

processVars == <<part, vars, handshakeVars>>

ProcessInit ==
    /\ Init /\ HandshakeInit /\ part \in {"jobs", "handshake"}
    /\ part = "jobs" => inpaintOnly
    /\ part = "handshake" => kind = [j \in Jobs |-> "inpaint"]

ProcessNext ==
    /\ UNCHANGED part
    /\ IF part = "jobs" THEN Next /\ UNCHANGED handshakeVars ELSE HandshakeNext /\ UNCHANGED vars

Only(p, A) == part = p /\ A

ProcessFairness ==
    /\ WF_vars(Only("jobs", Loop)) /\ \A j \in Jobs : WF_vars(Only("jobs", JobStep(j)))
    /\ WF_handshakeVars(Only("handshake", SendInit \/ Waits \/ WaitsForEnd))
    /\ WF_handshakeVars(Only("handshake", Child)) /\ WF_handshakeVars(Only("handshake", WriteEvent))
    /\ \A e \in Errands : WF_handshakeVars(Only("handshake", TaskStep(e)))

ProcessSpec == ProcessInit /\ [][ProcessNext]_processVars /\ ProcessFairness

\* The child's state has its type (TypeOK), and parent and child agree on its
\* beginning and its end (HandshakeOK).
ProcessOK == TypeOK /\ HandshakeOK

\* Jobs, Shutdown (AllEnds), the parent's waits and the child itself come to an end
\* (ParentGetsOn, ChildEnds).
EverythingEnds == AllEnds /\ (part = "handshake" => ParentGetsOn /\ ChildEnds)
=============================================================================
