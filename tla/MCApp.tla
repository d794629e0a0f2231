------------------------------- MODULE MCApp -------------------------------
(***************************************************************************)
(* The window's own threads on small instances, one per behaviour: batches *)
(* with the memory they are let in by, and the capsule their progress is   *)
(* shown in.  `part` says which; the other stays as it began.              *)
(***************************************************************************)
EXTENDS MCBatchApp, Capsule

\* What SmallInit begins with.
ASSUME WindowAssumption == ThreeImages \subseteq Images /\ MaxRuns > 0

VARIABLE part

appVars == <<part, vars, capsuleVars>>

AppInit ==
    /\ CapsuleInit
    /\ \/ part = "batch" /\ SmallInit /\ selected = CHOOSE c \in Canvases : TRUE
       \/ part = "capsule" /\ Begin(TwoImages, MaxRuns, MaxSteps) /\ gone = {}

AppNext ==
    /\ UNCHANGED part
    /\ IF part = "batch" THEN Next /\ UNCHANGED capsuleVars ELSE CapsuleNext /\ UNCHANGED vars

Only(p, A) == part = p /\ A

AppFairness == WF_vars(Only("batch", Poll)) /\ WF_vars(Only("batch", Serve))

AppSpec == AppInit /\ [][AppNext]_appVars /\ AppFairness

\* Memory is accounted for (AppOK), and the capsule shows the run it should
\* (CapsuleOK).
WindowOK == AppOK /\ CapsuleOK

\* Nothing waits for ever: no image in its run (EveryRunEnds), none in line for
\* memory (QueueServed).
WindowServes == EveryRunEnds /\ QueueServed
=============================================================================
