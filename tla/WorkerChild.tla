---------------------------- MODULE WorkerChild ----------------------------
(***************************************************************************)
(* The `prunr --worker` process (worker_process.rs): a command loop that   *)
(* reads stdin, a pool of threads that run background-removal jobs behind  *)
(* the weighted semaphore, one thread per inpaint stroke, and a channel of *)
(* events.  `in_flight` counts jobs for Shutdown; `cancelled_items` and    *)
(* `cancel_flags` carry cancels from the loop to the jobs.                 *)
(*                                                                         *)
(* Its parent sends each job once, cancels background-removal jobs it has  *)
(* sent (it cancels inpaint by killing the child), and ends with Shutdown  *)
(* or by closing stdin.  RePostProcess and AddEdgeInference do the same    *)
(* with flags, semaphore and events: both are "cached" jobs.  A panic in a *)
(* pool job ends the process, which is SegBridge's ChildCrash.             *)
(***************************************************************************)
EXTENDS Integers, Sequences, FiniteSets, Functions, Queues

CONSTANTS
    Jobs,
    Weight,     \* per job, the units it asks the semaphore for
    KindsOf,    \* the assignments of kinds to jobs to try
    Cancels,    \* jobs the parent may cancel
    PoolSize,   \* pool_size
    TotalUnits  \* of the semaphore: 64

Kinds == {"whole", "cached", "inpaint"}

ASSUME WorkerAssumption ==
    /\ Weight \in [Jobs -> Nat \ {0}]
    \* an inpaint child is started with inpaint_only and gets nothing else
    /\ KindsOf \subseteq [Jobs -> {"whole", "cached"}] \cup [Jobs -> {"inpaint"}]
    /\ IsFiniteSet(Jobs) /\ Jobs # {} /\ Cancels \subseteq Jobs
    /\ PoolSize \in Nat \ {0} /\ TotalUnits \in Nat \ {0}

VARIABLES
    kind,       \* which command each job is; never changes
    stdin,      \* commands sent and not read
    asked,      \* jobs the parent has sent CancelItem for
    over,       \* the parent has sent its last command
    reader,     \* the command loop: "loop", "flip" inside CancelItem, "draining", "closing", "gone"
    target,     \* the job of the CancelItem being handled
    stage,      \* where each job is
    inFlight,   \* in_flight
    cancelSet,  \* cancelled_items
    flag,       \* cancel_flags: "none", "clear" or "set"
    said,       \* events sent to the writer thread: per job, in order
    finished,   \* Finished has been sent
    units, waiters, want, at   \* the semaphore

Sem == INSTANCE WeightedSemaphore WITH Threads <- Jobs, Weights <- Range(Weight)

parentVars == <<kind, asked, over>>
cancelVars == <<cancelSet, flag>>
outVars    == <<said, finished>>
semVars    == <<units, waiters, want, at>>
vars == <<parentVars, stdin, reader, target, stage, inFlight, cancelVars, outVars, semVars>>

Init ==
    /\ kind \in KindsOf
    /\ stdin = <<>> /\ asked = {} /\ over = FALSE
    /\ reader = "loop" /\ target = CHOOSE j \in Jobs : TRUE
    /\ stage = [j \in Jobs |-> "unsent"]
    /\ inFlight = 0
    /\ cancelSet = {} /\ flag = [j \in Jobs |-> "none"]
    /\ said = [j \in Jobs |-> <<>>] /\ finished = FALSE
    /\ Sem!SemInit

Say(what, j) == said' = [said EXCEPT ![j] = Append(@, what)]
Move(j, s)   == stage' = [stage EXCEPT ![j] = s]

----------------------------------------------------------------------------
(* The parent                                                              *)

ParentOnly == UNCHANGED <<kind, reader, target, inFlight, cancelVars, outVars, semVars>>

Send(j) ==
    /\ ~over /\ stage[j] = "unsent"
    /\ stdin' = Append(stdin, [type |-> "Job", job |-> j])
    /\ Move(j, "sent")
    /\ UNCHANGED <<asked, over>> /\ ParentOnly

SendCancel(j) ==
    /\ ~over /\ stage[j] # "unsent" /\ kind[j] # "inpaint" /\ j \notin asked
    /\ stdin' = Append(stdin, [type |-> "CancelItem", job |-> j])
    /\ asked' = asked \cup {j}
    /\ UNCHANGED <<over, stage>> /\ ParentOnly

SendLast(t) ==
    /\ ~over
    /\ stdin' = Append(stdin, [type |-> t])
    /\ over' = TRUE
    /\ UNCHANGED <<asked, stage>> /\ ParentOnly

----------------------------------------------------------------------------
(* The command loop                                                        *)

NextIs(t) == reader = "loop" /\ stdin # <<>> /\ Head(stdin).type = t /\ stdin' = Tail(stdin)
Command   == Head(stdin).job

\* ProcessImage and Inpaint register a cancel flag before the job can run.
WrongRegistered(j) == flag   \* left to the job
Registered(j) == [flag EXCEPT ![j] = IF kind[j] = "cached" THEN "none" ELSE "clear"]

Dispatch ==
    /\ NextIs("Job")
    /\ flag' = Registered(Command)
    /\ Move(Command, IF kind[Command] = "inpaint" THEN "painting" ELSE "queued")
    /\ inFlight' = inFlight + 1
    /\ UNCHANGED <<parentVars, reader, target, cancelSet, outVars, semVars>>

\* The thread of an inpaint stroke cannot be started: count and flag are
\* taken back and the stroke fails.
WrongTakenBack == inFlight - 1   \* by the Cleanup guard and by hand
TakenBack == inFlight
DispatchFails ==
    /\ NextIs("Job") /\ kind[Command] = "inpaint"
    /\ inFlight' = TakenBack
    /\ Say("Error", Command)
    /\ Move(Command, "gone")
    /\ UNCHANGED <<parentVars, reader, target, cancelVars, finished, semVars>>

\* CancelItem: the job is put on the list, and then its flag, if there is one,
\* is set.
CancelItem ==
    /\ NextIs("CancelItem")
    /\ cancelSet' = cancelSet \cup {Command}
    /\ target' = Command
    /\ reader' = "flip"
    /\ UNCHANGED <<parentVars, stage, inFlight, flag, outVars, semVars>>

FlipCancelFlag ==
    /\ reader = "flip"
    /\ flag' = [flag EXCEPT ![target] = IF @ = "clear" THEN "set" ELSE @]
    /\ reader' = "loop"
    /\ UNCHANGED <<parentVars, stdin, target, stage, inFlight, cancelSet, outVars, semVars>>

Shutdown ==
    /\ NextIs("Shutdown")
    /\ reader' = "draining"
    /\ UNCHANGED <<parentVars, target, stage, inFlight, cancelVars, outVars, semVars>>

\* Shutdown, once in_flight has dropped to zero.
WrongMayFinish == stdin = <<>>   \* does not wait for the jobs
MayFinish == inFlight = 0
Drained ==
    /\ reader = "draining" /\ MayFinish
    /\ finished' = TRUE
    /\ reader' = "closing"
    /\ UNCHANGED <<parentVars, stdin, target, stage, inFlight, cancelVars, said, semVars>>

StdinClosed ==
    /\ NextIs("Closed")
    /\ reader' = "closing"
    /\ UNCHANGED <<parentVars, target, stage, inFlight, cancelVars, outVars, semVars>>

\* Joining the writer thread waits for every job's sender to be dropped.
Exit ==
    /\ reader = "closing"
    /\ \A j \in Jobs : stage[j] \in {"unsent", "sent", "gone"}
    /\ reader' = "gone"
    /\ UNCHANGED <<parentVars, stdin, target, stage, inFlight, cancelVars, outVars, semVars>>

Loop ==
    \/ Dispatch \/ DispatchFails \/ CancelItem \/ FlipCancelFlag
    \/ Shutdown \/ Drained \/ StdinClosed \/ Exit

----------------------------------------------------------------------------
(* A background-removal job on a pool thread                               *)

JobOnly == UNCHANGED <<parentVars, stdin, reader, target, finished>>
OnPool  == {j \in Jobs : stage[j] \in {"started", "working", "reported", "leaving", "dropping"}}

\* is_item_cancelled: a cancel on the list is consumed and the job ends.
WrongAfterCancelRuns == "started"   \* no early return at all
AfterCancel == "leaving"
Begin(j) ==
    /\ stage[j] = "queued" /\ Cardinality(OnPool) < PoolSize
    /\ cancelSet' = cancelSet \ {j}
    /\ \/ j \in cancelSet /\ Say("Cancelled", j) /\ Move(j, AfterCancel)
       \/ j \notin cancelSet /\ Move(j, "started") /\ UNCHANGED said
    /\ UNCHANGED <<inFlight, flag, semVars>> /\ JobOnly

\* A whole image is read before its weight is known; it may not be readable.
Unreadable(j) ==
    /\ stage[j] = "started" /\ kind[j] = "whole"
    /\ Say("Error", j) /\ Move(j, "leaving")
    /\ UNCHANGED <<inFlight, cancelVars, semVars>> /\ JobOnly

\* The permit.  (A wakeup for no reason is a step of the semaphore's own run.)
Acquire(j) ==
    /\ \/ stage[j] = "started" /\ Sem!Arrive(j, Weight[j])
       \/ stage[j] = "working" /\ Sem!Recheck(j)
    /\ Move(j, "working")
    /\ UNCHANGED <<inFlight, cancelVars, said>> /\ JobOnly

\* The work is done and its result written, or not.  A memory report follows
\* where memory_stats() has an answer, except after the early returns.  Cached
\* work whose result cannot be written says nothing.
Work(j) ==
    /\ stage[j] = "working" /\ at[j] = "in"
    /\ \/ Say("Done", j)
       \/ Say("Error", j)
       \/ kind[j] = "cached" /\ UNCHANGED said
    /\ \E s \in {"reported", "leaving"} : Move(j, s)
    /\ UNCHANGED <<inFlight, cancelVars, semVars>> /\ JobOnly

\* A whole image polls its flag between the steps of inference; the error it
\* ends with is CoreError::Cancelled's text, not CANCELLED_ERR_MSG.
Interrupted(j) ==
    /\ stage[j] = "working" /\ at[j] = "in" /\ flag[j] = "set"
    /\ Say("Interrupted", j)
    /\ \E s \in {"reported", "leaving"} : Move(j, s)
    /\ UNCHANGED <<inFlight, cancelVars, semVars>> /\ JobOnly

ReportRss(j) ==
    /\ stage[j] = "reported"
    /\ Say("Rss", j) /\ Move(j, "leaving")
    /\ UNCHANGED <<inFlight, cancelVars, semVars>> /\ JobOnly

\* in_flight.fetch_sub, after the last event.
Leave(j) ==
    /\ stage[j] = "leaving"
    /\ inFlight' = inFlight - 1
    /\ Move(j, "dropping")
    /\ UNCHANGED <<cancelVars, said, semVars>> /\ JobOnly

\* The end of the closure: SemaphoreGuard and CancelMapGuard are dropped.
DropGuards(j) ==
    /\ stage[j] = "dropping"
    /\ \/ at[j] = "in" /\ Sem!Release(j)
       \/ at[j] # "in" /\ UNCHANGED semVars
    /\ flag' = [flag EXCEPT ![j] = "none"]
    /\ Move(j, "gone")
    /\ UNCHANGED <<inFlight, cancelSet, said>> /\ JobOnly

----------------------------------------------------------------------------
(* An inpaint stroke on its own thread                                     *)

\* Cleanup is dropped before the result is encoded and sent.
CleanUp(j) ==
    /\ stage[j] = "painting"
    /\ flag' = [flag EXCEPT ![j] = "none"]
    /\ inFlight' = inFlight - 1
    /\ Move(j, "painted")
    /\ UNCHANGED <<cancelSet, said, semVars>> /\ JobOnly

SendInpaint(j) ==
    /\ stage[j] = "painted"
    /\ Say("Done", j) \/ Say("Error", j)
    /\ Move(j, "gone")
    /\ UNCHANGED <<inFlight, cancelVars, semVars>> /\ JobOnly

JobStep(j) ==
    \/ Begin(j) \/ Unreadable(j) \/ Acquire(j) \/ Work(j) \/ Interrupted(j)
    \/ ReportRss(j) \/ Leave(j) \/ DropGuards(j)
    \/ CleanUp(j) \/ SendInpaint(j)

Parent ==
    \/ \E j \in Jobs : Send(j)
    \/ \E j \in Cancels : SendCancel(j)
    \/ \E t \in {"Shutdown", "Closed"} : SendLast(t)

Next == Parent \/ Loop \/ \E j \in Jobs : JobStep(j)

Spec == Init /\ [][Next]_vars

\* The command loop and the threads keep running.
Fairness == WF_vars(Loop) /\ \A j \in Jobs : WF_vars(JobStep(j))
FairSpec == Spec /\ Fairness
----------------------------------------------------------------------------
(* Properties                                                              *)

Messages == [type : {"Job", "CancelItem"}, job : Jobs] \cup [type : {"Shutdown", "Closed"}]
Events   == {"Done", "Error", "Cancelled", "Interrupted", "Rss"}

TypeOK ==
    /\ kind \in [Jobs -> Kinds]
    /\ stdin \in Seq(Messages) /\ said \in [Jobs -> Seq(Events)]
    /\ finished \in BOOLEAN
    /\ asked \subseteq Jobs /\ cancelSet \subseteq Jobs
    /\ over \in BOOLEAN
    /\ reader \in {"loop", "flip", "draining", "closing", "gone"} /\ target \in Jobs
    /\ stage \in [Jobs -> {"unsent", "sent", "queued", "started", "working", "reported",
                           "leaving", "dropping", "painting", "painted", "gone"}]
    /\ inFlight \in Nat
    /\ flag \in [Jobs -> {"none", "clear", "set"}]
    /\ Sem!SemTypeOK

\* A CancelItem the loop has finished with is seen by its job, wherever the
\* job was when it came: on the list until the job looks there, in its flag
\* afterwards (worker_process.rs:376, "Registered before the closure starts
\* heavy work so a `CancelItem` can flip it").
Handled(j) ==
    /\ j \in asked
    /\ \A n \in DOMAIN stdin : stdin[n] # [type |-> "CancelItem", job |-> j]
    /\ reader = "flip" => target # j
CancelReachesJob ==
    \A j \in Jobs : Handled(j) =>
        /\ stage[j] = "queued" => j \in cancelSet
        /\ stage[j] \in {"started", "working"} /\ kind[j] = "whole" => flag[j] = "set"

\* Finished is the last word: no job of the background-removal child says
\* anything after it (worker_process.rs, Shutdown).
SegFinishedIsLast ==
    [][finished /\ (\E j \in Jobs : kind[j] # "inpaint") => said' = said]_vars

\* The child does what the bridge expects of it.
Unreported == {j \in Jobs : stage[j] \in {"sent", "queued", "started", "working", "painting", "painted"}}
Contract == INSTANCE ChildContract WITH
    given    <- {j \in Jobs : stage[j] # "unsent"},
    cached   <- {j \in Jobs : stage[j] # "unsent" /\ kind[j] = "cached"},
    work     <- Unreported,
    notified <- asked,
    rssDue   <- Cardinality({j \in Jobs : stage[j] = "reported"}),
    said     <- [j \in Jobs |-> [n \in DOMAIN said[j] |->
                    IF said[j][n] = "Interrupted" THEN "Error" ELSE said[j][n]]]
KeepsContract == Contract!Spec

\* Shutdown ends the process, whatever fails or is cancelled on the way.
ShutdownEnds == (reader = "draining") ~> (reader = "gone")

\* Every job the loop has read comes to an end: no pool thread waits at the
\* semaphore for ever.
EveryJobEnds == \A j \in Jobs : (stage[j] = "queued") ~> (stage[j] = "gone")

\* Both.
AllEnds == ShutdownEnds /\ EveryJobEnds
=============================================================================
