----------------------------- MODULE Handshake -----------------------------
(***************************************************************************)
(* The life of one child process: spawn_inner's handshake and the ends a   *)
(* SubprocessManager puts to it (manager.rs), against run_worker's own     *)
(* beginning and end (worker_process.rs).  Between them are two pipes; a   *)
(* thread in the child writes its events, and one in the parent reads them *)
(* to where `inbox` stands.  What the child does with its jobs is module   *)
(* WorkerChild; here they only run, are answered and hang.                 *)
(***************************************************************************)
EXTENDS Integers, Sequences, FiniteSets

CONSTANT Errands   \* the jobs that may be sent

ASSUME HandshakeAssumption ==
    /\ IsFiniteSet(Errands)
    \* a job is none of the other commands, and none of the other events
    /\ Errands \cap {"Init", "Shutdown", "Ready", "InitError", "Finished", "Disconnected"} = {}

VARIABLES
    manager,      \* what the parent is at with the child
    inpaintOnly,  \* inpaint_only
    pipe,         \* commands written to stdin and not read
    child,        \* what the child's main thread is at
    tasks,        \* its jobs, by number
    outbox,       \* events not written yet: evt_rx
    inbox,        \* events written, up to event_rx
    heard         \* jobs whose answer poll_events has returned

handshakeVars == <<manager, inpaintOnly, pipe, child, tasks, outbox, inbox, heard>>

HandshakeInit ==
    /\ manager = "inits" /\ inpaintOnly \in BOOLEAN
    /\ pipe = <<>> /\ child = "init" /\ tasks = [j \in Errands |-> "unsent"]
    /\ outbox = <<>> /\ inbox = <<>> /\ heard = {}

\* The manager is dropped, or its process has ended: both pipes are closed.
Closed    == manager \in {"left", "ended", "abandoned", "dead"}
Listening == manager \in {"waits", "uses", "ending"}
Alive     == child \notin {"exited", "died"}

\* The child has ended, with what its writer had not written; the reader says so.
ChildIs(end) ==
    /\ child' = end /\ outbox' = <<>>
    /\ inbox' = IF Listening THEN Append(inbox, "Disconnected") ELSE inbox
Kill == IF Alive THEN ChildIs("died") ELSE UNCHANGED <<child, outbox, inbox>>

----------------------------------------------------------------------------
(* The parent                                                              *)

ManagerGoes(from, to) ==
    manager = from /\ manager' = to /\ UNCHANGED <<inpaintOnly, tasks, heard>>

\* Init is sent and the reader started.  If either fails, nobody kills the child.
SendInit ==
    \/ /\ Alive /\ ManagerGoes("inits", "waits") /\ pipe' = Append(pipe, "Init")
       /\ UNCHANGED <<child, outbox, inbox>>
    \/ /\ ManagerGoes("inits", "abandoned")
       /\ pipe' \in IF Alive THEN {pipe, Append(pipe, "Init")} ELSE {pipe}
       /\ UNCHANGED <<child, outbox, inbox>>

\* The first event decides, or the timeout of 30 or 300 seconds.
IsReady ==
    /\ inbox # <<>> /\ Head(inbox) = "Ready" /\ ManagerGoes("waits", "uses")
    /\ inbox' = Tail(inbox) /\ UNCHANGED <<pipe, child, outbox>>
IsNot ==
    /\ inbox # <<>> /\ Head(inbox) # "Ready" /\ ManagerGoes("waits", "left")
    /\ Kill /\ UNCHANGED pipe
WrongTimesOut == UNCHANGED <<child, outbox, inbox>>   \* the child is left to itself
TimesOut == Kill
InitTimeout == ManagerGoes("waits", "left") /\ TimesOut /\ UNCHANGED pipe

\* send_cmd, and poll_events until the queue is empty or the child is gone.
GiveJob(j) ==
    /\ manager = "uses" /\ Alive /\ tasks[j] = "unsent"
    /\ pipe' = Append(pipe, j) /\ tasks' = [tasks EXCEPT ![j] = "sent"]
    /\ UNCHANGED <<manager, inpaintOnly, child, outbox, inbox, heard>>
PollEvent ==
    /\ manager = "uses" /\ inbox # <<>>
    /\ inbox' = Tail(inbox)
    /\ heard' = heard \cup ({Head(inbox)} \cap Errands)
    /\ UNCHANGED <<manager, inpaintOnly, pipe, child, tasks, outbox>>

\* shutdown_with_timeout, also on drop; kill.
SendShutdown ==
    /\ ManagerGoes("uses", "ending")
    /\ pipe' = IF Alive THEN Append(pipe, "Shutdown") ELSE pipe
    /\ UNCHANGED <<child, outbox, inbox>>
SeesExit == ~Alive /\ ManagerGoes("ending", "ended") /\ UNCHANGED <<pipe, child, outbox, inbox>>
Deadline == Alive /\ ManagerGoes("ending", "left") /\ Kill /\ UNCHANGED pipe
KillNow  == ManagerGoes("uses", "left") /\ Kill /\ UNCHANGED pipe

\* The parent's process ends at any moment, without a drop.
ParentDies ==
    /\ ~Closed /\ manager' = "dead"
    /\ UNCHANGED <<inpaintOnly, pipe, child, tasks, outbox, inbox, heard>>

----------------------------------------------------------------------------
(* The child                                                               *)

ChildGoes(from, to) ==
    child = from /\ child' = to /\ UNCHANGED <<manager, inpaintOnly, inbox, heard>>
Tell(event) == outbox' = Append(outbox, event)

ReadInit ==
    \/ ChildGoes("init", "probing") /\ pipe # <<>> /\ pipe' = Tail(pipe) /\ UNCHANGED <<tasks, outbox>>
    \/ ChildGoes("init", "closing") /\ pipe = <<>> /\ Closed /\ Tell("InitError") /\ UNCHANGED <<pipe, tasks>>

\* detect_active_provider has been seen to hang.
Probe ==
    /\ ChildGoes("probing", "loading") \/ ChildGoes("probing", "wedged")
    /\ UNCHANGED <<pipe, tasks, outbox>>

\* The engines, which an inpaint child builds with its first job.
Load ==
    \/ ChildGoes("loading", "loop") /\ Tell("Ready") /\ UNCHANGED <<pipe, tasks>>
    \/ ~inpaintOnly /\ ChildGoes("loading", "closing") /\ Tell("InitError") /\ UNCHANGED <<pipe, tasks>>

ReadCommand ==
    \/ /\ pipe # <<>> /\ Head(pipe) \in Errands /\ ChildGoes("loop", "loop")
       /\ pipe' = Tail(pipe) /\ tasks' = [tasks EXCEPT ![Head(pipe)] = "runs"] /\ UNCHANGED outbox
    \/ /\ pipe # <<>> /\ Head(pipe) = "Shutdown" /\ ChildGoes("loop", "draining")
       /\ pipe' = Tail(pipe) /\ UNCHANGED <<tasks, outbox>>
    \/ /\ pipe = <<>> /\ Closed /\ ChildGoes("loop", "closing") /\ UNCHANGED <<pipe, tasks, outbox>>

\* A job is counted in in_flight while it runs and, in a background-removal child,
\* until its answer is sent; a stroke's answer is sent after it is counted out.
Task(j, from, to) ==
    /\ Alive /\ tasks[j] = from /\ tasks' = [tasks EXCEPT ![j] = to]
    /\ UNCHANGED <<manager, inpaintOnly, pipe, child, inbox, heard>>
TaskStep(j) ==
    \/ ~inpaintOnly /\ Task(j, "runs", "answered") /\ Tell(j)
    \/ ~inpaintOnly /\ Task(j, "answered", "over") /\ UNCHANGED outbox
    \/ inpaintOnly /\ Task(j, "runs", "counted out") /\ UNCHANGED outbox
    \/ inpaintOnly /\ Task(j, "counted out", "over") /\ Tell(j)
Hangs(j) == Task(j, "runs", "hangs") /\ UNCHANGED outbox

InFlightTasks == {j \in Errands : tasks[j] \in {"runs", "hangs", "answered"}}
Drains == InFlightTasks = {} /\ ChildGoes("draining", "closing") /\ Tell("Finished") /\ UNCHANGED <<pipe, tasks>>

WriteEvent ==
    /\ Alive /\ outbox # <<>> /\ outbox' = Tail(outbox)
    /\ inbox' = IF Listening THEN Append(inbox, Head(outbox)) ELSE inbox
    /\ UNCHANGED <<manager, inpaintOnly, pipe, child, tasks, heard>>

\* The writer ends when every job has dropped its sender and all is written.
Joined == outbox = <<>> /\ \A j \in Errands : tasks[j] \in {"unsent", "sent", "over"}
ChildExits ==
    /\ child = "closing" /\ Joined /\ ChildIs("exited")
    /\ UNCHANGED <<manager, inpaintOnly, pipe, tasks, heard>>

ChildDies == Alive /\ ChildIs("died") /\ UNCHANGED <<manager, inpaintOnly, pipe, tasks, heard>>

----------------------------------------------------------------------------

Waits       == IsReady \/ IsNot \/ InitTimeout
WaitsForEnd == SeesExit \/ Deadline
Child == ReadInit \/ Probe \/ Load \/ ReadCommand \/ Drains \/ ChildExits

HandshakeNext ==
    \/ SendInit \/ Waits \/ WaitsForEnd \/ PollEvent \/ SendShutdown \/ KillNow \/ ParentDies
    \/ Child \/ WriteEvent \/ ChildDies
    \/ \E j \in Errands : GiveJob(j) \/ TaskStep(j) \/ Hangs(j)

HandshakeFairness ==
    /\ WF_handshakeVars(SendInit) /\ WF_handshakeVars(Waits) /\ WF_handshakeVars(WaitsForEnd)
    /\ WF_handshakeVars(Child) /\ WF_handshakeVars(WriteEvent)
    /\ \A j \in Errands : WF_handshakeVars(TaskStep(j))
HandshakeSpec == HandshakeInit /\ [][HandshakeNext]_handshakeVars /\ HandshakeFairness

----------------------------------------------------------------------------
(* Properties                                                              *)

\* A child that its parent uses has built its engines and reads commands, or is
\* gone (manager.rs:158); and its first event is about its beginning.
ReadyIsTrue ==
    /\ manager = "uses" => child = "loop" \/ ~Alive
    /\ manager = "waits" /\ inbox # <<>> => Head(inbox) \in {"Ready", "InitError", "Disconnected"}

\* A child that ends by Shutdown has answered every job it was sent, and the parent
\* has the answers (worker_process.rs:1072).
ShutdownAnswersAll ==
    manager \in {"ending", "ended"} /\ child = "exited" =>
        \A j \in Errands : tasks[j] # "unsent" =>
            tasks[j] = "over" /\ (j \in heard \/ \E n \in DOMAIN inbox : inbox[n] = j)

\* No job is answered twice, or before it is sent.
AnswersOnce ==
    \A j \in Errands :
        LET places == Cardinality({n \in DOMAIN inbox : inbox[n] = j})
                      + Cardinality({n \in DOMAIN outbox : outbox[n] = j}) + (IF j \in heard THEN 1 ELSE 0)
        IN  places <= IF tasks[j] \in {"answered", "over"} THEN 1 ELSE 0

HandshakeOK == ReadyIsTrue /\ ShutdownAnswersAll /\ AnswersOnce

\* spawn_inner and shutdown_with_timeout come to an end, also with a child that
\* hangs (manager.rs:163, "bounds the bridge's pre-Ready hang").
ParentGetsOn == (manager \in {"inits", "waits", "ending"}) ~> (manager \notin {"inits", "waits", "ending"})

\* No child outlives its parent's interest, except one that hangs after its parent's
\* process ended, or after spawn_inner returned early (manager.rs:124-129, 156).
Stuck     == child = "wedged" \/ \E j \in Errands : tasks[j] = "hangs"
ChildEnds == Closed ~> (~Alive \/ (Stuck /\ manager \in {"abandoned", "dead"}))
=============================================================================
