------------------------------ MODULE CliBatch ------------------------------
(***************************************************************************)
(* The command line's batch (cli.rs run_batch, run_batch_subprocess): it   *)
(* has its own, simpler event loop over a worker child, retries with half  *)
(* the jobs when the child dies, writes the results once the loop is over, *)
(* and tells how it went by its exit code.                                 *)
(***************************************************************************)
EXTENDS Integers, FiniteSets, Sequences, Functions, Queues

CONSTANTS
    NInputs,
    Calls,      \* command lines: [valid, target, existing, force, jobs]
    CliFaults   \* what may fail: "spawn", "image", "result", "write"

Inputs == 1 .. NInputs

ASSUME CliAssumption ==
    /\ NInputs \in Nat
    /\ \A a \in Calls :
           /\ a.valid \subseteq Inputs        \* inputs that can be opened and measured
           /\ DOMAIN a.target = Inputs        \* output_path, by file stem
           /\ a.force \in BOOLEAN /\ a.jobs \in Nat \ {0}

VARIABLES
    call, phase,    \* "spawn", "burst", "loop", "write", "over"
    jobs, line, flight,   \* max_jobs, pending, in_flight
    drained, paused,      \* events polled and not handled; the manager's rss_paused
    outcome,        \* results: "none", "ok", "err"
    child,          \* [up, given, said, owes]
    files,          \* output path -> the input written there, or one of the two below
    told,           \* inputs counted as "success" or "failure"
    lost            \* history: taken off the line by a send that failed

cliVars == <<call, phase, jobs, line, flight, drained, paused, outcome, child, files, told, lost>>

Absent == -1   \* no file
Earlier == 0   \* the file that was there
Dead == [up |-> FALSE, given |-> <<>>, said |-> <<>>, owes |-> 0]

CliInit ==
    /\ call \in Calls
    /\ phase = "spawn" /\ jobs = call.jobs
    /\ line = Without([i \in Inputs |-> i], Inputs \ call.valid)
    /\ flight = <<>> /\ drained = <<>> /\ paused = FALSE
    /\ outcome = [i \in Inputs |-> "none"]
    /\ child = Dead
    /\ files = [p \in Range(call.target) |-> IF p \in call.existing THEN Earlier ELSE Absent]
    /\ told = [i \in Inputs |-> IF i \in call.valid THEN "no" ELSE "failure"]
    /\ lost = {}

----------------------------------------------------------------------------
(* run_batch_subprocess                                                    *)

Failing(s) == [i \in Inputs |-> IF i \in Range(s) THEN "err" ELSE outcome[i]]

\* A child is started for what is left; if none can be, all of it fails.
Spawn ==
    /\ phase = "spawn"
    /\ \/ line = <<>> /\ phase' = "write" /\ UNCHANGED <<child, outcome>>
       \/ line # <<>> /\ phase' = "burst" /\ child' = [Dead EXCEPT !.up = TRUE] /\ UNCHANGED outcome
       \/ line # <<>> /\ "spawn" \in CliFaults /\ phase' = "write" /\ outcome' = Failing(line) /\ UNCHANGED child
    /\ paused' = FALSE
    /\ UNCHANGED <<call, jobs, line, flight, drained, files, told, lost>>

\* A send may fail once the child is dead.
Burst ==
    /\ phase = "burst" /\ phase' = "loop"
    /\ LET full == Lesser(jobs, Len(line))
       IN  \E n \in 0 .. full :
               /\ n < full => ~child.up
               /\ flight' = SubSeq(line, 1, n) /\ line' = SubSeq(line, n + 1, Len(line))
               /\ child' = IF child.up THEN [child EXCEPT !.given = flight'] ELSE child
    /\ UNCHANGED <<call, jobs, drained, paused, outcome, files, told, lost>>

Turns == phase = "loop" /\ drained = <<>>

\* The loop looks at the child before it polls: a dead one's last words are not read.
Poll ==
    /\ Turns /\ child.said # <<>> /\ (child.up \/ flight = <<>>)
    /\ LET reports == {e \in Range(child.said) : e.type = "rss"}
           rss == Without(child.said, Range(child.said) \ reports)
       IN  /\ drained' = Without(child.said, reports)
           /\ paused' = IF rss = <<>> THEN paused ELSE rss[Len(rss)].high
    /\ child' = [child EXCEPT !.said = <<>>]
    /\ UNCHANGED <<call, phase, jobs, line, flight, outcome, files, told, lost>>

\* After an ImageDone: the head of the line is sent, or lost with a failing send.
Admitting(rest) ==
    IF paused \/ line = <<>>
    THEN flight' = rest /\ UNCHANGED <<line, child, lost>>
    ELSE /\ line' = Tail(line)
         /\ \/ flight' = Append(rest, Head(line)) /\ UNCHANGED lost
               /\ child' = IF child.up THEN [child EXCEPT !.given = Append(@, Head(line))] ELSE child
            \/ ~child.up /\ flight' = rest /\ lost' = lost \cup {Head(line)} /\ UNCHANGED child

ImageDone ==
    /\ phase = "loop" /\ drained # <<>> /\ Head(drained).type = "done"
    /\ LET i == Head(drained).input
       IN  /\ Admitting(Without(flight, {i}))
           /\ \E res \in {"ok"} \cup (IF "result" \in CliFaults THEN {"err"} ELSE {}) :
                  outcome' = [outcome EXCEPT ![i] = res]
    /\ drained' = Tail(drained)
    /\ UNCHANGED <<call, phase, jobs, paused, files, told>>

ImageError ==
    /\ phase = "loop" /\ drained # <<>> /\ Head(drained).type = "error"
    /\ flight' = Without(flight, {Head(drained).input})
    /\ outcome' = [outcome EXCEPT ![Head(drained).input] = "err"]
    /\ drained' = Tail(drained)
    /\ UNCHANGED <<call, phase, jobs, line, paused, child, files, told, lost>>

\* The child died: half the jobs, or the end of it.
WrongHalvedJobs == jobs   \* the retry uses as many jobs
HalvedJobs == IF jobs = 1 THEN 1 ELSE jobs \div 2
RequeuedLine == flight \o line
RetryBatch ==
    /\ Turns /\ ~child.up /\ flight # <<>>
    /\ line' = RequeuedLine /\ flight' = <<>> /\ jobs' = HalvedJobs /\ child' = Dead
    /\ \/ jobs > 1 /\ phase' = "spawn" /\ UNCHANGED outcome
       \/ jobs = 1 /\ phase' = "write" /\ outcome' = Failing(line')
    /\ UNCHANGED <<call, drained, paused, files, told, lost>>

LeaveLoop ==
    /\ Turns /\ flight = <<>> /\ line = <<>>
    /\ phase' = "write" /\ child' = Dead
    /\ UNCHANGED <<call, jobs, line, flight, drained, paused, outcome, files, told, lost>>

----------------------------------------------------------------------------
(* run_batch                                                               *)

Untold == {i \in Inputs : told[i] = "no"}
NextOne == CHOOSE i \in Untold : \A j \in Untold : i <= j

\* The results are written in the order of the inputs.
WriteOut ==
    /\ phase = "write" /\ Untold # {}
    /\ LET i == NextOne
           path == call.target[i]
       IN  \/ /\ outcome[i] = "ok" /\ (files[path] = Absent \/ call.force)
              /\ files' = [files EXCEPT ![path] = i] /\ told' = [told EXCEPT ![i] = "success"]
           \/ /\ outcome[i] # "ok" \/ (files[path] # Absent /\ ~call.force) \/ "write" \in CliFaults
              /\ told' = [told EXCEPT ![i] = "failure"] /\ UNCHANGED files
    /\ UNCHANGED <<call, phase, jobs, line, flight, drained, paused, outcome, child, lost>>

Succeeded == {i \in Inputs : told[i] = "success"}
ExitCode == IF Succeeded = Inputs THEN 0 ELSE IF Succeeded = {} THEN 1 ELSE 2

Report ==
    /\ phase = "write" /\ Untold = {} /\ phase' = "over"
    /\ UNCHANGED <<call, jobs, line, flight, drained, paused, outcome, child, files, told, lost>>

----------------------------------------------------------------------------
(* The child: it answers what it was given, reports its memory after each, *)
(* and may die at any time.                                                *)

ChildSays(word, given, owes) ==
    /\ child.up /\ child' = [child EXCEPT !.said = Append(@, word), !.given = given, !.owes = owes]
    /\ UNCHANGED <<call, phase, jobs, line, flight, drained, paused, outcome, files, told, lost>>

ChildAnswers ==
    \E i \in Range(child.given), type \in {"done"} \cup (IF "image" \in CliFaults THEN {"error"} ELSE {}) :
        ChildSays([type |-> type, input |-> i, high |-> FALSE], Without(child.given, {i}),
                  IF type = "done" THEN child.owes + 1 ELSE child.owes)

ChildReportsRss ==
    /\ child.owes > 0
    /\ \E high \in BOOLEAN : ChildSays([type |-> "rss", input |-> 0, high |-> high], child.given, child.owes - 1)

ChildDies ==
    /\ child.up /\ child' = [child EXCEPT !.up = FALSE, !.given = <<>>]
    /\ UNCHANGED <<call, phase, jobs, line, flight, drained, paused, outcome, files, told, lost>>

Cli == Spawn \/ Burst \/ Poll \/ ImageDone \/ ImageError \/ RetryBatch \/ LeaveLoop \/ WriteOut \/ Report
CliNext == Cli \/ ChildAnswers \/ ChildReportsRss \/ ChildDies

----------------------------------------------------------------------------
(* Properties                                                              *)

\* Until the results are written, every input that could be opened waits, is
\* with the child, is answered, or was lost with a failing send: one of them.
CliAccounted ==
    phase \in {"spawn", "burst", "loop"} =>
        \A i \in call.valid :
            Cardinality({n \in DOMAIN line : line[n] = i}) + Cardinality({n \in DOMAIN flight : flight[n] = i})
            + (IF outcome[i] # "none" THEN 1 ELSE 0) + (IF i \in lost THEN 1 ELSE 0) = 1

\* The child and the events not handled yet speak of work in flight, within the jobs.
CliAwaits ==
    /\ Len(flight) <= jobs
    /\ Range(child.given) \cup {drained[n].input : n \in DOMAIN drained} \subseteq Range(flight)

\* The exit code tells the truth (cli.rs, "0 = all success, 1 = all failed, 2 =
\* partial"): after 0 every input's output is there, and its own unless another
\* input has the same output; after 1 nothing was written.
SharesOutput(i) == \E j \in Inputs \ {i} : call.target[i] = call.target[j]
ExitTellsTruth ==
    phase = "over" =>
        /\ ExitCode = 0 => \A i \in Inputs : files[call.target[i]] = i \/ (SharesOutput(i) /\ files[call.target[i]] \in Inputs)
        /\ ExitCode = 1 => \A p \in DOMAIN files : files[p] \in {Absent, Earlier}
        /\ \A i \in Succeeded : outcome[i] = "ok"

CliOK == CliAccounted /\ CliAwaits /\ ExitTellsTruth

\* The batch ends however often the child dies, unless images wait with nothing
\* in flight: then nothing admits them any more.
CliStalled == Turns /\ flight = <<>> /\ line # <<>> /\ child.said = <<>>
CliEnds == phase = "loop" ~> (phase = "over" \/ CliStalled)

CliFairness == WF_cliVars(Cli) /\ WF_cliVars(ChildAnswers)
=============================================================================
