---------------------------- MODULE WorkerProofs ----------------------------
(***************************************************************************)
(* Three theorems about the worker child, for any number of jobs, pool     *)
(* threads and cancels: a cancel the command loop has handled is seen by   *)
(* its job, a background-removal child says nothing after Finished, and    *)
(* the child implements ChildContract.                                     *)
(***************************************************************************)
EXTENDS MCWorkerChild, CollectionTheorems, FiniteSetTheorems

Stages == {"unsent", "sent", "queued", "started", "working", "reported",
           "leaving", "dropping", "painting", "painted", "gone"}

\* The part of TypeOK that is needed here: all but the semaphore and the log.
TypeInv ==
    /\ kind \in KindsOf
    /\ stdin \in Seq(Messages)
    /\ asked \subseteq Jobs
    /\ reader \in {"loop", "flip", "draining", "closing", "gone"} /\ target \in Jobs
    /\ stage \in [Jobs -> Stages]
    /\ flag \in [Jobs -> {"none", "clear", "set"}]
    /\ finished \in BOOLEAN
    /\ \A j \in Jobs : stage[j] \in {"painting", "painted"} => kind[j] = "inpaint"

\* in_flight counts the jobs that were dispatched and have not left.
Counted  == {j \in Jobs : stage[j] \in {"queued", "started", "working", "reported", "leaving", "painting"}}
CountInv == inFlight = Cardinality(Counted)
DrainInv == finished => reader \in {"closing", "gone"} /\ Counted = {}

\* The commands on stdin: a job's own comes once, while it is "sent", and
\* before its cancel, which comes once as well.
JobCommand(j)    == [type |-> "Job", job |-> j]
CancelCommand(j) == [type |-> "CancelItem", job |-> j]
CancelQueued(j)  == \E n \in DOMAIN stdin : stdin[n] = CancelCommand(j)

StdinInv ==
    \A j \in Jobs :
        /\ \A n \in DOMAIN stdin : stdin[n] = JobCommand(j) => stage[j] = "sent"
        /\ stage[j] = "sent" => \E n \in DOMAIN stdin : stdin[n] = JobCommand(j)
        /\ \A n \in DOMAIN stdin : stdin[n] = CancelCommand(j) => j \in asked
        /\ \A m, n \in DOMAIN stdin :
               stdin[m] = stdin[n] /\ stdin[m] \in {JobCommand(j), CancelCommand(j)} => m = n
        /\ \A n \in DOMAIN stdin : stdin[n] = CancelCommand(j) /\ stage[j] = "sent"
               => \E m \in DOMAIN stdin : m < n /\ stdin[m] = JobCommand(j)

\* How far the cancel of a job has come.
AskedInv ==
    \A j \in Jobs :
        /\ j \in asked => stage[j] # "unsent" /\ kind[j] # "inpaint"
        /\ j \in asked /\ stage[j] = "sent" => CancelQueued(j)
        /\ reader = "flip" /\ target = j => j \in asked /\ ~CancelQueued(j)
        /\ j \in asked /\ ~CancelQueued(j) /\ stage[j] = "queued" => j \in cancelSet
        /\ stage[j] \in {"queued", "started", "working"} /\ kind[j] = "whole" => flag[j] \in {"clear", "set"}

WorkerInv == TypeInv /\ CountInv /\ DrainInv /\ StdinInv /\ AskedInv /\ CancelReachesJob
----------------------------------------------------------------------------
(* The commands on stdin                                                   *)

\* Where the elements of the tail of a sequence come from.
LEMMA TailAt ==
    ASSUME NEW T, NEW s \in Seq(T), s # <<>>
    PROVE  /\ Len(s) \in Nat \ {0} /\ DOMAIN s = 1 .. Len(s) /\ Head(s) = s[1]
           /\ DOMAIN Tail(s) = 1 .. Len(s) - 1
           /\ \A n \in DOMAIN Tail(s) : Tail(s)[n] = s[n + 1]
OBVIOUS

\* Where the elements of a sequence that was appended to come from.
LEMMA AppendAt ==
    ASSUME NEW T, NEW s \in Seq(T), NEW e \in T
    PROVE  /\ Len(s) \in Nat /\ DOMAIN s = 1 .. Len(s)
           /\ DOMAIN Append(s, e) = 1 .. Len(s) + 1
           /\ Append(s, e)[Len(s) + 1] = e
           /\ \A n \in DOMAIN s : Append(s, e)[n] = s[n]
OBVIOUS

\* Two commands are equal only if they are the same command of the same job.
LEMMA CommandsDiffer ==
    /\ \A i, j : JobCommand(i) # CancelCommand(j)
    /\ \A i, j : JobCommand(i) = JobCommand(j) => i = j
    /\ \A i, j : CancelCommand(i) = CancelCommand(j) => i = j
<1>1. ASSUME NEW i, NEW j PROVE JobCommand(i) # CancelCommand(j)
  BY DEF JobCommand, CancelCommand
<1>2. ASSUME NEW i, NEW j, JobCommand(i) = JobCommand(j) PROVE i = j
  BY <1>2 DEF JobCommand
<1>3. ASSUME NEW i, NEW j, CancelCommand(i) = CancelCommand(j) PROVE i = j
  BY <1>3 DEF CancelCommand
<1> QED BY <1>1, <1>2, <1>3

\* Taking a command off the front of stdin keeps what is known of the rest, and
\* a cancel that is read finds its job's own command already read.
LEMMA ReadsStdin ==
    ASSUME TypeInv, StdinInv, stdin # <<>>, stdin' = Tail(stdin), asked' = asked,
           \A j \in Jobs : IF Head(stdin) = JobCommand(j) THEN stage'[j] # "sent"
                           ELSE (stage'[j] = "sent") <=> (stage[j] = "sent")
    PROVE  /\ StdinInv'
           /\ \A j \in Jobs : CancelQueued(j)' <=> (CancelQueued(j) /\ Head(stdin) # CancelCommand(j))
           /\ \A j \in Jobs : Head(stdin) = CancelCommand(j) => stage[j] # "sent"
<1>1. /\ Len(stdin) \in Nat \ {0} /\ DOMAIN stdin = 1 .. Len(stdin) /\ Head(stdin) = stdin[1]
      /\ DOMAIN stdin' = 1 .. Len(stdin) - 1
      /\ \A n \in DOMAIN stdin' : stdin'[n] = stdin[n + 1]
  BY TailAt DEF TypeInv
<1>2. \A n \in DOMAIN stdin' : n \in Nat /\ n + 1 \in DOMAIN stdin /\ n + 1 # 1
  BY <1>1
<1>3. \A n \in DOMAIN stdin : n # 1 => n - 1 \in DOMAIN stdin' /\ stdin'[n - 1] = stdin[n]
  BY <1>1
<1>4. ASSUME NEW j \in Jobs
      PROVE  CancelQueued(j)' <=> (CancelQueued(j) /\ Head(stdin) # CancelCommand(j))
  <2>1. ASSUME NEW n \in DOMAIN stdin', stdin'[n] = CancelCommand(j)
        PROVE  CancelQueued(j) /\ Head(stdin) # CancelCommand(j)
    <3>1. n + 1 \in DOMAIN stdin /\ n + 1 # 1 /\ stdin[n + 1] = CancelCommand(j)
      BY <2>1, <1>1, <1>2
    <3>2. 1 \in DOMAIN stdin
      BY <1>1
    <3>3. stdin[1] # CancelCommand(j)
      BY <3>1, <3>2 DEF StdinInv
    <3> QED BY <3>1, <3>3, <1>1 DEF CancelQueued
  <2>2. ASSUME NEW n \in DOMAIN stdin, stdin[n] = CancelCommand(j), Head(stdin) # CancelCommand(j)
        PROVE  \E m \in DOMAIN stdin' : stdin'[m] = CancelCommand(j)
    BY <2>2, <1>1, <1>3
  <2> QED BY <2>1, <2>2 DEF CancelQueued
<1>5. ASSUME NEW j \in Jobs, Head(stdin) = CancelCommand(j) PROVE stage[j] # "sent"
  <2> SUFFICES ASSUME stage[j] = "sent" PROVE FALSE
    OBVIOUS
  <2>1. 1 \in DOMAIN stdin /\ stdin[1] = CancelCommand(j)
    BY <1>5, <1>1
  <2>2. PICK m \in DOMAIN stdin : m < 1
    BY <2>1 DEF StdinInv
  <2> QED BY <2>2, <1>1
<1>6. ASSUME NEW j \in Jobs, NEW n \in DOMAIN stdin', stdin'[n] = JobCommand(j)
      PROVE  stage'[j] = "sent"
  <2>1. n + 1 \in DOMAIN stdin /\ n + 1 # 1 /\ stdin[n + 1] = JobCommand(j) /\ 1 \in DOMAIN stdin
    BY <1>6, <1>1, <1>2
  <2>2. stage[j] = "sent" /\ stdin[1] # JobCommand(j)
    BY <2>1 DEF StdinInv
  <2> QED BY <2>2, <1>1
<1>7. ASSUME NEW j \in Jobs, stage'[j] = "sent"
      PROVE  /\ stage[j] = "sent" /\ Head(stdin) # JobCommand(j)
             /\ \A n \in DOMAIN stdin : stdin[n] = JobCommand(j) => n # 1
  BY <1>7, <1>1
<1>8. ASSUME NEW j \in Jobs, stage'[j] = "sent"
      PROVE  \E n \in DOMAIN stdin' : stdin'[n] = JobCommand(j)
  <2>1. PICK n \in DOMAIN stdin : stdin[n] = JobCommand(j)
    BY <1>8, <1>7 DEF StdinInv
  <2> QED BY <2>1, <1>8, <1>7, <1>3
<1>9. ASSUME NEW j \in Jobs, NEW n \in DOMAIN stdin', stdin'[n] = CancelCommand(j)
      PROVE  j \in asked'
  <2>1. n + 1 \in DOMAIN stdin /\ stdin[n + 1] = CancelCommand(j)
    BY <1>9, <1>1, <1>2
  <2> QED BY <2>1 DEF StdinInv
<1>10. ASSUME NEW j \in Jobs, NEW m \in DOMAIN stdin', NEW n \in DOMAIN stdin',
              stdin'[m] = stdin'[n], stdin'[m] \in {JobCommand(j), CancelCommand(j)}
       PROVE  m = n
  <2>1. m + 1 \in DOMAIN stdin /\ n + 1 \in DOMAIN stdin /\ stdin[m + 1] = stdin[n + 1]
        /\ stdin[m + 1] \in {JobCommand(j), CancelCommand(j)}
    BY <1>10, <1>1, <1>2
  <2>2. m + 1 = n + 1
    BY <2>1 DEF StdinInv
  <2> QED BY <2>2, <1>2
<1>11. ASSUME NEW j \in Jobs, NEW n \in DOMAIN stdin', stdin'[n] = CancelCommand(j), stage'[j] = "sent"
       PROVE  \E m \in DOMAIN stdin' : m < n /\ stdin'[m] = JobCommand(j)
  <2>1. n + 1 \in DOMAIN stdin /\ stdin[n + 1] = CancelCommand(j)
    BY <1>11, <1>1, <1>2
  <2>2. PICK m \in DOMAIN stdin : m < n + 1 /\ stdin[m] = JobCommand(j)
    BY <2>1, <1>11, <1>7 DEF StdinInv
  <2>3. m # 1
    BY <2>2, <1>11, <1>7
  <2>4. m - 1 \in DOMAIN stdin' /\ stdin'[m - 1] = JobCommand(j)
    BY <2>2, <2>3, <1>3
  <2>5. m - 1 < n
    BY <2>2, <1>1, <1>2
  <2> QED BY <2>4, <2>5
<1> HIDE DEF CancelQueued
<1>12. StdinInv'
  BY <1>6, <1>8, <1>9, <1>10, <1>11 DEF StdinInv, JobCommand, CancelCommand
<1> QED BY <1>4, <1>5, <1>12

\* Putting a command at the end of stdin keeps what is known of its commands.
LEMMA WritesStdin ==
    ASSUME TypeInv, StdinInv, NEW e \in Messages, stdin' = Append(stdin, e), asked \subseteq asked',
           \A j \in Jobs : IF e = JobCommand(j) THEN stage[j] = "unsent" /\ stage'[j] = "sent" /\ j \notin asked
                           ELSE stage'[j] = stage[j],
           \A j \in Jobs : e = CancelCommand(j) => j \notin asked /\ j \in asked' /\ stage[j] # "unsent"
    PROVE  /\ StdinInv'
           /\ \A j \in Jobs : CancelQueued(j)' <=> (CancelQueued(j) \/ e = CancelCommand(j))
<1> DEFINE N == Len(stdin) + 1
<1>1. /\ N \in Nat /\ N \notin DOMAIN stdin /\ DOMAIN stdin' = DOMAIN stdin \cup {N}
      /\ \A n \in DOMAIN stdin : n < N
      /\ stdin'[N] = e /\ \A n \in DOMAIN stdin : stdin'[n] = stdin[n]
  <2>1. stdin \in Seq(Messages)
    BY DEF TypeInv
  <2>2. /\ Len(stdin) \in Nat /\ DOMAIN stdin = 1 .. Len(stdin)
        /\ DOMAIN stdin' = 1 .. Len(stdin) + 1 /\ stdin'[Len(stdin) + 1] = e
        /\ \A n \in DOMAIN stdin : stdin'[n] = stdin[n]
    BY <2>1, AppendAt
  <2> QED BY <2>2
<1> HIDE DEF N
<1>2. \A j \in Jobs : CancelQueued(j)' <=> (CancelQueued(j) \/ e = CancelCommand(j))
  BY <1>1 DEF CancelQueued, CancelCommand
<1>3. \A j \in Jobs : stage[j] = "sent" => stage'[j] = "sent"
  OBVIOUS
<1>4. ASSUME NEW j \in Jobs, NEW n \in DOMAIN stdin', stdin'[n] = JobCommand(j)
      PROVE  stage'[j] = "sent"
  <2>1. CASE n = N
    BY <2>1, <1>4, <1>1
  <2>2. CASE n \in DOMAIN stdin
    BY <2>2, <1>4, <1>1, <1>3 DEF StdinInv
  <2> QED BY <2>1, <2>2, <1>1
<1>5. ASSUME NEW j \in Jobs, stage'[j] = "sent"
      PROVE  \E n \in DOMAIN stdin' : stdin'[n] = JobCommand(j)
  <2>1. CASE e = JobCommand(j)
    BY <2>1, <1>1
  <2>2. CASE e # JobCommand(j)
    <3>1. PICK n \in DOMAIN stdin : stdin[n] = JobCommand(j)
      BY <2>2, <1>5 DEF StdinInv
    <3> QED BY <3>1, <1>1
  <2> QED BY <2>1, <2>2
<1>6. ASSUME NEW j \in Jobs, NEW n \in DOMAIN stdin', stdin'[n] = CancelCommand(j)
      PROVE  j \in asked'
  <2>1. CASE n = N
    BY <2>1, <1>6, <1>1
  <2>2. CASE n \in DOMAIN stdin
    BY <2>2, <1>6, <1>1 DEF StdinInv
  <2> QED BY <2>1, <2>2, <1>1
<1>7. \* the new command is not on stdin already
      ASSUME NEW j \in Jobs, e \in {JobCommand(j), CancelCommand(j)}, NEW n \in DOMAIN stdin
      PROVE  stdin[n] # e
  <2>1. CASE e = JobCommand(j)
    BY <2>1, <1>7 DEF StdinInv
  <2>2. CASE e = CancelCommand(j)
    BY <2>2, <1>7 DEF StdinInv
  <2> QED BY <2>1, <2>2, <1>7
<1>8. ASSUME NEW j \in Jobs, NEW m \in DOMAIN stdin', NEW n \in DOMAIN stdin',
             stdin'[m] = stdin'[n], stdin'[m] \in {JobCommand(j), CancelCommand(j)}
      PROVE  m = n
  <2>1. CASE m \in DOMAIN stdin /\ n \in DOMAIN stdin
    BY <2>1, <1>8, <1>1 DEF StdinInv
  <2>2. CASE m = N /\ n \in DOMAIN stdin
    BY <2>2, <1>8, <1>1, <1>7
  <2>3. CASE n = N /\ m \in DOMAIN stdin
    BY <2>3, <1>8, <1>1, <1>7
  <2> QED BY <2>1, <2>2, <2>3, <1>1
<1>9. ASSUME NEW j \in Jobs, NEW n \in DOMAIN stdin', stdin'[n] = CancelCommand(j), stage'[j] = "sent"
      PROVE  \E m \in DOMAIN stdin' : m < n /\ stdin'[m] = JobCommand(j)
  <2>1. CASE n = N
    <3>1. e = CancelCommand(j) /\ e # JobCommand(j)
      BY <2>1, <1>9, <1>1, CommandsDiffer
    <3>2. PICK m \in DOMAIN stdin : stdin[m] = JobCommand(j)
      BY <3>1, <1>9 DEF StdinInv
    <3> QED BY <3>2, <2>1, <1>1
  <2>2. CASE n \in DOMAIN stdin
    <3>1. j \in asked /\ stdin[n] = CancelCommand(j)
      BY <2>2, <1>9, <1>1 DEF StdinInv
    <3>2. stage[j] = "sent"
      BY <3>1, <1>9
    <3>3. PICK m \in DOMAIN stdin : m < n /\ stdin[m] = JobCommand(j)
      BY <3>1, <3>2, <2>2 DEF StdinInv
    <3> QED BY <3>3, <1>1
  <2> QED BY <2>1, <2>2, <1>1
<1> HIDE DEF CancelQueued
<1>10. StdinInv'
  BY <1>4, <1>5, <1>6, <1>8, <1>9 DEF StdinInv, JobCommand, CancelCommand
<1> QED BY <1>2, <1>10

----------------------------------------------------------------------------
(* The jobs in flight                                                      *)

InFlight == {"queued", "started", "working", "reported", "leaving", "painting"}

\* There are finitely many jobs in flight, so Cardinality counts them.
LEMMA CountedFinite == IsFiniteSet(Counted)
BY WorkerAssumption, FS_Subset DEF Counted

\* A job that moves joins or leaves the jobs in flight by its new stage alone.
LEMMA CountedMoves ==
    ASSUME TypeInv, NEW j \in Jobs, NEW s \in Stages, stage' = [stage EXCEPT ![j] = s]
    PROVE  Counted' = IF s \in InFlight THEN Counted \cup {j} ELSE Counted \ {j}
BY DEF Counted, TypeInv, InFlight

\* The counter follows the set: they change together, by one job at a time.
LEMMA CountStep ==
    ASSUME WorkerInv,
           \/ Counted' = Counted /\ inFlight' = inFlight
           \/ \E j \in Counted : Counted' = Counted \ {j} /\ inFlight' = inFlight - 1
           \/ \E j : j \notin Counted /\ Counted' = Counted \cup {j} /\ inFlight' = inFlight + 1
    PROVE  CountInv'
<1>1. IsFiniteSet(Counted) /\ Cardinality(Counted) \in Nat /\ inFlight = Cardinality(Counted)
  BY CountedFinite, FS_CardinalityType DEF WorkerInv, CountInv
<1> DEFINE C == Counted
<1> HIDE DEF C
<1>2. CASE Counted' = Counted /\ inFlight' = inFlight
  BY <1>1, <1>2 DEF CountInv
<1>3. CASE \E j \in Counted : Counted' = Counted \ {j} /\ inFlight' = inFlight - 1
  <2>1. PICK j \in Counted : Counted' = Counted \ {j} /\ inFlight' = inFlight - 1
    BY <1>3
  <2>2. Cardinality(Counted \ {j}) = Cardinality(Counted) - 1
    BY <2>1, <1>1, FS_RemoveElement
  <2> QED BY <1>1, <2>1, <2>2 DEF CountInv
<1>4. CASE \E j : j \notin Counted /\ Counted' = Counted \cup {j} /\ inFlight' = inFlight + 1
  <2>1. PICK j : j \notin Counted /\ Counted' = Counted \cup {j} /\ inFlight' = inFlight + 1
    BY <1>4
  <2>2. Cardinality(Counted \cup {j}) = Cardinality(Counted) + 1
    BY <2>1, <1>1, FS_AddElement
  <2> QED BY <1>1, <2>1, <2>2 DEF CountInv
<1> QED BY <1>2, <1>3, <1>4

----------------------------------------------------------------------------
(* Every step keeps the invariant                                          *)

\* A job that has been dispatched moves on and the invariant holds after it,
\* if the job leaves the flight exactly when it decrements in_flight and
\* starts only after it has looked at the list.
LEMMA JobMoves ==
    ASSUME WorkerInv, NEW j \in Jobs, NEW s \in Stages \ {"unsent", "sent", "queued"},
           stage[j] \notin {"unsent", "sent"}, stage' = [stage EXCEPT ![j] = s],
           UNCHANGED <<kind, stdin, asked, reader, target, finished>>,
           flag' \in [Jobs -> {"none", "clear", "set"}],
           \A i \in Jobs \ {j} : flag'[i] = flag[i] /\ (i \in cancelSet' <=> i \in cancelSet),
           s \in {"painting", "painted"} => kind[j] = "inpaint",
           s \in {"started", "working"} =>
               /\ flag'[j] = flag[j]
               /\ stage[j] \in {"started", "working"} \/ (stage[j] = "queued" /\ j \notin cancelSet),
           \/ stage[j] \in InFlight /\ s \in InFlight /\ inFlight' = inFlight
           \/ stage[j] \in InFlight /\ s \notin InFlight /\ inFlight' = inFlight - 1
           \/ stage[j] \notin InFlight /\ s \notin InFlight /\ inFlight' = inFlight
    PROVE  WorkerInv'
<1>1. /\ stage' \in [Jobs -> Stages] /\ stage'[j] = s
      /\ \A i \in Jobs \ {j} : stage'[i] = stage[i]
  BY DEF WorkerInv, TypeInv
<1>2. TypeInv'
  BY <1>1 DEF WorkerInv, TypeInv
<1>3. Counted' = IF s \in InFlight THEN Counted \cup {j} ELSE Counted \ {j}
  BY CountedMoves DEF WorkerInv
<1>4. j \in Counted <=> stage[j] \in InFlight
  BY DEF Counted, InFlight
<1>5. CountInv'
  BY <1>3, <1>4, CountStep
<1>6. DrainInv'
  BY <1>3, <1>4 DEF WorkerInv, DrainInv
<1>7. StdinInv'
  <2>1. \A i \in Jobs : stage'[i] = "sent" <=> stage[i] = "sent"
    BY <1>1
  <2> QED BY <2>1 DEF WorkerInv, StdinInv, JobCommand, CancelCommand
<1>8. \A i \in Jobs : CancelQueued(i)' <=> CancelQueued(i)
  BY DEF CancelQueued, CancelCommand
<1>9. AskedInv'
  <2> SUFFICES ASSUME NEW i \in Jobs
      PROVE /\ i \in asked' => stage'[i] # "unsent" /\ kind'[i] # "inpaint"
            /\ i \in asked' /\ stage'[i] = "sent" => CancelQueued(i)'
            /\ reader' = "flip" /\ target' = i => i \in asked' /\ ~CancelQueued(i)'
            /\ i \in asked' /\ ~CancelQueued(i)' /\ stage'[i] = "queued" => i \in cancelSet'
            /\ stage'[i] \in {"queued", "started", "working"} /\ kind'[i] = "whole"
                   => flag'[i] \in {"clear", "set"}
    BY Zenon DEF AskedInv
  <2> HIDE DEF CancelQueued
  <2>1. CASE i = j
    BY <2>1, <1>1, <1>8 DEF WorkerInv, AskedInv
  <2>2. CASE i # j
    BY <2>2, <1>1, <1>8 DEF WorkerInv, AskedInv
  <2> QED BY <2>1, <2>2
<1>10. \A i \in Jobs : Handled(i)' <=> Handled(i)
  BY DEF Handled
<1>11. CancelReachesJob'
  <2> SUFFICES ASSUME NEW i \in Jobs, Handled(i)
      PROVE /\ stage'[i] = "queued" => i \in cancelSet'
            /\ stage'[i] \in {"started", "working"} /\ kind'[i] = "whole" => flag'[i] = "set"
    BY <1>10 DEF CancelReachesJob
  <2>1. /\ stage[i] = "queued" => i \in cancelSet
        /\ stage[i] \in {"started", "working"} /\ kind[i] = "whole" => flag[i] = "set"
    BY DEF WorkerInv, CancelReachesJob
  <2>2. CASE i = j
    BY <2>2, <2>1, <1>1
  <2>3. CASE i # j
    BY <2>3, <2>1, <1>1
  <2> QED BY <2>2, <2>3
<1> QED BY <1>2, <1>5, <1>6, <1>7, <1>9, <1>11 DEF WorkerInv

\* The child starts with nothing sent, nothing running and nothing cancelled.
LEMMA InitWorkerInv == Init => WorkerInv
<1> SUFFICES ASSUME Init PROVE WorkerInv
  OBVIOUS
<1>1. \E j \in Jobs : TRUE
  BY WorkerAssumption
<1>2. target \in Jobs
  BY <1>1 DEF Init
<1>3. TypeInv
  <2>1. <<>> \in Seq(Messages)
    BY EmptySeq
  <2> QED BY <1>2, <2>1 DEF Init, TypeInv, Stages
<1>4. Counted = {}
  BY DEF Init, Counted
<1>5. CountInv
  BY <1>4, FS_EmptySet DEF Init, CountInv
<1>6. stdin = <<>> /\ DOMAIN stdin = {} /\ asked = {} /\ \A j \in Jobs : stage[j] = "unsent"
  BY DEF Init
<1>7. StdinInv
  BY <1>6 DEF StdinInv
<1>8. AskedInv /\ CancelReachesJob
  BY <1>6 DEF Init, AskedInv, CancelReachesJob, Handled
<1> QED BY <1>3, <1>4, <1>5, <1>7, <1>8 DEF Init, WorkerInv, DrainInv

\* No step of a job breaks the invariant: each is a case of JobMoves.
LEMMA JobKeepsInv ==
    ASSUME WorkerInv, NEW j \in Jobs, JobStep(j)
    PROVE  WorkerInv'
<1>0. /\ flag \in [Jobs -> {"none", "clear", "set"}] /\ stage \in [Jobs -> Stages]
      /\ \A i \in Jobs : stage[i] = "painting" => kind[i] = "inpaint"
  BY DEF WorkerInv, TypeInv
<1>1. CASE Begin(j)
  BY <1>1, <1>0, JobMoves DEF Begin, Move, AfterCancel, JobOnly, parentVars, Stages, InFlight
<1>2. CASE Unreadable(j)
  BY <1>2, <1>0, JobMoves DEF Unreadable, Move, JobOnly, parentVars, cancelVars, Stages, InFlight
<1>3. CASE Acquire(j)
  BY <1>3, <1>0, JobMoves DEF Acquire, Move, JobOnly, parentVars, cancelVars, Stages, InFlight
<1>4. CASE Work(j)
  BY <1>4, <1>0, JobMoves DEF Work, Move, JobOnly, parentVars, cancelVars, Stages, InFlight
<1>5. CASE Interrupted(j)
  BY <1>5, <1>0, JobMoves DEF Interrupted, Move, JobOnly, parentVars, cancelVars, Stages, InFlight
<1>6. CASE ReportRss(j)
  BY <1>6, <1>0, JobMoves DEF ReportRss, Move, JobOnly, parentVars, cancelVars, Stages, InFlight
<1>7. CASE Leave(j)
  BY <1>7, <1>0, JobMoves DEF Leave, Move, JobOnly, parentVars, cancelVars, Stages, InFlight
<1>8. CASE DropGuards(j)
  BY <1>8, <1>0, JobMoves DEF DropGuards, Move, JobOnly, parentVars, cancelVars, Stages, InFlight
<1>9. CASE CleanUp(j)
  BY <1>9, <1>0, JobMoves DEF CleanUp, Move, JobOnly, parentVars, cancelVars, Stages, InFlight
<1>10. CASE SendInpaint(j)
  BY <1>10, <1>0, JobMoves DEF SendInpaint, Move, JobOnly, parentVars, cancelVars, Stages, InFlight
<1> QED BY <1>1, <1>2, <1>3, <1>4, <1>5, <1>6, <1>7, <1>8, <1>9, <1>10 DEF JobStep

\* Nothing the parent sends breaks the invariant.
LEMMA ParentKeepsInv ==
    ASSUME WorkerInv, Parent
    PROVE  WorkerInv'
<1>1. PICK e \in Messages :
        /\ stdin' = Append(stdin, e) /\ asked \subseteq asked' /\ asked' \subseteq Jobs
        /\ stage' \in [Jobs -> Stages]
        /\ \A j \in Jobs : IF e = JobCommand(j) THEN stage[j] = "unsent" /\ stage'[j] = "sent" /\ j \notin asked
                           ELSE stage'[j] = stage[j]
        /\ \A j \in Jobs : e = CancelCommand(j) => j \notin asked /\ j \in asked' /\ stage[j] # "unsent"
        /\ \A j \in asked' : j \in asked \/ (e = CancelCommand(j) /\ stage[j] # "unsent" /\ kind[j] # "inpaint")
        /\ ParentOnly
  <2>1. ASSUME NEW i \in Jobs, Send(i)
        PROVE  /\ JobCommand(i) \in Messages /\ stdin' = Append(stdin, JobCommand(i))
               /\ stage' \in [Jobs -> Stages] /\ asked' = asked
               /\ stage[i] = "unsent" /\ stage'[i] = "sent" /\ i \notin asked
               /\ \A j \in Jobs : j # i => stage'[j] = stage[j]
               /\ ParentOnly
    BY <2>1 DEF Send, Move, WorkerInv, TypeInv, AskedInv, Stages, Messages, JobCommand
  <2>2. ASSUME NEW i \in Jobs, SendCancel(i)
        PROVE  /\ CancelCommand(i) \in Messages /\ stdin' = Append(stdin, CancelCommand(i))
               /\ stage' = stage /\ asked' = asked \cup {i} /\ i \notin asked
               /\ stage[i] # "unsent" /\ kind[i] # "inpaint"
               /\ ParentOnly
    BY <2>2 DEF SendCancel, Messages, CancelCommand
  <2>3. ASSUME NEW t \in {"Shutdown", "Closed"}, SendLast(t)
        PROVE  /\ [type |-> t] \in Messages /\ stdin' = Append(stdin, [type |-> t])
               /\ stage' = stage /\ asked' = asked /\ ParentOnly
               /\ \A j : [type |-> t] # JobCommand(j) /\ [type |-> t] # CancelCommand(j)
    BY <2>3 DEF SendLast, Messages, JobCommand, CancelCommand
  <2>4. stage \in [Jobs -> Stages] /\ asked \subseteq Jobs
    BY DEF WorkerInv, TypeInv
  <2> HIDE DEF JobCommand, CancelCommand, ParentOnly
  <2>5. CASE \E i \in Jobs : Send(i)
    <3>1. PICK i \in Jobs : Send(i)
      BY <2>5
    <3> QED BY <3>1, <2>1, <2>4, CommandsDiffer
  <2>6. CASE \E i \in Cancels : SendCancel(i)
    <3>1. PICK i \in Jobs : SendCancel(i)
      BY <2>6, WorkerAssumption
    <3> QED BY <3>1, <2>2, <2>4, CommandsDiffer
  <2>7. CASE \E t \in {"Shutdown", "Closed"} : SendLast(t)
    <3>1. PICK t \in {"Shutdown", "Closed"} : SendLast(t)
      BY <2>7
    <3> QED BY <3>1, <2>3, <2>4
  <2> QED BY <2>5, <2>6, <2>7 DEF Parent
<1>2. StdinInv' /\ \A j \in Jobs : CancelQueued(j)' <=> (CancelQueued(j) \/ e = CancelCommand(j))
  <2> HIDE DEF JobCommand, CancelCommand, ParentOnly, Messages
  <2> QED BY <1>1, WritesStdin DEF WorkerInv
<1>3. /\ UNCHANGED <<kind, reader, target, inFlight, cancelSet, flag, finished>>
      /\ \A j \in Jobs : stage'[j] = stage[j] \/ (stage[j] = "unsent" /\ stage'[j] = "sent" /\ j \notin asked')
  <2>1. UNCHANGED <<kind, reader, target, inFlight, cancelSet, flag, finished>>
    BY <1>1 DEF ParentOnly, cancelVars, outVars
  <2> HIDE DEF ParentOnly
  <2> QED BY <2>1, <1>1, CommandsDiffer
<1> HIDE DEF CancelQueued, ParentOnly, JobCommand, CancelCommand
<1>4. TypeInv'
  <2>1. stdin' \in Seq(Messages)
    BY <1>1, AppendProperties DEF WorkerInv, TypeInv
  <2> QED BY <2>1, <1>1, <1>3 DEF WorkerInv, TypeInv
<1>5. Counted' = Counted
  BY <1>3 DEF Counted
<1>6. CountInv' /\ DrainInv'
  BY <1>5, <1>3, CountStep DEF WorkerInv, DrainInv
<1>7. AskedInv'
  <2> SUFFICES ASSUME NEW i \in Jobs
      PROVE /\ i \in asked' => stage'[i] # "unsent" /\ kind'[i] # "inpaint"
            /\ i \in asked' /\ stage'[i] = "sent" => CancelQueued(i)'
            /\ reader' = "flip" /\ target' = i => i \in asked' /\ ~CancelQueued(i)'
            /\ i \in asked' /\ ~CancelQueued(i)' /\ stage'[i] = "queued" => i \in cancelSet'
            /\ stage'[i] \in {"queued", "started", "working"} /\ kind'[i] = "whole"
                   => flag'[i] \in {"clear", "set"}
    BY Zenon DEF AskedInv
  <2>1. /\ i \in asked => stage[i] # "unsent" /\ kind[i] # "inpaint"
        /\ i \in asked /\ stage[i] = "sent" => CancelQueued(i)
        /\ reader = "flip" /\ target = i => i \in asked /\ ~CancelQueued(i)
        /\ i \in asked /\ ~CancelQueued(i) /\ stage[i] = "queued" => i \in cancelSet
        /\ stage[i] \in {"queued", "started", "working"} /\ kind[i] = "whole"
               => flag[i] \in {"clear", "set"}
    BY DEF WorkerInv, AskedInv
  <2>2. i \in asked' => i \in asked \/ (CancelQueued(i)' /\ stage[i] # "unsent" /\ kind[i] # "inpaint")
    BY <1>1, <1>2
  <2>3. e = CancelCommand(i) => i \notin asked
    BY <1>1
  <2> QED BY <2>1, <2>2, <2>3, <1>1, <1>2, <1>3
<1>8. CancelReachesJob'
  <2>1. \A i \in Jobs : Handled(i) <=> (i \in asked /\ ~CancelQueued(i) /\ (reader = "flip" => target # i))
    BY DEF Handled, CancelQueued, CancelCommand
  <2>2. \A i \in Jobs : Handled(i)' <=> (i \in asked' /\ ~CancelQueued(i)' /\ (reader' = "flip" => target' # i))
    BY DEF Handled, CancelQueued, CancelCommand
  <2>3. \A i \in Jobs : Handled(i)' => Handled(i)
    BY <2>1, <2>2, <1>1, <1>2, <1>3
  <2> HIDE DEF Handled
  <2> QED BY <2>3, <1>3 DEF WorkerInv, CancelReachesJob
<1> QED BY <1>2, <1>4, <1>6, <1>7, <1>8 DEF WorkerInv

\* The steps of the command loop that read no job and no cancel keep the
\* invariant: setting the flag is where a handled cancel reaches a running job.
LEMMA IdleLoopKeepsInv ==
    ASSUME WorkerInv, UNCHANGED <<kind, asked, target, stage, inFlight, cancelSet>>,
           UNCHANGED stdin \/ (reader = "loop" /\ stdin # <<>> /\ stdin' = Tail(stdin)
                                  /\ Head(stdin).type \notin {"Job", "CancelItem"}),
           reader' \in {"loop", "draining", "closing", "gone"},
           flag' = IF reader = "flip" THEN [flag EXCEPT ![target] = IF @ = "clear" THEN "set" ELSE @] ELSE flag,
           finished' \in BOOLEAN, finished' => reader' \in {"closing", "gone"} /\ Counted = {}
    PROVE  WorkerInv'
<1>1. StdinInv' /\ \A j \in Jobs : CancelQueued(j)' <=> CancelQueued(j)
  <2>1. CASE UNCHANGED stdin
    BY <2>1 DEF WorkerInv, StdinInv, CancelQueued, JobCommand, CancelCommand
  <2>2. CASE reader = "loop" /\ stdin # <<>> /\ stdin' = Tail(stdin)
                 /\ Head(stdin).type \notin {"Job", "CancelItem"}
    <3>1. \A j \in Jobs : Head(stdin) # JobCommand(j) /\ Head(stdin) # CancelCommand(j)
      BY <2>2 DEF JobCommand, CancelCommand
    <3> HIDE DEF JobCommand, CancelCommand, CancelQueued
    <3> QED BY <2>2, <3>1, ReadsStdin DEF WorkerInv
  <2> QED BY <2>1, <2>2
<1>2. stdin' \in Seq(Messages)
  BY HeadTailProperties DEF WorkerInv, TypeInv
<1>3. flag' \in [Jobs -> {"none", "clear", "set"}] /\ \A j \in Jobs : flag[j] \in {"clear", "set"} => flag'[j] \in {"clear", "set"}
  BY DEF WorkerInv, TypeInv
<1>4. TypeInv'
  <2>1. kind' \in KindsOf /\ asked' \subseteq Jobs /\ target' \in Jobs /\ stage' \in [Jobs -> Stages]
        /\ \A j \in Jobs : stage'[j] \in {"painting", "painted"} => kind'[j] = "inpaint"
    BY DEF WorkerInv, TypeInv
  <2> QED BY <1>2, <1>3, <2>1 DEF TypeInv
<1>5. Counted' = Counted
  BY DEF Counted
<1>6. CountInv' /\ DrainInv'
  BY <1>5, CountStep DEF WorkerInv, DrainInv
<1>7. AskedInv'
  BY <1>1, <1>3 DEF WorkerInv, AskedInv
<1>8. CancelReachesJob'
  <2> SUFFICES ASSUME NEW i \in Jobs, Handled(i)'
      PROVE /\ stage[i] = "queued" => i \in cancelSet
            /\ stage[i] \in {"started", "working"} /\ kind[i] = "whole" => flag'[i] = "set"
    BY DEF CancelReachesJob
  <2>1. i \in asked /\ ~CancelQueued(i)
    BY <1>1 DEF Handled, CancelQueued, CancelCommand
  <2>2. CASE reader = "flip" /\ target = i
    BY <2>1, <2>2 DEF WorkerInv, AskedInv, TypeInv
  <2>3. CASE ~(reader = "flip" /\ target = i)
    <3>1. Handled(i)
      BY <2>1, <2>3 DEF Handled, CancelQueued, CancelCommand
    <3>2. flag'[i] = flag[i]
      BY <2>3 DEF WorkerInv, TypeInv
    <3> QED BY <3>1, <3>2 DEF WorkerInv, CancelReachesJob
  <2> QED BY <2>2, <2>3
<1> QED BY <1>1, <1>4, <1>6, <1>7, <1>8 DEF WorkerInv

\* A job's command is read and the job starts, or fails to: either way its
\* count, its flag and its place on the list agree.
LEMMA JobCommandKeepsInv ==
    ASSUME WorkerInv, Dispatch \/ DispatchFails
    PROVE  WorkerInv'
<1> DEFINE c == Command
           s == stage'[c]
<1>1. /\ c \in Jobs /\ Head(stdin) = JobCommand(c) /\ stdin # <<>> /\ stdin' = Tail(stdin) /\ reader = "loop"
      /\ stage[c] = "sent"
  <2>1. stdin # <<>> /\ stdin \in Seq(Messages) /\ Head(stdin).type = "Job" /\ stdin' = Tail(stdin) /\ reader = "loop"
    BY DEF Dispatch, DispatchFails, NextIs, WorkerInv, TypeInv
  <2>2. Head(stdin) \in Messages
    BY <2>1, HeadTailProperties
  <2>3. c \in Jobs /\ Head(stdin) = JobCommand(c)
    BY <2>1, <2>2 DEF Messages, Command, JobCommand
  <2>4. 1 \in DOMAIN stdin /\ stdin[1] = Head(stdin)
    BY <2>1, TailAt
  <2> QED BY <2>1, <2>3, <2>4 DEF WorkerInv, StdinInv
<1>2. /\ UNCHANGED <<kind, asked, reader, target, cancelSet, finished>>
      /\ stage' = [stage EXCEPT ![c] = s] /\ s \in {"queued", "painting", "gone"}
      /\ s = "painting" => kind[c] = "inpaint"
      /\ s = "queued" => flag'[c] = IF kind[c] = "cached" THEN "none" ELSE "clear"
      /\ flag' \in [Jobs -> {"none", "clear", "set"}] /\ \A i \in Jobs \ {c} : flag'[i] = flag[i]
      /\ IF s = "gone" THEN inFlight' = inFlight ELSE inFlight' = inFlight + 1
  <2>1. stage \in [Jobs -> Stages] /\ flag \in [Jobs -> {"none", "clear", "set"}]
    BY DEF WorkerInv, TypeInv
  <2>2. CASE Dispatch
    BY <2>1, <2>2, <1>1 DEF Dispatch, Registered, Move, parentVars, outVars
  <2>3. CASE DispatchFails
    BY <2>1, <2>3, <1>1 DEF DispatchFails, TakenBack, Move, parentVars, cancelVars
  <2> QED BY <2>2, <2>3
<1> HIDE DEF c, s, CancelQueued
<1>3. stage' \in [Jobs -> Stages] /\ \A i \in Jobs \ {c} : stage'[i] = stage[i]
  BY <1>1, <1>2 DEF WorkerInv, TypeInv, Stages
<1>4. /\ StdinInv'
      /\ \A j \in Jobs : CancelQueued(j)' <=> CancelQueued(j)
  <2>1. \A j \in Jobs : IF Head(stdin) = JobCommand(j) THEN stage'[j] # "sent"
                        ELSE (stage'[j] = "sent") <=> (stage[j] = "sent")
    BY <1>1, <1>2, <1>3, CommandsDiffer
  <2>2. \A j \in Jobs : Head(stdin) # CancelCommand(j)
    BY <1>1, CommandsDiffer
  <2> HIDE DEF JobCommand, CancelCommand
  <2> QED BY <1>1, <1>2, <2>1, <2>2, ReadsStdin DEF WorkerInv
<1>5. TypeInv'
  <2>1. stdin' \in Seq(Messages)
    BY <1>1, HeadTailProperties DEF WorkerInv, TypeInv
  <2> QED BY <1>1, <1>2, <1>3, <2>1 DEF WorkerInv, TypeInv
<1>6. CountInv'
  <2>1. c \notin Counted
    BY <1>1 DEF Counted
  <2>2. Counted' = IF s = "gone" THEN Counted ELSE Counted \cup {c}
    BY <1>1, <1>2, <1>3, <2>1 DEF Counted
  <2> QED BY <2>1, <2>2, <1>2, CountStep
<1>7. DrainInv'
  BY <1>1, <1>2 DEF WorkerInv, DrainInv
<1>8. c \in asked => CancelQueued(c)
  BY <1>1 DEF WorkerInv, AskedInv
<1>9. AskedInv'
  <2> SUFFICES ASSUME NEW i \in Jobs
      PROVE /\ i \in asked' => stage'[i] # "unsent" /\ kind'[i] # "inpaint"
            /\ i \in asked' /\ stage'[i] = "sent" => CancelQueued(i)'
            /\ reader' = "flip" /\ target' = i => i \in asked' /\ ~CancelQueued(i)'
            /\ i \in asked' /\ ~CancelQueued(i)' /\ stage'[i] = "queued" => i \in cancelSet'
            /\ stage'[i] \in {"queued", "started", "working"} /\ kind'[i] = "whole"
                   => flag'[i] \in {"clear", "set"}
    BY Zenon DEF AskedInv
  <2>1. CASE i = c
    BY <2>1, <1>1, <1>2, <1>4, <1>8 DEF WorkerInv, AskedInv
  <2>2. CASE i # c
    BY <2>2, <1>1, <1>2, <1>3, <1>4 DEF WorkerInv, AskedInv
  <2> QED BY <2>1, <2>2
<1>10. CancelReachesJob'
  <2> SUFFICES ASSUME NEW i \in Jobs, Handled(i)'
      PROVE /\ stage'[i] = "queued" => i \in cancelSet'
            /\ stage'[i] \in {"started", "working"} /\ kind'[i] = "whole" => flag'[i] = "set"
    BY DEF CancelReachesJob
  <2>1. i \in asked /\ ~CancelQueued(i)
    BY <1>2, <1>4 DEF Handled, CancelQueued, CancelCommand
  <2>2. i # c
    BY <2>1, <1>8
  <2>3. Handled(i)
    BY <2>1, <1>1 DEF Handled, CancelQueued, CancelCommand
  <2> QED BY <2>2, <2>3, <1>2, <1>3 DEF WorkerInv, CancelReachesJob
<1> QED BY <1>4, <1>5, <1>6, <1>7, <1>9, <1>10 DEF WorkerInv

\* A cancel is read and put on the list, where its job will find it.
LEMMA CancelKeepsInv ==
    ASSUME WorkerInv, CancelItem
    PROVE  WorkerInv'
<1> DEFINE c == Command
<1>1. /\ c \in Jobs /\ Head(stdin) = CancelCommand(c) /\ stdin # <<>> /\ stdin' = Tail(stdin) /\ reader = "loop"
      /\ c \in asked
  <2>1. stdin # <<>> /\ stdin \in Seq(Messages) /\ Head(stdin).type = "CancelItem"
        /\ stdin' = Tail(stdin) /\ reader = "loop"
    BY DEF CancelItem, NextIs, WorkerInv, TypeInv
  <2>2. Head(stdin) \in Messages
    BY <2>1, HeadTailProperties
  <2>3. c \in Jobs /\ Head(stdin) = CancelCommand(c)
    BY <2>1, <2>2 DEF Messages, Command, CancelCommand
  <2>4. 1 \in DOMAIN stdin /\ stdin[1] = Head(stdin)
    BY <2>1, TailAt
  <2> QED BY <2>1, <2>3, <2>4 DEF WorkerInv, StdinInv
<1>2. /\ UNCHANGED <<kind, asked, stage, inFlight, flag, finished>>
      /\ cancelSet' = cancelSet \cup {c} /\ target' = c /\ reader' = "flip"
  BY DEF CancelItem, parentVars, outVars
<1> HIDE DEF c, CancelQueued
<1>3. /\ StdinInv'
      /\ \A j \in Jobs : CancelQueued(j)' <=> (CancelQueued(j) /\ j # c)
      /\ stage[c] # "sent"
  <2>1. \A j \in Jobs : Head(stdin) # JobCommand(j) /\ (Head(stdin) = CancelCommand(j) <=> j = c)
    BY <1>1, CommandsDiffer
  <2> HIDE DEF JobCommand, CancelCommand
  <2> QED BY <1>1, <1>2, <2>1, ReadsStdin DEF WorkerInv
<1>4. TypeInv'
  <2>1. stdin' \in Seq(Messages)
    BY <1>1, HeadTailProperties DEF WorkerInv, TypeInv
  <2> QED BY <1>1, <1>2, <2>1 DEF WorkerInv, TypeInv
<1>5. Counted' = Counted
  BY <1>2 DEF Counted
<1>6. CountInv' /\ DrainInv'
  BY <1>1, <1>2, <1>5, CountStep DEF WorkerInv, DrainInv
<1>7. AskedInv'
  BY <1>1, <1>2, <1>3 DEF WorkerInv, AskedInv
<1>8. CancelReachesJob'
  <2> SUFFICES ASSUME NEW i \in Jobs, Handled(i)'
      PROVE /\ stage'[i] = "queued" => i \in cancelSet'
            /\ stage'[i] \in {"started", "working"} /\ kind'[i] = "whole" => flag'[i] = "set"
    BY DEF CancelReachesJob
  <2>1. i \in asked /\ ~CancelQueued(i)' /\ i # c
    BY <1>2 DEF Handled, CancelQueued, CancelCommand
  <2>2. Handled(i)
    BY <2>1, <1>1, <1>3 DEF Handled, CancelQueued, CancelCommand
  <2> QED BY <2>2, <1>2 DEF WorkerInv, CancelReachesJob
<1> QED BY <1>3, <1>4, <1>6, <1>7, <1>8 DEF WorkerInv

\* No step of the command loop breaks the invariant.
LEMMA LoopKeepsInv ==
    ASSUME WorkerInv, Loop
    PROVE  WorkerInv'
<1>1. CASE FlipCancelFlag
  BY <1>1, IdleLoopKeepsInv DEF FlipCancelFlag, parentVars, outVars, WorkerInv, DrainInv, TypeInv
<1>2. CASE Shutdown
  BY <1>2, IdleLoopKeepsInv DEF Shutdown, NextIs, parentVars, cancelVars, outVars, WorkerInv, DrainInv, TypeInv
<1>3. CASE Drained
  <2>1. IsFiniteSet(Counted) /\ inFlight = Cardinality(Counted)
    BY CountedFinite DEF WorkerInv, CountInv
  <2>2. Counted = {}
    BY <1>3, <2>1, FS_EmptySet DEF Drained, MayFinish
  <2> QED BY <1>3, <2>2, IdleLoopKeepsInv DEF Drained, parentVars, cancelVars
<1>4. CASE StdinClosed
  BY <1>4, IdleLoopKeepsInv DEF StdinClosed, NextIs, parentVars, cancelVars, outVars, WorkerInv, DrainInv, TypeInv
<1>5. CASE Exit
  BY <1>5, IdleLoopKeepsInv DEF Exit, parentVars, cancelVars, outVars, WorkerInv, DrainInv, TypeInv
<1> QED BY <1>1, <1>2, <1>3, <1>4, <1>5, JobCommandKeepsInv, CancelKeepsInv DEF Loop

\* A step that changes nothing keeps the invariant.
LEMMA StutterKeepsInv ==
    ASSUME WorkerInv, UNCHANGED vars
    PROVE  WorkerInv'
BY DEF WorkerInv, vars, parentVars, cancelVars, outVars, TypeInv, CountInv, Counted, DrainInv, StdinInv,
       AskedInv, CancelQueued, JobCommand, CancelCommand, CancelReachesJob, Handled

\* The invariant holds in every state the child and its parent reach.
THEOREM WorkerInvariant == Spec => []WorkerInv
<1>1. WorkerInv /\ [Next]_vars => WorkerInv'
  BY JobKeepsInv, ParentKeepsInv, LoopKeepsInv, StutterKeepsInv DEF Next
<1> QED BY InitWorkerInv, <1>1, PTL DEF Spec

----------------------------------------------------------------------------
(* The theorems                                                            *)

\* A cancel that the command loop has read finds its job: on the list while
\* the job waits for a pool thread, in its flag once it runs.
THEOREM CancelIsSeen == Spec => []CancelReachesJob
<1>1. WorkerInv => CancelReachesJob
  BY DEF WorkerInv
<1> QED BY WorkerInvariant, <1>1, PTL

\* Once in_flight has dropped to zero and Finished is sent, no background-
\* removal job speaks again.
THEOREM FinishedIsLastWord == Spec => SegFinishedIsLast
<1>1. ASSUME WorkerInv, [Next]_vars, finished, \E j \in Jobs : kind[j] # "inpaint"
      PROVE  said' = said
  <2>1. Counted = {} /\ reader \in {"closing", "gone"}
    BY <1>1 DEF WorkerInv, DrainInv
  <2>2. \A j \in Jobs : kind[j] # "inpaint"
    BY <1>1, WorkerAssumption DEF WorkerInv, TypeInv
  <2>3. \A j \in Jobs : stage[j] \notin InFlight \cup {"painted"}
    BY <2>1, <2>2, <1>1 DEF WorkerInv, TypeInv, Counted, InFlight
  <2>4. CASE Parent
    BY <2>4 DEF Parent, Send, SendCancel, SendLast, ParentOnly, outVars
  <2>5. CASE Loop
    BY <2>5, <2>1 DEF Loop, Dispatch, DispatchFails, NextIs, CancelItem, FlipCancelFlag, Shutdown,
                      Drained, StdinClosed, Exit, outVars
  <2>6. ASSUME NEW j \in Jobs, JobStep(j)
        PROVE  said' = said
    BY <2>6, <2>3 DEF JobStep, Begin, Unreadable, Acquire, Work, Interrupted, ReportRss, Leave,
                      DropGuards, CleanUp, SendInpaint, InFlight
  <2>7. CASE UNCHANGED vars
    BY <2>7 DEF vars, outVars
  <2> QED BY <1>1, <2>4, <2>5, <2>6, <2>7 DEF Next
<1>2. WorkerInv /\ [Next]_vars
          => [finished /\ (\E j \in Jobs : kind[j] # "inpaint") => said' = said]_vars
  BY <1>1
<1> QED BY WorkerInvariant, <1>2, PTL DEF Spec, SegFinishedIsLast

----------------------------------------------------------------------------
(* The child implements ChildContract                                      *)

\* What the refinement needs besides WorkerInv.
LogInv == said \in [Jobs -> Seq(Events)] /\ cancelSet \subseteq asked

\* The child's state as ChildContract sees it: the mapping in WorkerChild's
\* Contract, with names.
As(e)       == IF e = "Interrupted" THEN "Error" ELSE e
SaidAs(log) == [n \in DOMAIN log |-> IF log[n] = "Interrupted" THEN "Error" ELSE log[n]]
SaidByAll   == [j \in Jobs |-> SaidAs(said[j])]
Given       == {j \in Jobs : stage[j] # "unsent"}
CachedGiven == {j \in Jobs : stage[j] # "unsent" /\ kind[j] = "cached"}
Reporting   == {j \in Jobs : stage[j] = "reported"}

\* Renaming the events of a log and adding one to it commute.
LEMMA AppendAs ==
    ASSUME NEW log \in Seq(Events), NEW e \in Events
    PROVE  SaidAs(Append(log, e)) = Append(SaidAs(log), As(e))
<1> DEFINE N == Len(log)
<1>1. /\ N \in Nat /\ DOMAIN log = 1 .. N /\ \A n \in 1 .. N : log[n] \in Events
      /\ DOMAIN Append(log, e) = 1 .. N + 1 /\ Append(log, e)[N + 1] = e
      /\ \A n \in 1 .. N : Append(log, e)[n] = log[n]
  BY AppendAt
<1> HIDE DEF N
<1>2. As(e) \in Events /\ \A n \in 1 .. N : As(log[n]) \in Events
  BY <1>1 DEF As, Events
<1>3. SaidAs(log) = [n \in 1 .. N |-> As(log[n])]
  BY <1>1 DEF SaidAs, As
<1>4. SaidAs(Append(log, e)) = [n \in 1 .. N + 1 |-> As(Append(log, e)[n])]
  BY <1>1 DEF SaidAs, As
<1> HIDE DEF As, Events
<1> DEFINE r == [n \in 1 .. N |-> As(log[n])]
<1>5. r \in Seq(Events) /\ Len(r) = N
  <2>1. r \in [1 .. N -> Events]
    BY <1>2
  <2>2. r \in Seq(Events)
    BY <2>1, <1>1, SeqDef
  <2>3. DOMAIN r = 1 .. N /\ DOMAIN r = 1 .. Len(r) /\ Len(r) \in Nat
    BY <2>2, LenProperties
  <2> QED BY <2>2, <2>3, <1>1
<1>7. \A n \in 1 .. N : r[n] = As(log[n])
  OBVIOUS
<1> HIDE DEF r
<1>6. /\ DOMAIN Append(r, As(e)) = 1 .. N + 1 /\ Append(r, As(e))[N + 1] = As(e)
      /\ \A n \in 1 .. N : Append(r, As(e))[n] = r[n]
      /\ Append(r, As(e)) \in Seq(Events)
  <2>1. r \in Seq(Events) /\ As(e) \in Events
    BY <1>2, <1>5
  <2>2. Append(r, As(e)) \in Seq(Events)
    BY <2>1, AppendProperties
  <2>3. /\ Len(r) \in Nat /\ DOMAIN r = 1 .. Len(r)
        /\ DOMAIN Append(r, As(e)) = 1 .. Len(r) + 1
        /\ Append(r, As(e))[Len(r) + 1] = As(e)
        /\ \A n \in DOMAIN r : Append(r, As(e))[n] = r[n]
    BY <2>1, AppendAt
  <2> QED BY <2>2, <2>3, <1>5
<1>8. \A n \in 1 .. N + 1 : n \in 1 .. N \/ n = N + 1
  BY <1>1
<1>9. \A n \in 1 .. N + 1 : Append(r, As(e))[n] = As(Append(log, e)[n])
  BY <1>1, <1>6, <1>7, <1>8
<1>10. Append(r, As(e)) = [n \in 1 .. N + 1 |-> Append(r, As(e))[n]]
  BY <1>6, LenProperties
<1> QED BY <1>3, <1>4, <1>9, <1>10 DEF r

\* What a job says, seen through the mapping.
LEMMA SayMaps ==
    ASSUME LogInv, NEW j \in Jobs, NEW e \in Events, Say(e, j)
    PROVE  SaidByAll' = [SaidByAll EXCEPT ![j] = Append(@, As(e))]
<1>1. \A i \in Jobs : SaidAs(said'[i]) = IF i = j THEN Append(SaidAs(said[j]), As(e)) ELSE SaidAs(said[i])
  <2>1. said' = [said EXCEPT ![j] = Append(said[j], e)] /\ said[j] \in Seq(Events) /\ said \in [Jobs -> Seq(Events)]
    BY DEF LogInv, Say
  <2>2. SaidAs(Append(said[j], e)) = Append(SaidAs(said[j]), As(e))
    BY <2>1, AppendAs
  <2> QED BY <2>1, <2>2
<1> HIDE DEF SaidAs, As
<1> QED BY <1>1 DEF SaidByAll

\* A job that changes stage, seen through the mapping.
LEMMA MoveMaps ==
    ASSUME TypeInv, NEW j \in Jobs, NEW s \in Stages \ {"unsent", "sent"}, stage[j] # "unsent",
           Move(j, s), UNCHANGED kind
    PROVE  LET W == {"queued", "started", "working", "painting", "painted"}
           IN  /\ Given' = Given /\ CachedGiven' = CachedGiven
               /\ Unreported' = IF s \in W THEN Unreported \cup {j} ELSE Unreported \ {j}
               /\ Reporting' = IF s = "reported" THEN Reporting \cup {j} ELSE Reporting \ {j}
BY DEF TypeInv, Move, Given, CachedGiven, Unreported, Reporting, Stages

\* The jobs that will report their memory are counted by a set, like in_flight.
LEMMA ReportingFinite ==
    /\ IsFiniteSet(Reporting) /\ Cardinality(Reporting) \in Nat
    /\ \A j : j \in Reporting => Cardinality(Reporting \ {j}) = Cardinality(Reporting) - 1 /\ Cardinality(Reporting) > 0
    /\ \A j : j \notin Reporting => Cardinality(Reporting \cup {j}) = Cardinality(Reporting) + 1
<1>1. IsFiniteSet(Reporting) /\ Cardinality(Reporting) \in Nat
  BY WorkerAssumption, FS_Subset, FS_CardinalityType DEF Reporting
<1>2. ASSUME NEW j \in Reporting
      PROVE  Cardinality(Reporting \ {j}) = Cardinality(Reporting) - 1 /\ Cardinality(Reporting) > 0
  <2>1. Cardinality(Reporting \ {j}) = Cardinality(Reporting) - 1
    BY <1>1, FS_RemoveElement
  <2>2. Cardinality(Reporting) # 0
    BY <1>1, FS_EmptySet
  <2> QED BY <1>1, <2>1, <2>2
<1>3. ASSUME NEW j, j \notin Reporting PROVE Cardinality(Reporting \cup {j}) = Cardinality(Reporting) + 1
  BY <1>1, <1>3, FS_AddElement
<1> QED BY <1>1, <1>2, <1>3

\* The steps of ChildContract in terms of the mapped state.
Speaks(j, e) == SaidByAll' = [SaidByAll EXCEPT ![j] = Append(@, e)]

LEMMA ContractSteps ==
    ASSUME NEW j \in Jobs
    PROVE  /\ (/\ j \notin Given /\ Given' = Given \cup {j} /\ Unreported' = Unreported \cup {j}
               /\ CachedGiven' \in {CachedGiven, CachedGiven \cup {j}}
               /\ asked' = asked /\ Cardinality(Reporting)' = Cardinality(Reporting) /\ SaidByAll' = SaidByAll)
              => Contract!Give(j)
           /\ (/\ asked' = asked \cup {j} /\ Given' = Given /\ CachedGiven' = CachedGiven
               /\ Unreported' = Unreported
               /\ Cardinality(Reporting)' = Cardinality(Reporting) /\ SaidByAll' = SaidByAll)
              => Contract!Notify(j)
           /\ (/\ j \in Unreported /\ Unreported' = Unreported \ {j}
               /\ \/ Speaks(j, "Done") \/ Speaks(j, "Error")
                  \/ j \in CachedGiven /\ SaidByAll' = SaidByAll
               /\ Cardinality(Reporting)' \in {Cardinality(Reporting), Cardinality(Reporting) + 1}
               /\ Given' = Given /\ CachedGiven' = CachedGiven /\ asked' = asked)
              => Contract!Finish(j)
           /\ (/\ j \in Unreported \cap asked /\ Unreported' = Unreported \ {j} /\ Speaks(j, "Cancelled")
               /\ Cardinality(Reporting)' = Cardinality(Reporting)
               /\ Given' = Given /\ CachedGiven' = CachedGiven /\ asked' = asked)
              => Contract!Cancel(j)
           /\ (/\ Cardinality(Reporting) > 0 /\ Cardinality(Reporting)' = Cardinality(Reporting) - 1
               /\ Speaks(j, "Rss") /\ Unreported' = Unreported
               /\ Given' = Given /\ CachedGiven' = CachedGiven /\ asked' = asked)
              => Contract!Rss(j)
           /\ (/\ Given' = Given /\ CachedGiven' = CachedGiven /\ Unreported' = Unreported /\ asked' = asked
               /\ Cardinality(Reporting)' = Cardinality(Reporting) /\ SaidByAll' = SaidByAll)
              => UNCHANGED Contract!vars
<1> QED BY Zenon DEF Contract!Give, Contract!Notify, Contract!Finish, Contract!Cancel, Contract!Rss, Contract!Say,
       Contract!vars, Given, CachedGiven, Reporting, SaidByAll, SaidAs, Speaks

\* What every step is for ChildContract.
Mapped == Contract!Next \/ UNCHANGED Contract!vars

\* A step of a job that has been dispatched, or of one whose dispatch failed, is
\* a step of ChildContract if what it says fits how it moves.
LEMMA JobMaps ==
    ASSUME TypeInv, LogInv, NEW j \in Jobs, NEW s \in Stages \ {"unsent", "sent"}, stage[j] # "unsent",
           Move(j, s), UNCHANGED <<kind, asked>>,
           \* it works on, in silence ...
           \/ /\ stage[j] \in {"sent", "queued", "started", "working", "painting", "painted"}
              /\ s \in {"queued", "started", "working", "painting", "painted"} /\ UNCHANGED said
           \* ... or it ends, with a word or as cached work without ...
           \/ /\ stage[j] \in {"sent", "queued", "started", "working", "painted"}
              /\ s \in {"reported", "leaving", "gone"}
              /\ \/ Say("Done", j) \/ Say("Error", j) \/ Say("Interrupted", j)
                 \/ kind[j] = "cached" /\ UNCHANGED said
                 \/ Say("Cancelled", j) /\ j \in asked /\ s # "reported"
           \* ... or it reports its memory ...
           \/ stage[j] = "reported" /\ s = "leaving" /\ Say("Rss", j)
           \* ... or it leaves.
           \/ stage[j] \in {"leaving", "dropping"} /\ s \in {"dropping", "gone"} /\ UNCHANGED said
    PROVE  Mapped
<1> DEFINE W == {"queued", "started", "working", "painting", "painted"}
<1>1. /\ Given' = Given /\ CachedGiven' = CachedGiven /\ asked' = asked
      /\ Unreported' = IF s \in W THEN Unreported \cup {j} ELSE Unreported \ {j}
      /\ Reporting' = IF s = "reported" THEN Reporting \cup {j} ELSE Reporting \ {j}
  BY MoveMaps
<1>2. /\ j \in Unreported <=> stage[j] \in W \cup {"sent"}
      /\ j \in Reporting <=> stage[j] = "reported"
      /\ j \in CachedGiven <=> kind[j] = "cached"
  BY DEF Unreported, Reporting, CachedGiven
<1>3. /\ Cardinality(Reporting)' = Cardinality(Reporting')
      /\ UNCHANGED said => SaidByAll' = SaidByAll
  BY DEF SaidByAll
<1>4. /\ Say("Done", j) => Speaks(j, "Done")
      /\ Say("Error", j) \/ Say("Interrupted", j) => Speaks(j, "Error")
      /\ Say("Cancelled", j) => Speaks(j, "Cancelled")
      /\ Say("Rss", j) => Speaks(j, "Rss")
  <2>1. \A e \in Events : Say(e, j) => Speaks(j, As(e))
    BY SayMaps DEF Speaks
  <2>2. Events = {"Done", "Error", "Cancelled", "Interrupted", "Rss"}
    BY DEF Events
  <2>3. As("Done") = "Done" /\ As("Error") = "Error" /\ As("Interrupted") = "Error"
        /\ As("Cancelled") = "Cancelled" /\ As("Rss") = "Rss"
    BY DEF As
  <2> HIDE DEF Say, Speaks, As
  <2> QED BY <2>1, <2>2, <2>3
<1> HIDE DEF W, Unreported, Say, Speaks
<1>5. CASE /\ stage[j] \in {"sent", "queued", "started", "working", "painting", "painted"}
           /\ s \in {"queued", "started", "working", "painting", "painted"} /\ UNCHANGED said
  <2>1. Unreported' = Unreported /\ Reporting' = Reporting
    BY <1>1, <1>2, <1>5 DEF W
  <2> QED BY <1>1, <1>3, <1>5, <2>1, ContractSteps DEF Mapped
<1>6. CASE /\ stage[j] \in {"sent", "queued", "started", "working", "painted"}
           /\ s \in {"reported", "leaving", "gone"}
           /\ \/ Say("Done", j) \/ Say("Error", j) \/ Say("Interrupted", j)
              \/ kind[j] = "cached" /\ UNCHANGED said
              \/ Say("Cancelled", j) /\ j \in asked /\ s # "reported"
  <2>1. /\ j \in Unreported /\ Unreported' = Unreported \ {j}
        /\ j \notin Reporting
        /\ Reporting' = IF s = "reported" THEN Reporting \cup {j} ELSE Reporting
    BY <1>1, <1>2, <1>6 DEF W
  <2>2. /\ Cardinality(Reporting)' \in {Cardinality(Reporting), Cardinality(Reporting) + 1}
        /\ s # "reported" => Cardinality(Reporting)' = Cardinality(Reporting)
    BY <2>1, <1>3, ReportingFinite
  <2>3. CASE Say("Cancelled", j) /\ j \in asked /\ s # "reported"
    <3>1. Contract!Cancel(j)
      BY <1>1, <1>4, <2>1, <2>2, <2>3, ContractSteps
    <3> QED BY <3>1 DEF Mapped, Contract!Next
  <2>4. CASE ~(Say("Cancelled", j) /\ j \in asked /\ s # "reported")
    <3>1. Speaks(j, "Done") \/ Speaks(j, "Error") \/ (j \in CachedGiven /\ SaidByAll' = SaidByAll)
      BY <1>2, <1>3, <1>4, <1>6, <2>4
    <3>2. Contract!Finish(j)
      BY <1>1, <2>1, <2>2, <3>1, ContractSteps
    <3> QED BY <3>2 DEF Mapped, Contract!Next
  <2> QED BY <2>3, <2>4
<1>7. CASE stage[j] = "reported" /\ s = "leaving" /\ Say("Rss", j)
  <2>1. j \in Reporting /\ Reporting' = Reporting \ {j} /\ Unreported' = Unreported
    BY <1>1, <1>2, <1>7 DEF W
  <2>2. Cardinality(Reporting) > 0 /\ Cardinality(Reporting)' = Cardinality(Reporting) - 1
    BY <2>1, <1>3, ReportingFinite
  <2>3. Contract!Rss(j)
    BY <1>1, <1>4, <1>7, <2>1, <2>2, ContractSteps
  <2> QED BY <2>3 DEF Mapped, Contract!Next
<1>8. CASE stage[j] \in {"leaving", "dropping"} /\ s \in {"dropping", "gone"} /\ UNCHANGED said
  <2>1. Unreported' = Unreported /\ Reporting' = Reporting
    BY <1>1, <1>2, <1>8 DEF W
  <2> QED BY <1>1, <1>3, <1>8, <2>1, ContractSteps DEF Mapped
<1> QED BY <1>5, <1>6, <1>7, <1>8

\* What the parent sends is work given or a request to cancel.
LEMMA ParentMaps ==
    ASSUME WorkerInv, Parent
    PROVE  Mapped
<1>1. Reporting' = Reporting => Cardinality(Reporting)' = Cardinality(Reporting)
  OBVIOUS
<1>2. UNCHANGED said => SaidByAll' = SaidByAll
  BY DEF SaidByAll
<1>3. ASSUME NEW j \in Jobs, Send(j) PROVE Contract!Give(j)
  <2>1. stage \in [Jobs -> Stages] /\ stage' = [stage EXCEPT ![j] = "sent"] /\ stage[j] = "unsent"
        /\ UNCHANGED <<kind, asked, said>>
    BY <1>3 DEF WorkerInv, TypeInv, Send, Move, ParentOnly, outVars
  <2>2. /\ j \notin Given /\ Given' = Given \cup {j} /\ Reporting' = Reporting
        /\ Unreported' = Unreported \cup {j}
        /\ CachedGiven' = IF kind[j] = "cached" THEN CachedGiven \cup {j} ELSE CachedGiven
    BY <2>1 DEF Given, CachedGiven, Unreported, Reporting
  <2> HIDE DEF Unreported, Speaks
  <2> QED BY <1>1, <1>2, <2>1, <2>2, ContractSteps
<1>4. ASSUME NEW j \in Jobs, SendCancel(j) PROVE Contract!Notify(j)
  <2>1. asked' = asked \cup {j} /\ UNCHANGED <<kind, stage, said>>
    BY <1>4 DEF SendCancel, ParentOnly, outVars
  <2>2. Given' = Given /\ CachedGiven' = CachedGiven /\ Unreported' = Unreported /\ Reporting' = Reporting
    BY <2>1 DEF Given, CachedGiven, Unreported, Reporting
  <2> HIDE DEF Unreported, Speaks
  <2> QED BY <1>1, <1>2, <2>1, <2>2, ContractSteps
<1>5. ASSUME NEW t \in {"Shutdown", "Closed"}, SendLast(t) PROVE UNCHANGED Contract!vars
  BY <1>5 DEF SendLast, ParentOnly, outVars, Contract!vars, Unreported
<1> QED BY <1>3, <1>4, <1>5, WorkerAssumption DEF Parent, Mapped, Contract!Next

\* A job's steps, one by one, are cases of JobMaps.
LEMMA JobStepMaps ==
    ASSUME WorkerInv, LogInv, NEW j \in Jobs, JobStep(j)
    PROVE  Mapped
<1>0. TypeInv /\ cancelSet \subseteq asked
  BY DEF WorkerInv, LogInv
<1> HIDE DEF WorkerInv, LogInv, TypeInv, Mapped
<1>1. CASE Begin(j)
  BY <1>0, <1>1, JobMaps DEF Begin, AfterCancel, JobOnly, parentVars, Stages
<1>2. CASE Unreadable(j)
  BY <1>0, <1>2, JobMaps DEF Unreadable, JobOnly, parentVars, Stages
<1>3. CASE Acquire(j)
  BY <1>0, <1>3, JobMaps DEF Acquire, JobOnly, parentVars, Stages
<1>4. CASE Work(j)
  BY <1>0, <1>4, JobMaps DEF Work, JobOnly, parentVars, Stages
<1>5. CASE Interrupted(j)
  BY <1>0, <1>5, JobMaps DEF Interrupted, JobOnly, parentVars, Stages
<1>6. CASE ReportRss(j)
  BY <1>0, <1>6, JobMaps DEF ReportRss, JobOnly, parentVars, Stages
<1>7. CASE Leave(j)
  BY <1>0, <1>7, JobMaps DEF Leave, JobOnly, parentVars, Stages
<1>8. CASE DropGuards(j)
  BY <1>0, <1>8, JobMaps DEF DropGuards, JobOnly, parentVars, Stages
<1>9. CASE CleanUp(j)
  BY <1>0, <1>9, JobMaps DEF CleanUp, JobOnly, parentVars, Stages
<1>10. CASE SendInpaint(j)
  BY <1>0, <1>10, JobMaps DEF SendInpaint, JobOnly, parentVars, Stages
<1> QED BY <1>1, <1>2, <1>3, <1>4, <1>5, <1>6, <1>7, <1>8, <1>9, <1>10 DEF JobStep

\* The job of a command that is read is one the parent has sent.
LEMMA CommandIsSent ==
    ASSUME TypeInv, StdinInv
    PROVE  /\ NextIs("Job") => Command \in Jobs /\ stage[Command] = "sent"
           /\ NextIs("CancelItem") => Command \in asked
<1>1. ASSUME stdin # <<>> PROVE Head(stdin) \in Messages /\ 1 \in DOMAIN stdin /\ stdin[1] = Head(stdin)
  BY <1>1, TailAt, HeadTailProperties DEF TypeInv
<1>2. ASSUME NextIs("Job") PROVE Command \in Jobs /\ stage[Command] = "sent"
  <2>1. Command \in Jobs /\ Head(stdin) = JobCommand(Command)
    BY <1>1, <1>2 DEF NextIs, Messages, Command, JobCommand
  <2> QED BY <1>1, <1>2, <2>1 DEF NextIs, StdinInv
<1>3. ASSUME NextIs("CancelItem") PROVE Command \in asked
  <2>1. Command \in Jobs /\ Head(stdin) = CancelCommand(Command)
    BY <1>1, <1>3 DEF NextIs, Messages, Command, CancelCommand
  <2> QED BY <1>1, <1>3, <2>1 DEF NextIs, StdinInv
<1> QED BY <1>2, <1>3

\* The command loop's steps are invisible to the contract, but for a dispatch
\* that fails.
LEMMA LoopMaps ==
    ASSUME WorkerInv, LogInv, Loop
    PROVE  Mapped
<1>0. TypeInv /\ StdinInv
  BY DEF WorkerInv
<1> DEFINE c == Command
<1>1. CASE Dispatch
  <2>1. NextIs("Job") /\ Move(c, IF kind[c] = "inpaint" THEN "painting" ELSE "queued") /\ UNCHANGED <<kind, asked, said>>
    BY <1>1 DEF Dispatch, parentVars, outVars
  <2>2. c \in Jobs /\ stage[c] = "sent"
    BY <1>0, <2>1, CommandIsSent
  <2> HIDE DEF c, TypeInv, LogInv, Mapped, Move
  <2>3. CASE kind[c] = "inpaint"
    BY <1>0, <2>1, <2>2, <2>3, JobMaps DEF Stages
  <2>4. CASE kind[c] # "inpaint"
    BY <1>0, <2>1, <2>2, <2>4, JobMaps DEF Stages
  <2> QED BY <2>3, <2>4
<1>2. CASE DispatchFails
  <2>1. NextIs("Job") /\ Move(c, "gone") /\ Say("Error", c) /\ UNCHANGED <<kind, asked>>
    BY <1>2 DEF DispatchFails, parentVars
  <2>2. c \in Jobs /\ stage[c] = "sent"
    BY <1>0, <2>1, CommandIsSent
  <2> HIDE DEF c, TypeInv, LogInv, Mapped, Move, Say
  <2> QED BY <1>0, <2>1, <2>2, JobMaps DEF Stages
<1>3. CASE CancelItem \/ FlipCancelFlag \/ Shutdown \/ Drained \/ StdinClosed \/ Exit
  <2>1. UNCHANGED <<kind, asked, stage, said>>
    BY <1>3 DEF CancelItem, FlipCancelFlag, Shutdown, Drained, StdinClosed, Exit, parentVars, outVars
  <2> QED BY <2>1 DEF Mapped, Contract!vars, Unreported
<1> QED BY <1>1, <1>2, <1>3 DEF Loop

\* The log grows by events only, and only jobs the parent has named are on the
\* list of cancelled ones.
LEMMA LogInvStep ==
    ASSUME WorkerInv, LogInv, [Next]_vars
    PROVE  LogInv'
<1>1. \/ UNCHANGED said
      \/ \E j \in Jobs, e \in Events : Say(e, j)
  <2>1. CASE Parent \/ UNCHANGED vars
    BY <2>1 DEF Parent, Send, SendCancel, SendLast, ParentOnly, outVars, vars
  <2>2. CASE Loop
    <3>1. NextIs("Job") => Command \in Jobs
      BY CommandIsSent DEF WorkerInv
    <3> HIDE DEF Say, NextIs, Command
    <3> QED BY <2>2, <3>1 DEF Loop, Dispatch, DispatchFails, CancelItem, FlipCancelFlag, Shutdown, Drained,
                              StdinClosed, Exit, outVars, Events
  <2>3. ASSUME NEW j \in Jobs, JobStep(j) PROVE UNCHANGED said \/ \E e \in Events : Say(e, j)
    <3> HIDE DEF Say
    <3> QED BY <2>3 DEF JobStep, Begin, Unreadable, Acquire, Work, Interrupted, ReportRss, Leave,
                        DropGuards, CleanUp, SendInpaint, Events
  <2> HIDE DEF Say
  <2> QED BY <2>1, <2>2, <2>3 DEF Next
<1>2. said' \in [Jobs -> Seq(Events)]
  <2>1. CASE UNCHANGED said
    BY <2>1 DEF LogInv
  <2>2. CASE \E j \in Jobs, e \in Events : Say(e, j)
    <3>1. PICK j \in Jobs, e \in Events : Say(e, j)
      BY <2>2
    <3>2. said[j] \in Seq(Events) /\ Append(said[j], e) \in Seq(Events)
      BY AppendProperties DEF LogInv
    <3> QED BY <3>1, <3>2 DEF Say, LogInv
  <2> QED BY <1>1, <2>1, <2>2
<1>3. cancelSet' \subseteq asked'
  <2>1. CASE Parent \/ UNCHANGED vars
    BY <2>1 DEF LogInv, Parent, Send, SendCancel, SendLast, ParentOnly, cancelVars, parentVars, vars
  <2>2. CASE Loop
    <3>1. NextIs("CancelItem") => Command \in asked
      BY CommandIsSent DEF WorkerInv
    <3> HIDE DEF NextIs, Command
    <3> QED BY <2>2, <3>1 DEF LogInv, Loop, Dispatch, DispatchFails, CancelItem, FlipCancelFlag, Shutdown,
                              Drained, StdinClosed, Exit, cancelVars, parentVars
  <2>3. ASSUME NEW j \in Jobs, JobStep(j) PROVE cancelSet' \subseteq asked'
    BY <2>3 DEF LogInv, JobStep, Begin, Unreadable, Acquire, Work, Interrupted, ReportRss, Leave,
                DropGuards, CleanUp, SendInpaint, JobOnly, cancelVars, parentVars
  <2> QED BY <2>1, <2>2, <2>3 DEF Next
<1> QED BY <1>2, <1>3 DEF LogInv

\* With all its threads, its list, its flags and its semaphore, the child does
\* what the bridge is entitled to expect: each piece of work is reported at
\* most once, as cancelled only if a cancel was sent, silently only if cached.
THEOREM ChildKeepsContract == Spec => KeepsContract
<1>1. Init => LogInv
  <2>1. <<>> \in Seq(Events)
    BY EmptySeq
  <2> QED BY <2>1 DEF Init, LogInv
<1>2. Init => Contract!Init
  <2> SUFFICES ASSUME Init PROVE Contract!Init
    OBVIOUS
  <2>1. Given = {} /\ CachedGiven = {} /\ Unreported = {} /\ Reporting = {} /\ asked = {}
    BY DEF Init, Given, CachedGiven, Unreported, Reporting
  <2>2. Cardinality(Reporting) = 0
    BY <2>1, FS_EmptySet
  <2>3. SaidByAll = [j \in Jobs |-> <<>>]
    <3>1. SaidAs(<<>>) = <<>>
      BY DEF SaidAs
    <3> HIDE DEF SaidAs
    <3>2. \A j \in Jobs : said[j] = <<>>
      BY DEF Init
    <3> QED BY <3>1, <3>2 DEF SaidByAll
  <2> HIDE DEF Unreported
  <2> QED BY Zenon, <2>1, <2>2, <2>3 DEF Contract!Init, Given, CachedGiven, Reporting, SaidByAll, SaidAs
<1>3. WorkerInv /\ LogInv /\ [Next]_vars => LogInv'
  BY LogInvStep
<1>4. WorkerInv /\ LogInv /\ [Next]_vars => [Contract!Next]_(Contract!vars)
  <2> SUFFICES ASSUME WorkerInv, LogInv, [Next]_vars PROVE Mapped
    BY DEF Mapped
  <2>1. CASE UNCHANGED vars
    BY <2>1 DEF Mapped, Contract!vars, vars, parentVars, outVars, Unreported
  <2>2. CASE Next
    BY <2>2, ParentMaps, LoopMaps, JobStepMaps DEF Next
  <2> QED BY <2>1, <2>2
<1> QED BY WorkerInvariant, <1>1, <1>2, <1>3, <1>4, PTL DEF Spec, KeepsContract, Contract!Spec

----------------------------------------------------------------------------
(* The inductive invariant of the handshake                                *)

Notes      == {"Ready", "InitError", "Finished", "Disconnected"}
ChildNews  == Errands \cup Notes
Orders     == Errands \cup {"Init", "Shutdown"}
Beginnings == {"init", "probing", "wedged", "loading"}

\* No job among x, y is the same as the other.
TwoNews   == {p \in ChildNews \X ChildNews : p[1] # p[2] \/ p[1] \notin Errands}
\* Nothing is written after Shutdown, and no job twice.
TwoOrders == {p \in Orders \X Orders : p[1] # "Shutdown" /\ (p[1] # p[2] \/ p[1] \notin Errands)}

ShakeTypes ==
    /\ manager \in {"inits", "waits", "uses", "ending", "left", "ended", "abandoned", "dead"}
    /\ inpaintOnly \in BOOLEAN
    /\ child \in Beginnings \cup {"loop", "draining", "closing", "exited", "died"}
    /\ pipe \in Seq(Orders) /\ outbox \in Seq(ChildNews) /\ inbox \in Seq(ChildNews)
    /\ tasks \in [Errands -> {"unsent", "sent", "runs", "hangs", "answered", "counted out", "over"}]
    /\ heard \subseteq Errands

\* The commands the child has not read: a job is among them while it is sent and
\* not begun, and Shutdown is the last of them.
PipeInv ==
    /\ Rising(pipe, TwoOrders)
    /\ \A j \in Errands : (j \in Range(pipe)) <=> (tasks[j] = "sent")
    /\ "Shutdown" \in Range(pipe) => manager \notin {"inits", "waits", "uses"}
    /\ child = "draining" => pipe = <<>> /\ manager \notin {"inits", "waits", "uses"}
    /\ manager \in {"ending", "ended"} /\ child \in {"closing", "exited"} => pipe = <<>>

\* How far each side may be with the other.
StageInv ==
    /\ child \in Beginnings => \A j \in Errands : tasks[j] = "unsent"
    /\ manager \in {"uses", "ending"} => child \notin Beginnings
    /\ manager = "uses" => child \in {"loop", "died"}
    /\ manager = "ended" => ~Alive
    /\ manager \in {"inits", "waits"} =>
           /\ \A j \in Errands : tasks[j] = "unsent"
           /\ Range(inbox) \cup Range(outbox) \subseteq {"Ready", "InitError", "Disconnected"}
           /\ "Ready" \in Range(inbox) \cup Range(outbox) => child \in {"loop", "died"}

\* Where the answer of a job may be: said and not written, written and not
\* polled, or polled.
AnswerInv ==
    /\ Rising(inbox, TwoNews) /\ Rising(outbox, TwoNews)
    /\ \A j \in Errands :
           /\ j \in Range(inbox) \cup Range(outbox) \cup heard => tasks[j] \in {"answered", "over"}
           /\ j \in Range(inbox) => j \notin Range(outbox)
           /\ j \in heard => j \notin Range(inbox) \cup Range(outbox)
           /\ manager \in {"uses", "ending", "ended"} /\ child # "died" /\ tasks[j] \in {"answered", "over"}
                  => j \in Range(inbox) \cup Range(outbox) \cup heard
    /\ child = "exited" => outbox = <<>> /\ \A j \in Errands : tasks[j] \in {"unsent", "sent", "over"}

ShakeInv == ShakeTypes /\ PipeInv /\ StageInv /\ AnswerInv

----------------------------------------------------------------------------
(* What is written and read                                                *)

\* The names of jobs, notes and orders are apart.
LEMMA NamesApart ==
    /\ Errands \cap Notes = {} /\ "Init" \notin Errands /\ "Shutdown" \notin Errands
    /\ Errands \subseteq ChildNews /\ Notes \subseteq ChildNews
    /\ Errands \subseteq Orders /\ {"Init", "Shutdown"} \subseteq Orders
BY HandshakeAssumption DEF Notes, ChildNews, Orders

\* Nothing has been said or ordered yet.
LEMMA NothingYet ==
    /\ \A T : <<>> \in Seq(T)
    /\ Range(<<>>) = {}
    /\ Rising(<<>>, TwoNews) /\ Rising(<<>>, TwoOrders)
BY EmptySeq DEF Range, Rising

\* One more event.
LEMMA NewsAdded ==
    ASSUME NEW s \in Seq(ChildNews), NEW e \in ChildNews, Rising(s, TwoNews), e \in Errands => e \notin Range(s)
    PROVE  /\ Append(s, e) \in Seq(ChildNews) /\ Range(Append(s, e)) = Range(s) \cup {e}
           /\ Rising(Append(s, e), TwoNews) /\ Append(s, e) # <<>>
<1>1. Append(s, e) \in Seq(ChildNews) /\ Range(Append(s, e)) = Range(s) \cup {e}
  BY AppendItems
<1>2. Range(s) \subseteq ChildNews
  BY RangeOfSeq
<1>3. Range(s) \X {e} \subseteq TwoNews
  BY <1>2 DEF TwoNews
<1> QED BY <1>1, <1>3, AppendRising

\* The first event is taken.
LEMMA NewsTaken ==
    ASSUME NEW s \in Seq(ChildNews), s # <<>>, Rising(s, TwoNews)
    PROVE  /\ Head(s) \in ChildNews /\ Tail(s) \in Seq(ChildNews)
           /\ Range(s) = {Head(s)} \cup Range(Tail(s))
           /\ Rising(Tail(s), TwoNews)
           /\ Head(s) \in Errands => Head(s) \notin Range(Tail(s))
<1>1. /\ Head(s) \in ChildNews /\ Tail(s) \in Seq(ChildNews)
      /\ Range(s) = {Head(s)} \cup Range(Tail(s))
  BY TailItems
<1>2. Rising(Tail(s), TwoNews) /\ {Head(s)} \X Range(Tail(s)) \subseteq TwoNews
  BY TailRising
<1>3. \A e \in Range(Tail(s)) : <<Head(s), e>> \in TwoNews
  BY <1>2
<1>4. Head(s) \in Errands => Head(s) \notin Range(Tail(s))
  BY <1>3 DEF TwoNews
<1> QED BY <1>1, <1>2, <1>4

\* One more command.
LEMMA OrderAdded ==
    ASSUME NEW s \in Seq(Orders), NEW e \in Orders, Rising(s, TwoOrders), "Shutdown" \notin Range(s),
           e \in Errands => e \notin Range(s)
    PROVE  /\ Append(s, e) \in Seq(Orders) /\ Range(Append(s, e)) = Range(s) \cup {e}
           /\ Rising(Append(s, e), TwoOrders) /\ Append(s, e) # <<>>
<1>1. Append(s, e) \in Seq(Orders) /\ Range(Append(s, e)) = Range(s) \cup {e}
  BY AppendItems
<1>2. Range(s) \subseteq Orders
  BY RangeOfSeq
<1>3. Range(s) \X {e} \subseteq TwoOrders
  BY <1>2 DEF TwoOrders
<1> QED BY <1>1, <1>3, AppendRising

\* The first command is taken; after Shutdown there is none.
LEMMA OrderTaken ==
    ASSUME NEW s \in Seq(Orders), s # <<>>, Rising(s, TwoOrders)
    PROVE  /\ Head(s) \in Orders /\ Tail(s) \in Seq(Orders)
           /\ Range(s) = {Head(s)} \cup Range(Tail(s))
           /\ Rising(Tail(s), TwoOrders)
           /\ Head(s) \in Errands => Head(s) \notin Range(Tail(s))
           /\ Head(s) = "Shutdown" => Tail(s) = <<>>
<1>1. /\ Head(s) \in Orders /\ Tail(s) \in Seq(Orders)
      /\ Range(s) = {Head(s)} \cup Range(Tail(s))
  BY TailItems
<1>2. Rising(Tail(s), TwoOrders) /\ {Head(s)} \X Range(Tail(s)) \subseteq TwoOrders
  BY TailRising
<1>3. \A e \in Range(Tail(s)) : <<Head(s), e>> \in TwoOrders
  BY <1>2
<1>4. Head(s) \in Errands => Head(s) \notin Range(Tail(s))
  BY <1>3 DEF TwoOrders
<1>5. ASSUME Head(s) = "Shutdown" PROVE Tail(s) = <<>>
  <2>1. Range(Tail(s)) = {}
    BY <1>3, <1>5 DEF TwoOrders
  <2>2. Tail(s) # <<>> => Head(Tail(s)) \in Range(Tail(s))
    BY <1>1, TailItems
  <2> QED BY <2>1, <2>2
<1> QED BY <1>1, <1>2, <1>4, <1>5

----------------------------------------------------------------------------
(* The steps                                                               *)

\* The child is started, and nothing has been said.
LEMMA ShakeInit == HandshakeInit => ShakeInv
<1> SUFFICES ASSUME HandshakeInit PROVE ShakeInv
  OBVIOUS
<1> USE NothingYet DEF HandshakeInit
<1>1. ShakeTypes
  BY DEF ShakeTypes, Beginnings
<1>2. PipeInv
  BY DEF PipeInv
<1>3. StageInv
  BY DEF StageInv, Alive
<1>4. AnswerInv
  BY DEF AnswerInv
<1> QED BY <1>1, <1>2, <1>3, <1>4 DEF ShakeInv

\* The child ends, by itself or killed.
LEMMA EndKeeps ==
    ASSUME ShakeInv, NEW end \in {"exited", "died"}, ChildIs(end), Alive
    PROVE  /\ child' = end /\ outbox' = <<>> /\ Range(outbox') = {}
           /\ Rising(outbox', TwoNews) /\ outbox' \in Seq(ChildNews)
           /\ inbox' \in Seq(ChildNews) /\ Rising(inbox', TwoNews)
           /\ Range(inbox') \subseteq Range(inbox) \cup {"Disconnected"} /\ Range(inbox) \subseteq Range(inbox')
<1>1. inbox \in Seq(ChildNews) /\ Rising(inbox, TwoNews) /\ "Disconnected" \in ChildNews \ Errands
  BY NamesApart DEF ShakeInv, ShakeTypes, AnswerInv, Notes
<1> QED BY <1>1, NewsAdded, NothingYet DEF ChildIs

\* Killing the child, which may have ended by itself.
LEMMA KillKeeps ==
    ASSUME ShakeInv, Kill, manager' \in {"left"}, UNCHANGED <<inpaintOnly, pipe, tasks, heard>>
    PROVE  ShakeInv'
<1>1. /\ child' \in {"exited", "died"} /\ (child' = "exited" => child = "exited" /\ outbox' = outbox)
      /\ Range(outbox') \subseteq Range(outbox)
      /\ Rising(outbox', TwoNews) /\ outbox' \in Seq(ChildNews)
      /\ inbox' \in Seq(ChildNews) /\ Rising(inbox', TwoNews)
      /\ Range(inbox') \subseteq Range(inbox) \cup {"Disconnected"} /\ Range(inbox) \subseteq Range(inbox')
  <2>1. CASE Alive
    BY <2>1, EndKeeps DEF Kill
  <2>2. CASE ~Alive
    BY <2>2 DEF Kill, Alive, ShakeInv, ShakeTypes, AnswerInv
  <2> QED BY <2>1, <2>2
<1>2. ShakeTypes'
  BY <1>1 DEF ShakeInv, ShakeTypes
<1>3. PipeInv'
  BY <1>1 DEF ShakeInv, PipeInv
<1>4. StageInv'
  BY <1>1 DEF ShakeInv, StageInv, Beginnings
<1>5. AnswerInv'
  BY <1>1, NamesApart DEF ShakeInv, AnswerInv, Notes
<1> QED BY <1>2, <1>3, <1>4, <1>5 DEF ShakeInv

\* What the parent does keeps the invariant.
LEMMA ManagerKeeps ==
    ASSUME ShakeInv, SendInit \/ Waits \/ WaitsForEnd \/ PollEvent \/ SendShutdown \/ KillNow \/ ParentDies
    PROVE  ShakeInv'
<1>1. ASSUME SendInit PROVE ShakeInv'
  <2>1. pipe' \in Seq(Orders) /\ Rising(pipe', TwoOrders) /\ Range(pipe') \ {"Init"} = Range(pipe) \ {"Init"}
    <3>1. /\ pipe \in Seq(Orders) /\ Rising(pipe, TwoOrders) /\ "Init" \in Orders \ Errands
          /\ "Shutdown" \notin Range(pipe)
      BY <1>1, NamesApart DEF SendInit, ManagerGoes, ShakeInv, ShakeTypes, PipeInv
    <3> QED BY <1>1, <3>1, OrderAdded DEF SendInit
  <2>2. manager = "inits" /\ manager' \in {"waits", "abandoned"}
        /\ UNCHANGED <<inpaintOnly, tasks, heard, child, outbox, inbox>>
    BY <1>1 DEF SendInit, ManagerGoes
  <2>10. ShakeTypes'
    BY <2>1, <2>2, NamesApart DEF ShakeInv, ShakeTypes
  <2>11. PipeInv'
    BY <2>1, <2>2, NamesApart DEF ShakeInv, PipeInv
  <2>12. StageInv'
    BY <2>1, <2>2, NamesApart DEF Beginnings, ShakeInv, StageInv, Alive
  <2>13. AnswerInv'
    BY <2>1, <2>2, NamesApart DEF ShakeInv, AnswerInv
  <2> QED BY <2>10, <2>11, <2>12, <2>13 DEF ShakeInv
<1>2. ASSUME IsReady PROVE ShakeInv'
  <2>1. /\ manager = "waits" /\ manager' = "uses" /\ inbox # <<>> /\ Head(inbox) = "Ready" /\ inbox' = Tail(inbox)
        /\ UNCHANGED <<inpaintOnly, tasks, heard, pipe, child, outbox>>
    BY <1>2 DEF IsReady, ManagerGoes
  <2>2. /\ inbox' \in Seq(ChildNews) /\ Range(inbox) = {"Ready"} \cup Range(inbox') /\ Rising(inbox', TwoNews)
    BY <2>1, NewsTaken DEF ShakeInv, ShakeTypes, AnswerInv
  <2>3. child \in {"loop", "died"} /\ "Ready" \notin Errands
    BY <2>1, <2>2, HandshakeAssumption DEF ShakeInv, StageInv
  <2>10. ShakeTypes'
    BY <2>1, <2>2, <2>3 DEF ShakeInv, ShakeTypes
  <2>11. PipeInv'
    BY <2>1, <2>2, <2>3 DEF ShakeInv, PipeInv
  <2>12. StageInv'
    BY <2>1, <2>2, <2>3 DEF Beginnings, ShakeInv, StageInv, Alive
  <2>13. AnswerInv'
    BY <2>1, <2>2, <2>3 DEF ShakeInv, AnswerInv, StageInv
  <2> QED BY <2>10, <2>11, <2>12, <2>13 DEF ShakeInv
<1>3. ASSUME IsNot \/ InitTimeout \/ Deadline \/ KillNow PROVE ShakeInv'
  BY <1>3, KillKeeps DEF IsNot, InitTimeout, TimesOut, Deadline, KillNow, ManagerGoes
<1>4. ASSUME SeesExit PROVE ShakeInv'
  <2>1. /\ ~Alive /\ manager = "ending" /\ manager' = "ended"
        /\ UNCHANGED <<inpaintOnly, tasks, heard, pipe, child, outbox, inbox>>
    BY <1>4 DEF SeesExit, ManagerGoes
  <2>10. ShakeTypes'
    BY <2>1 DEF ShakeInv, ShakeTypes
  <2>11. PipeInv'
    BY <2>1 DEF ShakeInv, PipeInv
  <2>12. StageInv'
    BY <2>1 DEF Beginnings, ShakeInv, StageInv, Alive
  <2>13. AnswerInv'
    BY <2>1 DEF ShakeInv, AnswerInv
  <2> QED BY <2>10, <2>11, <2>12, <2>13 DEF ShakeInv
<1>5. ASSUME PollEvent PROVE ShakeInv'
  <2>1. /\ manager = "uses" /\ inbox # <<>> /\ inbox' = Tail(inbox)
        /\ heard' = heard \cup ({Head(inbox)} \cap Errands)
        /\ UNCHANGED <<manager, inpaintOnly, tasks, pipe, child, outbox>>
    BY <1>5 DEF PollEvent
  <2>2. /\ inbox' \in Seq(ChildNews) /\ Range(inbox) = {Head(inbox)} \cup Range(inbox') /\ Rising(inbox', TwoNews)
        /\ Head(inbox) \in Errands => Head(inbox) \notin Range(inbox')
    BY <2>1, NewsTaken DEF ShakeInv, ShakeTypes, AnswerInv
  <2>10. ShakeTypes'
    BY <2>1, <2>2 DEF ShakeInv, ShakeTypes
  <2>11. PipeInv'
    BY <2>1, <2>2 DEF ShakeInv, PipeInv
  <2>12. StageInv'
    BY <2>1, <2>2 DEF Beginnings, ShakeInv, StageInv, Alive
  <2>13. AnswerInv'
    BY <2>1, <2>2 DEF ShakeInv, AnswerInv
  <2> QED BY <2>10, <2>11, <2>12, <2>13 DEF ShakeInv
<1>6. ASSUME SendShutdown PROVE ShakeInv'
  <2>1. /\ manager = "uses" /\ manager' = "ending"
        /\ UNCHANGED <<inpaintOnly, tasks, heard, child, outbox, inbox>>
    BY <1>6 DEF SendShutdown, ManagerGoes
  <2>2. pipe' \in Seq(Orders) /\ Rising(pipe', TwoOrders) /\ Range(pipe') \ {"Shutdown"} = Range(pipe) \ {"Shutdown"}
    <3>1. /\ pipe \in Seq(Orders) /\ Rising(pipe, TwoOrders) /\ "Shutdown" \in Orders \ Errands
          /\ "Shutdown" \notin Range(pipe)
      BY <2>1, NamesApart DEF ShakeInv, ShakeTypes, PipeInv
    <3> QED BY <1>6, <3>1, OrderAdded DEF SendShutdown
  <2>10. ShakeTypes'
    BY <2>1, <2>2, NamesApart DEF ShakeInv, ShakeTypes
  <2>11. PipeInv'
    BY <2>1, <2>2, NamesApart DEF ShakeInv, PipeInv, StageInv
  <2>12. StageInv'
    BY <2>1, <2>2, NamesApart DEF Beginnings, ShakeInv, StageInv, Alive
  <2>13. AnswerInv'
    BY <2>1, <2>2, NamesApart DEF ShakeInv, AnswerInv
  <2> QED BY <2>10, <2>11, <2>12, <2>13 DEF ShakeInv
<1>7. ASSUME ParentDies PROVE ShakeInv'
  <2>1. /\ manager' = "dead" /\ UNCHANGED <<inpaintOnly, pipe, child, tasks, outbox, inbox, heard>>
    BY <1>7 DEF ParentDies
  <2>10. ShakeTypes'
    BY <2>1 DEF ShakeInv, ShakeTypes
  <2>11. PipeInv'
    BY <2>1 DEF ShakeInv, PipeInv
  <2>12. StageInv'
    BY <2>1 DEF Beginnings, ShakeInv, StageInv, Alive
  <2>13. AnswerInv'
    BY <2>1 DEF ShakeInv, AnswerInv
  <2> QED BY <2>10, <2>11, <2>12, <2>13 DEF ShakeInv
<1> QED BY <1>1, <1>2, <1>3, <1>4, <1>5, <1>6, <1>7 DEF Waits, WaitsForEnd

\* A job that is sent is on its way.
LEMMA GiveKeeps ==
    ASSUME ShakeInv, NEW j \in Errands, GiveJob(j)
    PROVE  ShakeInv'
<1>1. /\ manager = "uses" /\ Alive /\ tasks[j] = "unsent"
      /\ pipe' = Append(pipe, j) /\ tasks' = [tasks EXCEPT ![j] = "sent"]
      /\ UNCHANGED <<manager, inpaintOnly, child, inbox, outbox, heard>>
  BY DEF GiveJob
<1>2. pipe' \in Seq(Orders) /\ Rising(pipe', TwoOrders) /\ Range(pipe') = Range(pipe) \cup {j}
  BY <1>1, OrderAdded, NamesApart DEF ShakeInv, ShakeTypes, PipeInv
<1>3. tasks' \in [Errands -> {"unsent", "sent", "runs", "hangs", "answered", "counted out", "over"}]
      /\ tasks'[j] = "sent" /\ \A i \in Errands \ {j} : tasks'[i] = tasks[i]
  BY <1>1 DEF ShakeInv, ShakeTypes
<1>4. child \in {"loop", "died"} /\ j # "Shutdown"
  BY <1>1, NamesApart DEF ShakeInv, StageInv
<1>5. ShakeTypes'
  BY <1>1, <1>2, <1>3 DEF ShakeInv, ShakeTypes
<1>6. PipeInv'
  BY <1>1, <1>2, <1>3, <1>4 DEF ShakeInv, PipeInv
<1>7. StageInv'
  BY <1>1, <1>3, <1>4 DEF ShakeInv, StageInv, Beginnings, Alive
<1>8. AnswerInv'
  BY <1>1, <1>3, <1>4 DEF ShakeInv, AnswerInv
<1> QED BY <1>5, <1>6, <1>7, <1>8 DEF ShakeInv

----------------------------------------------------------------------------
(* The child                                                               *)

\* What the child's main thread and its writer do keeps the invariant.
LEMMA ChildKeeps ==
    ASSUME ShakeInv, Child \/ WriteEvent \/ ChildDies
    PROVE  ShakeInv'
<1>0. /\ pipe \in Seq(Orders) /\ Rising(pipe, TwoOrders)
      /\ outbox \in Seq(ChildNews) /\ Rising(outbox, TwoNews)
      /\ inbox \in Seq(ChildNews) /\ Rising(inbox, TwoNews)
  BY DEF ShakeInv, ShakeTypes, PipeInv, AnswerInv
<1>1. ASSUME ReadInit, pipe # <<>> PROVE ShakeInv'
  <2>1. /\ child = "init" /\ child' = "probing" /\ pipe' = Tail(pipe)
        /\ UNCHANGED <<manager, inpaintOnly, inbox, heard, tasks, outbox>>
    BY <1>1 DEF ReadInit, ChildGoes
  <2>2. /\ pipe' \in Seq(Orders) /\ Rising(pipe', TwoOrders) /\ Range(pipe) = {Head(pipe)} \cup Range(pipe')
    BY <1>0, <1>1, <2>1, OrderTaken
  <2>3. \A j \in Errands : tasks[j] = "unsent"
    BY <2>1 DEF ShakeInv, StageInv, Beginnings
  <2>10. ShakeTypes'
    BY <2>1, <2>2, <2>3 DEF ShakeInv, ShakeTypes, Beginnings
  <2>11. PipeInv'
    BY <2>1, <2>2, <2>3 DEF ShakeInv, PipeInv
  <2>12. StageInv'
    BY <2>1, <2>2, <2>3 DEF ShakeInv, StageInv, Alive, Beginnings
  <2>13. AnswerInv'
    BY <2>1, <2>2, <2>3 DEF ShakeInv, AnswerInv
  <2> QED BY <2>10, <2>11, <2>12, <2>13 DEF ShakeInv
<1>2. ASSUME NEW to \in {"loop", "closing"}, NEW e \in {"Ready", "InitError"}, child' = to, Tell(e),
             child \in {"init", "loading"},
             to = "loop" => e = "Ready", to = "closing" => e = "InitError" /\ manager \notin {"uses", "ending", "ended"},
             UNCHANGED <<manager, inpaintOnly, inbox, heard, pipe, tasks>>
      PROVE  ShakeInv'
  <2>1. /\ outbox' \in Seq(ChildNews) /\ Rising(outbox', TwoNews) /\ Range(outbox') = Range(outbox) \cup {e}
        /\ e \notin Errands
    BY <1>0, <1>2, NamesApart, NewsAdded DEF Tell, Notes
  <2>2. /\ \A j \in Errands : tasks[j] = "unsent"
        /\ manager \notin {"uses", "ending", "ended"}
    BY <1>2 DEF ShakeInv, StageInv, Beginnings, Alive
  <2>10. ShakeTypes'
    BY <1>2, <2>1, <2>2 DEF ShakeInv, ShakeTypes
  <2>11. PipeInv'
    BY <1>2, <2>1, <2>2 DEF ShakeInv, PipeInv
  <2>12. StageInv'
    BY <1>2, <2>1, <2>2 DEF ShakeInv, StageInv, Alive, Beginnings
  <2>13. AnswerInv'
    BY <1>2, <2>1, <2>2 DEF ShakeInv, AnswerInv
  <2> QED BY <2>10, <2>11, <2>12, <2>13 DEF ShakeInv
<1>3. ASSUME ReadInit, pipe = <<>> PROVE ShakeInv'
  <2>1. child = "init" /\ Closed
    BY <1>3 DEF ReadInit, ChildGoes
  <2>2. manager \notin {"uses", "ending", "ended"}
    BY <2>1 DEF ShakeInv, StageInv, Alive, Closed
  <2> QED BY <1>2, <1>3, <2>1, <2>2 DEF ReadInit, ChildGoes
<1>4. ASSUME Load PROVE ShakeInv'
  <2>1. child = "loading" /\ manager \notin {"uses", "ending", "ended"}
    BY <1>4 DEF Load, ChildGoes, ShakeInv, StageInv, Beginnings, Alive
  <2> QED BY <1>2, <1>4, <2>1 DEF Load, ChildGoes
<1>5. ASSUME Probe PROVE ShakeInv'
  <2>1. /\ child = "probing" /\ child' \in {"loading", "wedged"}
        /\ UNCHANGED <<manager, inpaintOnly, inbox, heard, pipe, tasks, outbox>>
    BY <1>5 DEF Probe, ChildGoes
  <2>10. ShakeTypes'
    BY <2>1 DEF ShakeInv, ShakeTypes, Beginnings
  <2>11. PipeInv'
    BY <2>1 DEF ShakeInv, PipeInv
  <2>12. StageInv'
    BY <2>1 DEF ShakeInv, StageInv, Alive, Beginnings
  <2>13. AnswerInv'
    BY <2>1 DEF ShakeInv, AnswerInv
  <2> QED BY <2>10, <2>11, <2>12, <2>13 DEF ShakeInv
<1>6. ASSUME ReadCommand, pipe # <<>>, Head(pipe) \in Errands PROVE ShakeInv'
  <2>1. /\ child = "loop" /\ child' = "loop" /\ pipe' = Tail(pipe) /\ tasks' = [tasks EXCEPT ![Head(pipe)] = "runs"]
        /\ UNCHANGED <<manager, inpaintOnly, inbox, heard, outbox>>
    BY <1>6, HandshakeAssumption DEF ReadCommand, ChildGoes
  <2>2. /\ pipe' \in Seq(Orders) /\ Rising(pipe', TwoOrders) /\ Range(pipe) = {Head(pipe)} \cup Range(pipe')
        /\ Head(pipe) \notin Range(pipe')
    BY <1>0, <1>6, <2>1, OrderTaken
  <2>3. /\ tasks[Head(pipe)] = "sent" /\ tasks'[Head(pipe)] = "runs"
        /\ \A i \in Errands \ {Head(pipe)} : tasks'[i] = tasks[i]
        /\ tasks' \in [Errands -> {"unsent", "sent", "runs", "hangs", "answered", "counted out", "over"}]
    BY <1>6, <2>1, <2>2 DEF ShakeInv, ShakeTypes, PipeInv
  <2>10. ShakeTypes'
    BY <1>6, <2>1, <2>2, <2>3 DEF ShakeInv, ShakeTypes
  <2>11. PipeInv'
    BY <1>6, <2>1, <2>2, <2>3 DEF ShakeInv, PipeInv
  <2>12. StageInv'
    BY <1>6, <2>1, <2>2, <2>3 DEF ShakeInv, StageInv, Alive, Beginnings
  <2>13. AnswerInv'
    BY <1>6, <2>1, <2>2, <2>3 DEF ShakeInv, AnswerInv
  <2> QED BY <2>10, <2>11, <2>12, <2>13 DEF ShakeInv
<1>7. ASSUME ReadCommand, pipe # <<>>, Head(pipe) = "Shutdown" PROVE ShakeInv'
  <2>1. /\ child = "loop" /\ child' = "draining" /\ pipe' = Tail(pipe)
        /\ UNCHANGED <<manager, inpaintOnly, inbox, heard, tasks, outbox>>
    BY <1>7, HandshakeAssumption DEF ReadCommand, ChildGoes
  <2>2. /\ pipe' = <<>> /\ pipe' \in Seq(Orders) /\ Rising(pipe', TwoOrders) /\ Range(pipe') = {}
        /\ Range(pipe) = {"Shutdown"} /\ "Shutdown" \notin Errands
    BY <1>0, <1>7, <2>1, OrderTaken, NothingYet, NamesApart
  <2>10. ShakeTypes'
    BY <1>7, <2>1, <2>2 DEF ShakeInv, ShakeTypes
  <2>11. PipeInv'
    BY <1>7, <2>1, <2>2 DEF ShakeInv, PipeInv
  <2>12. StageInv'
    BY <1>7, <2>1, <2>2 DEF ShakeInv, PipeInv, StageInv, Alive, Beginnings
  <2>13. AnswerInv'
    BY <1>7, <2>1, <2>2 DEF ShakeInv, AnswerInv
  <2> QED BY <2>10, <2>11, <2>12, <2>13 DEF ShakeInv
<1>8. ASSUME ReadCommand, pipe = <<>> PROVE ShakeInv'
  <2>1. /\ child = "loop" /\ child' = "closing" /\ Closed
        /\ UNCHANGED <<manager, inpaintOnly, inbox, heard, pipe, tasks, outbox>>
    BY <1>8 DEF ReadCommand, ChildGoes
  <2>10. ShakeTypes'
    BY <1>8, <2>1 DEF ShakeInv, ShakeTypes
  <2>11. PipeInv'
    BY <1>8, <2>1 DEF ShakeInv, PipeInv
  <2>12. StageInv'
    BY <1>8, <2>1 DEF ShakeInv, StageInv, Alive, Beginnings, Closed
  <2>13. AnswerInv'
    BY <1>8, <2>1 DEF ShakeInv, AnswerInv
  <2> QED BY <2>10, <2>11, <2>12, <2>13 DEF ShakeInv
<1>9. ASSUME Drains PROVE ShakeInv'
  <2>1. /\ child = "draining" /\ child' = "closing"
        /\ UNCHANGED <<manager, inpaintOnly, inbox, heard, pipe, tasks>>
    BY <1>9 DEF Drains, ChildGoes
  <2>2. /\ outbox' \in Seq(ChildNews) /\ Rising(outbox', TwoNews) /\ Range(outbox') = Range(outbox) \cup {"Finished"}
        /\ "Finished" \notin Errands
    BY <1>0, <1>9, NamesApart, NewsAdded DEF Drains, Tell, Notes
  <2>3. manager \notin {"inits", "waits", "uses"} /\ pipe = <<>>
    BY <2>1 DEF ShakeInv, PipeInv
  <2>10. ShakeTypes'
    BY <2>1, <2>2, <2>3 DEF ShakeInv, ShakeTypes
  <2>11. PipeInv'
    BY <2>1, <2>2, <2>3 DEF ShakeInv, PipeInv
  <2>12. StageInv'
    BY <2>1, <2>2, <2>3 DEF ShakeInv, StageInv, Alive, Beginnings
  <2>13. AnswerInv'
    BY <2>1, <2>2, <2>3 DEF ShakeInv, AnswerInv
  <2> QED BY <2>10, <2>11, <2>12, <2>13 DEF ShakeInv
<1>10. ASSUME ChildExits \/ ChildDies PROVE ShakeInv'
  <2>1. PICK end \in {"exited", "died"} :
          /\ ChildIs(end) /\ Alive /\ UNCHANGED <<manager, inpaintOnly, pipe, tasks, heard>>
          /\ end = "exited" => child = "closing" /\ outbox = <<>>
                              /\ \A j \in Errands : tasks[j] \in {"unsent", "sent", "over"}
    BY <1>10 DEF ChildExits, ChildDies, Joined, Alive
  <2>2. /\ child' = end /\ outbox' = <<>> /\ Range(outbox') = {}
        /\ Rising(outbox', TwoNews) /\ outbox' \in Seq(ChildNews)
        /\ inbox' \in Seq(ChildNews) /\ Rising(inbox', TwoNews)
        /\ Range(inbox') \subseteq Range(inbox) \cup {"Disconnected"} /\ Range(inbox) \subseteq Range(inbox')
        /\ "Disconnected" \notin Errands
    BY <2>1, EndKeeps, HandshakeAssumption
  <2>3. end = "exited" => Range(outbox) = {}
    BY <2>1, NothingYet
  <2>10. ShakeTypes'
    BY <2>1, <2>2, <2>3 DEF ShakeInv, ShakeTypes
  <2>11. PipeInv'
    BY <2>1, <2>2, <2>3 DEF ShakeInv, PipeInv
  <2>12. StageInv'
    BY <2>1, <2>2, <2>3 DEF ShakeInv, StageInv, Alive, Beginnings
  <2>13. AnswerInv'
    BY <2>1, <2>2, <2>3 DEF ShakeInv, AnswerInv
  <2> QED BY <2>10, <2>11, <2>12, <2>13 DEF ShakeInv
<1>11. ASSUME WriteEvent PROVE ShakeInv'
  <2>1. /\ Alive /\ outbox # <<>> /\ outbox' = Tail(outbox)
        /\ inbox' = IF Listening THEN Append(inbox, Head(outbox)) ELSE inbox
        /\ UNCHANGED <<manager, inpaintOnly, pipe, child, tasks, heard>>
    BY <1>11 DEF WriteEvent
  <2>2. /\ outbox' \in Seq(ChildNews) /\ Rising(outbox', TwoNews) /\ Range(outbox) = {Head(outbox)} \cup Range(outbox')
        /\ Head(outbox) \in ChildNews
        /\ Head(outbox) \in Errands => Head(outbox) \notin Range(outbox')
    BY <1>0, <2>1, NewsTaken
  <2>3. /\ inbox' \in Seq(ChildNews) /\ Rising(inbox', TwoNews)
        /\ Range(inbox') = Range(inbox) \cup (IF Listening THEN {Head(outbox)} ELSE {})
    <3>1. Head(outbox) \in Errands => Head(outbox) \notin Range(inbox)
      BY <2>2 DEF ShakeInv, AnswerInv
    <3> QED BY <1>0, <2>1, <2>2, <3>1, NewsAdded
  <2>10. ShakeTypes'
    BY <2>1, <2>2, <2>3 DEF ShakeInv, ShakeTypes
  <2>11. PipeInv'
    BY <2>1, <2>2, <2>3 DEF ShakeInv, PipeInv
  <2>12. StageInv'
    BY <2>1, <2>2, <2>3 DEF ShakeInv, StageInv, Alive, Beginnings, Listening
  <2>13. AnswerInv'
    BY <2>1, <2>2, <2>3 DEF ShakeInv, AnswerInv, Listening, StageInv, Alive
  <2> QED BY <2>10, <2>11, <2>12, <2>13 DEF ShakeInv
<1> QED BY <1>1, <1>3, <1>4, <1>5, <1>6, <1>7, <1>8, <1>9, <1>10, <1>11 DEF Child, ReadCommand

\* A job goes from one stage of its life to the next, and may tell its answer.
LEMMA TaskKeeps ==
    ASSUME ShakeInv, NEW j \in Errands, TaskStep(j) \/ Hangs(j)
    PROVE  ShakeInv'
<1>1. /\ Alive /\ UNCHANGED <<manager, inpaintOnly, pipe, child, inbox, heard>>
      /\ tasks[j] \in {"runs", "counted out", "answered"}
      /\ tasks'[j] \in {"answered", "over", "hangs", "counted out"}
      /\ \A i \in Errands \ {j} : tasks'[i] = tasks[i]
      /\ tasks' \in [Errands -> {"unsent", "sent", "runs", "hangs", "answered", "counted out", "over"}]
      /\ \/ tasks[j] # "answered" /\ tasks'[j] \in {"answered", "over"} /\ Tell(j)
         \/ tasks[j] = "answered" /\ tasks'[j] = "over" /\ outbox' = outbox
         \/ tasks[j] # "answered" /\ tasks'[j] \notin {"answered", "over"} /\ outbox' = outbox
  BY DEF TaskStep, Hangs, Task, ShakeInv, ShakeTypes
<1>2. /\ outbox' \in Seq(ChildNews) /\ Rising(outbox', TwoNews) /\ Range(outbox) \subseteq Range(outbox')
      /\ Range(outbox') \subseteq Range(outbox) \cup {j}
      /\ j \in Range(outbox') => tasks'[j] \in {"answered", "over"}
      /\ tasks[j] # "answered" /\ tasks'[j] \in {"answered", "over"} => j \in Range(outbox')
      /\ tasks[j] = "answered" => outbox' = outbox
  <2>1. outbox \in Seq(ChildNews) /\ Rising(outbox, TwoNews) /\ (j \in Range(outbox) => tasks[j] = "answered")
    BY <1>1 DEF ShakeInv, ShakeTypes, AnswerInv
  <2>2. CASE /\ outbox' = outbox
             /\ \/ tasks[j] = "answered" /\ tasks'[j] = "over"
                \/ tasks[j] # "answered" /\ tasks'[j] \notin {"answered", "over"}
    BY <2>1, <2>2
  <2>3. CASE tasks[j] # "answered" /\ tasks'[j] \in {"answered", "over"} /\ outbox' = Append(outbox, j)
    <3>1. j \in ChildNews /\ j \notin Range(outbox)
      BY <2>1, <2>3, NamesApart
    <3>2. /\ outbox' \in Seq(ChildNews) /\ Range(outbox') = Range(outbox) \cup {j} /\ Rising(outbox', TwoNews)
      BY <2>1, <2>3, <3>1, NewsAdded
    <3> QED BY <2>3, <3>2
  <2>4. \/ outbox' = outbox /\ tasks[j] = "answered" /\ tasks'[j] = "over"
        \/ outbox' = outbox /\ tasks[j] # "answered" /\ tasks'[j] \notin {"answered", "over"}
        \/ tasks[j] # "answered" /\ tasks'[j] \in {"answered", "over"} /\ outbox' = Append(outbox, j)
    BY <1>1 DEF Tell
  <2> QED BY <2>2, <2>3, <2>4
<1>3. child \notin Beginnings /\ manager \notin {"inits", "waits", "ended"} /\ child \notin {"exited", "died"}
  BY <1>1 DEF ShakeInv, StageInv, Alive
<1>4. ShakeTypes'
  BY <1>1, <1>2 DEF ShakeInv, ShakeTypes
<1>5. PipeInv'
  BY <1>1 DEF ShakeInv, PipeInv
<1>6. StageInv'
  BY <1>1, <1>3 DEF ShakeInv, StageInv, Alive
<1>7. AnswerInv'
  BY <1>1, <1>2, <1>3 DEF ShakeInv, AnswerInv
<1> QED BY <1>4, <1>5, <1>6, <1>7 DEF ShakeInv

\* Every step keeps the invariant.
LEMMA ShakeStep == ShakeInv /\ [HandshakeNext]_handshakeVars => ShakeInv'
<1>1. ASSUME ShakeInv, UNCHANGED handshakeVars PROVE ShakeInv'
  BY <1>1 DEF handshakeVars, ShakeInv, ShakeTypes, PipeInv, StageInv, AnswerInv, Alive
<1> QED BY <1>1, ManagerKeeps, GiveKeeps, ChildKeeps, TaskKeeps DEF HandshakeNext

\* How often a job's answer is among some events: once if it is there.
LEMMA AnswerCount ==
    ASSUME NEW s \in Seq(ChildNews), Rising(s, TwoNews), NEW j \in Errands
    PROVE  Cardinality({n \in DOMAIN s : s[n] = j}) = IF j \in Range(s) THEN 1 ELSE 0
<1> DEFINE spots == {n \in DOMAIN s : s[n] = j}
<1>1. DOMAIN s = 1 .. Len(s) /\ Len(s) \in Nat
  BY LenProperties
<1>2. ASSUME NEW m \in spots, NEW n \in spots PROVE m = n
  <2>1. ~(m < n)
    BY <1>2 DEF Rising, TwoNews
  <2>2. ~(n < m)
    BY <1>2 DEF Rising, TwoNews
  <2> QED BY <1>1, <2>1, <2>2
<1>3. CASE j \in Range(s)
  <2>1. PICK n \in DOMAIN s : s[n] = j
    BY <1>3 DEF Range
  <2>2. spots = {n}
    BY <1>2, <2>1
  <2> QED BY <1>3, <2>2, FS_Singleton
<1>4. CASE j \notin Range(s)
  <2>1. spots = {}
    BY <1>4 DEF Range
  <2> QED BY <1>4, <2>1, FS_EmptySet
<1> QED BY <1>3, <1>4

\* The invariant is enough.
LEMMA ShakeEnough == ShakeInv => HandshakeOK
<1> SUFFICES ASSUME ShakeInv PROVE HandshakeOK
  OBVIOUS
<1>1. ReadyIsTrue
  <2>1. inbox # <<>> => Head(inbox) \in Range(inbox)
    <3>1. inbox \in Seq(ChildNews)
      BY DEF ShakeInv, ShakeTypes
    <3> QED BY <3>1, TailItems
  <2> QED BY <2>1 DEF ShakeInv, StageInv, ReadyIsTrue, Alive
<1>2. ShutdownAnswersAll
  <2> SUFFICES ASSUME manager \in {"ending", "ended"}, child = "exited", NEW j \in Errands, tasks[j] # "unsent"
               PROVE  tasks[j] = "over" /\ (j \in heard \/ \E n \in DOMAIN inbox : inbox[n] = j)
    BY DEF ShutdownAnswersAll
  <2>1. tasks[j] = "over"
    BY NothingYet DEF ShakeInv, PipeInv, AnswerInv
  <2>2. j \in Range(inbox) \cup heard
    BY <2>1, NothingYet DEF ShakeInv, AnswerInv
  <2> QED BY <2>1, <2>2 DEF Range
<1>3. AnswersOnce
  <2> SUFFICES ASSUME NEW j \in Errands
               PROVE  Cardinality({n \in DOMAIN inbox : inbox[n] = j})
                      + Cardinality({n \in DOMAIN outbox : outbox[n] = j}) + (IF j \in heard THEN 1 ELSE 0)
                          <= IF tasks[j] \in {"answered", "over"} THEN 1 ELSE 0
    BY DEF AnswersOnce
  <2>1. /\ Cardinality({n \in DOMAIN inbox : inbox[n] = j}) = IF j \in Range(inbox) THEN 1 ELSE 0
        /\ Cardinality({n \in DOMAIN outbox : outbox[n] = j}) = IF j \in Range(outbox) THEN 1 ELSE 0
    BY AnswerCount DEF ShakeInv, ShakeTypes, AnswerInv
  <2>2. /\ j \in Range(inbox) \cup Range(outbox) \cup heard => tasks[j] \in {"answered", "over"}
        /\ j \in Range(inbox) => j \notin Range(outbox)
        /\ j \in heard => j \notin Range(inbox) \cup Range(outbox)
    BY DEF ShakeInv, AnswerInv
  <2> QED BY <2>1, <2>2
<1> QED BY <1>1, <1>2, <1>3 DEF HandshakeOK

----------------------------------------------------------------------------
(* The state of the jobs has its type                                      *)

\* A job waits at the semaphore exactly while it stands in its queue, and only
\* a job at work has to do with it.
AtInv == \A j \in Jobs : (j \in Range(waiters)) <=> (at[j] \in {"parked", "woken"})

\* What TypeOK says of the child beyond WorkerInv and LogInv.
RestInv == over \in BOOLEAN /\ Sem!SemTypeOK /\ AtInv

\* A look at the queue of the semaphore, on arrival or when woken, leaves its
\* state well-typed.
LEMMA LookKeeps ==
    ASSUME Sem!SemTypeOK, AtInv, NEW j \in Jobs, NEW line \in Seq(Jobs), NEW wt \in [Jobs -> Nat],
           Range(line) = Range(waiters) \cup {j}, want' = wt,
           Sem!Take(j, line, wt) \/ Sem!Park(j, line, wt)
    PROVE  Sem!SemTypeOK' /\ AtInv'
<1>1. units \in Nat /\ waiters \in Seq(Jobs) /\ at \in [Jobs -> {"out", "parked", "woken", "in"}]
  BY DEF Sem!SemTypeOK
<1>2. CASE Sem!Take(j, line, wt)
  <2>1. line # <<>>
    <3>1. j \in Range(line)
      OBVIOUS
    <3> QED BY <3>1, NothingYet
  <2>2. Head(line) \in Jobs
    BY <2>1, TailItems
  <2>3. units' \in Nat
    <3>1. wt[j] \in Nat /\ wt[Head(line)] \in Nat
      BY <2>2
    <3>2. units' = units - wt[j] /\ Sem!CanGo(j, line, wt)
      BY <1>2 DEF Sem!Take
    <3> QED BY <1>1, <3>1, <3>2 DEF Sem!CanGo
  <2>4. waiters' \in Seq(Jobs) /\ Range(waiters') = Range(waiters) \ {j}
    <3>1. Sem!Without(line, {j}) = Without(line, {j})
      BY DEF Sem!Without, Without
    <3>2. waiters' = Without(line, {j})
      BY <1>2, <3>1 DEF Sem!Take
    <3> QED BY <3>2, WithoutItems
  <2>5. /\ at' \in [Jobs -> {"out", "parked", "woken", "in"}] /\ at'[j] = "in"
        /\ \A i \in Jobs \ {j} : (at'[i] \in {"parked", "woken"}) <=> (at[i] \in {"parked", "woken"})
    BY <1>1, <1>2 DEF Sem!Take, Sem!Notified
  <2> QED BY <2>3, <2>4, <2>5 DEF Sem!SemTypeOK, AtInv
<1>3. CASE Sem!Park(j, line, wt)
  BY <1>1, <1>3 DEF Sem!Park, Sem!SemTypeOK, AtInv
<1> QED BY <1>2, <1>3

\* A job asks for its units.
LEMMA AcquireKeeps ==
    ASSUME Sem!SemTypeOK, AtInv, NEW j \in Jobs, Acquire(j)
    PROVE  Sem!SemTypeOK' /\ AtInv'
<1>1. waiters \in Seq(Jobs) /\ want \in [Jobs -> Nat]
  BY DEF Sem!SemTypeOK
<1>2. CASE Sem!Arrive(j, Weight[j])
  <2>1. Sem!Capped(Weight[j]) \in Nat
    BY WorkerAssumption DEF Sem!Capped, Sem!Lesser
  <2>2. want' \in [Jobs -> Nat]
    BY <1>1, <1>2, <2>1 DEF Sem!Arrive
  <2>3. Append(waiters, j) \in Seq(Jobs) /\ Range(Append(waiters, j)) = Range(waiters) \cup {j}
    BY <1>1, AppendItems
  <2>4. Sem!Take(j, Append(waiters, j), want') \/ Sem!Park(j, Append(waiters, j), want')
    BY <1>2 DEF Sem!Arrive
  <2> QED BY <2>2, <2>3, <2>4, LookKeeps
<1>3. CASE Sem!Recheck(j)
  <2>1. j \in Range(waiters) /\ want' = want /\ (Sem!Take(j, waiters, want) \/ Sem!Park(j, waiters, want))
    BY <1>3 DEF Sem!Recheck, AtInv
  <2>2. Range(waiters) = Range(waiters) \cup {j}
    BY <2>1
  <2> QED BY <1>1, <2>1, <2>2, LookKeeps
<1> QED BY <1>2, <1>3 DEF Acquire

\* A job gives them back.
LEMMA ReleaseKeeps ==
    ASSUME Sem!SemTypeOK, AtInv, NEW j \in Jobs, Sem!Release(j)
    PROVE  Sem!SemTypeOK' /\ AtInv'
<1>1. /\ at' \in [Jobs -> {"out", "parked", "woken", "in"}] /\ at'[j] = "out" /\ at[j] = "in"
      /\ \A i \in Jobs \ {j} : (at'[i] \in {"parked", "woken"}) <=> (at[i] \in {"parked", "woken"})
  BY DEF Sem!Release, Sem!Notified, Sem!SemTypeOK
<1>2. units' \in Nat /\ want' \in [Jobs -> Nat] /\ waiters' = waiters
  BY DEF Sem!Release, Sem!Returned, Sem!SemTypeOK
<1> QED BY <1>1, <1>2 DEF Sem!SemTypeOK, AtInv

\* Every step of the jobs keeps the rest of the state typed.
LEMMA RestStep == RestInv /\ [Next]_vars => RestInv'
<1> SUFFICES ASSUME RestInv, [Next]_vars PROVE RestInv'
  OBVIOUS
<1>1. CASE UNCHANGED semVars
  <2>1. over' \in BOOLEAN
    BY DEF RestInv, Next, Parent, Send, SendCancel, SendLast, Loop, Dispatch, DispatchFails, CancelItem, FlipCancelFlag,
           Shutdown, Drained, StdinClosed, Exit, JobStep, Begin, Unreadable, Acquire, Work, Interrupted, ReportRss,
           Leave, DropGuards, CleanUp, SendInpaint, JobOnly, parentVars, vars
  <2> QED BY <1>1, <2>1 DEF RestInv, semVars, Sem!SemTypeOK, AtInv
<1>2. CASE ~UNCHANGED semVars
  <2>1. PICK j \in Jobs : Acquire(j) \/ (DropGuards(j) /\ Sem!Release(j))
    BY <1>2 DEF Next, Parent, Send, SendCancel, SendLast, ParentOnly, Loop, Dispatch, DispatchFails, CancelItem,
           FlipCancelFlag, Shutdown, Drained, StdinClosed, Exit, JobStep, Begin, Unreadable, Work, Interrupted,
           ReportRss, Leave, DropGuards, CleanUp, SendInpaint, vars
  <2>2. over' = over
    BY <2>1 DEF Acquire, DropGuards, JobOnly, parentVars
  <2> QED BY <2>1, <2>2, AcquireKeeps, ReleaseKeeps DEF RestInv
<1> QED BY <1>1, <1>2

\* The jobs' side of the invariant.
JobsInv == WorkerInv /\ LogInv /\ RestInv

\* It holds at the start.
LEMMA JobsInit == Init => JobsInv
<1> SUFFICES ASSUME Init PROVE JobsInv
  OBVIOUS
<1>1. LogInv
  BY NothingYet DEF Init, LogInv
<1>2. over \in BOOLEAN /\ Sem!SemTypeOK
  BY NothingYet, WorkerAssumption DEF Init, Sem!SemInit, Sem!SemTypeOK
<1>3. AtInv
  BY NothingYet DEF Init, Sem!SemInit, AtInv
<1> QED BY <1>1, <1>2, <1>3, InitWorkerInv DEF JobsInv, RestInv

\* Every step keeps it.
LEMMA JobsStep == JobsInv /\ [Next]_vars => JobsInv'
<1>1. WorkerInv /\ [Next]_vars => WorkerInv'
  BY JobKeepsInv, ParentKeepsInv, LoopKeepsInv, StutterKeepsInv DEF Next
<1> QED BY <1>1, LogInvStep, RestStep DEF JobsInv

\* It is enough for the types.
LEMMA JobsTyped == JobsInv => TypeOK
<1> SUFFICES ASSUME JobsInv PROVE TypeOK
  OBVIOUS
<1>1. kind \in [Jobs -> Kinds]
  BY WorkerAssumption DEF JobsInv, WorkerInv, TypeInv, Kinds
<1>2. inFlight \in Nat
  BY CountedFinite, FS_CardinalityType DEF JobsInv, WorkerInv, CountInv
<1>3. cancelSet \subseteq Jobs
  BY DEF JobsInv, WorkerInv, TypeInv, LogInv
<1> QED BY <1>1, <1>2, <1>3 DEF JobsInv, WorkerInv, TypeInv, LogInv, RestInv, TypeOK, Stages

----------------------------------------------------------------------------
(* The theorems                                                            *)

\* The inductive invariant of the handshake and the shutdown.
THEOREM ShakeInvariant == HandshakeSpec => []ShakeInv
BY ShakeInit, ShakeStep, PTL DEF HandshakeSpec

\* Whatever the child does, hangs at or dies of, and whenever its parent gives up:
\* a child that is used reads commands, a Shutdown ends with every job answered,
\* and no job is answered twice.
THEOREM HandshakeKept == HandshakeSpec => []HandshakeOK
BY ShakeInvariant, ShakeEnough, PTL

\* The child's jobs, flags, counters and semaphore keep their types: in_flight and
\* the units never go below zero.
THEOREM ChildTyped == Spec => []TypeOK
<1>1. JobsInv /\ [Next]_vars => JobsInv'
  BY JobsStep
<1> QED BY JobsInit, <1>1, JobsTyped, PTL DEF Spec

\* Both, for the process that the run checks.
THEOREM ProcessKept == ProcessSpec => []ProcessOK
<1>1. ProcessInit => JobsInv /\ ShakeInv
  BY JobsInit, ShakeInit DEF ProcessInit
<1>2. JobsInv /\ ShakeInv /\ [ProcessNext]_processVars => (JobsInv /\ ShakeInv)'
  <2>1. [ProcessNext]_processVars => [Next]_vars /\ [HandshakeNext]_handshakeVars
    BY Zenon DEF ProcessNext, processVars
  <2> QED BY <2>1, JobsStep, ShakeStep
<1>3. JobsInv /\ ShakeInv => ProcessOK
  BY JobsTyped, ShakeEnough DEF ProcessOK
<1> QED BY <1>1, <1>2, <1>3, PTL DEF ProcessSpec
=============================================================================
