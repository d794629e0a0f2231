--------------------------- MODULE SegBatchSafety ---------------------------
(***************************************************************************)
(* The state of a batch has its type, no image of it is answered twice,    *)
(* none is mislaid, and the bridge waits for exactly the work the child    *)
(* has: proofs, for every batch, every cancel and every fault.             *)
(***************************************************************************)
EXTENDS SegBatchInv, CollectionTheorems, FiniteSetTheorems

----------------------------------------------------------------------------
(* Types of the helpers                                                    *)

\* The pairs of queues stay pairs of queues.
LEMMA PairTypes ==
    ASSUME NEW q \in WorkPair
    PROVE  /\ q.cached \in Seq(Items) /\ q.tier1 \in Seq(Items)
           /\ \A S : Drop(q, S) \in WorkPair
           /\ \A r \in WorkPair : Join(q, r) \in WorkPair
           /\ \A c \in 0 .. Len(q.cached), t \in 0 .. Len(q.tier1) :
                  FirstOf(q, c, t) \in WorkPair /\ RestOf(q, c, t) \in WorkPair
           /\ \A i \in Items : [q EXCEPT !.tier1 = Append(@, i)] \in WorkPair
           /\ ItemsOf(q) \subseteq Items
           /\ Len(q.cached) \in Nat /\ SizeOf(q) \in Nat
<1>1. q.cached \in Seq(Items) /\ q.tier1 \in Seq(Items)
  BY DEF WorkPair
<1>2. ASSUME NEW S PROVE Drop(q, S) \in WorkPair
  BY <1>1, WithoutItems DEF WorkPair, Drop
<1>3. ASSUME NEW r \in WorkPair PROVE Join(q, r) \in WorkPair
  BY <1>1, ConcatProperties DEF WorkPair, Join
<1>4. ASSUME NEW c \in 0 .. Len(q.cached), NEW t \in 0 .. Len(q.tier1)
      PROVE  FirstOf(q, c, t) \in WorkPair /\ RestOf(q, c, t) \in WorkPair
  <2>1. SubSeq(q.cached, 1, c) \in Seq(Items) /\ SubSeq(q.cached, c + 1, Len(q.cached)) \in Seq(Items)
    BY <1>1, SplitItems
  <2>2. SubSeq(q.tier1, 1, t) \in Seq(Items) /\ SubSeq(q.tier1, t + 1, Len(q.tier1)) \in Seq(Items)
    BY <1>1, SplitItems
  <2> QED BY <2>1, <2>2 DEF WorkPair, FirstOf, RestOf
<1>5. ASSUME NEW i \in Items PROVE [q EXCEPT !.tier1 = Append(@, i)] \in WorkPair
  BY <1>1, AppendProperties DEF WorkPair
<1>6. ItemsOf(q) \subseteq Items
  BY <1>1, RangeOfSeq DEF ItemsOf
<1>7. Len(q.cached) \in Nat /\ Len(q.tier1) \in Nat
  BY <1>1, LenProperties
<1>8. SizeOf(q) \in Nat
  <2>1. \A m, n \in Nat : m + n \in Nat
    OBVIOUS
  <2>2. SizeOf(q) = Len(q.cached) + Len(q.tier1)
    BY Zenon DEF SizeOf
  <2> QED BY <1>7, <2>1, <2>2, Zenon
<1> QED BY <1>1, <1>2, <1>3, <1>4, <1>5, <1>6, <1>7, <1>8

\* What the bridge says is always a well-formed message about its batch.
LEMMA AnswerTypes ==
    ASSUME batch.id \in Batches
    PROVE  /\ \A i \in Items, r \in {"ok", "err", "cancelled"} : Answer(i, r) \in Results
           /\ \A s \in Seq(Items), r \in {"ok", "err", "cancelled"} : AnswerAll(s, r) \in Seq(Results)
           /\ \A t \in {"Complete", "Cancelled", "Retry"} : Signal(t) \in Results
<1>1. ASSUME NEW i \in Items, NEW r \in {"ok", "err", "cancelled"} PROVE Answer(i, r) \in Results
  BY DEF Answer, Results
<1>2. ASSUME NEW s \in Seq(Items), NEW r \in {"ok", "err", "cancelled"}
      PROVE  AnswerAll(s, r) \in Seq(Results)
  <2>1. Len(s) \in Nat /\ DOMAIN s = 1 .. Len(s) /\ \A n \in 1 .. Len(s) : s[n] \in Items
    BY LenProperties, ElementOfSeq
  <2>2. AnswerAll(s, r) \in [1 .. Len(s) -> Results]
    BY <2>1, <1>1 DEF AnswerAll
  <2> QED BY <2>1, <2>2, SeqDef
<1>3. ASSUME NEW t \in {"Complete", "Cancelled", "Retry"} PROVE Signal(t) \in Results
  BY DEF Signal, Results
<1> QED BY <1>1, <1>2, <1>3

----------------------------------------------------------------------------
(* Type correctness                                                        *)

\* Nothing is a queue of anything.
LEMMA EmptyTypes ==
    /\ <<>> \in Seq(Items) /\ <<>> \in Seq(Results) /\ <<>> \in Seq(Events)
    /\ NoWork \in WorkPair
BY EmptySeq DEF NoWork, WorkPair

\* The initial states are well-typed.
LEMMA TypeInit == Init => TypeOK
<1> SUFFICES ASSUME Init PROVE TypeOK
  OBVIOUS
<1> USE SegBatchAssumption, SegBridgeAssumption
<1> DEFINE Msg == [type : {"Batch"}, batch : Message] \cup [type : {"ReleaseWarm"}]
<1>1. \A e \in Msg : <<e>> \in Seq(Msg) /\ \A r \in Msg : <<r, e>> \in Seq(Msg)
  OBVIOUS
<1>2. \A jobs \in JobChoices : BatchMessage(jobs) \in Msg
  BY DEF BatchMessage, Message, Streams
<1>3. inbox \in Seq(Msg)
  <2>1. [type |-> "ReleaseWarm"] \in Msg
    OBVIOUS
  <2> HIDE DEF Msg
  <2> QED BY <1>1, <1>2, <2>1 DEF Init
<1>4. chan \in [Batches -> [q : Seq(Items), tx : BOOLEAN, rx : BOOLEAN]]
  BY DEF Init, Streams
<1>5. pending \in WorkPair /\ sent \in WorkPair
  BY DEF Init, NoWork, WorkPair
<1>6. fed \in 0 .. Len(StreamedImages)
  BY LenProperties DEF Init
<1>7. child \in {"none", "up", "hung", "dead"} /\ warm \in BOOLEAN
  BY DEF Init
<1>8. /\ batch \in Message \cup {NoBatch} /\ (pc # "idle" => batch \in Message)
      /\ pc \in {"idle", "top", "list", "spawn", "burst", "head", "handle", "admit", "return"}
  BY DEF Init
<1>9. /\ results \in Seq(Results) /\ doomed \in Seq(Items)
      /\ evs \in Seq(Events) /\ evq \in Seq(Events)
  BY EmptyTypes DEF Init
<1>10. /\ cancelled = {} /\ completed = {} /\ notified = {} /\ work = {}
       /\ cancelAll = FALSE /\ paused = FALSE /\ quiet = FALSE
  BY Zenon DEF Init
<1>11. maxJobs \in Nat \ {0} /\ rssDue \in Nat /\ faults \in Nat
  <2>1. maxJobs = 1 /\ rssDue = 0 /\ faults = 0
    BY Zenon DEF Init
  <2> QED BY <2>1
<1> QED BY <1>3, <1>4, <1>5, <1>6, <1>7, <1>8, <1>9, <1>10, <1>11 DEF TypeOK

\* What a step needs to know about the batch being served.
LEMMA BatchTypes ==
    ASSUME TypeOK, pc # "idle"
    PROVE  /\ batch.id \in Batches /\ batch.streams \in BOOLEAN
           /\ chan[batch.id] \in [q : Seq(Items), tx : BOOLEAN, rx : BOOLEAN]
           /\ Feed \in Seq(Items)
BY EmptySeq DEF TypeOK, Message, Feed

\* Whatever the bridge says next keeps `results` well-typed.
LEMMA SayTypes ==
    ASSUME TypeOK, pc # "idle"
    PROVE  /\ \A t \in {"Complete", "Cancelled", "Retry"}, log \in Seq(Results) :
                  Append(log, Signal(t)) \in Seq(Results)
           /\ \A i \in Items, r \in {"ok", "err", "cancelled"}, log \in Seq(Results) :
                  Append(log, Answer(i, r)) \in Seq(Results)
           /\ \A s \in Seq(Items), r \in {"ok", "err", "cancelled"}, log \in Seq(Results) :
                  log \o AnswerAll(s, r) \in Seq(Results)
BY BatchTypes, AnswerTypes, AppendProperties, ConcatProperties

\* The sweep of cancelled items keeps the types.
LEMMA SweepTypes ==
    ASSUME TypeOK, pc # "idle"
    PROVE  /\ Listed \in Seq(Items) /\ Swept \in WorkPair
           /\ Told \in Seq(Results) /\ Range(doomed) \subseteq Items
<1>1. pending \in WorkPair /\ doomed \in Seq(Items) /\ results \in Seq(Results)
  BY DEF TypeOK
<1>2. Listed \in Seq(Items)
  BY <1>1, PairTypes, ConcatProperties, WithoutItems DEF Listed
<1>3. Swept \in WorkPair
  BY <1>1, PairTypes DEF Swept
<1>4. AnswerAll(doomed, "cancelled") \in Seq(Results)
  BY <1>1, BatchTypes, AnswerTypes
<1>5. Told \in Seq(Results)
  BY <1>1, <1>4, ConcatProperties DEF Told
<1> QED BY <1>1, <1>2, <1>3, <1>5, RangeOfSeq

\* So does failing everything queued.
LEMMA FailedTypes ==
    ASSUME TypeOK, pc # "idle", NEW q \in WorkPair
    PROVE  Failed(q) \in Seq(Results)
<1>1. Without(q.tier1, completed) \o q.cached \in Seq(Items)
  BY PairTypes, WithoutItems, ConcatProperties
<1> QED BY <1>1, BatchTypes, AnswerTypes DEF Failed

\* And taking a streamed item.
LEMMA StreamedTypes ==
    ASSUME TypeOK, pc # "idle", TakeStreamed
    PROVE  /\ pending' \in WorkPair
           /\ chan' \in [Batches -> [q : Seq(Items), tx : BOOLEAN, rx : BOOLEAN]]
<1>1. Head(Feed) \in Items /\ Tail(Feed) \in Seq(Items)
  BY BatchTypes, HeadTailProperties DEF TakeStreamed
<1>2. Feed = chan[batch.id].q
  BY DEF TakeStreamed, Feed
<1>3. pending' \in WorkPair
  BY <1>1, PairTypes DEF TakeStreamed, TypeOK
<1>4. chan' \in [Batches -> [q : Seq(Items), tx : BOOLEAN, rx : BOOLEAN]]
  BY <1>1, <1>2, BatchTypes DEF TakeStreamed, TypeOK
<1> QED BY <1>3, <1>4

\* Each step of the bridge.
LEMMA TypeBridge ==
    ASSUME TypeOK, Serve
    PROVE  TypeOK'
<1> USE DEF guiVars, stateVars, loopVars, bridgeVars, childVars
<1>1. ASSUME NEW match \in BOOLEAN, TakeBatch(match), UNCHANGED fed PROVE TypeOK'
  <2> DEFINE Msg == [type : {"Batch"}, batch : Message] \cup [type : {"ReleaseWarm"}]
  <2>1. Head(inbox) \in Msg /\ Tail(inbox) \in Seq(Msg)
    BY <1>1, HeadTailProperties DEF TypeOK, TakeBatch
  <2>2. Head(inbox).batch \in Message
    BY <1>1, <2>1 DEF TakeBatch
  <2>3. pending' \in WorkPair /\ maxJobs' \in Nat \ {0} /\ batch' \in Message
    BY <1>1, <2>2 DEF TakeBatch, WorkPair, Message
  <2> QED BY <1>1, <2>1, <2>3 DEF TypeOK, TakeBatch, Alive
<1>2. ASSUME ReleaseWarm, UNCHANGED fed PROVE TypeOK'
  <2> DEFINE Msg == [type : {"Batch"}, batch : Message] \cup [type : {"ReleaseWarm"}]
  <2>1. Tail(inbox) \in Seq(Msg)
    BY <1>2, HeadTailProperties DEF TypeOK, ReleaseWarm
  <2> QED BY <1>2, <2>1 DEF TypeOK, ReleaseWarm
<1>3. ASSUME EndBatch, UNCHANGED fed PROVE TypeOK'
  <2>1. chan' \in [Batches -> [q : Seq(Items), tx : BOOLEAN, rx : BOOLEAN]]
    BY <1>3, BatchTypes DEF EndBatch, TypeOK
  <2>2. /\ pending' \in WorkPair /\ sent' \in WorkPair /\ doomed' \in Seq(Items)
        /\ evs' \in Seq(Events) /\ evq' \in Seq(Events)
    BY <1>3, EmptyTypes DEF EndBatch, ForgetChild
  <2>3. /\ completed' = {} /\ maxJobs' = 1 /\ child' = "none"
        /\ work' = {} /\ rssDue' = 0 /\ quiet' = FALSE /\ notified' = {} /\ paused' = FALSE
    BY <1>3, Zenon DEF EndBatch, ForgetChild
  <2>5. UNCHANGED <<inbox, cancelled, cancelAll, results, warm, faults, fed>>
    BY <1>3 DEF EndBatch
  <2>4. /\ batch' \in Message \cup {NoBatch} /\ (pc' # "idle" => batch' \in Message)
        /\ pc' \in {"idle", "top", "list", "spawn", "burst", "head", "handle", "admit", "return"}
    BY <1>3 DEF EndBatch
  <2>6. /\ completed' \subseteq Items /\ notified' \subseteq Items /\ work' \subseteq Items
        /\ paused' \in BOOLEAN /\ quiet' \in BOOLEAN
        /\ child' \in {"none", "up", "hung", "dead"}
    BY <2>3, Zenon
  <2>7. maxJobs' \in Nat \ {0} /\ rssDue' \in Nat
    <3>1. maxJobs' = 1 /\ rssDue' = 0
      BY <2>3, Zenon
    <3> QED BY <3>1
  <2>8. /\ inbox' \in Seq([type : {"Batch"}, batch : Message] \cup [type : {"ReleaseWarm"}])
        /\ cancelled' \subseteq Items /\ cancelAll' \in BOOLEAN /\ results' \in Seq(Results)
        /\ warm' \in BOOLEAN /\ faults' \in Nat /\ fed' \in 0 .. Len(StreamedImages)
    BY <2>5 DEF TypeOK
  <2> QED BY <2>1, <2>2, <2>4, <2>6, <2>7, <2>8, Zenon DEF TypeOK
<1>4. ASSUME TopCancelled, UNCHANGED fed PROVE TypeOK'
  <2>1. results' \in Seq(Results)
    BY <1>4, SayTypes DEF TopCancelled, TypeOK
  <2> QED BY <1>4, <2>1 DEF TypeOK, TopCancelled
<1>5. ASSUME TopPoll, UNCHANGED fed PROVE TypeOK'
  <2>1. results' \in Seq(Results)
    BY <1>5, SayTypes DEF TopPoll, TypeOK
  <2>2. pending' \in WorkPair /\ chan' \in [Batches -> [q : Seq(Items), tx : BOOLEAN, rx : BOOLEAN]]
    BY <1>5, StreamedTypes DEF TopPoll, TypeOK
  <2> QED BY <1>5, <2>1, <2>2 DEF TypeOK, TopPoll
<1>6. ASSUME ListCancelled, UNCHANGED fed PROVE TypeOK'
  BY <1>6, SweepTypes DEF TypeOK, ListCancelled
<1>7. ASSUME Spawn, UNCHANGED fed PROVE TypeOK'
  <2>1. Append(Told, Signal("Complete")) \in Seq(Results)
    BY <1>7, BatchTypes, SweepTypes, AnswerTypes, AppendProperties DEF Spawn
  <2>2. Append(Told \o Failed(Swept), Signal("Complete")) \in Seq(Results)
    BY <1>7, BatchTypes, SweepTypes, FailedTypes, AnswerTypes, ConcatProperties, AppendProperties DEF Spawn
  <2>3. results' \in Seq(Results)
    BY <1>7, <2>1, <2>2, SweepTypes DEF Spawn
  <2>4. pending' \in WorkPair /\ completed' \subseteq Items
    BY <1>7, SweepTypes DEF Spawn, TypeOK
  <2>5. child' \in {"none", "up", "hung", "dead"} /\ faults' \in Nat
    BY <1>7 DEF TypeOK, Spawn
  <2> QED BY <1>7, <2>3, <2>4, <2>5, EmptyTypes DEF TypeOK, Spawn
<1>8. ASSUME Burst, UNCHANGED fed PROVE TypeOK'
  <2>1. PICK c \in 0 .. Lesser(BurstSize, Len(pending.cached)), t \in 0 .. Len(pending.tier1) :
            /\ HandOver(sent, FirstOf(pending, c, t))
            /\ pending' = RestOf(pending, c, t)
            /\ faults' \in {faults, faults + 1}
    BY <1>8 DEF Burst
  <2>2. c \in 0 .. Len(pending.cached)
    <3>1. pending.cached \in Seq(Items) /\ pending.tier1 \in Seq(Items) /\ maxJobs \in Nat
      BY PairTypes DEF TypeOK
    <3>2. SizeOf(pending) \in Nat /\ Len(pending.cached) \in Nat
      BY PairTypes DEF TypeOK
    <3>3. BurstSize \in Nat
      BY <3>1, <3>2 DEF Lesser, BurstSize
    <3>4. Lesser(BurstSize, Len(pending.cached)) \in 0 .. Len(pending.cached)
      BY <3>2, <3>3 DEF Lesser
    <3> QED BY <3>2, <3>4
  <2>3. FirstOf(pending, c, t) \in WorkPair /\ pending' \in WorkPair
    BY <2>1, <2>2, PairTypes DEF TypeOK
  <2>4. sent' \in WorkPair /\ work' \subseteq Items
    BY <2>1, <2>3, PairTypes DEF TypeOK, HandOver
  <2> QED BY <1>8, <2>1, <2>3, <2>4 DEF TypeOK, Burst
<1>9. ASSUME LoopCancelled, UNCHANGED fed PROVE TypeOK'
  <2>1. results' \in Seq(Results)
    BY <1>9, SayTypes DEF LoopCancelled, TypeOK
  <2> QED BY <1>9, <2>1 DEF TypeOK, LoopCancelled
<1>10. ASSUME LoopPoll, UNCHANGED fed PROVE TypeOK'
  BY <1>10, EmptyTypes DEF TypeOK, LoopPoll, PausedAfter
<1>11. ASSUME HandleDone, UNCHANGED fed PROVE TypeOK'
  <2>1. Head(evs) \in Events /\ Tail(evs) \in Seq(Events)
    BY <1>11, HeadTailProperties DEF TypeOK, HandleDone
  <2>2. Head(evs).item \in Items
    BY <1>11, <2>1 DEF HandleDone, Events
  <2>3. results' \in Seq(Results)
    BY <1>11, <2>2, SayTypes DEF HandleDone, TypeOK
  <2> QED BY <1>11, <2>1, <2>2, <2>3, SweepTypes, PairTypes DEF TypeOK, HandleDone
<1>12. ASSUME Admit, UNCHANGED fed PROVE TypeOK'
  <2>1. /\ Swept \in WorkPair /\ Told \in Seq(Results) /\ Range(doomed) \subseteq Items
        /\ sent \in WorkPair /\ completed \subseteq Items /\ work \subseteq Items
        /\ chan \in [Batches -> [q : Seq(Items), tx : BOOLEAN, rx : BOOLEAN]]
    BY <1>12, SweepTypes DEF Admit, TypeOK
  <2>2. pc' = "handle" /\ doomed' = <<>> /\ faults' \in {faults, faults + 1}
        /\ UNCHANGED <<guiVars, batch, maxJobs, notified, evs, paused, child, warm, rssDue, evq, quiet>>
    BY <1>12 DEF Admit
  <2>3. ASSUME Feed # <<>>
        PROVE  /\ Head(Feed) \in Items
               /\ [chan EXCEPT ![batch.id].q = Tail(@)] \in [Batches -> [q : Seq(Items), tx : BOOLEAN, rx : BOOLEAN]]
    <3>1. Head(Feed) \in Items /\ Tail(Feed) \in Seq(Items) /\ Feed = chan[batch.id].q
      BY <1>12, <2>3, BatchTypes, HeadTailProperties DEF Admit, Feed
    <3> QED BY <1>12, <3>1, <2>1, BatchTypes DEF Admit
  <2>4. ASSUME Swept.cached # <<>>
        PROVE  FirstOf(Swept, 1, 0) \in WorkPair /\ RestOf(Swept, 1, 0) \in WorkPair
    <3>1. 1 \in 0 .. Len(Swept.cached) /\ 0 \in 0 .. Len(Swept.tier1)
      BY <2>1, <2>4, PairTypes, LenProperties, EmptySeq
    <3> QED BY <2>1, <3>1, PairTypes
  <2>5. ASSUME Swept.tier1 # <<>>
        PROVE  FirstOf(Swept, 0, 1) \in WorkPair /\ RestOf(Swept, 0, 1) \in WorkPair
    <3>1. 0 \in 0 .. Len(Swept.cached) /\ 1 \in 0 .. Len(Swept.tier1)
      BY <2>1, <2>5, PairTypes, LenProperties, EmptySeq
    <3> QED BY <2>1, <3>1, PairTypes
  <2>6. ASSUME NEW q \in WorkPair, HandOver(sent, q) PROVE sent' \in WorkPair /\ work' \subseteq Items
    BY <2>1, <2>6, PairTypes DEF HandOver
  <2>7. ASSUME NEW i \in Items
        PROVE  /\ [NoWork EXCEPT !.tier1 = <<i>>] \in WorkPair
               /\ [Swept EXCEPT !.tier1 = Append(@, i)] \in WorkPair
               /\ Append(Told, Answer(i, "cancelled")) \in Seq(Results)
    <3>1. <<i>> \in Seq(Items)
      OBVIOUS
    <3>2. [NoWork EXCEPT !.tier1 = <<i>>] \in WorkPair
      BY <3>1, EmptyTypes DEF WorkPair
    <3> QED BY <1>12, <2>1, <3>2, PairTypes, SayTypes DEF Admit
  <2>8. /\ pending' \in WorkPair /\ sent' \in WorkPair /\ work' \subseteq Items
        /\ completed' \subseteq Items /\ results' \in Seq(Results)
        /\ chan' \in [Batches -> [q : Seq(Items), tx : BOOLEAN, rx : BOOLEAN]]
    <3>1. PICK F \in Failures :
            LET cachedGoes == MayAdmit /\ Swept.cached # <<>> /\ "cached" \notin F
                wholeTried == MayAdmit /\ ~cachedGoes /\ Swept.tier1 # <<>>
                feedTried  == MayAdmit /\ ~cachedGoes /\ Swept.tier1 = <<>> /\ Feed # <<>>
                next       == Head(Feed)
                done       == completed' = completed \cup Range(doomed) /\ results' = Told
            IN
            \/ /\ cachedGoes /\ done /\ UNCHANGED chan
               /\ HandOver(sent, FirstOf(Swept, 1, 0)) /\ pending' = RestOf(Swept, 1, 0)
            \/ /\ wholeTried /\ done /\ UNCHANGED chan
               /\ \/ pending' = Swept /\ UNCHANGED <<sent, work>>
                  \/ HandOver(sent, FirstOf(Swept, 0, 1)) /\ pending' = RestOf(Swept, 0, 1)
            \/ /\ feedTried
               /\ chan' = [chan EXCEPT ![batch.id].q = Tail(@)]
               /\ \/ /\ pending' = Swept /\ UNCHANGED <<sent, work>>
                     /\ completed' = completed \cup Range(doomed) \cup {next}
                     /\ results' = Append(Told, Answer(next, "cancelled"))
                  \/ /\ done /\ UNCHANGED <<sent, work>>
                     /\ pending' = [Swept EXCEPT !.tier1 = Append(@, next)]
                  \/ /\ done
                     /\ HandOver(sent, [NoWork EXCEPT !.tier1 = <<next>>]) /\ pending' = Swept
            \/ /\ pending' = Swept /\ done /\ UNCHANGED <<chan, sent, work>>
      BY <1>12 DEF Admit
    <3> QED BY <3>1, <2>1, <2>3, <2>4, <2>5, <2>6, <2>7
  <2>9. doomed' \in Seq(Items) /\ batch \in Message
    BY <1>12, <2>2, EmptyTypes DEF Admit, TypeOK
  <2>10. /\ UNCHANGED <<inbox, cancelled, cancelAll, batch, maxJobs, notified, evs, paused,
                        child, warm, rssDue, evq, quiet, fed>>
    BY <1>12, <2>2
  <2> QED BY <2>2, <2>8, <2>9, <2>10 DEF TypeOK
<1>13. ASSUME HandleError, UNCHANGED fed PROVE TypeOK'
  <2>1. Head(evs) \in Events /\ Tail(evs) \in Seq(Events)
    BY <1>13, HeadTailProperties DEF TypeOK, HandleError
  <2>2. Head(evs).item \in Items /\ Head(evs).res \in {"ok", "err", "cancelled"}
    BY <1>13, <2>1 DEF HandleError, Events
  <2>3. results' \in Seq(Results)
    BY <1>13, <2>2, SayTypes DEF HandleError, TypeOK
  <2> QED BY <1>13, <2>1, <2>2, <2>3, PairTypes DEF TypeOK, HandleError
<1>14. ASSUME HandleRss, UNCHANGED fed PROVE TypeOK'
  <2>1. Tail(evs) \in Seq(Events)
    BY <1>14, HeadTailProperties DEF TypeOK, HandleRss
  <2> QED BY <1>14, <2>1 DEF TypeOK, HandleRss
<1>15. ASSUME LoopEnd, UNCHANGED fed PROVE TypeOK'
  <2>1. results' \in Seq(Results)
    BY <1>15, SayTypes DEF LoopEnd, TypeOK
  <2>2. pending' \in WorkPair /\ chan' \in [Batches -> [q : Seq(Items), tx : BOOLEAN, rx : BOOLEAN]]
    BY <1>15, StreamedTypes DEF LoopEnd, TypeOK
  <2> QED BY <1>15, <2>1, <2>2 DEF TypeOK, LoopEnd
<1>16. ASSUME Recover, UNCHANGED fed PROVE TypeOK'
  <2> DEFINE lost  == Without(sent.cached, completed)
             again == Without(sent.tier1, completed)
             queue == [pending EXCEPT !.tier1 = Requeued(again, Feed)]
             told  == results \o AnswerAll(lost, "err")
  <2>1. lost \in Seq(Items) /\ again \in Seq(Items) /\ pending.tier1 \in Seq(Items) /\ Feed \in Seq(Items)
    BY <1>16, PairTypes, WithoutItems, BatchTypes DEF TypeOK, Recover
  <2>2. Requeued(again, Feed) \in Seq(Items)
    <3> HIDE DEF again
    <3> QED BY <2>1, ConcatProperties DEF Requeued
  <2>3. queue \in WorkPair
    BY <2>2 DEF TypeOK, WorkPair
  <2>4. told \in Seq(Results)
    <3> HIDE DEF lost
    <3> QED BY <1>16, <2>1, SayTypes DEF TypeOK, Recover
  <2>5. pending' = queue /\ maxJobs' = Halved(maxJobs) /\ sent' = NoWork /\ child' = "none" /\ ForgetChild
        /\ UNCHANGED <<guiVars, batch, completed, warm, faults>> /\ pc' \in {"return", "top"} /\ pc # "idle"
        /\ results' \in {Append(told \o Failed(queue), Signal("Complete")), Append(told, Signal("Retry"))}
        /\ chan' = IF batch.streams THEN [chan EXCEPT ![batch.id].q = <<>>] ELSE chan
    BY <1>16 DEF Recover
  <2> HIDE DEF queue, told
  <2>6. results' \in Seq(Results)
    <3>1. told \o Failed(queue) \in Seq(Results)
      BY <2>3, <2>4, <2>5, FailedTypes, ConcatProperties
    <3> QED BY <2>4, <2>5, <3>1, SayTypes
  <2>7. chan' \in [Batches -> [q : Seq(Items), tx : BOOLEAN, rx : BOOLEAN]]
    BY <2>5, BatchTypes, EmptyTypes DEF TypeOK
  <2>8. maxJobs' \in Nat \ {0}
    BY <2>5 DEF TypeOK, Halved
  <2>9. /\ sent' \in WorkPair /\ doomed' \in Seq(Items)
        /\ evs' \in Seq(Events) /\ evq' \in Seq(Events)
    BY <2>5, EmptyTypes DEF ForgetChild
  <2>10. /\ work' = {} /\ rssDue' = 0 /\ quiet' = FALSE /\ notified' = {} /\ paused' = FALSE
         /\ UNCHANGED <<inbox, cancelled, cancelAll, batch, completed, warm, faults, fed>>
    BY <1>16, <2>5 DEF ForgetChild
  <2>11. pending' \in WorkPair /\ child' = "none" /\ pc' \in {"return", "top"} /\ batch \in Message
    BY <2>3, <2>5 DEF TypeOK
  <2> QED BY <2>6, <2>7, <2>8, <2>9, <2>10, <2>11 DEF TypeOK
<1> QED BY <1>1, <1>2, <1>3, <1>4, <1>5, <1>6, <1>7, <1>8, <1>9, <1>10, <1>11, <1>12, <1>13, <1>14,
           <1>15, <1>16 DEF Serve, BridgeNext

\* Each step of the child.
LEMMA TypeChild ==
    ASSUME TypeOK, Child
    PROVE  TypeOK'
<1> USE DEF guiVars, stateVars, loopVars, bridgeVars, ChildOnly
<1>1. \A e \in Events : Append(evq, e) \in Seq(Events)
  BY AppendProperties DEF TypeOK
<1>2. ASSUME NEW i \in Items, ChildFinish(i), UNCHANGED fed PROVE TypeOK'
  <2>1. [type |-> "Done", item |-> i] \in Events
        /\ [type |-> "Error", item |-> i, res |-> "err"] \in Events
    BY DEF Events
  <2>2. evq' \in Seq(Events)
    <3>1. \/ evq' = Append(evq, [type |-> "Done", item |-> i])
          \/ evq' = Append(evq, [type |-> "Error", item |-> i, res |-> "err"])
          \/ evq' = evq
      BY <1>2 DEF ChildFinish
    <3> QED BY <1>1, <2>1, <3>1 DEF TypeOK
  <2>3. work' \subseteq Items /\ rssDue' \in Nat
    BY <1>2 DEF ChildFinish, TypeOK
  <2> QED BY <1>2, <2>2, <2>3 DEF TypeOK, ChildFinish
<1>3. ASSUME NEW i \in Items, ChildCancel(i), UNCHANGED fed PROVE TypeOK'
  <2>1. [type |-> "Error", item |-> i, res |-> "cancelled"] \in Events
    BY DEF Events
  <2>2. evq' \in Seq(Events) /\ work' \subseteq Items
    BY <1>1, <1>3, <2>1 DEF ChildCancel, TypeOK
  <2> QED BY <1>3, <2>2 DEF TypeOK, ChildCancel
<1>4. ASSUME ChildRss, UNCHANGED fed PROVE TypeOK'
  <2>1. \A l \in RssLevels : [type |-> "Rss", level |-> l] \in Events
    BY SegBridgeAssumption DEF Events
  <2>2. evq' \in Seq(Events) /\ rssDue' \in Nat
    BY <1>1, <1>4, <2>1 DEF ChildRss, TypeOK
  <2> QED BY <1>4, <2>2 DEF TypeOK, ChildRss
<1>5. ASSUME ChildCrash \/ ChildHang \/ ChildWake \/ Silence, UNCHANGED fed PROVE TypeOK'
  <2>1. child' \in {"none", "up", "hung", "dead"} /\ quiet' \in BOOLEAN
    BY <1>5 DEF TypeOK, ChildCrash, ChildHang, ChildWake, Silence
  <2>3. faults' \in Nat
    <3>1. faults' = faults \/ faults' = faults + 1
      BY <1>5 DEF ChildCrash, ChildHang, ChildWake, Silence
    <3> QED BY <3>1 DEF TypeOK
  <2>2. UNCHANGED <<guiVars, chan, results, bridgeVars, warm, work, rssDue, evq, fed>>
    BY <1>5 DEF ChildCrash, ChildHang, ChildWake, Silence
  <2> QED BY <2>1, <2>2, <2>3 DEF TypeOK
<1> QED BY <1>2, <1>3, <1>4, <1>5 DEF Child, ChildNext

\* Each step of the GUI.
LEMMA TypeGui ==
    ASSUME TypeOK, GuiNext
    PROVE  TypeOK'
<1> USE SegBatchAssumption DEF guiVars, stateVars, loopVars, bridgeVars, childVars, GuiOnly
<1> DEFINE Chan == [q : Seq(Items), tx : BOOLEAN, rx : BOOLEAN]
<1>1. chan \in [{1} -> Chan] /\ fed \in 0 .. Len(StreamedImages)
  BY DEF TypeOK
<1>2. ASSUME GuiStream PROVE TypeOK'
  <2>1. fed' \in 0 .. Len(StreamedImages) /\ StreamedImages[fed + 1] \in Items
    BY <1>1, <1>2, ElementOfSeq, LenProperties DEF GuiStream
  <2>2. Append(chan[1].q, StreamedImages[fed + 1]) \in Seq(Items)
    BY <1>1, <2>1, AppendProperties
  <2>3. chan' \in [{1} -> Chan]
    BY <1>1, <1>2, <2>2 DEF GuiStream
  <2> QED BY <1>2, <2>1, <2>3 DEF TypeOK, GuiStream
<1>3. ASSUME GuiClose PROVE TypeOK'
  <2>1. chan' \in [{1} -> Chan]
    BY <1>1, <1>3 DEF GuiClose
  <2> QED BY <1>3, <2>1 DEF TypeOK, GuiClose
<1>4. ASSUME GuiCancelAll PROVE TypeOK'
  <2>1. chan' \in [{1} -> Chan]
    BY <1>1, <1>4 DEF GuiCancelAll
  <2> QED BY <1>4, <2>1 DEF TypeOK, GuiCancelAll
<1>5. ASSUME NEW i \in Cancels, GuiCancelItem(i) PROVE TypeOK'
  BY <1>5 DEF TypeOK, GuiCancelItem
<1> QED BY <1>2, <1>3, <1>4, <1>5 DEF GuiNext

\* Every reachable state is well-typed, whatever the batch and the faults.
THEOREM TypeCorrect == Spec => []TypeOK
<1>1. TypeOK /\ UNCHANGED vars => TypeOK'
  BY DEF vars, segVars, guiVars, bridgeVars, stateVars, loopVars, childVars, TypeOK
<1>2. TypeOK /\ [Next]_vars => TypeOK'
  BY <1>1, TypeBridge, TypeChild, TypeGui DEF Next
<1> QED BY <1>2, TypeInit, PTL DEF Spec


----------------------------------------------------------------------------
(* What is added to the log of results                                     *)

\* A signal answers nothing.
LEMMA LogSignal ==
    ASSUME NEW log \in Seq(Results), NEW t \in {"Complete", "Cancelled", "Retry"}, batch.id \in Batches
    PROVE  /\ Append(log, Signal(t)) \in Seq(Results)
           /\ AnsweredIn(Append(log, Signal(t))) = AnsweredIn(log)
           /\ OnceIn(log) => OnceIn(Append(log, Signal(t)))
<1> DEFINE new == Append(log, Signal(t))
<1>1. Signal(t) \in Results /\ Signal(t).type # "ItemDone"
  BY AnswerTypes DEF Signal
<1>2. /\ new \in Seq(Results) /\ Len(log) \in Nat /\ DOMAIN log = 1 .. Len(log)
      /\ DOMAIN new = 1 .. Len(log) + 1
      /\ new[Len(log) + 1] = Signal(t)
      /\ \A n \in 1 .. Len(log) : new[n] = log[n]
  BY <1>1, AppendProperties, LenProperties
<1> HIDE DEF new
<1>3. Answers(new) = Answers(log) /\ \A n \in Answers(log) : new[n] = log[n]
  BY <1>1, <1>2 DEF Answers
<1> QED BY <1>2, <1>3 DEF AnsweredIn, OnceIn, new

\* An answer answers its image.
LEMMA LogAnswer ==
    ASSUME NEW log \in Seq(Results), NEW i \in Items, NEW r \in {"ok", "err", "cancelled"},
           batch.id \in Batches
    PROVE  /\ Append(log, Answer(i, r)) \in Seq(Results)
           /\ AnsweredIn(Append(log, Answer(i, r))) = AnsweredIn(log) \cup {i}
           /\ OnceIn(log) /\ i \notin AnsweredIn(log) => OnceIn(Append(log, Answer(i, r)))
<1> DEFINE new == Append(log, Answer(i, r))
<1>1. Answer(i, r) \in Results /\ Answer(i, r).type = "ItemDone" /\ Answer(i, r).item = i
  BY AnswerTypes DEF Answer
<1>2. /\ new \in Seq(Results) /\ Len(log) \in Nat /\ DOMAIN log = 1 .. Len(log)
      /\ DOMAIN new = 1 .. Len(log) + 1
      /\ new[Len(log) + 1] = Answer(i, r)
      /\ \A n \in 1 .. Len(log) : new[n] = log[n]
  BY <1>1, AppendProperties, LenProperties
<1> HIDE DEF new
<1>3. /\ Answers(new) = Answers(log) \cup {Len(log) + 1}
      /\ \A n \in Answers(log) : new[n] = log[n]
      /\ Len(log) + 1 \notin Answers(log)
  BY <1>1, <1>2 DEF Answers
<1>4. AnsweredIn(new) = AnsweredIn(log) \cup {i}
  BY <1>1, <1>2, <1>3 DEF AnsweredIn
<1>5. ASSUME OnceIn(log), i \notin AnsweredIn(log) PROVE OnceIn(new)
  <2>1. \A n \in Answers(log) : new[n].item # i
    BY <1>3, <1>5 DEF AnsweredIn
  <2> QED BY <1>1, <1>2, <1>3, <1>5, <2>1 DEF OnceIn
<1> QED BY <1>2, <1>4, <1>5 DEF new

\* A round of answers answers each image of the round.
LEMMA LogAnswerAll ==
    ASSUME NEW log \in Seq(Results), NEW s \in Seq(Items), NEW r \in {"ok", "err", "cancelled"},
           batch.id \in Batches
    PROVE  /\ log \o AnswerAll(s, r) \in Seq(Results)
           /\ AnsweredIn(log \o AnswerAll(s, r)) = AnsweredIn(log) \cup Range(s)
           /\ OnceIn(log) /\ Distinct(s) /\ Range(s) \cap AnsweredIn(log) = {}
                  => OnceIn(log \o AnswerAll(s, r))
<1> DEFINE round == AnswerAll(s, r)
           new   == log \o round
<1>1. round \in Seq(Results) /\ Len(s) \in Nat /\ DOMAIN s = 1 .. Len(s)
  BY AnswerTypes, LenProperties
<1>2. Len(round) = Len(s) /\ \A n \in 1 .. Len(s) : round[n].type = "ItemDone" /\ round[n].item = s[n]
  <2>1. round = [n \in 1 .. Len(s) |-> Answer(s[n], r)]
    BY <1>1 DEF AnswerAll
  <2>2. DOMAIN round = 1 .. Len(round) /\ Len(round) \in Nat
    BY <1>1, LenProperties
  <2>3. DOMAIN round = 1 .. Len(s)
    BY <2>1
  <2>4. \A m, n \in Nat : 1 .. m = 1 .. n => m = n
    <3>1. ASSUME NEW m \in Nat, NEW n \in Nat, m < n PROVE n \in 1 .. n /\ n \notin 1 .. m
      BY <3>1
    <3> QED BY <3>1
  <2>5. Len(round) = Len(s)
    <3>1. 1 .. Len(round) = 1 .. Len(s)
      BY <2>2, <2>3, Zenon
    <3> QED BY <1>1, <2>2, <2>4, <3>1, Zenon
  <2> QED BY <1>1, <2>1, <2>5 DEF Answer
<1> HIDE DEF round
<1>3. /\ new \in Seq(Results) /\ Len(log) \in Nat /\ DOMAIN log = 1 .. Len(log)
      /\ \A n \in 1 .. Len(log) : n \in DOMAIN new /\ new[n] = log[n]
      /\ \A n \in 1 .. Len(s) : Len(log) + n \in DOMAIN new /\ new[Len(log) + n] = round[n]
      /\ \A n \in DOMAIN new : n \in 1 .. Len(log) \/ \E k \in 1 .. Len(s) : n = Len(log) + k
  BY <1>1, <1>2, ConcatAt, ConcatProperties
<1> HIDE DEF new
<1>4. Answers(new) = Answers(log) \cup {Len(log) + n : n \in 1 .. Len(s)}
  <2>1. ASSUME NEW n \in Answers(new) PROVE n \in Answers(log) \cup {Len(log) + k : k \in 1 .. Len(s)}
    <3>1. n \in DOMAIN new /\ new[n].type = "ItemDone"
      BY DEF Answers
    <3>2. CASE n \in 1 .. Len(log)
      BY <1>3, <3>1, <3>2 DEF Answers
    <3> QED BY <1>3, <3>1, <3>2
  <2>2. ASSUME NEW n \in Answers(log) PROVE n \in Answers(new)
    BY <1>3 DEF Answers
  <2>3. ASSUME NEW n \in 1 .. Len(s) PROVE Len(log) + n \in Answers(new)
    BY <1>2, <1>3 DEF Answers
  <2> QED BY <2>1, <2>2, <2>3
<1>5. \A n \in Answers(log) : new[n].item = log[n].item
  BY <1>3 DEF Answers
<1>6. \A n \in 1 .. Len(s) : new[Len(log) + n].item = s[n]
  BY <1>2, <1>3
<1>7. AnsweredIn(new) = AnsweredIn(log) \cup Range(s)
  <2>1. ASSUME NEW n \in Answers(new) PROVE new[n].item \in AnsweredIn(log) \cup Range(s)
    <3>1. CASE n \in Answers(log)
      BY <3>1, <1>5 DEF AnsweredIn
    <3>2. ASSUME NEW k \in 1 .. Len(s), n = Len(log) + k PROVE new[n].item \in Range(s)
      BY <3>2, <1>1, <1>6 DEF Range
    <3> QED BY <3>1, <3>2, <1>4
  <2>2. ASSUME NEW n \in Answers(log) PROVE log[n].item \in AnsweredIn(new)
    <3>1. n \in Answers(new) /\ log[n].item = new[n].item
      BY <1>4, <1>5
    <3> QED BY <3>1 DEF AnsweredIn
  <2>3. ASSUME NEW n \in 1 .. Len(s) PROVE s[n] \in AnsweredIn(new)
    <3>1. Len(log) + n \in Answers(new) /\ s[n] = new[Len(log) + n].item
      BY <1>4, <1>6
    <3> QED BY <3>1 DEF AnsweredIn
  <2>4. AnsweredIn(new) \subseteq AnsweredIn(log) \cup Range(s)
    BY <2>1 DEF AnsweredIn
  <2>5. AnsweredIn(log) \subseteq AnsweredIn(new)
    BY <2>2 DEF AnsweredIn
  <2>6. Range(s) \subseteq AnsweredIn(new)
    BY <2>3, <1>1 DEF Range
  <2> QED BY <2>4, <2>5, <2>6
<1>8. ASSUME OnceIn(log), Distinct(s), Range(s) \cap AnsweredIn(log) = {} PROVE OnceIn(new)
  <2>1. SUFFICES ASSUME NEW j \in Answers(new), NEW k \in Answers(new), new[j].item = new[k].item
                 PROVE  j = k
    BY DEF OnceIn
  <2>2. \A n \in 1 .. Len(s) : s[n] \in Range(s)
    BY <1>1 DEF Range
  <2>3. CASE j \in Answers(log) /\ k \in Answers(log)
    BY <1>5, <1>8, <2>1, <2>3 DEF OnceIn
  <2>4. ASSUME NEW a \in Answers(log), NEW n \in 1 .. Len(s) PROVE new[a].item # new[Len(log) + n].item
    BY <1>5, <1>6, <1>8, <2>2 DEF AnsweredIn
  <2>5. ASSUME NEW a \in 1 .. Len(s), NEW b \in 1 .. Len(s), j = Len(log) + a, k = Len(log) + b PROVE j = k
    BY <1>1, <1>6, <1>8, <2>1, <2>5 DEF Distinct
  <2> QED BY <1>4, <2>1, <2>3, <2>4, <2>5
<1> QED BY <1>3, <1>7, <1>8 DEF new, round

----------------------------------------------------------------------------
(* The places an image can be in                                           *)

\* The fields of the pairs the bridge builds.
LEMMA PairFields ==
    ASSUME NEW p \in WorkPair
    PROVE  /\ p.cached \in Seq(Items) /\ p.tier1 \in Seq(Items)
           /\ \A S : /\ Drop(p, S).cached = Without(p.cached, S)
                    /\ Drop(p, S).tier1 = Without(p.tier1, S)
                    /\ ItemsOf(Drop(p, S)) = ItemsOf(p) \ S
           /\ \A r \in WorkPair : /\ Join(p, r).cached = p.cached \o r.cached
                                 /\ Join(p, r).tier1 = p.tier1 \o r.tier1
                                 /\ ItemsOf(Join(p, r)) = ItemsOf(p) \cup ItemsOf(r)
           /\ \A s \in Seq(Items) : [p EXCEPT !.tier1 = s].cached = p.cached
                                   /\ [p EXCEPT !.tier1 = s].tier1 = s
           /\ [p EXCEPT !.tier1 = p.tier1] = p
<1>1. p.cached \in Seq(Items) /\ p.tier1 \in Seq(Items)
  BY DEF WorkPair
<1>2. ASSUME NEW S PROVE /\ Drop(p, S).cached = Without(p.cached, S)
                         /\ Drop(p, S).tier1 = Without(p.tier1, S)
                         /\ ItemsOf(Drop(p, S)) = ItemsOf(p) \ S
  <2>1. Range(Without(p.cached, S)) = Range(p.cached) \ S /\ Range(Without(p.tier1, S)) = Range(p.tier1) \ S
    BY <1>1, WithoutItems
  <2>2. Drop(p, S).cached = Without(p.cached, S) /\ Drop(p, S).tier1 = Without(p.tier1, S)
    BY DEF Drop
  <2> QED BY <2>1, <2>2 DEF ItemsOf
<1>3. ASSUME NEW r \in WorkPair PROVE /\ Join(p, r).cached = p.cached \o r.cached
                                      /\ Join(p, r).tier1 = p.tier1 \o r.tier1
                                      /\ ItemsOf(Join(p, r)) = ItemsOf(p) \cup ItemsOf(r)
  <2>1. r.cached \in Seq(Items) /\ r.tier1 \in Seq(Items)
    BY DEF WorkPair
  <2>2. /\ Range(p.cached \o r.cached) = Range(p.cached) \cup Range(r.cached)
        /\ Range(p.tier1 \o r.tier1) = Range(p.tier1) \cup Range(r.tier1)
    BY <1>1, <2>1, ConcatItems
  <2>3. Join(p, r).cached = p.cached \o r.cached /\ Join(p, r).tier1 = p.tier1 \o r.tier1
    BY DEF Join
  <2> QED BY <2>2, <2>3 DEF ItemsOf
<1>4. \A s \in Seq(Items) : [p EXCEPT !.tier1 = s].cached = p.cached /\ [p EXCEPT !.tier1 = s].tier1 = s
  BY DEF WorkPair
<1>5. [p EXCEPT !.tier1 = p.tier1] = p
  BY DEF WorkPair
<1> QED BY <1>1, <1>2, <1>3, <1>4, <1>5

\* An empty pair holds nothing.
LEMMA NoItems ==
    /\ NoWork \in WorkPair /\ NoWork.cached = <<>> /\ NoWork.tier1 = <<>>
    /\ ItemsOf(NoWork) = {}
    /\ Range(<<>>) = {} /\ Distinct(<<>>)
<1>1. NoWork \in WorkPair /\ NoWork.cached = <<>> /\ NoWork.tier1 = <<>>
  BY EmptyTypes DEF NoWork
<1>2. Range(<<>>) = {} /\ Distinct(<<>>)
  BY DEF Range, Distinct
<1> QED BY <1>1, <1>2 DEF ItemsOf

\* A streamed image joins the queue.
LEMMA PlacesTake ==
    ASSUME NEW p \in WorkPair, NEW s \in WorkPair, NEW q \in Seq(Items), NEW A, NEW K,
           Places(p, s, q, A, K), q # <<>>
    PROVE  Places([p EXCEPT !.tier1 = Append(@, Head(q))], s, Tail(q), A, K)
<1> DEFINE r == [p EXCEPT !.tier1 = Append(p.tier1, Head(q))]
<1>1. /\ Head(q) \in Range(q) /\ Head(q) \in Items
      /\ Range(q) = {Head(q)} \cup Range(Tail(q))
      /\ Distinct(q) => Distinct(Tail(q)) /\ Head(q) \notin Range(Tail(q))
  BY TailItems
<1>2. p.tier1 \in Seq(Items)
  BY PairFields
<1>3. /\ Append(p.tier1, Head(q)) \in Seq(Items)
      /\ Range(Append(p.tier1, Head(q))) = Range(p.tier1) \cup {Head(q)}
      /\ Distinct(p.tier1) /\ Head(q) \notin Range(p.tier1) => Distinct(Append(p.tier1, Head(q)))
  BY <1>1, <1>2, AppendItems
<1>4. r.cached = p.cached /\ r.tier1 = Append(p.tier1, Head(q))
  BY <1>3, PairFields
<1> HIDE DEF r
<1>5. Places(r, s, Tail(q), A, K)
  BY <1>1, <1>3, <1>4 DEF Places, ItemsOf
<1> QED BY <1>5 DEF r

\* The cancelled images S leave the queue, and some of them are answered.
LEMMA PlacesSweep ==
    ASSUME NEW p \in WorkPair, NEW s \in WorkPair, NEW q \in Seq(Items), NEW A, NEW K,
           Places(p, s, q, A, K), NEW S, NEW X \in SUBSET (ItemsOf(p) \cap S)
    PROVE  Places(Drop(p, S), s, q, A \cup X, K)
<1> DEFINE r == Drop(p, S)
<1>1. /\ r.cached = Without(p.cached, S) /\ r.tier1 = Without(p.tier1, S)
      /\ p.cached \in Seq(Items) /\ p.tier1 \in Seq(Items)
  BY PairFields
<1> HIDE DEF r
<1>2. /\ Range(r.cached) = Range(p.cached) \ S /\ Range(r.tier1) = Range(p.tier1) \ S
      /\ Distinct(p.cached) => Distinct(r.cached)
      /\ Distinct(p.tier1) => Distinct(r.tier1)
  BY <1>1, WithoutItems
<1>3. Places(r, s, q, A \cup X, K)
  <2>1. /\ Distinct(r.cached) /\ Distinct(s.cached)
        /\ Distinct(r.tier1) /\ Distinct(s.tier1) /\ Distinct(q)
    BY <1>2 DEF Places
  <2>2. /\ Range(r.cached) \cap Range(s.cached) = {}
        /\ Range(r.tier1) \cap Range(s.tier1) = {}
        /\ (Range(r.tier1) \cup Range(s.tier1)) \cap Range(q) = {}
        /\ Range(r.cached) \cup Range(s.cached) \subseteq Range(CachedWork)
        /\ (Range(r.tier1) \cup Range(s.tier1) \cup Range(q)) \cap Range(CachedWork) = {}
    BY <1>2 DEF Places
  <2>3. /\ (ItemsOf(r) \cup ItemsOf(s) \cup Range(q)) \cap (A \cup X) = {}
        /\ ItemsOf(r) \cup ItemsOf(s) \cup Range(q) \cup (A \cup X) \subseteq K
    BY <1>2 DEF Places, ItemsOf
  <2> QED BY <2>1, <2>2, <2>3 DEF Places
<1> QED BY <1>3 DEF r

\* The first images of the queue are handed over.
LEMMA PlacesHandOver ==
    ASSUME NEW p \in WorkPair, NEW s \in WorkPair, NEW q \in Seq(Items), NEW A, NEW K,
           Places(p, s, q, A, K),
           NEW c \in 0 .. Len(p.cached), NEW t \in 0 .. Len(p.tier1)
    PROVE  /\ Places(RestOf(p, c, t), Join(s, FirstOf(p, c, t)), q, A, K)
           /\ FirstOf(p, c, t) \in WorkPair
           /\ ItemsOf(FirstOf(p, c, t)) \subseteq ItemsOf(p)
           /\ ItemsOf(FirstOf(p, c, t)) \cap ItemsOf(s) = {}
<1> DEFINE f == FirstOf(p, c, t)
           r == RestOf(p, c, t)
           j == Join(s, f)
<1>1. f \in WorkPair /\ r \in WorkPair
  BY PairTypes
<1>2. /\ f.cached = SubSeq(p.cached, 1, c) /\ r.cached = SubSeq(p.cached, c + 1, Len(p.cached))
      /\ f.tier1 = SubSeq(p.tier1, 1, t) /\ r.tier1 = SubSeq(p.tier1, t + 1, Len(p.tier1))
  BY DEF FirstOf, RestOf
<1> HIDE DEF f, r
<1>3. /\ j.cached = s.cached \o f.cached /\ j.tier1 = s.tier1 \o f.tier1
      /\ p.cached \in Seq(Items) /\ p.tier1 \in Seq(Items)
      /\ s.cached \in Seq(Items) /\ s.tier1 \in Seq(Items)
      /\ f.cached \in Seq(Items) /\ f.tier1 \in Seq(Items)
  BY <1>1, PairFields
<1> HIDE DEF j
<1>4. /\ Range(p.cached) = Range(f.cached) \cup Range(r.cached)
      /\ Distinct(p.cached) => /\ Distinct(f.cached) /\ Distinct(r.cached)
                               /\ Range(f.cached) \cap Range(r.cached) = {}
  BY <1>2, <1>3, SplitItems
<1>5. /\ Range(p.tier1) = Range(f.tier1) \cup Range(r.tier1)
      /\ Distinct(p.tier1) => /\ Distinct(f.tier1) /\ Distinct(r.tier1)
                              /\ Range(f.tier1) \cap Range(r.tier1) = {}
  BY <1>2, <1>3, SplitItems
<1>6. /\ Range(j.cached) = Range(s.cached) \cup Range(f.cached)
      /\ Distinct(s.cached) /\ Distinct(f.cached) /\ Range(s.cached) \cap Range(f.cached) = {}
             => Distinct(j.cached)
      /\ Range(j.tier1) = Range(s.tier1) \cup Range(f.tier1)
      /\ Distinct(s.tier1) /\ Distinct(f.tier1) /\ Range(s.tier1) \cap Range(f.tier1) = {}
             => Distinct(j.tier1)
  BY <1>3, ConcatItems
<1>7. ItemsOf(f) \subseteq ItemsOf(p) /\ ItemsOf(f) \cap ItemsOf(s) = {}
  BY <1>4, <1>5 DEF Places, ItemsOf
<1>8. /\ Distinct(r.cached) /\ Distinct(j.cached)
      /\ Distinct(r.tier1) /\ Distinct(j.tier1) /\ Distinct(q)
  BY <1>4, <1>5, <1>6 DEF Places
<1>9. /\ Range(r.cached) \cap Range(j.cached) = {}
      /\ Range(r.tier1) \cap Range(j.tier1) = {}
      /\ (Range(r.tier1) \cup Range(j.tier1)) \cap Range(q) = {}
      /\ Range(r.cached) \cup Range(j.cached) \subseteq Range(CachedWork)
      /\ (Range(r.tier1) \cup Range(j.tier1) \cup Range(q)) \cap Range(CachedWork) = {}
  BY <1>4, <1>5, <1>6 DEF Places
<1>10. /\ (ItemsOf(r) \cup ItemsOf(j) \cup Range(q)) \cap A = {}
       /\ ItemsOf(r) \cup ItemsOf(j) \cup Range(q) \cup A \subseteq K
  BY <1>4, <1>5, <1>6 DEF Places, ItemsOf
<1>11. Places(r, j, q, A, K)
  BY <1>8, <1>9, <1>10 DEF Places
<1> QED BY <1>1, <1>7, <1>11 DEF f, r, j

\* An image in flight is answered.
LEMMA PlacesSettle ==
    ASSUME NEW p \in WorkPair, NEW s \in WorkPair, NEW q \in Seq(Items), NEW A, NEW K,
           Places(p, s, q, A, K), NEW i \in ItemsOf(s)
    PROVE  Places(p, Drop(s, {i}), q, A \cup {i}, K) /\ i \notin A
<1> DEFINE r == Drop(s, {i})
<1>1. /\ r.cached = Without(s.cached, {i}) /\ r.tier1 = Without(s.tier1, {i})
      /\ s.cached \in Seq(Items) /\ s.tier1 \in Seq(Items)
  BY PairFields
<1> HIDE DEF r
<1>2. /\ Range(r.cached) = Range(s.cached) \ {i} /\ Range(r.tier1) = Range(s.tier1) \ {i}
      /\ Distinct(s.cached) => Distinct(r.cached)
      /\ Distinct(s.tier1) => Distinct(r.tier1)
  BY <1>1, WithoutItems
<1>3. i \in Range(s.cached) \cup Range(s.tier1)
  BY DEF ItemsOf
<1>4. /\ Distinct(p.cached) /\ Distinct(r.cached)
      /\ Distinct(p.tier1) /\ Distinct(r.tier1) /\ Distinct(q)
  BY <1>2 DEF Places
<1>5. /\ Range(p.cached) \cap Range(r.cached) = {}
      /\ Range(p.tier1) \cap Range(r.tier1) = {}
      /\ (Range(p.tier1) \cup Range(r.tier1)) \cap Range(q) = {}
      /\ Range(p.cached) \cup Range(r.cached) \subseteq Range(CachedWork)
      /\ (Range(p.tier1) \cup Range(r.tier1) \cup Range(q)) \cap Range(CachedWork) = {}
  BY <1>2 DEF Places
<1>6. i \notin Range(p.cached) \cup Range(p.tier1) \cup Range(q)
  BY <1>3 DEF Places
<1>7. /\ (ItemsOf(p) \cup ItemsOf(r) \cup Range(q)) \cap (A \cup {i}) = {}
      /\ ItemsOf(p) \cup ItemsOf(r) \cup Range(q) \cup (A \cup {i}) \subseteq K
      /\ i \notin A
  BY <1>2, <1>3, <1>6 DEF Places, ItemsOf
<1> QED BY <1>4, <1>5, <1>7 DEF Places, r

\* A streamed image is sent to the child at once.
LEMMA PlacesSend ==
    ASSUME NEW p \in WorkPair, NEW s \in WorkPair, NEW q \in Seq(Items), NEW A, NEW K,
           Places(p, s, q, A, K), q # <<>>
    PROVE  LET one == [NoWork EXCEPT !.tier1 = <<Head(q)>>]
           IN  /\ Places(p, Join(s, one), Tail(q), A, K)
               /\ one \in WorkPair
               /\ ItemsOf(one) \subseteq Items /\ ItemsOf(one) \cap ItemsOf(s) = {}
<1> DEFINE one == [NoWork EXCEPT !.tier1 = <<Head(q)>>]
           j == Join(s, one)
<1>1. /\ Head(q) \in Range(q) /\ Head(q) \in Items
      /\ Range(q) = {Head(q)} \cup Range(Tail(q))
      /\ Distinct(q) => Distinct(Tail(q)) /\ Head(q) \notin Range(Tail(q))
  BY TailItems
<1>2. /\ <<Head(q)>> \in Seq(Items) /\ Range(<<Head(q)>>) = {Head(q)} /\ Distinct(<<Head(q)>>)
  BY <1>1 DEF Range, Distinct
<1>3. one.cached = <<>> /\ one.tier1 = <<Head(q)>> /\ one \in WorkPair
  BY <1>2, NoItems DEF WorkPair
<1> HIDE DEF one
<1>4. /\ j.cached = s.cached \o <<>> /\ j.tier1 = s.tier1 \o <<Head(q)>>
      /\ s.cached \in Seq(Items) /\ s.tier1 \in Seq(Items)
  <2>1. j.cached = s.cached \o one.cached /\ j.tier1 = s.tier1 \o one.tier1
    BY <1>3, PairFields
  <2>2. s.cached \in Seq(Items) /\ s.tier1 \in Seq(Items)
    BY PairFields
  <2> QED BY <1>3, <2>1, <2>2, Zenon
<1> HIDE DEF j
<1>5. j.cached = s.cached
  BY <1>4, ConcatEmptySeq
<1>6. /\ Range(j.tier1) = Range(s.tier1) \cup {Head(q)}
      /\ Distinct(s.tier1) /\ Head(q) \notin Range(s.tier1) => Distinct(j.tier1)
  <2>1. \A u \in Seq(Items) :
            /\ Range(s.tier1 \o u) = Range(s.tier1) \cup Range(u)
            /\ Distinct(s.tier1) /\ Distinct(u) /\ Range(s.tier1) \cap Range(u) = {}
                   => Distinct(s.tier1 \o u)
    BY <1>4, ConcatItems
  <2>2. /\ Range(j.tier1) = Range(s.tier1) \cup Range(<<Head(q)>>)
        /\ Distinct(s.tier1) /\ Range(s.tier1) \cap Range(<<Head(q)>>) = {} => Distinct(j.tier1)
    BY <1>2, <1>4, <2>1, Zenon
  <2> QED BY <1>2, <2>2
<1>7. ItemsOf(one) = {Head(q)}
  BY <1>2, <1>3, NoItems DEF ItemsOf
<1>8. Head(q) \notin ItemsOf(s)
  BY <1>1 DEF Places, ItemsOf
<1>9. Places(p, j, Tail(q), A, K)
  BY <1>1, <1>5, <1>6 DEF Places, ItemsOf
<1> QED BY <1>1, <1>3, <1>7, <1>8, <1>9 DEF one, j

\* A streamed image is answered without being queued.
LEMMA PlacesTurnAway ==
    ASSUME NEW p \in WorkPair, NEW s \in WorkPair, NEW q \in Seq(Items), NEW A, NEW K,
           Places(p, s, q, A, K), q # <<>>
    PROVE  /\ Places(p, s, Tail(q), A \cup {Head(q)}, K)
           /\ Head(q) \notin A /\ Head(q) \in Items
<1>1. /\ Head(q) \in Range(q) /\ Head(q) \in Items
      /\ Range(q) = {Head(q)} \cup Range(Tail(q))
      /\ Distinct(q) => Distinct(Tail(q)) /\ Head(q) \notin Range(Tail(q))
  BY TailItems
<1>2. Head(q) \notin Range(p.cached) \cup Range(p.tier1) \cup Range(s.cached) \cup Range(s.tier1)
  BY <1>1 DEF Places
<1>3. Head(q) \notin A /\ Head(q) \in K
  BY <1>1 DEF Places
<1> QED BY <1>1, <1>2, <1>3 DEF Places, ItemsOf

\* The child is lost: what it had of whole images goes back in front, and its
\* cached work is answered.
LEMMA PlacesRecover ==
    ASSUME NEW p \in WorkPair, NEW s \in WorkPair, NEW q \in Seq(Items), NEW A, NEW K,
           Places(p, s, q, A, K), NEW C
    PROVE  LET again == Without(s.tier1, C)
               lost  == Without(s.cached, C)
           IN  /\ Places([p EXCEPT !.tier1 = again \o p.tier1 \o q], NoWork, <<>>, A \cup Range(lost), K)
               /\ Places([p EXCEPT !.tier1 = again \o p.tier1], NoWork, q, A \cup Range(lost), K)
               /\ lost \in Seq(Items) /\ Distinct(lost) /\ Range(lost) \cap A = {}
               /\ again \o p.tier1 \o q \in Seq(Items) /\ again \o p.tier1 \in Seq(Items)
<1> DEFINE again == Without(s.tier1, C)
           lost  == Without(s.cached, C)
           front == again \o p.tier1
           line  == front \o q
           r1 == [p EXCEPT !.tier1 = line]
           r2 == [p EXCEPT !.tier1 = front]
<1>1. /\ p.cached \in Seq(Items) /\ p.tier1 \in Seq(Items)
      /\ s.cached \in Seq(Items) /\ s.tier1 \in Seq(Items)
  BY PairFields
<1>2. /\ again \in Seq(Items) /\ Range(again) = Range(s.tier1) \ C
      /\ Distinct(s.tier1) => Distinct(again)
      /\ lost \in Seq(Items) /\ Range(lost) = Range(s.cached) \ C
      /\ Distinct(s.cached) => Distinct(lost)
  BY <1>1, WithoutItems
<1> HIDE DEF again, lost
<1>3. /\ front \in Seq(Items) /\ Range(front) = Range(again) \cup Range(p.tier1)
      /\ Distinct(again) /\ Distinct(p.tier1) /\ Range(again) \cap Range(p.tier1) = {}
             => Distinct(front)
  BY <1>1, <1>2, ConcatItems
<1> HIDE DEF front
<1>4. /\ line \in Seq(Items) /\ Range(line) = Range(front) \cup Range(q)
      /\ Distinct(front) /\ Distinct(q) /\ Range(front) \cap Range(q) = {} => Distinct(line)
  BY <1>3, ConcatItems
<1> HIDE DEF line
<1>5. r1.cached = p.cached /\ r1.tier1 = line /\ r2.cached = p.cached /\ r2.tier1 = front
  BY <1>3, <1>4, PairFields
<1> HIDE DEF r1, r2
<1>6. Distinct(front) /\ Distinct(line) /\ Distinct(lost)
  BY <1>2, <1>3, <1>4 DEF Places
<1>7. Range(lost) \cap (A \cup Range(p.cached) \cup Range(p.tier1) \cup Range(s.tier1) \cup Range(q)) = {}
      /\ Range(lost) \subseteq K
  BY <1>2 DEF Places, ItemsOf
<1>8. Places(r1, NoWork, <<>>, A \cup Range(lost), K)
  <2>1. /\ Range(r1.cached) \subseteq Range(CachedWork) /\ Range(r1.tier1) \cap Range(CachedWork) = {}
    BY <1>2, <1>3, <1>4, <1>5 DEF Places
  <2>2. /\ ItemsOf(r1) \cap (A \cup Range(lost)) = {}
        /\ ItemsOf(r1) \cup A \cup Range(lost) \subseteq K
    BY <1>2, <1>3, <1>4, <1>5, <1>7 DEF Places, ItemsOf
  <2>3. Distinct(r1.cached) /\ Distinct(r1.tier1)
    BY <1>5, <1>6 DEF Places
  <2> QED BY <2>1, <2>2, <2>3, NoItems DEF Places
<1>9. Places(r2, NoWork, q, A \cup Range(lost), K)
  <2>1. /\ Range(r2.cached) \subseteq Range(CachedWork)
        /\ (Range(r2.tier1) \cup Range(q)) \cap Range(CachedWork) = {}
        /\ Range(r2.tier1) \cap Range(q) = {}
    BY <1>2, <1>3, <1>5 DEF Places
  <2>2. /\ (ItemsOf(r2) \cup Range(q)) \cap (A \cup Range(lost)) = {}
        /\ ItemsOf(r2) \cup Range(q) \cup A \cup Range(lost) \subseteq K
    BY <1>2, <1>3, <1>5, <1>7 DEF Places, ItemsOf
  <2>3. Distinct(r2.cached) /\ Distinct(r2.tier1) /\ Distinct(q)
    BY <1>5, <1>6 DEF Places
  <2> QED BY <2>1, <2>2, <2>3, NoItems DEF Places
<1>10. Range(lost) \cap A = {}
  BY <1>7
<1> QED BY <1>2, <1>3, <1>4, <1>6, <1>8, <1>9, <1>10 DEF again, lost, front, line, r1, r2

\* A new image is streamed.
LEMMA PlacesFeed ==
    ASSUME NEW p \in WorkPair, NEW s \in WorkPair, NEW q \in Seq(Items), NEW A, NEW K,
           Places(p, s, q, A, K), NEW i \in Items, i \notin K, i \notin Range(CachedWork)
    PROVE  /\ Places(p, s, Append(q, i), A, K \cup {i})
           /\ Places(p, s, q, A, K \cup {i})
<1>1. /\ Range(Append(q, i)) = Range(q) \cup {i}
      /\ Distinct(q) /\ i \notin Range(q) => Distinct(Append(q, i))
  BY AppendItems
<1>2. i \notin ItemsOf(p) \cup ItemsOf(s) \cup Range(q) \cup A
  BY DEF Places
<1>3. Distinct(Append(q, i))
  BY <1>1, <1>2 DEF Places
<1>4. i \notin Range(p.tier1) \cup Range(s.tier1)
  BY <1>2 DEF ItemsOf
<1>5. Places(p, s, q, A, K \cup {i})
  BY DEF Places
<1>6. Places(p, s, Append(q, i), A, K \cup {i})
  <2>1. /\ (Range(p.tier1) \cup Range(s.tier1)) \cap Range(Append(q, i)) = {}
        /\ (Range(p.tier1) \cup Range(s.tier1) \cup Range(Append(q, i))) \cap Range(CachedWork) = {}
    BY <1>1, <1>4 DEF Places
  <2>2. /\ (ItemsOf(p) \cup ItemsOf(s) \cup Range(Append(q, i))) \cap A = {}
        /\ ItemsOf(p) \cup ItemsOf(s) \cup Range(Append(q, i)) \cup A \subseteq K \cup {i}
    BY <1>1, <1>2 DEF Places
  <2> QED BY <1>3, <2>1, <2>2 DEF Places
<1> QED BY <1>5, <1>6

\* Everything queued is answered with an error: each image once, and none
\* that was answered before.
LEMMA PlacesFailed ==
    ASSUME NEW p \in WorkPair, NEW s \in WorkPair, NEW q \in Seq(Items), NEW A, NEW K,
           Places(p, s, q, A, K), NEW C
    PROVE  LET all == Without(p.tier1, C) \o p.cached
           IN  all \in Seq(Items) /\ Distinct(all) /\ Range(all) \cap A = {}
<1> DEFINE t == Without(p.tier1, C)
           all == t \o p.cached
<1>1. p.cached \in Seq(Items) /\ p.tier1 \in Seq(Items)
  BY PairFields
<1>2. /\ t \in Seq(Items) /\ Range(t) = Range(p.tier1) \ C
      /\ Distinct(p.tier1) => Distinct(t)
  BY <1>1, WithoutItems
<1> HIDE DEF t
<1>3. /\ all \in Seq(Items) /\ Range(all) = Range(t) \cup Range(p.cached)
      /\ Distinct(t) /\ Distinct(p.cached) /\ Range(t) \cap Range(p.cached) = {} => Distinct(all)
  BY <1>1, <1>2, ConcatItems
<1> HIDE DEF all
<1>4. Distinct(t) /\ Distinct(p.cached) /\ Range(t) \cap Range(p.cached) = {}
  BY <1>2 DEF Places
<1>5. Range(all) \cap A = {}
  BY <1>2, <1>3 DEF Places, ItemsOf
<1> QED BY <1>3, <1>4, <1>5 DEF all, t

\* Before the batch is taken, its images are where classification put them.
LEMMA PlacesStart ==
    ASSUME NEW K, Range(CachedWork) \cup Range(WholeImages) \subseteq K
    PROVE  Places([cached |-> CachedWork, tier1 |-> WholeImages], NoWork, <<>>, {}, K)
<1> USE SegBatchAssumption
<1> DEFINE two == CachedWork \o WholeImages
           all == two \o StreamedImages
           p   == [cached |-> CachedWork, tier1 |-> WholeImages]
<1>1. Distinct(all) /\ two \in Seq(Items)
  BY ConcatProperties DEF IsInjective, Distinct
<1> HIDE DEF all
<1>2. /\ DOMAIN two = 1 .. Len(two)
      /\ \A n \in 1 .. Len(two) : n \in DOMAIN all /\ all[n] = two[n]
  BY <1>1, ConcatAt DEF all
<1>3. Distinct(two)
  BY <1>1, <1>2 DEF Distinct
<1> HIDE DEF two
<1>4. /\ DOMAIN CachedWork = 1 .. Len(CachedWork) /\ DOMAIN WholeImages = 1 .. Len(WholeImages)
      /\ Len(CachedWork) \in Nat /\ Len(WholeImages) \in Nat
      /\ \A n \in 1 .. Len(CachedWork) : n \in DOMAIN two /\ two[n] = CachedWork[n]
      /\ \A n \in 1 .. Len(WholeImages) :
             Len(CachedWork) + n \in DOMAIN two /\ two[Len(CachedWork) + n] = WholeImages[n]
  BY ConcatAt DEF two
<1>5. Distinct(CachedWork)
  BY <1>3, <1>4 DEF Distinct
<1>6. Distinct(WholeImages)
  <2>1. SUFFICES ASSUME NEW m \in DOMAIN WholeImages, NEW n \in DOMAIN WholeImages,
                        WholeImages[m] = WholeImages[n]
                 PROVE  m = n
    BY DEF Distinct
  <2>2. Len(CachedWork) + m = Len(CachedWork) + n
    BY <1>3, <1>4, <2>1 DEF Distinct
  <2> QED BY <1>4, <2>2
<1>7. Range(CachedWork) \cap Range(WholeImages) = {}
  <2>1. SUFFICES ASSUME NEW m \in DOMAIN CachedWork, NEW n \in DOMAIN WholeImages,
                        CachedWork[m] = WholeImages[n]
                 PROVE  FALSE
    BY DEF Range
  <2>2. m = Len(CachedWork) + n
    BY <1>3, <1>4, <2>1 DEF Distinct
  <2> QED BY <1>4, <2>2
<1>8. p.cached = CachedWork /\ p.tier1 = WholeImages
  OBVIOUS
<1> HIDE DEF p
<1> QED BY <1>5, <1>6, <1>7, <1>8, NoItems DEF Places, ItemsOf, p

----------------------------------------------------------------------------
(* The events on their way to the bridge                                   *)

\* The bridge handles the first event.
LEMMA ReportedTail ==
    ASSUME NEW es \in Seq(Events), NEW S, NEW w, Reported(es, S, w), es # <<>>
    PROVE  /\ Reported(Tail(es), S, w)
           /\ Head(es).type # "Rss" => /\ Head(es).item \in S \ w
                                      /\ Reported(Tail(es), S \ {Head(es).item}, w)
<1> DEFINE u == Tail(es)
<1>1. /\ u \in Seq(Events) /\ Len(u) = Len(es) - 1 /\ Head(es) = es[1]
      /\ \A n \in 1 .. Len(es) - 1 : u[n] = es[n + 1]
      /\ Len(es) \in Nat \ {0} /\ DOMAIN es = 1 .. Len(es) /\ DOMAIN u = 1 .. Len(es) - 1
  <2>1. u \in Seq(Events) /\ Len(u) = Len(es) - 1 /\ \A n \in 1 .. Len(u) : u[n] = es[n + 1]
    BY HeadTailProperties
  <2>2. Len(es) \in Nat \ {0} /\ DOMAIN es = 1 .. Len(es)
    BY LenProperties, EmptySeq
  <2>3. DOMAIN u = 1 .. Len(u)
    BY <2>1, LenProperties
  <2>4. Head(es) = es[1]
    BY HeadTailProperties
  <2> QED BY <2>1, <2>2, <2>3, <2>4
<1> HIDE DEF u
<1>2. ASSUME NEW n \in About(u) PROVE n + 1 \in About(es) /\ u[n] = es[n + 1] /\ n + 1 # 1 /\ n \in Nat
  <2>1. n \in 1 .. Len(es) - 1 /\ u[n].type # "Rss" /\ u[n] = es[n + 1]
    BY <1>1 DEF About
  <2>2. n + 1 \in 1 .. Len(es) /\ n + 1 # 1 /\ n \in Nat
    BY <1>1, <2>1
  <2> QED BY <1>1, <2>1, <2>2 DEF About
<1>3. Reported(u, S, w)
  BY <1>2 DEF Reported
<1>4. ASSUME Head(es).type # "Rss"
      PROVE  Head(es).item \in S \ w /\ Reported(u, S \ {Head(es).item}, w)
  <2>1. 1 \in About(es)
    BY <1>1, <1>4 DEF About
  <2>2. Head(es).item \in S \ w /\ w \subseteq S
    BY <1>1, <2>1 DEF Reported
  <2>3. ASSUME NEW n \in About(u) PROVE u[n].item # Head(es).item
    BY <1>1, <1>2, <2>1 DEF Reported
  <2> QED BY <1>3, <2>2, <2>3 DEF Reported
<1> QED BY <1>3, <1>4 DEF u

\* The child says something more: of an image it was working on, or of its memory.
LEMMA ReportedAppend ==
    ASSUME NEW es \in Seq(Events), NEW S, NEW w, Reported(es, S, w), NEW e \in Events
    PROVE  /\ e.type = "Rss" => Reported(Append(es, e), S, w)
           /\ e.type # "Rss" /\ e.item \in w => Reported(Append(es, e), S, w \ {e.item})
           /\ \A i : Reported(es, S, w \ {i})
<1> DEFINE u == Append(es, e)
<1>1. /\ DOMAIN es = 1 .. Len(es) /\ Len(es) \in Nat /\ DOMAIN u = 1 .. Len(es) + 1
      /\ u[Len(es) + 1] = e
      /\ \A n \in 1 .. Len(es) : u[n] = es[n]
  BY AppendProperties, LenProperties
<1> HIDE DEF u
<1>2. \A n \in About(es) : n \in About(u) /\ u[n] = es[n] /\ n # Len(es) + 1
  BY <1>1 DEF About
<1>3. \A n \in About(u) : n \in About(es) \/ n = Len(es) + 1
  BY <1>1 DEF About
<1>4. ASSUME e.type = "Rss" PROVE Reported(u, S, w)
  <2>1. Len(es) + 1 \notin About(u)
    BY <1>1, <1>4 DEF About
  <2> QED BY <1>2, <1>3, <2>1 DEF Reported
<1>5. ASSUME e.type # "Rss", e.item \in w PROVE Reported(u, S, w \ {e.item})
  <2>1. w \ {e.item} \subseteq S /\ e.item \in S
    BY <1>5 DEF Reported
  <2>2. \A n \in About(es) : es[n].item # e.item /\ es[n].item \in S \ w
    BY <1>5 DEF Reported
  <2>3. \A n \in About(u) : u[n].item \in S \ (w \ {e.item})
    BY <1>1, <1>2, <1>3, <2>1, <2>2
  <2>4. ASSUME NEW m \in About(u), NEW n \in About(u), u[m].item = u[n].item PROVE m = n
    <3>1. CASE m \in About(es) /\ n \in About(es)
      BY <1>2, <2>4, <3>1 DEF Reported
    <3>2. CASE m \in About(es) /\ n = Len(es) + 1
      BY <1>1, <1>2, <2>2, <2>4, <3>2
    <3>3. CASE m = Len(es) + 1 /\ n \in About(es)
      BY <1>1, <1>2, <2>2, <2>4, <3>3
    <3> QED BY <1>3, <3>1, <3>2, <3>3
  <2> QED BY <2>1, <2>3, <2>4 DEF Reported
<1>6. \A i : Reported(es, S, w \ {i})
  BY DEF Reported
<1> QED BY <1>4, <1>5, <1>6 DEF u

\* More work is handed over.
LEMMA ReportedMore ==
    ASSUME NEW es, NEW S, NEW w, Reported(es, S, w), NEW X, X \cap S = {}
    PROVE  Reported(es, S \cup X, w \cup X)
BY DEF Reported

\* Nothing is on its way.
LEMMA ReportedNone == \A S : Reported(<<>> \o <<>>, S, {})
<1>1. <<>> \o <<>> = <<>>
  BY ConcatEmptySeq, EmptySeq
<1>2. About(<<>>) = {}
  BY DEF About
<1> QED BY <1>1, <1>2 DEF Reported

\* Moving along the two queues of events.
LEMMA EventQueues ==
    ASSUME NEW a \in Seq(Events), NEW b \in Seq(Events)
    PROVE  /\ a \o b \in Seq(Events)
           /\ <<>> \o b = b /\ b \o <<>> = b
           /\ \A e \in Events : a \o Append(b, e) = Append(a \o b, e)
           /\ a # <<>> => Tail(a) \o b = Tail(a \o b) /\ Head(a \o b) = Head(a) /\ a \o b # <<>>
<1>1. a \o b \in Seq(Events) /\ <<>> \o b = b /\ b \o <<>> = b
  BY ConcatProperties, ConcatEmptySeq
<1>2. ASSUME NEW e \in Events PROVE a \o Append(b, e) = Append(a \o b, e)
  OBVIOUS
<1>3. ASSUME a # <<>> PROVE Tail(a) \o b = Tail(a \o b) /\ Head(a \o b) = Head(a) /\ a \o b # <<>>
  <2> DEFINE c == a \o b
             d == Tail(a)
  <2>1. /\ c \in Seq(Events) /\ Len(c) = Len(a) + Len(b)
        /\ \A n \in 1 .. Len(a) + Len(b) : c[n] = IF n <= Len(a) THEN a[n] ELSE b[n - Len(a)]
        /\ Len(a) \in Nat \ {0} /\ Len(b) \in Nat
    BY <1>3, ConcatProperties, LenProperties, EmptySeq
  <2> HIDE DEF c
  <2>2. c # <<>>
    BY <2>1, EmptySeq
  <2>3. /\ Head(a) = a[1] /\ Head(c) = c[1]
        /\ d \in Seq(Events) /\ Len(d) = Len(a) - 1 /\ \A n \in 1 .. Len(d) : d[n] = a[n + 1]
        /\ Tail(c) \in Seq(Events) /\ Len(Tail(c)) = Len(c) - 1
        /\ \A n \in 1 .. Len(Tail(c)) : Tail(c)[n] = c[n + 1]
    BY <1>3, <2>1, <2>2, HeadTailProperties
  <2> HIDE DEF d
  <2>4. /\ d \o b \in Seq(Events) /\ Len(d \o b) = Len(d) + Len(b)
        /\ \A n \in 1 .. Len(d) + Len(b) : (d \o b)[n] = IF n <= Len(d) THEN d[n] ELSE b[n - Len(d)]
    BY <2>3, ConcatProperties
  <2>5. ASSUME NEW n \in 1 .. Len(d) + Len(b) PROVE (d \o b)[n] = Tail(c)[n]
    <3>1. /\ n \in 1 .. Len(Tail(c)) /\ n + 1 \in 1 .. Len(a) + Len(b)
          /\ n <= Len(d) <=> n + 1 <= Len(a)
          /\ n <= Len(d) => n \in 1 .. Len(d)
          /\ n - Len(d) = (n + 1) - Len(a)
      BY <2>1, <2>3
    <3> QED BY <2>1, <2>3, <2>4, <3>1
  <2>6. d \o b = Tail(c)
    <3>1. Len(d \o b) = Len(Tail(c))
      BY <2>1, <2>3, <2>4
    <3> QED BY <2>3, <2>4, <2>5, <3>1, SeqEqual
  <2>7. Head(c) = Head(a)
    BY <2>1, <2>3
  <2> QED BY <2>2, <2>6, <2>7 DEF c, d
<1> QED BY <1>1, <1>2, <1>3

----------------------------------------------------------------------------
(* The state between two steps                                             *)

\* What every step of a batch may count on.
LEMMA Serving ==
    ASSUME TypeOK, OneAnswerInv, pc # "idle"
    PROVE  /\ inbox = <<>> /\ batch.id = 1 /\ batch.id \in Batches
           /\ Feed \in Seq(Items) /\ chan[1].q \in Seq(Items)
           /\ IF batch.streams THEN Feed = chan[1].q ELSE Feed = <<>>
           /\ pending \in WorkPair /\ sent \in WorkPair /\ results \in Seq(Results)
           /\ evs \in Seq(Events) /\ evq \in Seq(Events)
<1>1. inbox = <<>>
  BY DEF OneAnswerInv, InboxInv
<1>2. batch.id \in Batches /\ Feed \in Seq(Items) /\ chan[batch.id].q \in Seq(Items)
  BY BatchTypes
<1>3. batch.id = 1
  BY <1>2, SegBatchAssumption
<1>4. IF batch.streams THEN Feed = chan[1].q ELSE Feed = <<>>
  BY <1>3 DEF Feed
<1> QED BY <1>1, <1>2, <1>3, <1>4 DEF TypeOK

\* A streamed image that the bridge takes.
LEMMA TakesStreamed ==
    ASSUME TypeOK, OneAnswerInv, pc \notin {"idle", "return"}, TakeStreamed
    PROVE  /\ Feed = chan[1].q /\ chan[1].q # <<>>
           /\ chan'[1].q = Tail(chan[1].q)
           /\ Places(pending', sent, chan'[1].q, AnsweredIn(results), Asked)
<1>1. /\ Feed = chan[1].q /\ chan[1].q # <<>> /\ batch.id = 1
      /\ pending \in WorkPair /\ sent \in WorkPair /\ chan[1].q \in Seq(Items)
  BY Serving DEF TakeStreamed
<1>2. chan'[1].q = Tail(chan[1].q)
  <2>1. chan \in [Batches -> [q : Seq(Items), tx : BOOLEAN, rx : BOOLEAN]] /\ 1 \in Batches
    BY SegBatchAssumption DEF TypeOK
  <2> QED BY <1>1, <2>1 DEF TakeStreamed
<1>3. pending' = [pending EXCEPT !.tier1 = Append(@, Head(chan[1].q))]
  BY <1>1 DEF TakeStreamed
<1>4. Places(pending, sent, chan[1].q, AnsweredIn(results), Asked)
  BY DEF OneAnswerInv, PlacesInv
<1>5. Places([pending EXCEPT !.tier1 = Append(@, Head(chan[1].q))], sent, Tail(chan[1].q),
             AnsweredIn(results), Asked)
  BY <1>1, <1>4, PlacesTake
<1> QED BY <1>1, <1>2, <1>3, <1>5

\* The first look at the registry lists images that are queued and cancelled.
LEMMA ListedItems ==
    ASSUME TypeOK, NEW A, NEW K, NEW s, NEW q, Places(pending, s, q, A, K)
    PROVE  Distinct(Listed) /\ Range(Listed) \subseteq ItemsOf(pending) \cap Stopped
<1> DEFINE all == pending.tier1 \o pending.cached
<1>1. pending.cached \in Seq(Items) /\ pending.tier1 \in Seq(Items)
  BY PairFields DEF TypeOK
<1>2. /\ all \in Seq(Items) /\ Range(all) = Range(pending.tier1) \cup Range(pending.cached)
      /\ Distinct(pending.tier1) /\ Distinct(pending.cached)
         /\ Range(pending.tier1) \cap Range(pending.cached) = {} => Distinct(all)
  BY <1>1, ConcatItems
<1> HIDE DEF all
<1>3. Range(all) \subseteq Items
  BY <1>2, RangeOfSeq
<1>4. Distinct(all)
  BY <1>2 DEF Places
<1>5. Listed = Without(all, Items \ Stopped)
  BY DEF Listed, all
<1>6. Range(Listed) = Range(all) \ (Items \ Stopped) /\ Distinct(Listed)
  BY <1>2, <1>4, <1>5, WithoutItems
<1> QED BY <1>2, <1>3, <1>6 DEF ItemsOf

\* The second look answers what was listed, and takes it off the queue.
LEMMA SweepSays ==
    ASSUME TypeOK, OneAnswerInv, pc \in {"spawn", "admit"}
    PROVE  /\ Swept \in WorkPair /\ Told \in Seq(Results)
           /\ OnceIn(Told)
           /\ Places(Swept, sent, chan[1].q, AnsweredIn(Told), Asked)
<1>1. /\ pending \in WorkPair /\ sent \in WorkPair /\ chan[1].q \in Seq(Items)
      /\ results \in Seq(Results) /\ batch.id \in Batches /\ doomed \in Seq(Items)
  BY Serving DEF TypeOK
<1>2. Swept \in WorkPair /\ Told \in Seq(Results)
  BY SweepTypes
<1>3. /\ Places(pending, sent, chan[1].q, AnsweredIn(results), Asked) /\ OnceIn(results)
      /\ Distinct(doomed) /\ Range(doomed) \subseteq ItemsOf(pending) \cap Stopped
  BY DEF OneAnswerInv, PlacesInv, DoomedInv
<1>4. Range(doomed) \cap AnsweredIn(results) = {}
  BY <1>3 DEF Places
<1>5. AnsweredIn(Told) = AnsweredIn(results) \cup Range(doomed) /\ OnceIn(Told)
  BY <1>1, <1>3, <1>4, LogAnswerAll DEF Told
<1>6. CASE doomed = <<>>
  BY <1>2, <1>3, <1>5, <1>6, NoItems DEF Swept
<1>7. CASE doomed # <<>>
  <2>1. Swept = Drop(pending, Stopped)
    BY <1>7 DEF Swept
  <2>2. Places(Drop(pending, Stopped), sent, chan[1].q, AnsweredIn(results) \cup Range(doomed), Asked)
    BY <1>1, <1>3, PlacesSweep
  <2> QED BY <1>2, <1>5, <2>1, <2>2
<1> QED BY <1>6, <1>7

----------------------------------------------------------------------------
(* Each step keeps the invariant                                           *)

\* The initial states have it.
LEMMA OneAnswerInit == Init => OneAnswerInv
<1> SUFFICES ASSUME Init PROVE OneAnswerInv
  OBVIOUS
<1>1. /\ results = <<>> /\ pc = "idle" /\ sent = NoWork /\ evs = <<>> /\ evq = <<>> /\ work = {}
      /\ doomed = <<>> /\ chan = [b \in Batches |-> [q |-> <<>>, tx |-> Streams, rx |-> Streams]]
      /\ NotTaken
  BY DEF Init, NotTaken
<1>2. OnceIn(results)
  BY <1>1 DEF OnceIn, Answers
<1>3. chan[1].q = <<>>
  BY <1>1, SegBatchAssumption
<1>4. ReportedInv
  BY <1>1, ReportedNone DEF ReportedInv
<1> QED BY <1>1, <1>2, <1>3, <1>4 DEF OneAnswerInv, InboxInv, PlacesInv, StartInv, DoomedInv

\* The message loop: a batch is taken, the warm child released, a batch left.
LEMMA OneAnswerLoop ==
    ASSUME TypeOK, OneAnswerInv, UNCHANGED fed,
           (\E match \in BOOLEAN : TakeBatch(match)) \/ ReleaseWarm \/ EndBatch
    PROVE  OneAnswerInv'
<1> USE DEF guiVars, stateVars, loopVars, bridgeVars, childVars
<1>1. ASSUME inbox # <<>>, pc = "idle"
      PROVE  /\ results = <<>> /\ chan[1].q = <<>> /\ sent = NoWork /\ evs = <<>>
             /\ OnceIn(results) /\ Reported(evs \o evq, InFlight, work)
             /\ \E jobs \in JobChoices :
                    \/ inbox = <<BatchMessage(jobs)>>
                    \/ inbox = <<[type |-> "ReleaseWarm"], BatchMessage(jobs)>>
  BY <1>1 DEF OneAnswerInv, InboxInv, NotTaken, StartInv, ReportedInv
<1>2. ASSUME NEW match \in BOOLEAN, TakeBatch(match) PROVE OneAnswerInv'
  <2>1. /\ pc = "idle" /\ inbox # <<>> /\ Head(inbox).type = "Batch" /\ inbox' = Tail(inbox) /\ pc' = "top"
        /\ pending' = [cached |-> Head(inbox).batch.cached, tier1 |-> Head(inbox).batch.tier1]
        /\ UNCHANGED <<chan, results, sent, evs, evq, work, fed>>
    BY <1>2 DEF TakeBatch
  <2>2. PICK jobs \in JobChoices : inbox = <<BatchMessage(jobs)>>
    BY <1>1, <2>1
  <2>3. Head(inbox) = BatchMessage(jobs) /\ Tail(inbox) = <<>>
    BY <2>2
  <2>4. pending' = [cached |-> CachedWork, tier1 |-> WholeImages]
    BY <2>1, <2>3 DEF BatchMessage
  <2>5. Range(CachedWork) \cup Range(WholeImages) \subseteq Asked
    BY DEF Asked
  <2>6. AnsweredIn(results) = {}
    BY <1>1, <2>1 DEF AnsweredIn, Answers
  <2>7. Places(pending', sent, chan[1].q, AnsweredIn(results), Asked)
    BY <1>1, <2>1, <2>4, <2>5, <2>6, PlacesStart
  <2>8. Asked' = Asked /\ InFlight' = InFlight
    BY <2>1 DEF Asked, InFlight
  <2> QED BY <1>1, <2>1, <2>3, <2>7, <2>8
             DEF OneAnswerInv, InboxInv, PlacesInv, StartInv, DoomedInv, ReportedInv
<1>3. ASSUME ReleaseWarm PROVE OneAnswerInv'
  <2>1. /\ pc = "idle" /\ inbox # <<>> /\ Head(inbox).type = "ReleaseWarm" /\ inbox' = Tail(inbox)
        /\ UNCHANGED <<pc, chan, results, sent, evs, evq, work, fed>>
    BY <1>3 DEF ReleaseWarm
  <2>2. PICK jobs \in JobChoices :
            inbox \in {<<BatchMessage(jobs)>>, <<[type |-> "ReleaseWarm"], BatchMessage(jobs)>>}
    BY <1>1, <2>1
  <2>3. CASE inbox = <<BatchMessage(jobs)>>
    <3>1. Head(inbox).type = "Batch"
      BY <2>3 DEF BatchMessage
    <3> QED BY <2>1, <3>1
  <2>4. CASE inbox = <<[type |-> "ReleaseWarm"], BatchMessage(jobs)>>
    <3>1. inbox' = <<BatchMessage(jobs)>>
      BY <2>1, <2>4
    <3>2. NotTaken'
      BY <3>1 DEF NotTaken
    <3>3. InFlight' = InFlight
      BY <2>1 DEF InFlight
    <3> QED BY <1>1, <2>1, <3>2, <3>3
               DEF OneAnswerInv, InboxInv, PlacesInv, StartInv, DoomedInv, ReportedInv
  <2> QED BY <2>2, <2>3, <2>4
<1>4. ASSUME EndBatch PROVE OneAnswerInv'
  <2>1. pc = "return" /\ pc' = "idle" /\ sent' = NoWork /\ work' = {} /\ evs' = <<>> /\ evq' = <<>>
    BY <1>4 DEF EndBatch, ForgetChild
  <2>2. UNCHANGED <<inbox, results>>
    BY <1>4 DEF EndBatch
  <2>3. inbox = <<>> /\ OnceIn(results)
    BY <2>1, Serving DEF OneAnswerInv
  <2>4. Reported(evs' \o evq', InFlight', work')
    BY <2>1, ReportedNone
  <2> QED BY <2>1, <2>2, <2>3, <2>4
             DEF OneAnswerInv, InboxInv, PlacesInv, StartInv, DoomedInv, ReportedInv
<1> QED BY <1>2, <1>3, <1>4

\* The steps that end the batch: nothing is asked of the bridge's state after them.
LEMMA OneAnswerReturn ==
    ASSUME TypeOK, OneAnswerInv, pc # "idle", pc' = "return", UNCHANGED inbox, OnceIn(results')
    PROVE  OneAnswerInv'
BY Serving DEF OneAnswerInv, InboxInv, PlacesInv, StartInv, DoomedInv, ReportedInv

\* Before a child is running.
LEMMA OneAnswerStart ==
    ASSUME TypeOK, OneAnswerInv, UNCHANGED fed,
           TopCancelled \/ TopPoll \/ ListCancelled \/ Spawn \/ Burst
    PROVE  OneAnswerInv'
<1> USE DEF guiVars, stateVars, loopVars, bridgeVars, childVars
<1>1. ASSUME pc \in {"top", "list", "spawn", "burst"}
      PROVE  /\ inbox = <<>> /\ sent = NoWork /\ evs = <<>> /\ OnceIn(results)
             /\ Reported(evs \o evq, InFlight, work)
             /\ Places(pending, sent, chan[1].q, AnsweredIn(results), Asked)
             /\ results \in Seq(Results) /\ batch.id \in Batches /\ pc # "idle"
  BY <1>1, Serving DEF OneAnswerInv, InboxInv, PlacesInv, StartInv, ReportedInv
<1>2. Asked' = Asked
  BY DEF Asked
<1>3. ASSUME TopCancelled PROVE OneAnswerInv'
  <2>1. pc = "top" /\ pc' = "return" /\ UNCHANGED inbox /\ results' = Append(results, Signal("Cancelled"))
    BY <1>3 DEF TopCancelled
  <2>2. OnceIn(results')
    BY <1>1, <2>1, LogSignal
  <2> QED BY <2>1, <2>2, OneAnswerReturn
<1>4. ASSUME TopPoll PROVE OneAnswerInv'
  <2>1. pc = "top" /\ UNCHANGED <<inbox, sent, evs, evq, work>>
    BY <1>4 DEF TopPoll
  <2>2. InFlight' = InFlight
    BY <2>1 DEF InFlight
  <2>3. CASE SizeOf(pending) > 0 /\ pc' = "list" /\ UNCHANGED <<chan, results, pending>>
    BY <1>1, <1>2, <2>1, <2>2, <2>3
       DEF OneAnswerInv, InboxInv, PlacesInv, StartInv, DoomedInv, ReportedInv
  <2>4. CASE TakeStreamed /\ pc' = "list" /\ UNCHANGED results
    <3>1. Places(pending', sent, chan'[1].q, AnsweredIn(results), Asked)
      BY <2>1, <2>4, TakesStreamed
    <3> QED BY <1>1, <1>2, <2>1, <2>2, <2>4, <3>1
               DEF OneAnswerInv, InboxInv, PlacesInv, StartInv, DoomedInv, ReportedInv
  <2>5. CASE results' = Append(results, Signal("Complete")) /\ pc' = "return"
    <3>1. OnceIn(results')
      BY <1>1, <2>1, <2>5, LogSignal
    <3> QED BY <2>1, <2>5, <3>1, OneAnswerReturn
  <2> QED BY <1>4, <2>3, <2>4, <2>5 DEF TopPoll
<1>5. ASSUME ListCancelled PROVE OneAnswerInv'
  <2>1. /\ pc = "list" /\ pc' = "spawn" /\ doomed' = Listed
        /\ UNCHANGED <<inbox, cancelled, cancelAll, chan, results, pending, sent, evs, evq, work>>
    BY <1>5 DEF ListCancelled
  <2>2. Distinct(Listed) /\ Range(Listed) \subseteq ItemsOf(pending) \cap Stopped
    BY <1>1, <2>1, ListedItems
  <2>3. InFlight' = InFlight /\ Stopped' = Stopped
    BY <2>1 DEF InFlight, Stopped
  <2>4. DoomedInv'
    BY <2>1, <2>2, <2>3 DEF DoomedInv
  <2> QED BY <1>1, <1>2, <2>1, <2>3, <2>4
             DEF OneAnswerInv, InboxInv, PlacesInv, StartInv, ReportedInv
<1>6. ASSUME Spawn PROVE OneAnswerInv'
  <2>1. /\ pc = "spawn" /\ pending' = Swept
        /\ UNCHANGED <<inbox, chan, sent, evs, evq, work>>
    BY <1>6 DEF Spawn
  <2>2. InFlight' = InFlight
    BY <2>1 DEF InFlight
  <2>3. /\ Swept \in WorkPair /\ Told \in Seq(Results) /\ OnceIn(Told)
        /\ Places(Swept, sent, chan[1].q, AnsweredIn(Told), Asked)
    BY <2>1, SweepSays
  <2>4. CASE results' = Append(Told, Signal("Complete")) /\ pc' = "return"
    <3>1. OnceIn(results')
      BY <1>1, <2>1, <2>3, <2>4, LogSignal
    <3> QED BY <2>1, <2>4, <3>1, OneAnswerReturn
  <2>5. CASE results' = Told /\ pc' = "burst"
    BY <1>1, <1>2, <2>1, <2>2, <2>3, <2>5
       DEF OneAnswerInv, InboxInv, PlacesInv, StartInv, DoomedInv, ReportedInv
  <2>6. CASE results' = Append(Told \o Failed(Swept), Signal("Complete")) /\ pc' = "return"
    <3> DEFINE all == Without(Swept.tier1, completed) \o Swept.cached
    <3>1. all \in Seq(Items) /\ Distinct(all) /\ Range(all) \cap AnsweredIn(Told) = {}
      BY <2>1, <2>3, Serving, PlacesFailed
    <3> HIDE DEF all
    <3>2. Told \o AnswerAll(all, "err") \in Seq(Results) /\ OnceIn(Told \o AnswerAll(all, "err"))
      BY <1>1, <2>1, <2>3, <3>1, LogAnswerAll
    <3>3. results' = Append(Told \o AnswerAll(all, "err"), Signal("Complete"))
      BY <2>6 DEF Failed, all
    <3>4. OnceIn(results')
      BY <1>1, <2>1, <3>2, <3>3, LogSignal
    <3> QED BY <2>1, <2>6, <3>4, OneAnswerReturn
  <2> QED BY <1>6, <2>4, <2>5, <2>6 DEF Spawn
<1>7. ASSUME Burst PROVE OneAnswerInv'
  <2>1. /\ pc = "burst" /\ pc' = "head" /\ UNCHANGED <<inbox, chan, results, evs, evq>>
    BY <1>7 DEF Burst
  <2>2. PICK c \in 0 .. Lesser(BurstSize, Len(pending.cached)), t \in 0 .. Len(pending.tier1) :
            HandOver(sent, FirstOf(pending, c, t)) /\ pending' = RestOf(pending, c, t)
    BY <1>7 DEF Burst
  <2>3. c \in 0 .. Len(pending.cached)
    <3>1. SizeOf(pending) \in Nat /\ Len(pending.cached) \in Nat /\ maxJobs \in Nat
      BY PairTypes DEF TypeOK
    <3>2. BurstSize \in Nat
      BY <3>1 DEF Lesser, BurstSize
    <3>3. Lesser(BurstSize, Len(pending.cached)) \in 0 .. Len(pending.cached)
      BY <3>1, <3>2 DEF Lesser
    <3> QED BY <3>1, <3>3
  <2> DEFINE f == FirstOf(pending, c, t)
  <2>4. /\ Places(RestOf(pending, c, t), Join(sent, f), chan[1].q, AnsweredIn(results), Asked)
        /\ f \in WorkPair /\ ItemsOf(f) \cap ItemsOf(sent) = {}
    BY <1>1, <2>1, <2>3, Serving, PlacesHandOver
  <2>5. sent' = Join(sent, f) /\ work' = work \cup ItemsOf(f) /\ pending' = RestOf(pending, c, t)
    BY <2>2 DEF HandOver
  <2> HIDE DEF f
  <2>6. ItemsOf(Join(sent, f)) = ItemsOf(sent) \cup ItemsOf(f)
    BY <2>1, <2>4, Serving, PairFields
  <2>7. InFlight' = InFlight \cup ItemsOf(f) /\ ItemsOf(f) \cap InFlight = {}
    BY <2>4, <2>5, <2>6 DEF InFlight
  <2>8. Reported(evs' \o evq', InFlight', work')
    BY <1>1, <2>1, <2>5, <2>7, ReportedMore
  <2> QED BY <1>1, <1>2, <2>1, <2>4, <2>5, <2>8
             DEF OneAnswerInv, InboxInv, PlacesInv, StartInv, DoomedInv, ReportedInv
<1> QED BY <1>3, <1>4, <1>5, <1>6, <1>7

\* The bridge handles what the child said of an image: the image is answered.
LEMMA OneAnswerSettles ==
    ASSUME TypeOK, OneAnswerInv, UNCHANGED <<fed, inbox, chan, pending, evq, work>>,
           pc = "handle", pc' \in {"handle", "admit"}, evs # <<>>, Head(evs).type # "Rss",
           NEW r \in {"ok", "err", "cancelled"},
           sent' = Drop(sent, {Head(evs).item}), evs' = Tail(evs),
           results' = Append(results, Answer(Head(evs).item, r)),
           DoomedInv'
    PROVE  OneAnswerInv'
<1> DEFINE i == Head(evs).item
<1>1. /\ inbox = <<>> /\ batch.id \in Batches /\ chan[1].q \in Seq(Items)
      /\ pending \in WorkPair /\ sent \in WorkPair /\ results \in Seq(Results)
      /\ evs \in Seq(Events) /\ evq \in Seq(Events)
  BY Serving
<1>2. /\ evs \o evq \in Seq(Events) /\ evs \o evq # <<>>
      /\ Tail(evs) \o evq = Tail(evs \o evq) /\ Head(evs \o evq) = Head(evs)
  BY <1>1, EventQueues
<1>3. /\ Reported(evs \o evq, InFlight, work) /\ OnceIn(results)
      /\ Places(pending, sent, chan[1].q, AnsweredIn(results), Asked)
  BY DEF OneAnswerInv, PlacesInv, ReportedInv
<1>4. i \in InFlight /\ Reported(Tail(evs \o evq), InFlight \ {i}, work)
  BY <1>2, <1>3, ReportedTail
<1>5. i \in ItemsOf(sent) /\ i \in Items
  BY <1>1, <1>4, PairTypes DEF InFlight
<1>6. Places(pending, Drop(sent, {i}), chan[1].q, AnsweredIn(results) \cup {i}, Asked)
      /\ i \notin AnsweredIn(results)
  BY <1>1, <1>3, <1>5, PlacesSettle
<1>7. AnsweredIn(results') = AnsweredIn(results) \cup {i} /\ OnceIn(results')
  BY <1>1, <1>3, <1>5, <1>6, LogAnswer
<1>8. InFlight' = InFlight \ {i}
  BY <1>1, PairFields DEF InFlight
<1>9. Reported(evs' \o evq', InFlight', work')
  BY <1>2, <1>4, <1>8
<1>10. Asked' = Asked
  BY DEF Asked
<1> QED BY <1>1, <1>6, <1>7, <1>9, <1>10 DEF OneAnswerInv, InboxInv, PlacesInv, StartInv, ReportedInv

\* One child's life, but for the admission of more work.
LEMMA OneAnswerLife ==
    ASSUME TypeOK, OneAnswerInv, UNCHANGED fed,
           LoopCancelled \/ LoopPoll \/ HandleDone \/ HandleError \/ HandleRss \/ LoopEnd
    PROVE  OneAnswerInv'
<1> USE DEF guiVars, stateVars, loopVars, bridgeVars, childVars
<1>1. ASSUME pc \in {"head", "handle"}
      PROVE  /\ inbox = <<>> /\ OnceIn(results)
             /\ (pc = "head" => evs = <<>>)
             /\ Reported(evs \o evq, InFlight, work)
             /\ Places(pending, sent, chan[1].q, AnsweredIn(results), Asked)
             /\ results \in Seq(Results) /\ batch.id \in Batches /\ pc # "idle"
             /\ evs \in Seq(Events) /\ evq \in Seq(Events)
  BY <1>1, Serving DEF OneAnswerInv, InboxInv, PlacesInv, StartInv, ReportedInv
<1>2. Asked' = Asked
  BY DEF Asked
<1>3. ASSUME LoopCancelled PROVE OneAnswerInv'
  <2>1. pc = "head" /\ pc' = "return" /\ UNCHANGED inbox /\ results' = Append(results, Signal("Cancelled"))
    BY <1>3 DEF LoopCancelled
  <2>2. OnceIn(results')
    BY <1>1, <2>1, LogSignal
  <2> QED BY <2>1, <2>2, OneAnswerReturn
<1>4. ASSUME LoopPoll PROVE OneAnswerInv'
  <2>1. /\ pc = "head" /\ pc' = "handle" /\ evs' = evq /\ evq' = <<>>
        /\ UNCHANGED <<inbox, chan, results, pending, sent, work>>
    BY <1>4 DEF LoopPoll
  <2>2. evs' \o evq' = evs \o evq
    BY <1>1, <2>1, EventQueues
  <2>3. InFlight' = InFlight
    BY <2>1 DEF InFlight
  <2> QED BY <1>1, <1>2, <2>1, <2>2, <2>3
             DEF OneAnswerInv, InboxInv, PlacesInv, StartInv, DoomedInv, ReportedInv
<1>5. ASSUME HandleDone PROVE OneAnswerInv'
  <2>1. /\ pc = "handle" /\ pc' = "admit" /\ evs # <<>> /\ Head(evs).type = "Done"
        /\ sent' = Drop(sent, {Head(evs).item}) /\ evs' = Tail(evs)
        /\ results' = Append(results, Answer(Head(evs).item, "ok"))
        /\ doomed' = Listed
        /\ UNCHANGED <<fed, inbox, cancelled, cancelAll, chan, pending, evq, work>>
    BY <1>5 DEF HandleDone
  <2>2. Distinct(Listed) /\ Range(Listed) \subseteq ItemsOf(pending) \cap Stopped
    BY <1>1, <2>1, ListedItems
  <2>3. DoomedInv'
    BY <2>1, <2>2 DEF DoomedInv, Stopped
  <2> QED BY <2>1, <2>3, OneAnswerSettles
<1>6. ASSUME HandleError PROVE OneAnswerInv'
  <2>1. /\ pc = "handle" /\ pc' = "handle" /\ evs # <<>> /\ Head(evs).type = "Error"
        /\ sent' = Drop(sent, {Head(evs).item}) /\ evs' = Tail(evs)
        /\ results' = Append(results, Answer(Head(evs).item, Head(evs).res))
        /\ UNCHANGED <<fed, inbox, chan, pending, evq, work>>
    BY <1>6 DEF HandleError
  <2>2. Head(evs) \in Events
    BY <1>1, <2>1, HeadTailProperties
  <2>3. Head(evs).res \in {"ok", "err", "cancelled"}
    BY <2>1, <2>2 DEF Events
  <2>4. DoomedInv'
    BY <2>1 DEF DoomedInv
  <2> QED BY <2>1, <2>3, <2>4, OneAnswerSettles
<1>7. ASSUME HandleRss PROVE OneAnswerInv'
  <2>1. /\ pc = "handle" /\ evs # <<>> /\ evs' = Tail(evs)
        /\ UNCHANGED <<inbox, chan, results, pc, pending, sent, evq, work>>
    BY <1>7 DEF HandleRss
  <2>2. Reported(Tail(evs) \o evq, InFlight, work)
    <3>1. /\ evs \o evq \in Seq(Events) /\ evs \o evq # <<>>
          /\ Tail(evs) \o evq = Tail(evs \o evq)
      BY <1>1, <2>1, EventQueues
    <3>2. Reported(evs \o evq, InFlight, work)
      BY <1>1, <2>1
    <3>3. Reported(Tail(evs \o evq), InFlight, work)
      BY <3>1, <3>2, ReportedTail
    <3> QED BY <3>1, <3>3
  <2>3. InFlight' = InFlight
    BY <2>1 DEF InFlight
  <2> QED BY <1>1, <1>2, <2>1, <2>2, <2>3
             DEF OneAnswerInv, InboxInv, PlacesInv, StartInv, DoomedInv, ReportedInv
<1>8. ASSUME LoopEnd PROVE OneAnswerInv'
  <2>1. pc = "handle" /\ evs = <<>> /\ UNCHANGED <<inbox, sent, evs, evq, work>>
    BY <1>8 DEF LoopEnd
  <2>2. InFlight' = InFlight
    BY <2>1 DEF InFlight
  <2>3. CASE results' = Append(results, Signal("Complete")) /\ pc' = "return"
    <3>1. OnceIn(results')
      BY <1>1, <2>1, <2>3, LogSignal
    <3> QED BY <2>1, <2>3, <3>1, OneAnswerReturn
  <2>4. CASE TakeStreamed /\ pc' = "head" /\ UNCHANGED results
    <3>1. Places(pending', sent, chan'[1].q, AnsweredIn(results), Asked)
      BY <2>1, <2>4, TakesStreamed
    <3> QED BY <1>1, <1>2, <2>1, <2>2, <2>4, <3>1
               DEF OneAnswerInv, InboxInv, PlacesInv, StartInv, DoomedInv, ReportedInv
  <2>5. CASE pc' = "head" /\ UNCHANGED <<chan, results, pending>>
    BY <1>1, <1>2, <2>1, <2>2, <2>5
       DEF OneAnswerInv, InboxInv, PlacesInv, StartInv, DoomedInv, ReportedInv
  <2> QED BY <1>8, <2>3, <2>4, <2>5 DEF LoopEnd
<1> QED BY <1>3, <1>4, <1>5, <1>6, <1>7, <1>8

\* A handover while a child's events are being handled.
LEMMA OneAnswerHandsOver ==
    ASSUME TypeOK, OneAnswerInv, UNCHANGED <<fed, inbox, evs, evq>>,
           pc = "admit", pc' = "handle",
           NEW q \in WorkPair, HandOver(sent, q), ItemsOf(q) \cap InFlight = {},
           OnceIn(results'),
           Places(pending', Join(sent, q), chan'[1].q, AnsweredIn(results'), Asked)
    PROVE  OneAnswerInv'
<1>1. /\ inbox = <<>> /\ sent \in WorkPair /\ Reported(evs \o evq, InFlight, work)
  BY Serving DEF OneAnswerInv, ReportedInv
<1>2. sent' = Join(sent, q) /\ work' = work \cup ItemsOf(q)
  BY DEF HandOver
<1>3. InFlight' = InFlight \cup ItemsOf(q)
  BY <1>1, <1>2, PairFields DEF InFlight
<1>4. Reported(evs' \o evq', InFlight', work')
  BY <1>1, <1>2, <1>3, ReportedMore
<1>5. Asked' = Asked
  BY DEF Asked
<1> QED BY <1>1, <1>2, <1>4, <1>5 DEF OneAnswerInv, InboxInv, PlacesInv, StartInv, DoomedInv, ReportedInv

\* An admission that sends nothing.
LEMMA OneAnswerKeeps ==
    ASSUME TypeOK, OneAnswerInv, UNCHANGED <<fed, inbox, evs, evq, sent, work>>,
           pc = "admit", pc' = "handle",
           OnceIn(results'),
           Places(pending', sent, chan'[1].q, AnsweredIn(results'), Asked)
    PROVE  OneAnswerInv'
<1>1. inbox = <<>> /\ Reported(evs \o evq, InFlight, work)
  BY Serving DEF OneAnswerInv, ReportedInv
<1>2. InFlight' = InFlight /\ Asked' = Asked
  BY DEF InFlight, Asked
<1> QED BY <1>1, <1>2 DEF OneAnswerInv, InboxInv, PlacesInv, StartInv, DoomedInv, ReportedInv

\* The admission of more work.
LEMMA OneAnswerAdmit ==
    ASSUME TypeOK, OneAnswerInv, UNCHANGED fed, Admit
    PROVE  OneAnswerInv'
<1> DEFINE q == chan[1].q
<1>1. /\ pc = "admit" /\ pc' = "handle" /\ UNCHANGED <<inbox, evs, evq>>
  BY DEF Admit, guiVars
<1>2. /\ inbox = <<>> /\ batch.id = 1 /\ batch.id \in Batches
      /\ q \in Seq(Items) /\ sent \in WorkPair
      /\ Feed # <<>> => Feed = q
      /\ Swept \in WorkPair /\ Told \in Seq(Results) /\ OnceIn(Told)
      /\ Places(Swept, sent, q, AnsweredIn(Told), Asked)
  BY <1>1, Serving, SweepSays
<1> HIDE DEF q
<1>3. ASSUME NEW c \in 0 .. Len(Swept.cached), NEW t \in 0 .. Len(Swept.tier1),
             HandOver(sent, FirstOf(Swept, c, t)), pending' = RestOf(Swept, c, t),
             results' = Told, UNCHANGED chan
      PROVE  OneAnswerInv'
  <2>1. /\ Places(RestOf(Swept, c, t), Join(sent, FirstOf(Swept, c, t)), q, AnsweredIn(Told), Asked)
        /\ FirstOf(Swept, c, t) \in WorkPair
        /\ ItemsOf(FirstOf(Swept, c, t)) \cap InFlight = {}
    BY <1>2, PlacesHandOver DEF InFlight
  <2> QED BY <1>1, <1>2, <1>3, <2>1, OneAnswerHandsOver DEF q
<1>4. ASSUME Feed # <<>>, chan' = [chan EXCEPT ![batch.id].q = Tail(@)]
      PROVE  Feed = q /\ q # <<>> /\ chan'[1].q = Tail(q)
  <2>1. chan \in [Batches -> [q : Seq(Items), tx : BOOLEAN, rx : BOOLEAN]] /\ 1 \in Batches
    BY SegBatchAssumption DEF TypeOK
  <2> QED BY <1>2, <1>4, <2>1 DEF q
<1>5. ASSUME Feed # <<>>, chan' = [chan EXCEPT ![batch.id].q = Tail(@)],
             pending' = Swept, UNCHANGED <<sent, work>>,
             results' = Append(Told, Answer(Head(Feed), "cancelled"))
      PROVE  OneAnswerInv'
  <2>1. /\ Places(Swept, sent, Tail(q), AnsweredIn(Told) \cup {Head(q)}, Asked)
        /\ Head(q) \notin AnsweredIn(Told) /\ Head(q) \in Items
    BY <1>2, <1>4, <1>5, PlacesTurnAway
  <2>2. AnsweredIn(results') = AnsweredIn(Told) \cup {Head(q)} /\ OnceIn(results')
    BY <1>2, <1>4, <1>5, <2>1, LogAnswer
  <2> QED BY <1>1, <1>4, <1>5, <2>1, <2>2, OneAnswerKeeps
<1>6. ASSUME Feed # <<>>, chan' = [chan EXCEPT ![batch.id].q = Tail(@)], results' = Told,
             pending' = [Swept EXCEPT !.tier1 = Append(@, Head(Feed))], UNCHANGED <<sent, work>>
      PROVE  OneAnswerInv'
  <2>1. Places([Swept EXCEPT !.tier1 = Append(@, Head(q))], sent, Tail(q), AnsweredIn(Told), Asked)
    BY <1>2, <1>4, <1>6, PlacesTake
  <2> QED BY <1>1, <1>2, <1>4, <1>6, <2>1, OneAnswerKeeps
<1>7. ASSUME Feed # <<>>, chan' = [chan EXCEPT ![batch.id].q = Tail(@)], results' = Told,
             pending' = Swept, HandOver(sent, [NoWork EXCEPT !.tier1 = <<Head(Feed)>>])
      PROVE  OneAnswerInv'
  <2> DEFINE one == [NoWork EXCEPT !.tier1 = <<Head(q)>>]
  <2>1. /\ Places(Swept, Join(sent, one), Tail(q), AnsweredIn(Told), Asked)
        /\ one \in WorkPair /\ ItemsOf(one) \cap InFlight = {}
    BY <1>2, <1>4, <1>7, PlacesSend DEF InFlight
  <2>2. HandOver(sent, one)
    BY <1>4, <1>7
  <2> HIDE DEF one
  <2> QED BY <1>1, <1>2, <1>4, <1>7, <2>1, <2>2, OneAnswerHandsOver
<1>8. ASSUME pending' = Swept, results' = Told, UNCHANGED <<chan, sent, work>> PROVE OneAnswerInv'
  BY <1>1, <1>2, <1>8, OneAnswerKeeps DEF q
<1>9. ASSUME Swept.cached # <<>> PROVE 1 \in 0 .. Len(Swept.cached) /\ 0 \in 0 .. Len(Swept.tier1)
  BY <1>2, <1>9, PairTypes, LenProperties, EmptySeq
<1>10. ASSUME Swept.tier1 # <<>> PROVE 0 \in 0 .. Len(Swept.cached) /\ 1 \in 0 .. Len(Swept.tier1)
  BY <1>2, <1>10, PairTypes, LenProperties, EmptySeq
<1>11. \/ /\ Swept.cached # <<>> /\ results' = Told /\ UNCHANGED chan
          /\ HandOver(sent, FirstOf(Swept, 1, 0)) /\ pending' = RestOf(Swept, 1, 0)
       \/ /\ Swept.tier1 # <<>> /\ results' = Told /\ UNCHANGED chan
          /\ HandOver(sent, FirstOf(Swept, 0, 1)) /\ pending' = RestOf(Swept, 0, 1)
       \/ /\ Feed # <<>> /\ chan' = [chan EXCEPT ![batch.id].q = Tail(@)]
          /\ \/ /\ pending' = Swept /\ UNCHANGED <<sent, work>>
                /\ results' = Append(Told, Answer(Head(Feed), "cancelled"))
             \/ /\ pending' = [Swept EXCEPT !.tier1 = Append(@, Head(Feed))] /\ UNCHANGED <<sent, work>>
                /\ results' = Told
             \/ /\ pending' = Swept /\ HandOver(sent, [NoWork EXCEPT !.tier1 = <<Head(Feed)>>])
                /\ results' = Told
       \/ pending' = Swept /\ results' = Told /\ UNCHANGED <<chan, sent, work>>
  BY Zenon DEF Admit
<1> QED BY <1>3, <1>5, <1>6, <1>7, <1>8, <1>9, <1>10, <1>11

\* The child is lost and the bridge recovers.
LEMMA OneAnswerRecover ==
    ASSUME TypeOK, OneAnswerInv, UNCHANGED fed, Recover
    PROVE  OneAnswerInv'
<1> DEFINE again == Without(sent.tier1, completed)
           lost  == Without(sent.cached, completed)
           line  == Requeued(again, Feed)
           queue == [pending EXCEPT !.tier1 = line]
           told  == results \o AnswerAll(lost, "err")
           all   == Without(queue.tier1, completed) \o queue.cached
<1>1. /\ pc = "head" /\ UNCHANGED inbox /\ pending' = queue /\ sent' = NoWork
      /\ work' = {} /\ evs' = <<>> /\ evq' = <<>>
      /\ chan' = IF batch.streams THEN [chan EXCEPT ![batch.id].q = <<>>] ELSE chan
      /\ \/ /\ pc' = "return"
            /\ results' = Append(told \o Failed(queue), Signal("Complete"))
         \/ pc' = "top" /\ results' = Append(told, Signal("Retry"))
  BY DEF Recover, ForgetChild, guiVars
<1>2. Failed(queue) = AnswerAll(all, "err")
  BY DEF Failed
<1>3. /\ inbox = <<>> /\ batch.id = 1 /\ batch.id \in Batches
      /\ Feed \in Seq(Items) /\ chan[1].q \in Seq(Items)
      /\ IF batch.streams THEN Feed = chan[1].q ELSE Feed = <<>>
      /\ pending \in WorkPair /\ sent \in WorkPair /\ results \in Seq(Results)
  BY <1>1, Serving
<1>4. Places(pending, sent, chan[1].q, AnsweredIn(results), Asked) /\ OnceIn(results)
  BY <1>1 DEF OneAnswerInv, PlacesInv
<1>5. /\ Places([pending EXCEPT !.tier1 = again \o pending.tier1 \o chan[1].q], NoWork, <<>>,
                AnsweredIn(results) \cup Range(lost), Asked)
      /\ Places([pending EXCEPT !.tier1 = again \o pending.tier1], NoWork, chan[1].q,
                AnsweredIn(results) \cup Range(lost), Asked)
      /\ lost \in Seq(Items) /\ Distinct(lost) /\ Range(lost) \cap AnsweredIn(results) = {}
      /\ again \o pending.tier1 \o chan[1].q \in Seq(Items) /\ again \o pending.tier1 \in Seq(Items)
  BY <1>3, <1>4, PlacesRecover
<1>6. /\ told \in Seq(Results) /\ OnceIn(told)
      /\ AnsweredIn(told) = AnsweredIn(results) \cup Range(lost)
  BY <1>3, <1>4, <1>5, LogAnswerAll
<1>7. chan'[1].q \in Seq(Items) /\ line \in Seq(Items)
      /\ Places(queue, NoWork, chan'[1].q, AnsweredIn(told), Asked)
  <2>1. CASE batch.streams
    <3>1. line = again \o pending.tier1 \o chan[1].q
      BY <1>3, <2>1 DEF Requeued
    <3>2. chan'[1].q = <<>>
      <4>1. chan \in [Batches -> [q : Seq(Items), tx : BOOLEAN, rx : BOOLEAN]] /\ 1 \in Batches
        BY SegBatchAssumption DEF TypeOK
      <4> HIDE DEF queue, told
      <4> QED BY <1>1, <1>3, <2>1, <4>1
    <3> HIDE DEF line, again, lost, told
    <3> QED BY <1>5, <1>6, <3>1, <3>2, EmptyTypes
  <2>2. CASE ~batch.streams
    <3>1. line = again \o pending.tier1
      BY <1>3, <1>5, <2>2, ConcatEmptySeq DEF Requeued
    <3>2. chan'[1].q = chan[1].q
      BY <1>1, <2>2
    <3> HIDE DEF line, again, lost, told
    <3> QED BY <1>3, <1>5, <1>6, <3>1, <3>2
  <2> QED BY <2>1, <2>2
<1> HIDE DEF again, lost, line, told
<1>8. queue \in WorkPair
  BY <1>3, <1>7 DEF WorkPair
<1>9. all \in Seq(Items) /\ Distinct(all) /\ Range(all) \cap AnsweredIn(told) = {}
  BY <1>7, <1>8, NoItems, PlacesFailed
<1> HIDE DEF queue, all
<1>10. CASE pc' = "return" /\ results' = Append(told \o Failed(queue), Signal("Complete"))
  <2>1. told \o AnswerAll(all, "err") \in Seq(Results) /\ OnceIn(told \o AnswerAll(all, "err"))
    BY <1>3, <1>6, <1>9, LogAnswerAll
  <2>2. OnceIn(results')
    BY <1>2, <1>3, <1>10, <2>1, LogSignal
  <2> QED BY <1>1, <1>10, <2>2, OneAnswerReturn
<1>11. CASE pc' = "top" /\ results' = Append(told, Signal("Retry"))
  <2>1. OnceIn(results') /\ AnsweredIn(results') = AnsweredIn(told)
    BY <1>3, <1>6, <1>11, LogSignal
  <2>2. Reported(evs' \o evq', InFlight', work')
    BY <1>1, ReportedNone
  <2>3. Asked' = Asked
    BY DEF Asked
  <2> QED BY <1>1, <1>3, <1>7, <1>11, <2>1, <2>2, <2>3
             DEF OneAnswerInv, InboxInv, PlacesInv, StartInv, DoomedInv, ReportedInv
<1> QED BY <1>1, <1>10, <1>11

\* The child: what it reports is work the bridge gave it.
LEMMA OneAnswerChild ==
    ASSUME TypeOK, OneAnswerInv, Child
    PROVE  OneAnswerInv'
<1>1. /\ UNCHANGED <<fed, inbox, chan, cancelled, cancelAll, results, pc, pending, sent, doomed, evs>>
  BY DEF Child, ChildNext, ChildFinish, ChildCancel, ChildRss, ChildCrash, ChildHang, ChildWake, Silence,
         ChildOnly, guiVars, bridgeVars, stateVars, loopVars
<1>2. /\ Asked' = Asked /\ InFlight' = InFlight /\ Stopped' = Stopped /\ (NotTaken => NotTaken')
  BY <1>1 DEF Asked, InFlight, Stopped, NotTaken
<1>3. evs \in Seq(Events) /\ evq \in Seq(Events) /\ evs \o evq \in Seq(Events)
  BY EventQueues DEF TypeOK
<1>4. ASSUME pc # "return" PROVE Reported(evs \o evq', InFlight, work')
  <2>1. Reported(evs \o evq, InFlight, work)
    BY <1>4 DEF OneAnswerInv, ReportedInv
  <2>2. ASSUME NEW e \in Events
        PROVE  /\ evs \o Append(evq, e) = Append(evs \o evq, e)
               /\ e.type = "Rss" => Reported(Append(evs \o evq, e), InFlight, work)
               /\ e.type # "Rss" /\ e.item \in work
                      => Reported(Append(evs \o evq, e), InFlight, work \ {e.item})
    BY <1>3, <2>1, EventQueues, ReportedAppend
  <2>3. ASSUME NEW i \in Items, ChildFinish(i) PROVE Reported(evs \o evq', InFlight, work')
    <3> DEFINE d == [type |-> "Done", item |-> i]
               e == [type |-> "Error", item |-> i, res |-> "err"]
    <3>1. /\ i \in work /\ work' = work \ {i}
          /\ evq' = Append(evq, d) \/ evq' = Append(evq, e) \/ evq' = evq
      BY <2>3 DEF ChildFinish
    <3>2. /\ d \in Events /\ d.type # "Rss" /\ d.item = i
          /\ e \in Events /\ e.type # "Rss" /\ e.item = i
      BY DEF Events
    <3> HIDE DEF d, e
    <3>3. Reported(evs \o evq, InFlight, work \ {i})
      BY <2>1 DEF Reported
    <3> QED BY <2>2, <3>1, <3>2, <3>3
  <2>4. ASSUME NEW i \in Items, ChildCancel(i) PROVE Reported(evs \o evq', InFlight, work')
    <3> DEFINE e == [type |-> "Error", item |-> i, res |-> "cancelled"]
    <3>1. i \in work /\ work' = work \ {i} /\ evq' = Append(evq, e)
      BY <2>4 DEF ChildCancel
    <3>2. e \in Events /\ e.type # "Rss" /\ e.item = i
      BY DEF Events
    <3> HIDE DEF e
    <3> QED BY <2>2, <3>1, <3>2
  <2>5. CASE ChildRss
    <3>1. PICK l \in RssLevels : evq' = Append(evq, [type |-> "Rss", level |-> l])
      BY <2>5 DEF ChildRss
    <3> DEFINE e == [type |-> "Rss", level |-> l]
    <3>2. e \in Events /\ e.type = "Rss" /\ work' = work
      BY <2>5, SegBridgeAssumption DEF Events, ChildRss
    <3> HIDE DEF e
    <3>3. evq' = Append(evq, e)
      BY <3>1 DEF e
    <3> QED BY <2>2, <3>2, <3>3
  <2>6. CASE ChildCrash \/ ChildHang \/ ChildWake \/ Silence
    BY <2>1, <2>6 DEF ChildCrash, ChildHang, ChildWake, Silence
  <2> QED BY <2>3, <2>4, <2>5, <2>6 DEF Child, ChildNext
<1> QED BY <1>1, <1>2, <1>4 DEF OneAnswerInv, InboxInv, PlacesInv, StartInv, DoomedInv, ReportedInv

\* What the GUI streams next was not asked for before.
LEMMA StreamedIsNew ==
    ASSUME fed \in 0 .. Len(StreamedImages), fed < Len(StreamedImages), fed' = fed + 1
    PROVE  /\ StreamedImages[fed + 1] \in Items
           /\ StreamedImages[fed + 1] \notin Asked
           /\ StreamedImages[fed + 1] \notin Range(CachedWork)
           /\ Asked' = Asked \cup {StreamedImages[fed + 1]}
<1> USE SegBatchAssumption
<1> DEFINE two == CachedWork \o WholeImages
           all == two \o StreamedImages
           i   == StreamedImages[fed + 1]
<1>1. Distinct(all) /\ two \in Seq(Items) /\ Len(StreamedImages) \in Nat
  BY ConcatProperties, LenProperties DEF IsInjective, Distinct
<1> HIDE DEF all
<1>2. /\ DOMAIN two = 1 .. Len(two) /\ Len(two) \in Nat
      /\ \A n \in 1 .. Len(two) : n \in DOMAIN all /\ all[n] = two[n]
      /\ \A n \in 1 .. Len(StreamedImages) :
             Len(two) + n \in DOMAIN all /\ all[Len(two) + n] = StreamedImages[n]
  BY <1>1, ConcatAt DEF all
<1> HIDE DEF two
<1>3. Range(two) = Range(CachedWork) \cup Range(WholeImages)
  BY ConcatItems DEF two
<1>4. fed + 1 \in 1 .. Len(StreamedImages) /\ fed \in Nat
  BY <1>1
<1>5. i \in Items
  BY <1>4, ElementOfSeq
<1>6. \A n \in 1 .. Len(two) : two[n] # i
  BY <1>1, <1>2, <1>4 DEF Distinct
<1>7. i \notin Range(two)
  BY <1>2, <1>6 DEF Range
<1>8. ASSUME NEW n \in 1 .. fed PROVE StreamedImages[n] # i
  <2>1. n \in 1 .. Len(StreamedImages) /\ Len(two) + n # Len(two) + (fed + 1)
    BY <1>1, <1>2, <1>4
  <2> QED BY <1>1, <1>2, <1>4, <2>1 DEF Distinct
<1>9. 1 .. fed + 1 = (1 .. fed) \cup {fed + 1}
  BY <1>4
<1>10. Asked' = Asked \cup {i}
  BY <1>9 DEF Asked
<1>11. i \notin Asked
  BY <1>3, <1>7, <1>8 DEF Asked
<1> QED BY <1>3, <1>5, <1>7, <1>10, <1>11

\* The GUI: it streams images that are new, and cancels.
LEMMA OneAnswerGui ==
    ASSUME TypeOK, OneAnswerInv, GuiNext
    PROVE  OneAnswerInv'
<1>1. UNCHANGED <<inbox, results, pc, pending, sent, doomed, evs, evq, work>>
  BY DEF GuiNext, GuiStream, GuiClose, GuiCancelAll, GuiCancelItem, GuiOnly,
         bridgeVars, stateVars, loopVars, childVars
<1>2. InFlight' = InFlight /\ (NotTaken => NotTaken')
  BY <1>1 DEF InFlight, NotTaken
<1>3. chan \in [{1} -> [q : Seq(Items), tx : BOOLEAN, rx : BOOLEAN]]
  BY SegBatchAssumption DEF TypeOK
<1>4. Stopped \subseteq Stopped'
  <2>1. cancelled \subseteq Items
    BY DEF TypeOK
  <2>2. cancelled \subseteq cancelled' /\ (cancelAll => cancelAll')
    BY DEF GuiNext, GuiStream, GuiClose, GuiCancelAll, GuiCancelItem
  <2> QED BY <2>1, <2>2 DEF Stopped
<1>5. DoomedInv'
  BY <1>1, <1>4 DEF OneAnswerInv, DoomedInv
<1>6. CASE GuiStream
  <2> DEFINE i == StreamedImages[fed + 1]
  <2>1. /\ fed < Len(StreamedImages) /\ fed' = fed + 1 /\ Answered # {}
        /\ chan' = IF chan[1].rx THEN [chan EXCEPT ![1].q = Append(@, i)] ELSE chan
    BY <1>6 DEF GuiStream
  <2>2. results # <<>>
    BY <2>1 DEF Answered, AnswersTo
  <2>3. inbox = <<>>
    BY <2>2 DEF OneAnswerInv, InboxInv
  <2>4. /\ i \in Items /\ i \notin Asked /\ i \notin Range(CachedWork)
        /\ Asked' = Asked \cup {i}
    BY <2>1, StreamedIsNew DEF TypeOK
  <2> HIDE DEF i
  <2>5. chan'[1].q \in {chan[1].q, Append(chan[1].q, i)}
    BY <1>3, <2>1
  <2>6. ASSUME pc \notin {"idle", "return"}
        PROVE  Places(pending, sent, chan'[1].q, AnsweredIn(results), Asked')
    <3>1. Places(pending, sent, chan[1].q, AnsweredIn(results), Asked)
      BY <2>6 DEF OneAnswerInv, PlacesInv
    <3>2. pending \in WorkPair /\ sent \in WorkPair /\ chan[1].q \in Seq(Items)
      BY <2>6, Serving
    <3>3. /\ Places(pending, sent, Append(chan[1].q, i), AnsweredIn(results), Asked \cup {i})
          /\ Places(pending, sent, chan[1].q, AnsweredIn(results), Asked \cup {i})
      BY <2>4, <3>1, <3>2, PlacesFeed
    <3> QED BY <2>4, <2>5, <3>3
  <2> QED BY <1>1, <1>2, <1>5, <2>3, <2>6 DEF OneAnswerInv, InboxInv, PlacesInv, StartInv, ReportedInv
<1>7. CASE ~GuiStream
  <2>1. fed' = fed
    BY <1>7 DEF GuiNext, GuiClose, GuiCancelAll, GuiCancelItem
  <2>2. chan'[1].q = chan[1].q
    BY <1>3, <1>7 DEF GuiNext, GuiClose, GuiCancelAll, GuiCancelItem
  <2>3. Asked' = Asked
    BY <2>1 DEF Asked
  <2> QED BY <1>1, <1>2, <1>5, <2>2, <2>3 DEF OneAnswerInv, InboxInv, PlacesInv, StartInv, ReportedInv
<1> QED BY <1>6, <1>7

----------------------------------------------------------------------------
(* The theorems                                                            *)

\* Every image of the batch is in one place at most, and every event on its
\* way is the only one of an image in flight: the inductive invariant.
THEOREM OnePlace == Spec => []OneAnswerInv
<1>1. TypeOK /\ OneAnswerInv /\ Serve => OneAnswerInv'
  BY OneAnswerLoop, OneAnswerStart, OneAnswerLife, OneAnswerAdmit, OneAnswerRecover
     DEF Serve, BridgeNext
<1>2. OneAnswerInv /\ UNCHANGED vars => OneAnswerInv'
  <2> SUFFICES ASSUME OneAnswerInv, UNCHANGED vars PROVE OneAnswerInv'
    OBVIOUS
  <2>1. UNCHANGED <<fed, inbox, chan, cancelled, cancelAll, results, pc, pending, sent, doomed, evs, evq, work>>
    BY DEF vars, segVars, guiVars, bridgeVars, stateVars, loopVars, childVars
  <2>2. Asked' = Asked /\ InFlight' = InFlight /\ Stopped' = Stopped /\ (NotTaken => NotTaken')
    BY <2>1 DEF Asked, InFlight, Stopped, NotTaken
  <2> QED BY <2>1, <2>2 DEF OneAnswerInv, InboxInv, PlacesInv, StartInv, DoomedInv, ReportedInv
<1>3. TypeOK /\ OneAnswerInv /\ [Next]_vars => OneAnswerInv'
  BY <1>1, <1>2, OneAnswerChild, OneAnswerGui DEF Next
<1> QED BY <1>3, OneAnswerInit, TypeCorrect, PTL DEF Spec

\* No image is answered twice, for every batch, every job count, every order
\* of cancels, crashes and hangs.
THEOREM NoSecondAnswer == Spec => []AnsweredOnce
<1>1. TypeOK /\ OneAnswerInv => AnsweredOnce
  <2> SUFFICES ASSUME OneAnswerInv, NEW i \in Items PROVE Cardinality(AnswersTo(i)) <= 1
    BY DEF AnsweredOnce
  <2>1. \A m, n \in AnswersTo(i) : m = n
    BY DEF OneAnswerInv, OnceIn, Answers, AnswersTo
  <2>2. CASE AnswersTo(i) = {}
    <3>1. Cardinality(AnswersTo(i)) = 0
      BY <2>2, FS_EmptySet
    <3> QED BY <3>1
  <2>3. CASE AnswersTo(i) # {}
    <3>1. PICK n \in AnswersTo(i) : TRUE
      BY <2>3
    <3>2. AnswersTo(i) = {n}
      BY <2>1, <3>1
    <3>3. Cardinality(AnswersTo(i)) = 1
      BY <3>2, FS_Singleton
    <3> QED BY <3>3
  <2> QED BY <2>2, <2>3
<1> QED BY <1>1, OnePlace, TypeCorrect, PTL

\* The child never works on, and never reports, an image the bridge is not
\* waiting for.
THEOREM NothingUnexpected == Spec => []WorkIsAwaited
<1>1. OneAnswerInv => WorkIsAwaited
  <2> SUFFICES ASSUME OneAnswerInv, pc \in {"head", "handle", "admit"}
               PROVE  work \cup {e.item : e \in {f \in Range(evs \o evq) : f.type # "Rss"}} \subseteq InFlight
    BY DEF WorkIsAwaited
  <2>1. Reported(evs \o evq, InFlight, work)
    BY DEF OneAnswerInv, ReportedInv
  <2> DEFINE es == evs \o evq
  <2>2. Reported(es, InFlight, work)
    BY <2>1
  <2> HIDE DEF es
  <2>3. ASSUME NEW e \in Range(es), e.type # "Rss" PROVE e.item \in InFlight
    <3>1. PICK n \in DOMAIN es : e = es[n]
      BY DEF Range
    <3>2. n \in About(es)
      BY <2>3, <3>1 DEF About
    <3> QED BY <2>2, <3>1, <3>2 DEF Reported
  <2> QED BY <2>2, <2>3 DEF Reported, es
<1> QED BY <1>1, OnePlace, PTL

----------------------------------------------------------------------------
(* Nothing is mislaid                                                      *)

\* A step of the batch that loses sight of nothing.
LEMMA KeptStep ==
    ASSUME TypeOK, OneAnswerInv, KeptInv, UNCHANGED <<fed, inbox>>,
           pc \notin {"idle", "return"}, pc' \notin {"idle", "return"},
           Somewhere \subseteq Somewhere', completed' \subseteq AnsweredIn(results'),
           chan'[1].rx = chan[1].rx
    PROVE  KeptInv'
<1>1. inbox' = <<>>
  BY Serving
<1>2. Asked' = Asked
  BY DEF Asked
<1> QED BY <1>1, <1>2 DEF KeptInv

\* A step that ends the batch says so.
LEMMA KeptReturn ==
    ASSUME TypeOK, OneAnswerInv, UNCHANGED inbox, pc # "idle", pc' = "return",
           NEW log \in Seq(Results), NEW t \in {"Complete", "Cancelled"},
           results' = Append(log, Signal(t))
    PROVE  KeptInv'
<1>1. inbox' = <<>> /\ batch.id \in Batches
  BY Serving
<1>2. Signal(t) \in Results /\ Signal(t).type = t
  BY <1>1, AnswerTypes DEF Signal
<1>3. Len(log) + 1 \in DOMAIN results' /\ results'[Len(log) + 1] = Signal(t)
  BY <1>2, AppendProperties, LenProperties
<1>4. Ended'
  BY <1>2, <1>3 DEF Ended
<1> QED BY <1>1, <1>4 DEF KeptInv

\* What the second look at the registry takes off the queue was stopped.
LEMMA SweptKept ==
    ASSUME TypeOK, OneAnswerInv, KeptInv, pc \in {"spawn", "admit"}
    PROVE  /\ ItemsOf(pending) \subseteq ItemsOf(Swept) \cup Stopped
           /\ AnsweredIn(Told) = AnsweredIn(results) \cup Range(doomed)
           /\ completed \cup Range(doomed) \subseteq AnsweredIn(Told)
<1>1. /\ pending \in WorkPair /\ results \in Seq(Results) /\ batch.id \in Batches /\ doomed \in Seq(Items)
  BY Serving DEF TypeOK
<1>2. AnsweredIn(Told) = AnsweredIn(results) \cup Range(doomed)
  BY <1>1, LogAnswerAll DEF Told
<1>3. ItemsOf(pending) \subseteq ItemsOf(Swept) \cup Stopped
  <2>1. ItemsOf(Drop(pending, Stopped)) = ItemsOf(pending) \ Stopped
    BY <1>1, PairFields
  <2> QED BY <2>1 DEF Swept
<1>4. completed \subseteq AnsweredIn(results)
  BY DEF KeptInv
<1> QED BY <1>2, <1>3, <1>4

\* What goes to the child is noted as sent.
LEMMA HandedOverKept ==
    ASSUME NEW p \in WorkPair, NEW s \in WorkPair,
           NEW c \in 0 .. Len(p.cached), NEW t \in 0 .. Len(p.tier1)
    PROVE  ItemsOf(p) \cup ItemsOf(s) = ItemsOf(RestOf(p, c, t)) \cup ItemsOf(Join(s, FirstOf(p, c, t)))
<1> DEFINE f == FirstOf(p, c, t)
           r == RestOf(p, c, t)
<1>1. f \in WorkPair /\ p.cached \in Seq(Items) /\ p.tier1 \in Seq(Items)
  BY PairTypes
<1>2. /\ f.cached = SubSeq(p.cached, 1, c) /\ r.cached = SubSeq(p.cached, c + 1, Len(p.cached))
      /\ f.tier1 = SubSeq(p.tier1, 1, t) /\ r.tier1 = SubSeq(p.tier1, t + 1, Len(p.tier1))
  BY DEF FirstOf, RestOf
<1> HIDE DEF f, r
<1>3. Range(p.cached) = Range(f.cached) \cup Range(r.cached)
  BY <1>1, <1>2, SplitItems
<1>4. Range(p.tier1) = Range(f.tier1) \cup Range(r.tier1)
  BY <1>1, <1>2, SplitItems
<1>5. ItemsOf(Join(s, f)) = ItemsOf(s) \cup ItemsOf(f)
  BY <1>1, PairFields
<1>6. ItemsOf(p) = ItemsOf(f) \cup ItemsOf(r)
  BY <1>3, <1>4 DEF ItemsOf
<1> QED BY <1>5, <1>6 DEF f, r

\* A streamed image that is taken joins the queue.
LEMMA TakenKept ==
    ASSUME TypeOK, OneAnswerInv, pc \notin {"idle", "return"}, TakeStreamed
    PROVE  /\ ItemsOf(pending) \cup Range(chan[1].q) \subseteq ItemsOf(pending') \cup Range(chan'[1].q)
           /\ chan'[1].rx = chan[1].rx
<1>1. /\ Feed = chan[1].q /\ chan[1].q # <<>> /\ batch.id = 1
      /\ pending \in WorkPair /\ chan[1].q \in Seq(Items)
  BY Serving DEF TakeStreamed
<1> DEFINE q == chan[1].q
<1>2. chan'[1].q = Tail(q) /\ chan'[1].rx = chan[1].rx
  <2>1. chan \in [Batches -> [q : Seq(Items), tx : BOOLEAN, rx : BOOLEAN]] /\ 1 \in Batches
    BY SegBatchAssumption DEF TypeOK
  <2> QED BY <1>1, <2>1 DEF TakeStreamed
<1>3. pending' = [pending EXCEPT !.tier1 = Append(@, Head(q))]
  BY <1>1 DEF TakeStreamed
<1>4. Range(q) = {Head(q)} \cup Range(Tail(q)) /\ Head(q) \in Items /\ pending.tier1 \in Seq(Items)
  <2>1. pending.tier1 \in Seq(Items)
    BY <1>1, PairFields
  <2>2. q \in Seq(Items) /\ q # <<>>
    BY <1>1
  <2> HIDE DEF q
  <2> QED BY <2>1, <2>2, TailItems
<1> HIDE DEF q
<1>5. /\ Append(pending.tier1, Head(q)) \in Seq(Items)
      /\ Range(Append(pending.tier1, Head(q))) = Range(pending.tier1) \cup {Head(q)}
  BY <1>4, AppendItems
<1>6. pending'.cached = pending.cached /\ pending'.tier1 = Append(pending.tier1, Head(q))
  <2>1. pending' = [pending EXCEPT !.tier1 = Append(pending.tier1, Head(q))]
    BY <1>3
  <2> QED BY <1>1, <1>5, <2>1, PairFields
<1>7. ItemsOf(pending') = ItemsOf(pending) \cup {Head(q)}
  BY <1>5, <1>6 DEF ItemsOf
<1> QED BY <1>2, <1>4, <1>7 DEF q

----------------------------------------------------------------------------
(* Each step keeps it                                                      *)

\* Nothing was asked of the bridge before its message.
LEMMA KeptInit == Init => KeptInv
<1> SUFFICES ASSUME Init PROVE KeptInv
  OBVIOUS
<1>1. /\ pc = "idle" /\ batch = NoBatch /\ completed = {} /\ fed = 0
      /\ chan = [b \in Batches |-> [q |-> <<>>, tx |-> Streams, rx |-> Streams]]
  BY DEF Init
<1>2. chan[1].rx = Streams
  BY <1>1, SegBatchAssumption
<1> QED BY <1>1, <1>2 DEF KeptInv

\* The message loop.
LEMMA KeptLoop ==
    ASSUME TypeOK, OneAnswerInv, KeptInv, UNCHANGED fed,
           (\E match \in BOOLEAN : TakeBatch(match)) \/ ReleaseWarm \/ EndBatch
    PROVE  KeptInv'
<1> USE DEF guiVars, stateVars, loopVars, bridgeVars, childVars
<1>1. ASSUME NEW match \in BOOLEAN, TakeBatch(match) PROVE KeptInv'
  <2>1. /\ pc = "idle" /\ inbox # <<>> /\ Head(inbox).type = "Batch" /\ inbox' = Tail(inbox) /\ pc' = "top"
        /\ pending' = [cached |-> Head(inbox).batch.cached, tier1 |-> Head(inbox).batch.tier1]
        /\ UNCHANGED <<chan, completed, fed>>
    BY <1>1 DEF TakeBatch
  <2>2. /\ fed = 0 /\ completed = {} /\ (Streams => chan[1].rx)
    BY <2>1 DEF KeptInv
  <2>3. PICK jobs \in JobChoices :
            inbox \in {<<BatchMessage(jobs)>>, <<[type |-> "ReleaseWarm"], BatchMessage(jobs)>>}
    BY <2>1 DEF OneAnswerInv, InboxInv, NotTaken
  <2>4. inbox = <<BatchMessage(jobs)>>
    BY <2>1, <2>3
  <2>5. Head(inbox) = BatchMessage(jobs) /\ Tail(inbox) = <<>>
    BY <2>4
  <2>6. pending' = [cached |-> CachedWork, tier1 |-> WholeImages]
    BY <2>1, <2>5 DEF BatchMessage
  <2>7. ItemsOf(pending') = Range(CachedWork) \cup Range(WholeImages)
    BY <2>6 DEF ItemsOf
  <2>8. Asked' = Range(CachedWork) \cup Range(WholeImages)
    BY <2>1, <2>2 DEF Asked
  <2>9. (Asked \subseteq Somewhere)'
    BY <2>7, <2>8 DEF Somewhere
  <2> QED BY <2>1, <2>2, <2>5, <2>9 DEF KeptInv
<1>2. ASSUME ReleaseWarm PROVE KeptInv'
  <2>1. /\ pc = "idle" /\ inbox # <<>>
        /\ UNCHANGED <<pc, batch, completed, chan, fed>>
    BY <1>2 DEF ReleaseWarm
  <2> QED BY <2>1 DEF KeptInv
<1>3. ASSUME EndBatch PROVE KeptInv'
  <2>1. pc = "return" /\ pc' = "idle" /\ batch' = NoBatch /\ completed' = {} /\ UNCHANGED inbox
    BY <1>3 DEF EndBatch
  <2>2. inbox = <<>>
    BY <2>1, Serving
  <2> QED BY <2>1, <2>2 DEF KeptInv
<1> QED BY <1>1, <1>2, <1>3

\* Before a child is running.
LEMMA KeptStart ==
    ASSUME TypeOK, OneAnswerInv, KeptInv, UNCHANGED fed,
           TopCancelled \/ TopPoll \/ ListCancelled \/ Spawn \/ Burst
    PROVE  KeptInv'
<1> USE DEF guiVars, stateVars, loopVars, bridgeVars, childVars
<1>1. ASSUME pc \in {"top", "list", "spawn", "burst"}
      PROVE  /\ results \in Seq(Results) /\ batch.id \in Batches /\ pc # "idle"
             /\ completed \subseteq AnsweredIn(results)
             /\ pending \in WorkPair /\ sent \in WorkPair
  BY <1>1, Serving DEF KeptInv
<1>2. ASSUME TopCancelled PROVE KeptInv'
  <2>1. pc = "top" /\ pc' = "return" /\ UNCHANGED inbox /\ results' = Append(results, Signal("Cancelled"))
    BY <1>2 DEF TopCancelled
  <2> QED BY <1>1, <2>1, KeptReturn
<1>3. ASSUME TopPoll PROVE KeptInv'
  <2>1. pc = "top" /\ UNCHANGED <<inbox, cancelled, cancelAll, sent, completed>>
    BY <1>3 DEF TopPoll
  <2>2. Stopped' = Stopped
    BY <2>1 DEF Stopped
  <2>3. CASE SizeOf(pending) > 0 /\ pc' = "list" /\ UNCHANGED <<chan, results, pending>>
    <3>1. Somewhere' = Somewhere
      BY <2>1, <2>2, <2>3 DEF Somewhere
    <3> QED BY <1>1, <2>1, <2>3, <3>1, KeptStep
  <2>4. CASE TakeStreamed /\ pc' = "list" /\ UNCHANGED results
    <3>1. /\ ItemsOf(pending) \cup Range(chan[1].q) \subseteq ItemsOf(pending') \cup Range(chan'[1].q)
          /\ chan'[1].rx = chan[1].rx
      BY <2>1, <2>4, TakenKept
    <3>2. Somewhere \subseteq Somewhere'
      BY <2>1, <2>2, <2>4, <3>1 DEF Somewhere
    <3> QED BY <1>1, <2>1, <2>4, <3>1, <3>2, KeptStep
  <2>5. CASE results' = Append(results, Signal("Complete")) /\ pc' = "return"
    BY <1>1, <2>1, <2>5, KeptReturn
  <2> QED BY <1>3, <2>3, <2>4, <2>5 DEF TopPoll
<1>4. ASSUME ListCancelled PROVE KeptInv'
  <2>1. /\ pc = "list" /\ pc' = "spawn"
        /\ UNCHANGED <<inbox, cancelled, cancelAll, chan, results, pending, sent, completed>>
    BY <1>4 DEF ListCancelled
  <2>2. Somewhere' = Somewhere
    BY <2>1 DEF Somewhere, Stopped
  <2> QED BY <1>1, <2>1, <2>2, KeptStep
<1>5. ASSUME Spawn PROVE KeptInv'
  <2>1. /\ pc = "spawn" /\ pending' = Swept /\ completed' = completed \cup Range(doomed)
        /\ UNCHANGED <<inbox, cancelled, cancelAll, chan, sent>>
    BY <1>5 DEF Spawn
  <2>2. /\ ItemsOf(pending) \subseteq ItemsOf(Swept) \cup Stopped
        /\ AnsweredIn(Told) = AnsweredIn(results) \cup Range(doomed)
        /\ completed \cup Range(doomed) \subseteq AnsweredIn(Told)
        /\ Told \in Seq(Results) /\ Swept \in WorkPair
    BY <2>1, SweptKept, SweepSays
  <2>3. CASE results' = Append(Told, Signal("Complete")) /\ pc' = "return"
    BY <1>1, <2>1, <2>2, <2>3, KeptReturn
  <2>4. CASE results' = Told /\ pc' = "burst"
    <3>1. Stopped' = Stopped
      BY <2>1 DEF Stopped
    <3>2. Somewhere \subseteq Somewhere'
      BY <2>1, <2>2, <2>4, <3>1 DEF Somewhere
    <3> QED BY <1>1, <2>1, <2>2, <2>4, <3>2, KeptStep
  <2>5. CASE results' = Append(Told \o Failed(Swept), Signal("Complete")) /\ pc' = "return"
    <3>1. Failed(Swept) \in Seq(Results)
      BY <1>1, <2>1, <2>2, FailedTypes
    <3>2. Told \o Failed(Swept) \in Seq(Results)
      BY <2>2, <3>1, ConcatProperties
    <3> QED BY <1>1, <2>1, <2>5, <3>2, KeptReturn
  <2> QED BY <1>5, <2>3, <2>4, <2>5 DEF Spawn
<1>6. ASSUME Burst PROVE KeptInv'
  <2>1. /\ pc = "burst" /\ pc' = "head"
        /\ UNCHANGED <<inbox, cancelled, cancelAll, chan, results, completed>>
    BY <1>6 DEF Burst
  <2>2. PICK c \in 0 .. Lesser(BurstSize, Len(pending.cached)), t \in 0 .. Len(pending.tier1) :
            HandOver(sent, FirstOf(pending, c, t)) /\ pending' = RestOf(pending, c, t)
    BY <1>6 DEF Burst
  <2>3. c \in 0 .. Len(pending.cached)
    <3>1. SizeOf(pending) \in Nat /\ Len(pending.cached) \in Nat /\ maxJobs \in Nat
      BY PairTypes DEF TypeOK
    <3>2. BurstSize \in Nat
      BY <3>1 DEF Lesser, BurstSize
    <3>3. Lesser(BurstSize, Len(pending.cached)) \in 0 .. Len(pending.cached)
      BY <3>1, <3>2 DEF Lesser
    <3> QED BY <3>1, <3>3
  <2>4. ItemsOf(pending) \cup ItemsOf(sent) = ItemsOf(pending') \cup ItemsOf(sent')
    BY <1>1, <2>1, <2>2, <2>3, HandedOverKept DEF HandOver
  <2>5. Somewhere \subseteq Somewhere'
    BY <2>1, <2>4 DEF Somewhere, Stopped
  <2> QED BY <1>1, <2>1, <2>5, KeptStep
<1> QED BY <1>2, <1>3, <1>4, <1>5, <1>6

\* One child's life, but for the admission of more work.
LEMMA KeptLife ==
    ASSUME TypeOK, OneAnswerInv, KeptInv, UNCHANGED fed,
           LoopCancelled \/ LoopPoll \/ HandleDone \/ HandleError \/ HandleRss \/ LoopEnd
    PROVE  KeptInv'
<1> USE DEF guiVars, stateVars, loopVars, bridgeVars, childVars
<1>1. ASSUME pc \in {"head", "handle"}
      PROVE  /\ results \in Seq(Results) /\ batch.id \in Batches /\ pc # "idle"
             /\ completed \subseteq AnsweredIn(results)
             /\ pending \in WorkPair /\ sent \in WorkPair /\ evs \in Seq(Events)
  BY <1>1, Serving DEF KeptInv
<1>2. ASSUME LoopCancelled PROVE KeptInv'
  <2>1. pc = "head" /\ pc' = "return" /\ UNCHANGED inbox /\ results' = Append(results, Signal("Cancelled"))
    BY <1>2 DEF LoopCancelled
  <2> QED BY <1>1, <2>1, KeptReturn
<1>3. ASSUME LoopPoll \/ HandleRss PROVE KeptInv'
  <2>1. /\ pc \in {"head", "handle"} /\ pc' = "handle"
        /\ UNCHANGED <<inbox, cancelled, cancelAll, chan, results, pending, sent, completed>>
    BY <1>3 DEF LoopPoll, HandleRss
  <2>2. Somewhere' = Somewhere
    BY <2>1 DEF Somewhere, Stopped
  <2> QED BY <1>1, <2>1, <2>2, KeptStep
<1>4. ASSUME pc = "handle", pc' \in {"handle", "admit"}, evs # <<>>, Head(evs).type # "Rss",
             UNCHANGED <<inbox, cancelled, cancelAll, chan, pending>>,
             completed' = completed \cup {Head(evs).item}, sent' = Drop(sent, {Head(evs).item}),
             NEW r \in {"ok", "err", "cancelled"},
             results' = Append(results, Answer(Head(evs).item, r))
      PROVE  KeptInv'
  <2> DEFINE i == Head(evs).item
  <2>1. Head(evs) \in Events
    BY <1>1, <1>4, HeadTailProperties
  <2>2. i \in Items
    BY <1>4, <2>1 DEF Events
  <2>3. AnsweredIn(results') = AnsweredIn(results) \cup {i}
    BY <1>1, <1>4, <2>2, LogAnswer
  <2>4. ItemsOf(sent') = ItemsOf(sent) \ {i}
    BY <1>1, <1>4, PairFields
  <2> HIDE DEF i
  <2>5. Somewhere \subseteq Somewhere'
    BY <1>4, <2>3, <2>4 DEF Somewhere, Stopped
  <2>6. completed' \subseteq AnsweredIn(results')
    BY <1>1, <1>4, <2>3 DEF i
  <2> QED BY <1>4, <2>5, <2>6, KeptStep
<1>5. ASSUME HandleDone PROVE KeptInv'
  BY <1>4, <1>5 DEF HandleDone
<1>6. ASSUME HandleError PROVE KeptInv'
  <2>1. /\ pc = "handle" /\ pc' = "handle" /\ evs # <<>> /\ Head(evs).type = "Error"
        /\ sent' = Drop(sent, {Head(evs).item}) /\ completed' = completed \cup {Head(evs).item}
        /\ results' = Append(results, Answer(Head(evs).item, Head(evs).res))
        /\ UNCHANGED <<inbox, cancelled, cancelAll, chan, pending>>
    BY <1>6 DEF HandleError
  <2>2. Head(evs) \in Events
    BY <1>1, <2>1, HeadTailProperties
  <2>3. Head(evs).res \in {"ok", "err", "cancelled"}
    BY <2>1, <2>2 DEF Events
  <2> QED BY <1>4, <2>1, <2>3
<1>7. ASSUME LoopEnd PROVE KeptInv'
  <2>1. pc = "handle" /\ UNCHANGED <<inbox, cancelled, cancelAll, sent, completed>>
    BY <1>7 DEF LoopEnd
  <2>2. Stopped' = Stopped
    BY <2>1 DEF Stopped
  <2>3. CASE results' = Append(results, Signal("Complete")) /\ pc' = "return"
    BY <1>1, <2>1, <2>3, KeptReturn
  <2>4. CASE TakeStreamed /\ pc' = "head" /\ UNCHANGED results
    <3>1. /\ ItemsOf(pending) \cup Range(chan[1].q) \subseteq ItemsOf(pending') \cup Range(chan'[1].q)
          /\ chan'[1].rx = chan[1].rx
      BY <2>1, <2>4, TakenKept
    <3>2. Somewhere \subseteq Somewhere'
      BY <2>1, <2>2, <2>4, <3>1 DEF Somewhere
    <3> QED BY <1>1, <2>1, <2>4, <3>1, <3>2, KeptStep
  <2>5. CASE pc' = "head" /\ UNCHANGED <<chan, results, pending>>
    <3>1. Somewhere' = Somewhere
      BY <2>1, <2>2, <2>5 DEF Somewhere
    <3> QED BY <1>1, <2>1, <2>5, <3>1, KeptStep
  <2> QED BY <1>7, <2>3, <2>4, <2>5 DEF LoopEnd
<1> QED BY <1>2, <1>3, <1>5, <1>6, <1>7

\* The admission of more work.
LEMMA KeptAdmit ==
    ASSUME TypeOK, OneAnswerInv, KeptInv, UNCHANGED fed, Admit
    PROVE  KeptInv'
<1> DEFINE q == chan[1].q
<1>1. /\ pc = "admit" /\ pc' = "handle" /\ UNCHANGED <<inbox, cancelled, cancelAll>>
  BY DEF Admit, guiVars
<1>2. /\ batch.id = 1 /\ batch.id \in Batches
      /\ q \in Seq(Items) /\ sent \in WorkPair
      /\ Feed # <<>> => Feed = q
      /\ Swept \in WorkPair /\ Told \in Seq(Results)
  BY <1>1, Serving, SweepSays
<1>3. /\ ItemsOf(pending) \subseteq ItemsOf(Swept) \cup Stopped
      /\ AnsweredIn(Told) = AnsweredIn(results) \cup Range(doomed)
      /\ completed \cup Range(doomed) \subseteq AnsweredIn(Told)
  BY <1>1, SweptKept
<1> HIDE DEF q
<1>4. Stopped' = Stopped
  BY <1>1 DEF Stopped
<1>5. ASSUME ItemsOf(Swept) \cup ItemsOf(sent) \cup Range(q)
                 \subseteq ItemsOf(pending') \cup ItemsOf(sent') \cup Range(chan'[1].q) \cup AnsweredIn(results'),
             AnsweredIn(Told) \subseteq AnsweredIn(results'),
             completed' \subseteq AnsweredIn(results'), chan'[1].rx = chan[1].rx
      PROVE  KeptInv'
  <2>1. Somewhere \subseteq Somewhere'
    BY <1>3, <1>4, <1>5 DEF Somewhere, q
  <2> QED BY <1>1, <1>5, <2>1, KeptStep
<1>6. ASSUME NEW c \in 0 .. Len(Swept.cached), NEW t \in 0 .. Len(Swept.tier1),
             HandOver(sent, FirstOf(Swept, c, t)), pending' = RestOf(Swept, c, t),
             results' = Told, completed' = completed \cup Range(doomed), UNCHANGED chan
      PROVE  KeptInv'
  <2>1. ItemsOf(Swept) \cup ItemsOf(sent) = ItemsOf(pending') \cup ItemsOf(sent')
    BY <1>2, <1>6, HandedOverKept DEF HandOver
  <2> QED BY <1>3, <1>5, <1>6, <2>1 DEF q
<1>7. ASSUME Feed # <<>>, chan' = [chan EXCEPT ![batch.id].q = Tail(@)]
      PROVE  /\ Feed = q /\ q # <<>> /\ chan'[1].q = Tail(q) /\ chan'[1].rx = chan[1].rx
             /\ Range(q) = {Head(q)} \cup Range(Tail(q)) /\ Head(q) \in Items
  <2>1. chan \in [Batches -> [q : Seq(Items), tx : BOOLEAN, rx : BOOLEAN]] /\ 1 \in Batches
    BY SegBatchAssumption DEF TypeOK
  <2>2. Feed = q /\ q # <<>> /\ chan'[1].q = Tail(q) /\ chan'[1].rx = chan[1].rx
    BY <1>2, <1>7, <2>1 DEF q
  <2>3. Range(q) = {Head(q)} \cup Range(Tail(q)) /\ Head(q) \in Items
    BY <1>2, <2>2, TailItems
  <2> QED BY <2>2, <2>3
<1>8. ASSUME Feed # <<>>, chan' = [chan EXCEPT ![batch.id].q = Tail(@)],
             pending' = Swept, UNCHANGED <<sent, work>>,
             completed' = completed \cup Range(doomed) \cup {Head(Feed)},
             results' = Append(Told, Answer(Head(Feed), "cancelled"))
      PROVE  KeptInv'
  <2>1. AnsweredIn(results') = AnsweredIn(Told) \cup {Head(q)}
    BY <1>2, <1>7, <1>8, LogAnswer
  <2>2. completed' \subseteq AnsweredIn(results')
    BY <1>3, <1>7, <1>8, <2>1
  <2> QED BY <1>5, <1>7, <1>8, <2>1, <2>2
<1>9. ASSUME Feed # <<>>, chan' = [chan EXCEPT ![batch.id].q = Tail(@)], results' = Told,
             completed' = completed \cup Range(doomed),
             pending' = [Swept EXCEPT !.tier1 = Append(@, Head(Feed))], UNCHANGED <<sent, work>>
      PROVE  KeptInv'
  <2>1. Swept.tier1 \in Seq(Items)
    BY <1>2, PairFields
  <2>2. /\ Append(Swept.tier1, Head(q)) \in Seq(Items)
        /\ Range(Append(Swept.tier1, Head(q))) = Range(Swept.tier1) \cup {Head(q)}
    BY <1>7, <1>9, <2>1, AppendItems
  <2>3. pending' = [Swept EXCEPT !.tier1 = Append(Swept.tier1, Head(q))]
    BY <1>7, <1>9
  <2>4. pending'.cached = Swept.cached /\ pending'.tier1 = Append(Swept.tier1, Head(q))
    BY <1>2, <2>2, <2>3, PairFields
  <2>5. ItemsOf(pending') = ItemsOf(Swept) \cup {Head(q)}
    BY <2>2, <2>4 DEF ItemsOf
  <2> QED BY <1>3, <1>5, <1>7, <1>9, <2>5
<1>10. ASSUME Feed # <<>>, chan' = [chan EXCEPT ![batch.id].q = Tail(@)], results' = Told,
             completed' = completed \cup Range(doomed),
             pending' = Swept, HandOver(sent, [NoWork EXCEPT !.tier1 = <<Head(Feed)>>])
      PROVE  KeptInv'
  <2> DEFINE one == [NoWork EXCEPT !.tier1 = <<Head(q)>>]
  <2>1. one \in WorkPair /\ ItemsOf(one) = {Head(q)}
    <3>1. <<Head(q)>> \in Seq(Items) /\ Range(<<Head(q)>>) = {Head(q)}
      BY <1>7, <1>10 DEF Range
    <3>2. one.cached = <<>> /\ one.tier1 = <<Head(q)>>
      BY <3>1, NoItems, PairFields
    <3>3. one \in WorkPair
      BY <3>1, NoItems DEF WorkPair
    <3>4. ItemsOf(one) = Range(<<>>) \cup Range(<<Head(q)>>)
      BY <3>2 DEF ItemsOf
    <3> QED BY <3>1, <3>3, <3>4, NoItems
  <2>2. sent' = Join(sent, one)
    BY <1>7, <1>10 DEF HandOver
  <2> HIDE DEF one
  <2>3. ItemsOf(Join(sent, one)) = ItemsOf(sent) \cup ItemsOf(one)
    BY <1>2, <2>1, PairFields
  <2>4. ItemsOf(sent') = ItemsOf(sent) \cup {Head(q)}
    BY <2>1, <2>2, <2>3
  <2> QED BY <1>3, <1>5, <1>7, <1>10, <2>4
<1>11. ASSUME pending' = Swept, results' = Told, completed' = completed \cup Range(doomed),
              UNCHANGED <<chan, sent, work>>
       PROVE KeptInv'
  BY <1>3, <1>5, <1>11 DEF q
<1>12. ASSUME Swept.cached # <<>> PROVE 1 \in 0 .. Len(Swept.cached) /\ 0 \in 0 .. Len(Swept.tier1)
  BY <1>2, <1>12, PairTypes, LenProperties, EmptySeq
<1>13. ASSUME Swept.tier1 # <<>> PROVE 0 \in 0 .. Len(Swept.cached) /\ 1 \in 0 .. Len(Swept.tier1)
  BY <1>2, <1>13, PairTypes, LenProperties, EmptySeq
<1>14. \/ /\ Swept.cached # <<>> /\ results' = Told /\ completed' = completed \cup Range(doomed)
          /\ UNCHANGED chan
          /\ HandOver(sent, FirstOf(Swept, 1, 0)) /\ pending' = RestOf(Swept, 1, 0)
       \/ /\ Swept.tier1 # <<>> /\ results' = Told /\ completed' = completed \cup Range(doomed)
          /\ UNCHANGED chan
          /\ HandOver(sent, FirstOf(Swept, 0, 1)) /\ pending' = RestOf(Swept, 0, 1)
       \/ /\ Feed # <<>> /\ chan' = [chan EXCEPT ![batch.id].q = Tail(@)]
          /\ \/ /\ pending' = Swept /\ UNCHANGED <<sent, work>>
                /\ completed' = completed \cup Range(doomed) \cup {Head(Feed)}
                /\ results' = Append(Told, Answer(Head(Feed), "cancelled"))
             \/ /\ pending' = [Swept EXCEPT !.tier1 = Append(@, Head(Feed))] /\ UNCHANGED <<sent, work>>
                /\ results' = Told /\ completed' = completed \cup Range(doomed)
             \/ /\ pending' = Swept /\ HandOver(sent, [NoWork EXCEPT !.tier1 = <<Head(Feed)>>])
                /\ results' = Told /\ completed' = completed \cup Range(doomed)
       \/ /\ pending' = Swept /\ results' = Told /\ completed' = completed \cup Range(doomed)
          /\ UNCHANGED <<chan, sent, work>>
  BY Zenon DEF Admit
<1> QED BY <1>6, <1>8, <1>9, <1>10, <1>11, <1>12, <1>13, <1>14

\* The child is lost and the bridge recovers: what it had is answered or queued again.
LEMMA KeptRecover ==
    ASSUME TypeOK, OneAnswerInv, KeptInv, UNCHANGED fed, Recover
    PROVE  KeptInv'
<1> DEFINE again == Without(sent.tier1, completed)
           lost  == Without(sent.cached, completed)
           line  == Requeued(again, Feed)
           queue == [pending EXCEPT !.tier1 = line]
           told  == results \o AnswerAll(lost, "err")
<1>1. /\ pc = "head" /\ UNCHANGED <<inbox, cancelled, cancelAll, completed>>
      /\ pending' = queue /\ sent' = NoWork
      /\ chan' = IF batch.streams THEN [chan EXCEPT ![batch.id].q = <<>>] ELSE chan
      /\ \/ /\ pc' = "return"
            /\ results' = Append(told \o Failed(queue), Signal("Complete"))
         \/ pc' = "top" /\ results' = Append(told, Signal("Retry"))
  BY DEF Recover, guiVars
<1>2. /\ batch.id = 1 /\ batch.id \in Batches
      /\ Feed \in Seq(Items) /\ chan[1].q \in Seq(Items)
      /\ IF batch.streams THEN Feed = chan[1].q ELSE Feed = <<>>
      /\ pending \in WorkPair /\ sent \in WorkPair /\ results \in Seq(Results)
  BY <1>1, Serving
<1>3. /\ sent.tier1 \in Seq(Items) /\ sent.cached \in Seq(Items) /\ pending.tier1 \in Seq(Items)
  BY <1>2, PairFields
<1>4. /\ again \in Seq(Items) /\ Range(again) = Range(sent.tier1) \ completed
      /\ lost \in Seq(Items) /\ Range(lost) = Range(sent.cached) \ completed
  BY <1>3, WithoutItems
<1>5. told \in Seq(Results) /\ AnsweredIn(told) = AnsweredIn(results) \cup Range(lost)
  BY <1>2, <1>4, LogAnswerAll
<1> HIDE DEF again, lost
<1>6. line \in Seq(Items) /\ Range(line) = Range(again) \cup Range(pending.tier1) \cup Range(Feed)
  <2>1. /\ again \o pending.tier1 \in Seq(Items)
        /\ Range(again \o pending.tier1) = Range(again) \cup Range(pending.tier1)
    BY <1>3, <1>4, ConcatItems
  <2> DEFINE front == again \o pending.tier1
  <2>2. line = front \o Feed
    BY DEF Requeued
  <2> HIDE DEF front, line
  <2>3. front \in Seq(Items) /\ Range(front) = Range(again) \cup Range(pending.tier1)
    BY <2>1 DEF front
  <2>4. line \in Seq(Items) /\ Range(line) = Range(front) \cup Range(Feed)
    BY <1>2, <2>2, <2>3, ConcatItems
  <2> QED BY <2>3, <2>4
<1> HIDE DEF line
<1>7. queue \in WorkPair /\ queue.cached = pending.cached /\ queue.tier1 = line
  <2>1. queue.cached = pending.cached /\ queue.tier1 = line
    BY <1>2, <1>6, PairFields
  <2>2. queue \in WorkPair
    BY <1>2, <1>6 DEF WorkPair
  <2> QED BY <2>1, <2>2
<1> HIDE DEF told, queue
<1>8. CASE pc' = "return" /\ results' = Append(told \o Failed(queue), Signal("Complete"))
  <2>1. Failed(queue) \in Seq(Results)
    BY <1>1, <1>7, FailedTypes
  <2>2. told \o Failed(queue) \in Seq(Results)
    BY <1>5, <2>1, ConcatProperties
  <2> QED BY <1>1, <1>8, <2>2, KeptReturn
<1>9. CASE pc' = "top" /\ results' = Append(told, Signal("Retry"))
  <2>1. AnsweredIn(results') = AnsweredIn(told)
    BY <1>2, <1>5, <1>9, LogSignal
  <2>2. completed \subseteq AnsweredIn(results)
    BY <1>1 DEF KeptInv
  <2>3. ItemsOf(sent) \subseteq Range(again) \cup Range(lost) \cup AnsweredIn(results)
    BY <1>4, <2>2 DEF ItemsOf
  <2>4. ItemsOf(pending') = Range(pending.cached) \cup Range(again) \cup Range(pending.tier1) \cup Range(Feed)
    BY <1>1, <1>6, <1>7 DEF ItemsOf
  <2>5. Range(chan[1].q) \subseteq Range(Feed) \cup Range(chan'[1].q) /\ chan'[1].rx = chan[1].rx
    <3>1. chan \in [Batches -> [q : Seq(Items), tx : BOOLEAN, rx : BOOLEAN]] /\ 1 \in Batches
      BY SegBatchAssumption DEF TypeOK
    <3>2. CASE batch.streams
      BY <1>1, <1>2, <3>1, <3>2
    <3>3. CASE ~batch.streams
      BY <1>1, <3>3
    <3> QED BY <3>2, <3>3
  <2>6. Stopped' = Stopped
    BY <1>1 DEF Stopped
  <2>7. ItemsOf(pending) = Range(pending.cached) \cup Range(pending.tier1)
    BY DEF ItemsOf
  <2>8. Somewhere \subseteq Somewhere'
    BY <1>5, <2>1, <2>3, <2>4, <2>5, <2>6, <2>7 DEF Somewhere
  <2>9. completed' \subseteq AnsweredIn(results')
    BY <1>1, <1>5, <2>1, <2>2
  <2> QED BY <1>1, <1>9, <2>5, <2>8, <2>9, KeptStep
<1> QED BY <1>1, <1>8, <1>9

\* The GUI streams only while the bridge listens, and only stops more.
LEMMA KeptGui ==
    ASSUME TypeOK, OneAnswerInv, KeptInv, GuiNext
    PROVE  KeptInv'
<1>1. UNCHANGED <<inbox, results, pc, batch, pending, sent, completed>>
  BY DEF GuiNext, GuiStream, GuiClose, GuiCancelAll, GuiCancelItem, GuiOnly,
         bridgeVars, stateVars, loopVars, childVars
<1>2. chan \in [{1} -> [q : Seq(Items), tx : BOOLEAN, rx : BOOLEAN]]
  BY SegBatchAssumption DEF TypeOK
<1>3. Stopped \subseteq Stopped'
  <2>1. cancelled \subseteq Items
    BY DEF TypeOK
  <2>2. cancelled \subseteq cancelled' /\ (cancelAll => cancelAll')
    BY DEF GuiNext, GuiStream, GuiClose, GuiCancelAll, GuiCancelItem
  <2> QED BY <2>1, <2>2 DEF Stopped
<1>4. chan'[1].rx = chan[1].rx /\ Ended' = Ended
  <2>1. chan'[1].rx = chan[1].rx
    BY <1>2 DEF GuiNext, GuiStream, GuiClose, GuiCancelAll, GuiCancelItem
  <2> QED BY <1>1, <2>1 DEF Ended
<1>5. CASE GuiStream
  <2> DEFINE i == StreamedImages[fed + 1]
  <2>1. /\ fed < Len(StreamedImages) /\ fed' = fed + 1 /\ Answered # {}
        /\ chan' = IF chan[1].rx THEN [chan EXCEPT ![1].q = Append(@, i)] ELSE chan
    BY <1>5 DEF GuiStream
  <2>2. inbox = <<>>
    <3>1. results # <<>>
      BY <2>1 DEF Answered, AnswersTo
    <3> QED BY <3>1 DEF OneAnswerInv, InboxInv
  <2>3. i \in Items /\ Asked' = Asked \cup {i}
    BY <2>1, StreamedIsNew DEF TypeOK
  <2>4. Streams
    <3>1. StreamedImages = <<>> => Len(StreamedImages) = 0
      OBVIOUS
    <3> QED BY <2>1, <3>1 DEF Streams, TypeOK
  <2> HIDE DEF i
  <2>5. ASSUME pc \notin {"idle", "return"} PROVE Range(chan'[1].q) = Range(chan[1].q) \cup {i}
    <3>1. chan[1].rx /\ chan[1].q \in Seq(Items)
      BY <1>2, <2>4, <2>5 DEF KeptInv
    <3>2. chan'[1].q = Append(chan[1].q, i)
      BY <1>2, <2>1, <3>1
    <3> QED BY <2>3, <3>1, <3>2, AppendItems
  <2>6. ASSUME pc \notin {"idle", "return"} PROVE Asked' \subseteq Somewhere'
    <3>1. Asked \subseteq Somewhere
      BY <2>6 DEF KeptInv
    <3> QED BY <1>1, <1>3, <2>3, <2>5, <2>6, <3>1 DEF Somewhere
  <2> QED BY <1>1, <1>4, <2>2, <2>6 DEF KeptInv
<1>6. CASE ~GuiStream
  <2>1. fed' = fed
    BY <1>6 DEF GuiNext, GuiClose, GuiCancelAll, GuiCancelItem
  <2>2. chan'[1].q = chan[1].q
    BY <1>2, <1>6 DEF GuiNext, GuiClose, GuiCancelAll, GuiCancelItem
  <2>3. Asked' = Asked
    BY <2>1 DEF Asked
  <2>4. Somewhere \subseteq Somewhere'
    BY <1>1, <1>3, <2>2 DEF Somewhere
  <2> QED BY <1>1, <1>4, <2>1, <2>3, <2>4 DEF KeptInv
<1> QED BY <1>5, <1>6

\* No step of the batch loses sight of an image: the invariant.
LEMMA AllKept == Spec => []KeptInv
<1>1. TypeOK /\ OneAnswerInv /\ KeptInv /\ Serve => KeptInv'
  BY KeptLoop, KeptStart, KeptLife, KeptAdmit, KeptRecover DEF Serve, BridgeNext
<1>2. ASSUME KeptInv, UNCHANGED <<fed, inbox, chan, cancelled, cancelAll, results, pc, batch, pending, sent, completed>>
      PROVE  KeptInv'
  <2>1. Asked' = Asked /\ Somewhere' = Somewhere /\ Ended' = Ended
    BY <1>2 DEF Asked, Somewhere, Stopped, Ended
  <2> QED BY <1>2, <2>1 DEF KeptInv
<1>3. KeptInv /\ Child => KeptInv'
  <2>1. Child => UNCHANGED <<fed, inbox, chan, cancelled, cancelAll, results, pc, batch, pending, sent, completed>>
    BY DEF Child, ChildNext, ChildFinish, ChildCancel, ChildRss, ChildCrash, ChildHang, ChildWake, Silence,
           ChildOnly, guiVars, bridgeVars, stateVars, loopVars
  <2> QED BY <1>2, <2>1
<1>4. KeptInv /\ UNCHANGED vars => KeptInv'
  BY <1>2 DEF vars, segVars, guiVars, bridgeVars, stateVars, loopVars, childVars
<1>5. TypeOK /\ OneAnswerInv /\ KeptInv /\ [Next]_vars => KeptInv'
  BY <1>1, <1>3, <1>4, KeptGui DEF Next
<1> QED BY <1>5, KeptInit, OnePlace, TypeCorrect, PTL DEF Spec

\* While a batch runs, an image that was asked for, not answered and not stopped is
\* queued, streamed or in flight: whatever crashes, hangs, refuses or is cancelled.
THEOREM NoneMislaid == Spec => []NothingMislaid
<1>1. TypeOK /\ KeptInv => NothingMislaid
  <2> SUFFICES ASSUME TypeOK, KeptInv, batch # NoBatch, ~Ended, NEW i \in Asked \ (Answered \cup Stopped)
               PROVE  i \in ItemsOf(pending) \cup InFlight \cup Range(chan[1].q)
    BY DEF NothingMislaid
  <2>1. i \in Somewhere
    BY DEF KeptInv
  <2>2. i \notin AnsweredIn(results)
    <3>1. ASSUME NEW n \in Answers(results) PROVE results[n].item \in Answered
      <4>1. results[n] \in Results /\ n \in DOMAIN results /\ results[n].type = "ItemDone"
        BY <3>1 DEF TypeOK, Answers
      <4>2. results[n].item \in Items
        BY <4>1 DEF Results
      <4>3. n \in AnswersTo(results[n].item)
        BY <4>1 DEF AnswersTo
      <4> QED BY <4>2, <4>3 DEF Answered
    <3> QED BY <3>1 DEF AnsweredIn
  <2> QED BY <2>1, <2>2 DEF Somewhere, InFlight
<1> QED BY <1>1, AllKept, TypeCorrect, PTL
============================================================================
