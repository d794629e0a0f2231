-------------------------- MODULE SegBatchPromise --------------------------
(***************************************************************************)
(* The bridge keeps its job limit and the order of the line, sends nothing *)
(* to a child it has paused, and implements BatchService: proofs, for      *)
(* every batch and every fault.                                            *)
(***************************************************************************)
EXTENDS SegBatchSafety

----------------------------------------------------------------------------
(* The line                                                                *)

\* A streamed image that is taken leaves the channel for the queue.
LEMMA LineTake ==
    ASSUME NEW s, NEW p \in Seq(Items), NEW q \in Seq(Items), NEW B, Line(s, p, q, B), q # <<>>
    PROVE  Line(s, Append(p, Head(q)), Tail(q), B)
<1>1. /\ Head(q) \in Range(q) /\ Head(q) \in Items /\ Range(q) = {Head(q)} \cup Range(Tail(q))
  BY TailItems
<1>2. Rising(Tail(q), Earlier) /\ {Head(q)} \X Range(Tail(q)) \subseteq Earlier
  BY TailRising DEF Line
<1>3. Range(Append(p, Head(q))) = Range(p) \cup {Head(q)}
  BY <1>1, AppendItems
<1>4. Range(p) \X {Head(q)} \subseteq Earlier
  BY <1>1 DEF Line
<1>5. Rising(Append(p, Head(q)), Earlier)
  BY <1>1, <1>4, AppendRising DEF Line
<1> QED BY <1>1, <1>2, <1>3, <1>5 DEF Line

\* Images leave the line.
LEMMA LineWithout ==
    ASSUME NEW s \in Seq(Items), NEW p \in Seq(Items), NEW q \in Seq(Items), NEW B, Line(s, p, q, B),
           NEW S
    PROVE  Line(Without(s, S), p, q, B) /\ Line(s, Without(p, S), q, B)
<1>1. /\ Range(Without(s, S)) \subseteq Range(s) /\ Range(Without(p, S)) \subseteq Range(p)
  BY WithoutItems
<1>2. Rising(Without(s, S), Earlier) /\ Rising(Without(p, S), Earlier)
  BY WithoutOrder DEF Line
<1> QED BY <1>1, <1>2 DEF Line

\* The first of the channel is turned away.
LEMMA LineSkip ==
    ASSUME NEW s, NEW p, NEW q \in Seq(Items), NEW B, Line(s, p, q, B), q # <<>>
    PROVE  Line(s, p, Tail(q), B)
<1>1. Range(Tail(q)) \subseteq Range(q) /\ Rising(Tail(q), Earlier)
  BY TailItems, TailRising DEF Line
<1> QED BY <1>1 DEF Line

\* The first images of the queue go to the child.
LEMMA LineHandOver ==
    ASSUME NEW s \in Seq(Items), NEW p \in Seq(Items), NEW q, NEW B, Line(s, p, q, B),
           NEW t \in 0 .. Len(p)
    PROVE  Line(s \o SubSeq(p, 1, t), SubSeq(p, t + 1, Len(p)), q, B)
<1> DEFINE f == SubSeq(p, 1, t)
           r == SubSeq(p, t + 1, Len(p))
<1>1. f \in Seq(Items) /\ r \in Seq(Items) /\ Range(p) = Range(f) \cup Range(r)
  BY SplitItems
<1>2. Rising(f, Earlier) /\ Rising(r, Earlier) /\ Range(f) \X Range(r) \subseteq Earlier
  BY SplitRising DEF Line
<1> HIDE DEF f, r
<1>3. Range(s \o f) = Range(s) \cup Range(f)
  BY <1>1, ConcatItems
<1>4. Range(s) \X Range(f) \subseteq Earlier
  BY <1>1 DEF Line
<1>5. Rising(s \o f, Earlier)
  BY <1>1, <1>2, <1>4, ConcatRising DEF Line
<1>6. Line(s \o f, r, q, B)
  BY <1>1, <1>2, <1>3, <1>5 DEF Line
<1> QED BY <1>6 DEF f, r

\* A streamed image goes straight to the child: the queue is empty.
LEMMA LineSend ==
    ASSUME NEW s \in Seq(Items), NEW q \in Seq(Items), NEW B, Line(s, <<>>, q, B), q # <<>>
    PROVE  Line(s \o <<Head(q)>>, <<>>, Tail(q), B)
<1> DEFINE one == <<Head(q)>>
<1>1. /\ Head(q) \in Range(q) /\ Head(q) \in Items /\ Range(q) = {Head(q)} \cup Range(Tail(q))
      /\ Rising(Tail(q), Earlier) /\ {Head(q)} \X Range(Tail(q)) \subseteq Earlier
  BY TailItems, TailRising DEF Line
<1>2. one \in Seq(Items) /\ Range(one) = {Head(q)} /\ Rising(one, Earlier)
  BY <1>1 DEF Range, Rising
<1> HIDE DEF one
<1>3. Range(s) \X Range(one) \subseteq Earlier
  BY <1>1, <1>2 DEF Line
<1>4. Range(s \o one) = Range(s) \cup {Head(q)} /\ Rising(s \o one, Earlier)
  BY <1>2, <1>3, ConcatItems, ConcatRising DEF Line
<1>5. Line(s \o one, <<>>, Tail(q), B)
  BY <1>1, <1>4, NoItems DEF Line
<1> QED BY <1>5 DEF one

\* After a crash what was in flight is queued in front, and what was streamed behind.
LEMMA LineRecover ==
    ASSUME NEW s \in Seq(Items), NEW p \in Seq(Items), NEW q \in Seq(Items), NEW B, Line(s, p, q, B),
           NEW S, NEW q1, NEW q2, (q1 = q /\ q2 = <<>>) \/ (q1 = <<>> /\ q2 = q)
    PROVE  Line(<<>>, Without(s, S) \o p \o q1, q2, B)
<1> DEFINE a == Without(s, S)
           front == a \o p
<1>1. Line(a, p, q, B) /\ a \in Seq(Items)
  BY LineWithout, WithoutItems
<1> HIDE DEF a
<1>2. front \in Seq(Items) /\ Range(front) = Range(a) \cup Range(p)
  BY <1>1, ConcatItems
<1>3. Rising(front, Earlier)
  BY <1>1, ConcatRising DEF Line
<1> HIDE DEF front
<1>4. Range(<<>>) = {} /\ Rising(<<>>, Earlier) /\ <<>> \in Seq(Items)
  BY EmptySeq DEF Range, Rising
<1>5. q1 \in Seq(Items) /\ Rising(q1, Earlier) /\ Range(front) \X Range(q1) \subseteq Earlier
  BY <1>1, <1>2, <1>4 DEF Line
<1>6. Range(front \o q1) = Range(front) \cup Range(q1) /\ Rising(front \o q1, Earlier)
  BY <1>2, <1>3, <1>5, ConcatItems, ConcatRising
<1>7. Line(<<>>, front \o q1, q2, B)
  BY <1>1, <1>2, <1>4, <1>6 DEF Line
<1> QED BY <1>7 DEF front, a

\* The GUI streams an image that comes after all before it.
LEMMA LineFeed ==
    ASSUME NEW s, NEW p, NEW q \in Seq(Items), NEW B, Line(s, p, q, B),
           NEW i \in Items, B \X {i} \subseteq Earlier
    PROVE  Line(s, p, Append(q, i), B \cup {i}) /\ Line(s, p, q, B \cup {i})
<1>1. Range(Append(q, i)) = Range(q) \cup {i}
  BY AppendItems
<1>2. Range(q) \X {i} \subseteq Earlier
  BY DEF Line
<1>3. Rising(Append(q, i), Earlier)
  BY <1>2, AppendRising DEF Line
<1> QED BY <1>1, <1>3 DEF Line

\* A line in order is what InOrder asks for.
LEMMA LineInOrder ==
    ASSUME NEW s \in Seq(Items), NEW p \in Seq(Items), NEW q \in Seq(Items), NEW B, Line(s, p, q, B)
    PROVE  Rising(s \o p \o q, Earlier)
<1> DEFINE front == s \o p
<1>1. front \in Seq(Items) /\ Range(front) = Range(s) \cup Range(p) /\ Rising(front, Earlier)
  BY ConcatItems, ConcatRising DEF Line
<1> HIDE DEF front
<1>2. Rising(front \o q, Earlier)
  BY <1>1, ConcatRising DEF Line
<1> QED BY <1>2 DEF front

\* The whole images of the batch and those streamed to it have the places the GUI
\* gave them, and all are different.
LEMMA OrderPlaces ==
    /\ Len(WholeImages) \in Nat /\ Len(StreamedImages) \in Nat
    /\ DOMAIN Order = 1 .. Len(WholeImages) + Len(StreamedImages)
    /\ \A n \in DOMAIN Order : Order[n] \in Items /\ PlaceOf(Order[n]) = n
    /\ \A n \in 1 .. Len(WholeImages) : Order[n] = WholeImages[n]
    /\ \A n \in 1 .. Len(StreamedImages) :
           Order[Len(WholeImages) + n] = StreamedImages[n]
    /\ Range(StreamedImages) \cap (Range(CachedWork) \cup Range(WholeImages)) = {}
<1> USE SegBatchAssumption
<1> DEFINE two == CachedWork \o WholeImages
           all == two \o StreamedImages
<1>1. Distinct(all) /\ two \in Seq(Items)
  BY ConcatProperties DEF IsInjective, Distinct
<1>2. /\ Len(CachedWork) \in Nat /\ Len(WholeImages) \in Nat /\ Len(StreamedImages) \in Nat
      /\ Len(two) = Len(CachedWork) + Len(WholeImages)
      /\ DOMAIN WholeImages = 1 .. Len(WholeImages) /\ DOMAIN StreamedImages = 1 .. Len(StreamedImages)
      /\ \A n \in 1 .. Len(WholeImages) : two[Len(CachedWork) + n] = WholeImages[n]
  BY ConcatAt, ConcatProperties
<1> HIDE DEF all
<1>3. /\ \A n \in 1 .. Len(two) : n \in DOMAIN all /\ all[n] = two[n]
      /\ \A n \in 1 .. Len(StreamedImages) : Len(two) + n \in DOMAIN all /\ all[Len(two) + n] = StreamedImages[n]
      /\ DOMAIN two = 1 .. Len(two)
  BY <1>1, ConcatAt DEF all
<1> HIDE DEF two
<1>4. /\ DOMAIN Order = 1 .. Len(WholeImages) + Len(StreamedImages)
      /\ \A n \in 1 .. Len(WholeImages) : Order[n] = WholeImages[n]
      /\ \A n \in 1 .. Len(StreamedImages) : Order[Len(WholeImages) + n] = StreamedImages[n]
      /\ \A n \in DOMAIN Order : n \in 1 .. Len(WholeImages)
                                 \/ \E k \in 1 .. Len(StreamedImages) : n = Len(WholeImages) + k
      /\ Order \in Seq(Items)
  BY ConcatAt, ConcatProperties DEF Order
<1>5. ASSUME NEW n \in DOMAIN Order
      PROVE  Len(CachedWork) + n \in DOMAIN all /\ Order[n] = all[Len(CachedWork) + n]
  <2>1. CASE n \in 1 .. Len(WholeImages)
    <3>1. Len(CachedWork) + n \in 1 .. Len(two)
      BY <1>2, <2>1
    <3> QED BY <1>2, <1>3, <1>4, <2>1, <3>1
  <2>2. ASSUME NEW k \in 1 .. Len(StreamedImages), n = Len(WholeImages) + k
        PROVE  Len(CachedWork) + n \in DOMAIN all /\ Order[n] = all[Len(CachedWork) + n]
    <3>1. Len(CachedWork) + n = Len(two) + k
      BY <1>2, <2>2
    <3> QED BY <1>2, <1>3, <1>4, <2>2, <3>1
  <2> QED BY <1>4, <2>1, <2>2
<1>6. ASSUME NEW m \in DOMAIN Order, NEW n \in DOMAIN Order, Order[m] = Order[n] PROVE m = n
  <2>1. Len(CachedWork) + m = Len(CachedWork) + n
    BY <1>1, <1>5, <1>6 DEF Distinct
  <2> QED BY <1>2, <1>4, <2>1
<1>7. ASSUME NEW n \in DOMAIN Order PROVE Order[n] \in Items /\ PlaceOf(Order[n]) = n
  <2>1. Order[n] \in Items
    BY <1>2, <1>4, ElementOfSeq
  <2>2. PlaceOf(Order[n]) \in DOMAIN Order /\ Order[PlaceOf(Order[n])] = Order[n]
    BY DEF PlaceOf
  <2> QED BY <1>6, <2>1, <2>2
<1>8. ASSUME NEW n \in 1 .. Len(StreamedImages), StreamedImages[n] \in Range(CachedWork) \cup Range(WholeImages)
      PROVE  FALSE
  <2>1. Range(two) = Range(CachedWork) \cup Range(WholeImages)
    BY ConcatItems DEF two
  <2>2. PICK m \in 1 .. Len(two) : StreamedImages[n] = two[m]
    BY <1>3, <1>8, <2>1 DEF Range
  <2>3. m = Len(two) + n
    BY <1>1, <1>3, <2>2 DEF Distinct
  <2> QED BY <1>2, <2>2, <2>3
<1>9. Range(StreamedImages) \cap (Range(CachedWork) \cup Range(WholeImages)) = {}
  BY <1>2, <1>8 DEF Range
<1> QED BY <1>2, <1>4, <1>7, <1>9

----------------------------------------------------------------------------
(* The job limit                                                           *)

\* Dropping from a pair makes room if it held any of that.
LEMMA DropSizes ==
    ASSUME NEW p \in WorkPair, NEW S
    PROVE  /\ SizeOf(Drop(p, S)) <= SizeOf(p)
           /\ ItemsOf(p) \cap S # {} => SizeOf(Drop(p, S)) < SizeOf(p)
           /\ SizeOf(Drop(p, S)) \in Nat /\ SizeOf(p) \in Nat
<1>0. /\ p.cached \in Seq(Items) /\ p.tier1 \in Seq(Items)
      /\ Len(p.cached) \in Nat /\ Len(p.tier1) \in Nat
  BY PairFields, LenProperties
<1>1. Drop(p, S).cached = Without(p.cached, S) /\ Drop(p, S).tier1 = Without(p.tier1, S)
  BY PairFields
<1>2. /\ Len(Without(p.cached, S)) <= Len(p.cached) /\ Without(p.cached, S) \in Seq(Items)
      /\ Range(p.cached) \cap S # {} => Len(Without(p.cached, S)) < Len(p.cached)
  BY <1>0, WithoutItems, WithoutOrder
<1>3. /\ Len(Without(p.tier1, S)) <= Len(p.tier1) /\ Without(p.tier1, S) \in Seq(Items)
      /\ Range(p.tier1) \cap S # {} => Len(Without(p.tier1, S)) < Len(p.tier1)
  BY <1>0, WithoutItems, WithoutOrder
<1>4. Len(Without(p.cached, S)) \in Nat /\ Len(Without(p.tier1, S)) \in Nat
  BY <1>2, <1>3, LenProperties
<1>5. ItemsOf(p) \cap S # {} => Range(p.cached) \cap S # {} \/ Range(p.tier1) \cap S # {}
  BY DEF ItemsOf
<1>6. /\ SizeOf(Drop(p, S)) = Len(Drop(p, S).cached) + Len(Drop(p, S).tier1)
      /\ SizeOf(p) = Len(p.cached) + Len(p.tier1)
  BY Zenon DEF SizeOf
<1> DEFINE a == Len(p.cached)
           b == Len(p.tier1)
           d == Len(Without(p.cached, S))
           e == Len(Without(p.tier1, S))
<1>7. SizeOf(Drop(p, S)) = d + e /\ SizeOf(p) = a + b
  BY <1>1, <1>6, Zenon
<1>8. /\ a \in Nat /\ b \in Nat /\ d \in Nat /\ e \in Nat /\ d <= a /\ e <= b
      /\ ItemsOf(p) \cap S # {} => d < a \/ e < b
  BY <1>0, <1>2, <1>3, <1>4, <1>5
<1> HIDE DEF a, b, d, e
<1> QED BY <1>7, <1>8

\* The size of the pairs the bridge builds.
LEMMA PairSizes ==
    ASSUME NEW p \in WorkPair
    PROVE  /\ SizeOf(p) \in Nat
           /\ \A r \in WorkPair : SizeOf(Join(p, r)) = SizeOf(p) + SizeOf(r)
           /\ \A c \in 0 .. Len(p.cached), t \in 0 .. Len(p.tier1) :
                    FirstOf(p, c, t) \in WorkPair /\ SizeOf(FirstOf(p, c, t)) = c + t
           /\ SizeOf(p) = Len(AllOf(p))
<1>1. /\ p.cached \in Seq(Items) /\ p.tier1 \in Seq(Items)
      /\ Len(p.cached) \in Nat /\ Len(p.tier1) \in Nat
  BY PairFields, LenProperties
<1>2. ASSUME NEW r \in WorkPair PROVE SizeOf(Join(p, r)) = SizeOf(p) + SizeOf(r)
  <2>1. /\ r.cached \in Seq(Items) /\ r.tier1 \in Seq(Items)
        /\ Len(r.cached) \in Nat /\ Len(r.tier1) \in Nat
    BY PairFields, LenProperties
  <2>2. /\ Len(p.cached \o r.cached) = Len(p.cached) + Len(r.cached)
        /\ Len(p.tier1 \o r.tier1) = Len(p.tier1) + Len(r.tier1)
    BY <1>1, <2>1, ConcatProperties
  <2>3. Join(p, r).cached = p.cached \o r.cached /\ Join(p, r).tier1 = p.tier1 \o r.tier1
    BY PairFields
  <2>4. /\ SizeOf(Join(p, r)) = Len(Join(p, r).cached) + Len(Join(p, r).tier1)
        /\ SizeOf(p) = Len(p.cached) + Len(p.tier1)
        /\ SizeOf(r) = Len(r.cached) + Len(r.tier1)
    BY Zenon DEF SizeOf
  <2> DEFINE a == Len(p.cached)
             b == Len(p.tier1)
             d == Len(r.cached)
             e == Len(r.tier1)
  <2>5. SizeOf(Join(p, r)) = (a + d) + (b + e) /\ SizeOf(p) = a + b /\ SizeOf(r) = d + e
    BY <2>2, <2>3, <2>4, Zenon
  <2>6. a \in Nat /\ b \in Nat /\ d \in Nat /\ e \in Nat
    BY <1>1, <2>1
  <2> HIDE DEF a, b, d, e
  <2> QED BY <2>5, <2>6
<1>3. ASSUME NEW c \in 0 .. Len(p.cached), NEW t \in 0 .. Len(p.tier1)
      PROVE  FirstOf(p, c, t) \in WorkPair /\ SizeOf(FirstOf(p, c, t)) = c + t
  <2>1. FirstOf(p, c, t) \in WorkPair
    BY <1>3, PairTypes
  <2>2. Len(SubSeq(p.cached, 1, c)) = c /\ Len(SubSeq(p.tier1, 1, t)) = t
    BY <1>1, <1>3, SplitItems
  <2> QED BY <2>1, <2>2 DEF FirstOf, SizeOf
<1>4. SizeOf(p) = Len(AllOf(p))
  <2>1. Len(p.cached \o p.tier1) = Len(p.cached) + Len(p.tier1)
    BY <1>1, ConcatProperties
  <2> QED BY <2>1 DEF SizeOf, AllOf
<1> QED BY <1>2, <1>3, <1>4, PairTypes

\* The bridge handles an answer of an image in flight.
LEMMA AnswerIsAwaited ==
    ASSUME TypeOK, OneAnswerInv, pc = "handle", evs # <<>>, Head(evs).type # "Rss"
    PROVE  Head(evs).item \in ItemsOf(sent) /\ Head(evs).item \in Items
<1>1. sent \in WorkPair /\ evs \in Seq(Events) /\ evq \in Seq(Events)
  BY Serving
<1>2. evs \o evq \in Seq(Events) /\ evs \o evq # <<>> /\ Head(evs \o evq) = Head(evs)
  BY <1>1, EventQueues
<1>3. Reported(evs \o evq, InFlight, work)
  BY DEF OneAnswerInv, ReportedInv
<1>4. Head(evs).item \in InFlight
  BY <1>2, <1>3, ReportedTail
<1> QED BY <1>1, <1>4, PairTypes DEF InFlight

\* Before and between bursts nothing is promised.
LEMMA LimitBurst ==
    ASSUME TypeOK, OneAnswerInv, Burst
    PROVE  LimitInv'
<1>1. pc = "burst" /\ pc' = "head" /\ maxJobs' = maxJobs
  BY DEF Burst
<1>2. sent = NoWork /\ NoWork \in WorkPair /\ SizeOf(NoWork) = 0 /\ pending \in WorkPair
  BY <1>1, NoItems, EmptySeq, Serving DEF OneAnswerInv, StartInv, SizeOf
<1>3. Len(pending.cached) \in Nat /\ SizeOf(pending) \in Nat /\ maxJobs \in Nat
  BY <1>2, PairFields, PairSizes, LenProperties DEF TypeOK
<1>4. BurstSize \in Nat /\ BurstSize <= maxJobs
      /\ Lesser(BurstSize, Len(pending.cached)) \in 0 .. Len(pending.cached)
  BY <1>3 DEF BurstSize, Lesser
<1>5. PICK c \in 0 .. Lesser(BurstSize, Len(pending.cached)), t \in 0 .. Len(pending.tier1) :
          c + t <= BurstSize /\ HandOver(sent, FirstOf(pending, c, t))
  BY DEF Burst
<1>6. c \in 0 .. Len(pending.cached) /\ c \in Nat /\ t \in Nat
  BY <1>3, <1>4
<1>7. FirstOf(pending, c, t) \in WorkPair /\ SizeOf(FirstOf(pending, c, t)) = c + t
  BY <1>2, <1>6, PairSizes
<1>8. SizeOf(sent') = 0 + (c + t)
  BY <1>2, <1>5, <1>7, PairSizes DEF HandOver
<1> QED BY <1>1, <1>3, <1>4, <1>5, <1>6, <1>8 DEF LimitInv

\* Each admission takes the room that an answer left.
LEMMA LimitAdmit ==
    ASSUME TypeOK, OneAnswerInv, LimitInv, Admit
    PROVE  LimitInv'
<1>1. pc = "admit" /\ pc' = "handle" /\ maxJobs' = maxJobs
  BY DEF Admit
<1>2. /\ sent \in WorkPair /\ Swept \in WorkPair /\ maxJobs \in Nat
      /\ batch.id = 1 /\ chan[1].q \in Seq(Items)
      /\ Feed # <<>> => Feed = chan[1].q
  BY <1>1, Serving, SweepSays DEF TypeOK
<1>3. SizeOf(sent) \in Nat /\ SizeOf(sent) < maxJobs
  BY <1>1, <1>2, PairSizes DEF LimitInv
<1>4. ASSUME NEW q \in WorkPair, SizeOf(q) = 1, HandOver(sent, q) PROVE LimitInv'
  <2>1. SizeOf(sent') = SizeOf(sent) + 1
    BY <1>2, <1>4, PairSizes DEF HandOver
  <2> QED BY <1>1, <1>2, <1>3, <2>1 DEF LimitInv
<1>5. ASSUME Swept.cached # <<>>, HandOver(sent, FirstOf(Swept, 1, 0)) PROVE LimitInv'
  <2>1. 1 \in 0 .. Len(Swept.cached) /\ 0 \in 0 .. Len(Swept.tier1)
    BY <1>2, <1>5, PairTypes, LenProperties, EmptySeq
  <2>2. FirstOf(Swept, 1, 0) \in WorkPair /\ SizeOf(FirstOf(Swept, 1, 0)) = 1
    BY <1>2, <2>1, PairSizes
  <2> QED BY <1>4, <1>5, <2>2
<1>6. ASSUME Swept.tier1 # <<>>, HandOver(sent, FirstOf(Swept, 0, 1)) PROVE LimitInv'
  <2>1. 0 \in 0 .. Len(Swept.cached) /\ 1 \in 0 .. Len(Swept.tier1)
    BY <1>2, <1>6, PairTypes, LenProperties, EmptySeq
  <2>2. FirstOf(Swept, 0, 1) \in WorkPair /\ SizeOf(FirstOf(Swept, 0, 1)) = 1
    BY <1>2, <2>1, PairSizes
  <2> QED BY <1>4, <1>6, <2>2
<1>7. ASSUME Feed # <<>>, HandOver(sent, [NoWork EXCEPT !.tier1 = <<Head(Feed)>>]) PROVE LimitInv'
  <2> DEFINE one == [NoWork EXCEPT !.tier1 = <<Head(Feed)>>]
  <2>1. Head(Feed) \in Items
    BY <1>2, <1>7, TailItems
  <2>2. <<Head(Feed)>> \in Seq(Items) /\ Len(<<Head(Feed)>>) = 1
    BY <2>1
  <2>3. one.cached = <<>> /\ one.tier1 = <<Head(Feed)>> /\ one \in WorkPair
    BY <2>2, NoItems DEF WorkPair, NoWork
  <2>4. SizeOf(one) = 1
    <3>1. SizeOf(one) = Len(<<>>) + Len(<<Head(Feed)>>)
      BY <2>3 DEF SizeOf
    <3> QED BY <2>2, <3>1, EmptySeq
  <2> QED BY <1>4, <1>7, <2>3, <2>4
<1>8. ASSUME UNCHANGED sent PROVE LimitInv'
  BY <1>1, <1>2, <1>3, <1>8 DEF LimitInv
<1>9. \/ Swept.cached # <<>> /\ HandOver(sent, FirstOf(Swept, 1, 0))
      \/ Swept.tier1 # <<>> /\ HandOver(sent, FirstOf(Swept, 0, 1))
      \/ Feed # <<>> /\ HandOver(sent, [NoWork EXCEPT !.tier1 = <<Head(Feed)>>])
      \/ UNCHANGED sent
  BY Zenon DEF Admit
<1> QED BY <1>5, <1>6, <1>7, <1>8, <1>9

\* Every step keeps the limit.
LEMMA LimitStep ==
    ASSUME TypeOK, OneAnswerInv, LimitInv, [Next]_vars
    PROVE  LimitInv'
<1> USE DEF guiVars, stateVars, loopVars, bridgeVars, childVars
<1>1. ASSUME UNCHANGED <<pc, sent, maxJobs>> PROVE LimitInv'
  BY <1>1 DEF LimitInv
<1>2. ASSUME pc' \notin {"head", "handle", "admit"} PROVE LimitInv'
  BY <1>2 DEF LimitInv
<1>3. CASE \/ \E match \in BOOLEAN : TakeBatch(match)
           \/ EndBatch \/ TopCancelled \/ TopPoll \/ ListCancelled \/ Spawn \/ LoopCancelled \/ Recover
  BY <1>2, <1>3 DEF TakeBatch, EndBatch, TopCancelled, TopPoll, ListCancelled, Spawn, LoopCancelled, Recover
<1>4. CASE ReleaseWarm \/ Child \/ GuiNext \/ UNCHANGED vars
  BY <1>1, <1>4 DEF ReleaseWarm, Child, ChildNext, ChildFinish, ChildCancel, ChildRss, ChildCrash,
     ChildHang, ChildWake, Silence, ChildOnly, GuiNext, GuiStream, GuiClose, GuiCancelAll, GuiCancelItem,
     GuiOnly, vars, segVars
<1>5. CASE LoopPoll \/ HandleRss \/ LoopEnd
  <2>1. pc \in {"head", "handle"} /\ pc' # "admit" /\ UNCHANGED <<sent, maxJobs>>
    BY <1>5 DEF LoopPoll, HandleRss, LoopEnd
  <2> QED BY <2>1 DEF LimitInv
<1>6. CASE HandleDone \/ HandleError
  <2>1. /\ pc = "handle" /\ pc' \in {"handle", "admit"} /\ evs # <<>> /\ Head(evs).type # "Rss"
        /\ sent' = Drop(sent, {Head(evs).item}) /\ maxJobs' = maxJobs
    BY <1>6 DEF HandleDone, HandleError
  <2>2. ItemsOf(sent) \cap {Head(evs).item} # {} /\ sent \in WorkPair
    BY <2>1, AnswerIsAwaited DEF TypeOK
  <2>3. SizeOf(sent') < SizeOf(sent) /\ SizeOf(sent') \in Nat /\ SizeOf(sent) \in Nat
    BY <2>1, <2>2, DropSizes
  <2> QED BY <2>1, <2>3 DEF LimitInv, TypeOK
<1> QED BY <1>3, <1>4, <1>5, <1>6, LimitBurst, LimitAdmit DEF Next, Serve, BridgeNext

----------------------------------------------------------------------------
(* The order of the line                                                   *)

\* What the images of the batch are, and those streamed to it so far.
LEMMA BegunImages ==
    ASSUME fed \in 0 .. Len(StreamedImages)
    PROVE  /\ Range(WholeImages) \subseteq Begun
           /\ fed' = fed => Begun' = Begun
           /\ fed < Len(StreamedImages) /\ fed' = fed + 1
                => /\ Begun' = Begun \cup {StreamedImages[fed + 1]}
                   /\ Begun \X {StreamedImages[fed + 1]} \subseteq Earlier
                   /\ StreamedImages[fed + 1] \in Items
                   /\ StreamedImages[fed + 1] \in Range(StreamedImages)
<1> DEFINE w == Len(WholeImages)
           l == Len(StreamedImages)
<1>1. /\ w \in Nat /\ l \in Nat /\ DOMAIN Order = 1 .. w + l
      /\ \A n \in 1 .. w + l : Order[n] \in Items /\ PlaceOf(Order[n]) = n
      /\ \A n \in 1 .. w : Order[n] = WholeImages[n]
      /\ \A n \in 1 .. l : Order[w + n] = StreamedImages[n]
  BY OrderPlaces
<1>2. DOMAIN WholeImages = 1 .. w /\ DOMAIN StreamedImages = 1 .. l
  BY SegBatchAssumption, LenProperties
<1>3. fed \in 0 .. l /\ Begun = {Order[n] : n \in 1 .. w + fed} /\ Begun' = {Order[n] : n \in 1 .. w + fed'}
  BY DEF Begun
<1>4. Range(WholeImages) = {WholeImages[n] : n \in 1 .. w}
  BY <1>2 DEF Range
<1>5. \A n \in 1 .. l : StreamedImages[n] \in Range(StreamedImages)
  BY <1>2 DEF Range
<1> HIDE DEF w, l
<1>6. Range(WholeImages) \subseteq Begun
  BY <1>1, <1>3, <1>4
<1>7. ASSUME fed < l, fed' = fed + 1
      PROVE  /\ Begun' = Begun \cup {StreamedImages[fed + 1]}
             /\ Begun \X {StreamedImages[fed + 1]} \subseteq Earlier
             /\ StreamedImages[fed + 1] \in Items /\ StreamedImages[fed + 1] \in Range(StreamedImages)
  <2> DEFINE k == w + (fed + 1)
  <2>1. fed + 1 \in 1 .. l /\ k \in 1 .. w + l /\ 1 .. w + fed' = (1 .. w + fed) \cup {k}
        /\ \A n \in 1 .. w + fed : n \in 1 .. w + l /\ n < k
    BY <1>1, <1>3, <1>7
  <2>2. Order[k] = StreamedImages[fed + 1] /\ PlaceOf(Order[k]) = k /\ Order[k] \in Items
    BY <1>1, <2>1
  <2> HIDE DEF k
  <2>3. Begun' = Begun \cup {Order[k]}
    BY <1>3, <2>1
  <2>4. \A n \in 1 .. w + fed : <<Order[n], Order[k]>> \in Earlier
    BY <1>1, <2>1, <2>2 DEF Earlier
  <2>5. Begun \X {Order[k]} \subseteq Earlier
    BY <1>3, <2>4
  <2> QED BY <1>5, <2>1, <2>2, <2>3, <2>5
<1> QED BY <1>3, <1>6, <1>7 DEF l

\* The whole images of a batch are in order.
LEMMA WholeInOrder == Line(<<>>, WholeImages, <<>>, Range(WholeImages))
<1> DEFINE w == Len(WholeImages)
<1>1. /\ w \in Nat /\ Len(StreamedImages) \in Nat /\ DOMAIN Order = 1 .. w + Len(StreamedImages)
      /\ \A n \in DOMAIN Order : Order[n] \in Items /\ PlaceOf(Order[n]) = n
      /\ \A n \in 1 .. w : Order[n] = WholeImages[n]
  BY OrderPlaces
<1>2. DOMAIN WholeImages = 1 .. w
  BY SegBatchAssumption, LenProperties
<1> HIDE DEF w
<1>3. \A n \in 1 .. w : WholeImages[n] \in Items /\ PlaceOf(WholeImages[n]) = n
  BY <1>1
<1>4. ASSUME NEW m \in 1 .. w, NEW n \in 1 .. w, m < n PROVE <<WholeImages[m], WholeImages[n]>> \in Earlier
  BY <1>1, <1>3, <1>4 DEF Earlier
<1>5. Rising(WholeImages, Earlier)
  BY <1>2, <1>4 DEF Rising
<1>6. Range(<<>>) = {} /\ Rising(<<>>, Earlier)
  BY NoItems DEF Rising
<1> QED BY <1>5, <1>6 DEF Line

\* Nothing is in line before the batch.
LEMMA OrderInit == Init => OrderInv
<1> SUFFICES ASSUME Init PROVE OrderInv
  OBVIOUS
<1>1. /\ sent = NoWork /\ pending = NoWork
      /\ chan = [b \in Batches |-> [q |-> <<>>, tx |-> Streams, rx |-> Streams]]
  BY DEF Init
<1>2. chan[1].q = <<>> /\ sent.tier1 = <<>> /\ pending.tier1 = <<>>
  BY <1>1, NoItems, SegBatchAssumption
<1>3. Range(<<>>) = {} /\ Rising(<<>>, Earlier)
  BY NoItems DEF Rising
<1> QED BY <1>2, <1>3 DEF OrderInv, Line

\* A step that leaves the line as it is.
LEMMA OrderStays ==
    ASSUME TypeOK, OrderInv, UNCHANGED <<fed, sent, pending>>, chan'[1].q = chan[1].q
    PROVE  OrderInv'
<1>1. Begun' = Begun
  BY BegunImages DEF TypeOK
<1> QED BY <1>1 DEF OrderInv

\* A streamed image is taken off the channel.
LEMMA OrderTaken ==
    ASSUME TypeOK, OneAnswerInv, OrderInv, pc \notin {"idle", "return"}, TakeStreamed, UNCHANGED <<fed, sent>>
    PROVE  OrderInv'
<1> DEFINE q == chan[1].q
<1>1. /\ Feed = q /\ q # <<>> /\ q \in Seq(Items) /\ pending \in WorkPair /\ chan'[1].q = Tail(q)
  BY Serving, TakesStreamed
<1>2. pending' = [pending EXCEPT !.tier1 = Append(@, Head(q))]
  BY <1>1 DEF TakeStreamed
<1> HIDE DEF q
<1>3. pending.tier1 \in Seq(Items) /\ Head(q) \in Items /\ Range(Tail(q)) \subseteq Range(q)
  BY <1>1, PairFields, TailItems
<1>4. pending'.tier1 = Append(pending.tier1, Head(q))
  <2>1. Append(pending.tier1, Head(q)) \in Seq(Items)
    BY <1>3, AppendItems
  <2>2. pending' = [pending EXCEPT !.tier1 = Append(pending.tier1, Head(q))]
    BY <1>2
  <2> QED BY <1>1, <2>1, <2>2, PairFields
<1>5. Line(sent.tier1, pending.tier1, q, Begun) /\ Range(q) \subseteq Range(StreamedImages)
  BY DEF OrderInv, q
<1>6. Line(sent.tier1, Append(pending.tier1, Head(q)), Tail(q), Begun)
  BY <1>1, <1>3, <1>5, LineTake
<1>7. Begun' = Begun
  BY BegunImages DEF TypeOK
<1> QED BY <1>1, <1>3, <1>4, <1>5, <1>6, <1>7 DEF OrderInv

\* The first of the queue go to the child.
LEMMA OrderHandOver ==
    ASSUME NEW p \in WorkPair, NEW s \in WorkPair, NEW q, NEW B, Line(s.tier1, p.tier1, q, B),
           NEW c \in 0 .. Len(p.cached), NEW t \in 0 .. Len(p.tier1)
    PROVE  Line(Join(s, FirstOf(p, c, t)).tier1, RestOf(p, c, t).tier1, q, B)
<1>1. p.tier1 \in Seq(Items) /\ s.tier1 \in Seq(Items) /\ FirstOf(p, c, t) \in WorkPair
  BY PairTypes
<1>2. FirstOf(p, c, t).tier1 = SubSeq(p.tier1, 1, t)
      /\ RestOf(p, c, t).tier1 = SubSeq(p.tier1, t + 1, Len(p.tier1))
  BY DEF FirstOf, RestOf
<1>3. Join(s, FirstOf(p, c, t)).tier1 = s.tier1 \o SubSeq(p.tier1, 1, t)
  BY <1>2 DEF Join
<1>4. Line(s.tier1 \o SubSeq(p.tier1, 1, t), SubSeq(p.tier1, t + 1, Len(p.tier1)), q, B)
  BY <1>1, LineHandOver
<1> QED BY <1>2, <1>3, <1>4

\* Before a child is running.
LEMMA OrderStart ==
    ASSUME TypeOK, OneAnswerInv, OrderInv, UNCHANGED fed,
           \/ \E match \in BOOLEAN : TakeBatch(match)
           \/ EndBatch \/ TopPoll \/ Spawn \/ Burst
    PROVE  OrderInv'
<1> USE DEF guiVars, stateVars, loopVars, bridgeVars, childVars
<1>1. /\ pending \in WorkPair /\ sent \in WorkPair /\ chan[1].q \in Seq(Items) /\ Begun' = Begun
      /\ chan \in [{1} -> [q : Seq(Items), tx : BOOLEAN, rx : BOOLEAN]]
      /\ Line(sent.tier1, pending.tier1, chan[1].q, Begun)
      /\ Range(chan[1].q) \subseteq Range(StreamedImages)
  BY BegunImages, SegBatchAssumption DEF TypeOK, OrderInv
<1>2. sent.tier1 \in Seq(Items) /\ pending.tier1 \in Seq(Items)
  BY <1>1, PairFields
<1>3. ASSUME NEW match \in BOOLEAN, TakeBatch(match) PROVE OrderInv'
  <2>1. /\ pc = "idle" /\ inbox # <<>> /\ Head(inbox).type = "Batch"
        /\ pending' = [cached |-> Head(inbox).batch.cached, tier1 |-> Head(inbox).batch.tier1]
        /\ UNCHANGED <<chan, sent>>
    BY <1>3 DEF TakeBatch
  <2>2. PICK jobs \in JobChoices :
            inbox \in {<<BatchMessage(jobs)>>, <<[type |-> "ReleaseWarm"], BatchMessage(jobs)>>}
    BY <2>1 DEF OneAnswerInv, InboxInv, NotTaken
  <2>3. inbox = <<BatchMessage(jobs)>>
    BY <2>1, <2>2
  <2>4. Head(inbox) = BatchMessage(jobs)
    BY <2>3
  <2>5. pending'.tier1 = WholeImages
    BY <2>1, <2>4 DEF BatchMessage
  <2>6. sent'.tier1 = <<>> /\ chan'[1].q = <<>>
    BY <2>1, NoItems DEF OneAnswerInv, StartInv, InboxInv
  <2>7. Line(<<>>, WholeImages, <<>>, Begun)
    BY WholeInOrder, BegunImages DEF Line, TypeOK
  <2> QED BY <1>1, <2>5, <2>6, <2>7, NoItems DEF OrderInv
<1>4. ASSUME EndBatch PROVE OrderInv'
  <2>1. pending' = NoWork /\ sent' = NoWork /\ chan'[1].q = chan[1].q
    BY <1>1, <1>4 DEF EndBatch
  <2>2. Range(<<>>) = {} /\ Rising(<<>>, Earlier)
    BY NoItems DEF Rising
  <2> QED BY <1>1, <2>1, <2>2, NoItems DEF OrderInv, Line
<1>5. ASSUME TopPoll PROVE OrderInv'
  <2>1. CASE TakeStreamed
    <3>1. pc \notin {"idle", "return"} /\ UNCHANGED sent
      BY <1>5 DEF TopPoll
    <3> QED BY <2>1, <3>1, OrderTaken
  <2>2. CASE ~TakeStreamed
    <3>1. UNCHANGED <<chan, sent, pending>>
      BY <1>5, <2>2 DEF TopPoll
    <3> QED BY <3>1, OrderStays
  <2> QED BY <2>1, <2>2
<1>6. ASSUME Spawn PROVE OrderInv'
  <2>1. pending' = Swept /\ UNCHANGED <<sent, chan>>
    BY <1>6 DEF Spawn
  <2>2. Swept.tier1 \in {pending.tier1, Without(pending.tier1, Stopped)}
    BY <1>1, PairFields DEF Swept
  <2>3. Line(sent.tier1, Without(pending.tier1, Stopped), chan[1].q, Begun)
    BY <1>1, <1>2, LineWithout
  <2> QED BY <1>1, <2>1, <2>2, <2>3 DEF OrderInv
<1>7. ASSUME Burst PROVE OrderInv'
  <2>1. PICK c \in 0 .. Lesser(BurstSize, Len(pending.cached)), t \in 0 .. Len(pending.tier1) :
            HandOver(sent, FirstOf(pending, c, t)) /\ pending' = RestOf(pending, c, t)
    BY <1>7 DEF Burst
  <2>2. c \in 0 .. Len(pending.cached)
    <3>1. SizeOf(pending) \in Nat /\ Len(pending.cached) \in Nat /\ maxJobs \in Nat
      BY PairTypes DEF TypeOK
    <3>2. BurstSize \in Nat
      BY <3>1 DEF Lesser, BurstSize
    <3>3. Lesser(BurstSize, Len(pending.cached)) \in 0 .. Len(pending.cached)
      BY <3>1, <3>2 DEF Lesser
    <3> QED BY <3>1, <3>3
  <2>3. Line(sent'.tier1, pending'.tier1, chan[1].q, Begun)
    BY <1>1, <2>1, <2>2, OrderHandOver DEF HandOver
  <2>4. UNCHANGED chan
    BY <1>7 DEF Burst
  <2> QED BY <1>1, <2>3, <2>4 DEF OrderInv
<1> QED BY <1>3, <1>4, <1>5, <1>6, <1>7

\* One child's life, but for the admission of more work.
LEMMA OrderLife ==
    ASSUME TypeOK, OneAnswerInv, OrderInv, UNCHANGED fed, HandleDone \/ HandleError \/ LoopEnd
    PROVE  OrderInv'
<1>1. /\ pending \in WorkPair /\ sent \in WorkPair /\ Begun' = Begun
      /\ Line(sent.tier1, pending.tier1, chan[1].q, Begun) /\ chan[1].q \in Seq(Items)
      /\ Range(chan[1].q) \subseteq Range(StreamedImages)
  BY BegunImages, SegBatchAssumption DEF TypeOK, OrderInv
<1>2. sent.tier1 \in Seq(Items) /\ pending.tier1 \in Seq(Items)
  BY <1>1, PairFields
<1>3. CASE HandleDone \/ HandleError
  <2>1. sent' = Drop(sent, {Head(evs).item}) /\ UNCHANGED <<pending, chan>>
    BY <1>3 DEF HandleDone, HandleError
  <2>2. sent'.tier1 = Without(sent.tier1, {Head(evs).item})
    BY <1>1, <2>1, PairFields
  <2>3. Line(Without(sent.tier1, {Head(evs).item}), pending.tier1, chan[1].q, Begun)
    BY <1>1, <1>2, LineWithout
  <2> QED BY <1>1, <2>1, <2>2, <2>3 DEF OrderInv
<1>4. CASE LoopEnd
  <2>1. CASE TakeStreamed
    <3>1. pc \notin {"idle", "return"} /\ UNCHANGED sent
      BY <1>4 DEF LoopEnd
    <3> QED BY <2>1, <3>1, OrderTaken
  <2>2. CASE ~TakeStreamed
    <3>1. UNCHANGED <<chan, sent, pending>>
      BY <1>4, <2>2 DEF LoopEnd
    <3> QED BY <3>1, OrderStays
  <2> QED BY <2>1, <2>2
<1> QED BY <1>3, <1>4

\* More work is admitted: the queue comes before the channel.
LEMMA OrderAdmit ==
    ASSUME TypeOK, OneAnswerInv, OrderInv, UNCHANGED fed, Admit
    PROVE  OrderInv'
<1> DEFINE q == chan[1].q
<1>1. /\ pc = "admit" /\ batch.id = 1 /\ q \in Seq(Items) /\ sent \in WorkPair /\ pending \in WorkPair
      /\ Feed # <<>> => Feed = q
      /\ Swept \in WorkPair
  BY Serving, SweepSays DEF Admit
<1>2. /\ sent.tier1 \in Seq(Items) /\ pending.tier1 \in Seq(Items) /\ Swept.tier1 \in Seq(Items)
  BY <1>1, PairFields
<1>3. Line(sent.tier1, pending.tier1, q, Begun) /\ Range(q) \subseteq Range(StreamedImages) /\ Begun' = Begun
  BY BegunImages DEF TypeOK, OrderInv
<1>4. Line(sent.tier1, Swept.tier1, q, Begun)
  <2>1. Swept.tier1 \in {pending.tier1, Without(pending.tier1, Stopped)}
    BY <1>1, PairFields DEF Swept
  <2>2. Line(sent.tier1, Without(pending.tier1, Stopped), q, Begun)
    BY <1>1, <1>2, <1>3, LineWithout
  <2> QED BY <1>3, <2>1, <2>2
<1>5. ASSUME UNCHANGED chan, Line(sent'.tier1, pending'.tier1, q, Begun) PROVE OrderInv'
  BY <1>3, <1>5 DEF OrderInv, q
<1> HIDE DEF q
<1>6. ASSUME NEW c \in 0 .. Len(Swept.cached), NEW t \in 0 .. Len(Swept.tier1),
             HandOver(sent, FirstOf(Swept, c, t)), pending' = RestOf(Swept, c, t), UNCHANGED chan
      PROVE  OrderInv'
  BY <1>1, <1>4, <1>5, <1>6, OrderHandOver DEF HandOver
<1>7. ASSUME Feed # <<>>, chan' = [chan EXCEPT ![batch.id].q = Tail(@)]
      PROVE  /\ Feed = q /\ q # <<>> /\ chan'[1].q = Tail(q)
             /\ Head(q) \in Items /\ Range(Tail(q)) \subseteq Range(q)
  <2>1. chan \in [Batches -> [q : Seq(Items), tx : BOOLEAN, rx : BOOLEAN]] /\ 1 \in Batches
    BY SegBatchAssumption DEF TypeOK
  <2>2. Feed = q /\ q # <<>> /\ chan'[1].q = Tail(q)
    BY <1>1, <1>7, <2>1 DEF q
  <2> QED BY <1>1, <2>2, TailItems
<1>8. ASSUME Feed # <<>>, chan' = [chan EXCEPT ![batch.id].q = Tail(@)],
             Line(sent'.tier1, pending'.tier1, Tail(q), Begun)
      PROVE  OrderInv'
  BY <1>3, <1>7, <1>8 DEF OrderInv
<1>9. ASSUME Feed # <<>>, chan' = [chan EXCEPT ![batch.id].q = Tail(@)],
             pending' = Swept, UNCHANGED sent
      PROVE  OrderInv'
  <2>1. Line(sent.tier1, Swept.tier1, Tail(q), Begun)
    BY <1>1, <1>4, <1>7, <1>9, LineSkip
  <2> QED BY <1>8, <1>9, <2>1
<1>10. ASSUME Feed # <<>>, chan' = [chan EXCEPT ![batch.id].q = Tail(@)],
              pending' = [Swept EXCEPT !.tier1 = Append(@, Head(Feed))], UNCHANGED sent
       PROVE  OrderInv'
  <2>1. Append(Swept.tier1, Head(q)) \in Seq(Items)
    BY <1>2, <1>7, <1>10, AppendItems
  <2>2. pending' = [Swept EXCEPT !.tier1 = Append(Swept.tier1, Head(q))]
    BY <1>7, <1>10
  <2>3. pending'.tier1 = Append(Swept.tier1, Head(q))
    BY <1>1, <2>1, <2>2, PairFields
  <2>4. Line(sent.tier1, Append(Swept.tier1, Head(q)), Tail(q), Begun)
    BY <1>1, <1>2, <1>4, <1>7, <1>10, LineTake
  <2> QED BY <1>8, <1>10, <2>3, <2>4
<1>11. ASSUME Feed # <<>>, chan' = [chan EXCEPT ![batch.id].q = Tail(@)], Swept.tier1 = <<>>,
              pending' = Swept, HandOver(sent, [NoWork EXCEPT !.tier1 = <<Head(Feed)>>])
       PROVE  OrderInv'
  <2> DEFINE one == [NoWork EXCEPT !.tier1 = <<Head(q)>>]
  <2>1. one \in WorkPair /\ one.tier1 = <<Head(q)>>
    <3>1. <<Head(q)>> \in Seq(Items)
      BY <1>7, <1>11
    <3> QED BY <3>1, NoItems DEF NoWork, WorkPair
  <2>2. sent' = Join(sent, one)
    BY <1>7, <1>11 DEF HandOver
  <2> HIDE DEF one
  <2>3. sent'.tier1 = sent.tier1 \o <<Head(q)>>
    BY <2>1, <2>2 DEF Join
  <2>4. Line(sent.tier1, <<>>, q, Begun)
    BY <1>4, <1>11
  <2>5. Line(sent.tier1 \o <<Head(q)>>, <<>>, Tail(q), Begun)
    BY <1>1, <1>2, <1>7, <1>11, <2>4, LineSend
  <2> QED BY <1>8, <1>11, <2>3, <2>5
<1>12. ASSUME Swept.cached # <<>> PROVE 1 \in 0 .. Len(Swept.cached) /\ 0 \in 0 .. Len(Swept.tier1)
  BY <1>1, <1>12, PairTypes, LenProperties, EmptySeq
<1>13. ASSUME Swept.tier1 # <<>> PROVE 0 \in 0 .. Len(Swept.cached) /\ 1 \in 0 .. Len(Swept.tier1)
  BY <1>1, <1>13, PairTypes, LenProperties, EmptySeq
<1>14. \/ /\ Swept.cached # <<>> /\ UNCHANGED chan
          /\ HandOver(sent, FirstOf(Swept, 1, 0)) /\ pending' = RestOf(Swept, 1, 0)
       \/ /\ Swept.tier1 # <<>> /\ UNCHANGED chan
          /\ HandOver(sent, FirstOf(Swept, 0, 1)) /\ pending' = RestOf(Swept, 0, 1)
       \/ /\ Feed # <<>> /\ chan' = [chan EXCEPT ![batch.id].q = Tail(@)] /\ Swept.tier1 = <<>>
          /\ \/ pending' = Swept /\ UNCHANGED sent
             \/ pending' = [Swept EXCEPT !.tier1 = Append(@, Head(Feed))] /\ UNCHANGED sent
             \/ pending' = Swept /\ HandOver(sent, [NoWork EXCEPT !.tier1 = <<Head(Feed)>>])
       \/ pending' = Swept /\ UNCHANGED <<chan, sent>>
  BY Zenon DEF Admit
<1> QED BY <1>4, <1>5, <1>6, <1>9, <1>10, <1>11, <1>12, <1>13, <1>14

\* What was in flight goes back in front, what was streamed goes behind.
LEMMA OrderRecover ==
    ASSUME TypeOK, OneAnswerInv, OrderInv, UNCHANGED fed, Recover
    PROVE  OrderInv'
<1> DEFINE again == Without(sent.tier1, completed)
           line  == Requeued(again, Feed)
           q     == chan[1].q
<1>1. /\ pc = "head" /\ pending' = [pending EXCEPT !.tier1 = line] /\ sent' = NoWork
      /\ chan' = IF batch.streams THEN [chan EXCEPT ![batch.id].q = <<>>] ELSE chan
  BY DEF Recover
<1>2. /\ batch.id = 1 /\ Feed \in Seq(Items) /\ q \in Seq(Items)
      /\ IF batch.streams THEN Feed = q ELSE Feed = <<>>
      /\ pending \in WorkPair /\ sent \in WorkPair
  BY <1>1, Serving
<1>3. /\ sent.tier1 \in Seq(Items) /\ pending.tier1 \in Seq(Items)
      /\ again \in Seq(Items) /\ NoWork.tier1 = <<>>
  BY <1>2, PairFields, WithoutItems, NoItems
<1>4. chan'[1].q = IF batch.streams THEN <<>> ELSE q
  BY <1>1, <1>2, SegBatchAssumption DEF TypeOK
<1>5. Line(sent.tier1, pending.tier1, q, Begun) /\ Range(q) \subseteq Range(StreamedImages) /\ Begun' = Begun
  BY BegunImages DEF TypeOK, OrderInv
<1>6. line = again \o pending.tier1 \o Feed
  BY DEF Requeued
<1> HIDE DEF q, line
<1>7. Line(<<>>, again \o pending.tier1 \o Feed, chan'[1].q, Begun)
  <2>1. (Feed = q /\ chan'[1].q = <<>>) \/ (Feed = <<>> /\ chan'[1].q = q)
    BY <1>2, <1>4
  <2> QED BY <1>2, <1>3, <1>5, <2>1, LineRecover
<1> HIDE DEF again
<1>8. line \in Seq(Items)
  BY <1>2, <1>3, <1>6, ConcatProperties
<1>9. pending'.tier1 = line /\ sent'.tier1 = <<>>
  BY <1>1, <1>2, <1>3, <1>8, PairFields
<1>10. Range(chan'[1].q) \subseteq Range(StreamedImages)
  BY <1>4, <1>5, NoItems
<1> QED BY <1>5, <1>6, <1>7, <1>9, <1>10 DEF OrderInv

\* The GUI streams in order.
LEMMA OrderGui ==
    ASSUME TypeOK, OrderInv, GuiNext
    PROVE  OrderInv'
<1>1. UNCHANGED <<pending, sent>> /\ chan \in [{1} -> [q : Seq(Items), tx : BOOLEAN, rx : BOOLEAN]]
  BY SegBatchAssumption DEF TypeOK, GuiNext, GuiStream, GuiClose, GuiCancelAll, GuiCancelItem, GuiOnly,
         bridgeVars, stateVars
<1>2. CASE GuiStream
  <2> DEFINE i == StreamedImages[fed + 1]
             q == chan[1].q
  <2>1. fed < Len(StreamedImages) /\ fed' = fed + 1 /\ chan'[1].q \in {q, Append(q, i)}
    BY <1>1, <1>2 DEF GuiStream
  <2>2. /\ Begun' = Begun \cup {i} /\ Begun \X {i} \subseteq Earlier /\ i \in Items
        /\ i \in Range(StreamedImages)
    BY <2>1, BegunImages DEF TypeOK
  <2>3. q \in Seq(Items)
    BY <1>1
  <2>4. Line(sent.tier1, pending.tier1, q, Begun) /\ Range(q) \subseteq Range(StreamedImages)
    BY DEF OrderInv
  <2> HIDE DEF i, q
  <2>5. /\ Line(sent.tier1, pending.tier1, Append(q, i), Begun \cup {i})
        /\ Line(sent.tier1, pending.tier1, q, Begun \cup {i})
    BY <2>2, <2>3, <2>4, LineFeed
  <2>6. Range(Append(q, i)) = Range(q) \cup {i}
    BY <2>2, <2>3, AppendItems
  <2> QED BY <1>1, <2>1, <2>2, <2>4, <2>5, <2>6 DEF OrderInv
<1>3. CASE ~GuiStream
  <2>1. fed' = fed /\ chan'[1].q = chan[1].q
    BY <1>1, <1>3 DEF GuiNext, GuiClose, GuiCancelAll, GuiCancelItem
  <2> QED BY <1>1, <2>1, OrderStays
<1> QED BY <1>2, <1>3

\* Every step keeps the order.
LEMMA OrderStep ==
    ASSUME TypeOK, OneAnswerInv, OrderInv, [Next]_vars
    PROVE  OrderInv'
<1>1. ASSUME UNCHANGED <<fed, sent, pending, chan>> PROVE OrderInv'
  BY <1>1, OrderStays
<1>2. CASE UNCHANGED fed /\ \/ ReleaseWarm \/ TopCancelled \/ ListCancelled \/ LoopCancelled \/ LoopPoll \/ HandleRss
  BY <1>1, <1>2 DEF ReleaseWarm, TopCancelled, ListCancelled, LoopCancelled, LoopPoll, HandleRss, stateVars, bridgeVars
<1>3. CASE Child \/ UNCHANGED vars
  BY <1>1, <1>3 DEF Child, ChildNext, ChildFinish, ChildCancel, ChildRss, ChildCrash,
     ChildHang, ChildWake, Silence, ChildOnly, vars, segVars, bridgeVars, stateVars
<1> QED BY <1>2, <1>3, OrderStart, OrderLife, OrderAdmit, OrderRecover, OrderGui DEF Next, Serve, BridgeNext

\* The work in flight stays within the job limit, and the whole images of the
\* batch in the order the GUI gave them: across crashes, retries, cancels and
\* images streamed meanwhile.
THEOREM LineKept == Spec => []LineOK
<1>1. Init => LimitInv /\ OrderInv
  BY OrderInit DEF Init, LimitInv
<1>2. TypeOK /\ OneAnswerInv /\ LimitInv /\ OrderInv /\ [Next]_vars => (LimitInv /\ OrderInv)'
  BY LimitStep, OrderStep
<1>3. ASSUME TypeOK, LimitInv, OrderInv PROVE LineOK
  <2>1. sent \in WorkPair /\ pending \in WorkPair /\ chan[1].q \in Seq(Items) /\ maxJobs \in Nat
    BY <1>3, SegBatchAssumption DEF TypeOK
  <2>2. SizeOf(sent) \in Nat /\ SizeOf(sent) = Len(AllOf(sent))
    BY <2>1, PairSizes
  <2>3. WithinJobs
    BY <1>3, <2>1, <2>2 DEF WithinJobs, LimitInv
  <2> DEFINE line == sent.tier1 \o pending.tier1 \o chan[1].q
  <2>4. Rising(line, Earlier)
    <3>1. sent.tier1 \in Seq(Items) /\ pending.tier1 \in Seq(Items)
      BY <2>1, PairFields
    <3> QED BY <1>3, <2>1, <3>1, LineInOrder DEF OrderInv
  <2>5. InOrder
    <3> HIDE DEF line
    <3>1. \A m, n \in DOMAIN line : m < n => PlaceOf(line[m]) < PlaceOf(line[n])
      BY <2>4 DEF Rising, Earlier
    <3> QED BY <3>1 DEF InOrder, line
  <2> QED BY <2>3, <2>5 DEF LineOK
<1> QED BY <1>1, <1>2, <1>3, TypeCorrect, OnePlace, PTL DEF Spec

----------------------------------------------------------------------------
(* A paused child                                                          *)

\* A pause is forgotten with the child it was about.
LEMMA PausedStep ==
    ASSUME PausedInv, [Next]_vars
    PROVE  PausedInv'
<1> USE DEF guiVars, stateVars, loopVars, bridgeVars, childVars
<1>1. CASE Serve
  BY <1>1 DEF PausedInv, Serve, BridgeNext, TakeBatch, ReleaseWarm, EndBatch, TopCancelled, TopPoll,
     ListCancelled, Spawn, Burst, LoopCancelled, LoopPoll, HandleDone, Admit, HandleError, HandleRss,
     LoopEnd, Recover, ForgetChild
<1>2. CASE Child \/ GuiNext \/ UNCHANGED vars
  <2>1. UNCHANGED <<pc, paused>>
    BY <1>2 DEF Child, ChildNext, ChildFinish, ChildCancel, ChildRss, ChildCrash, ChildHang, ChildWake, Silence,
       ChildOnly, GuiNext, GuiStream, GuiClose, GuiCancelAll, GuiCancelItem, GuiOnly, vars, segVars
  <2> QED BY <2>1 DEF PausedInv
<1> QED BY <1>1, <1>2 DEF Next

\* No new work goes to a child while the memory it has reported keeps it
\* paused: not after an answer, and not from a queue the GUI fills meanwhile.
THEOREM PausedChildRests == Spec => NoAdmissionWhilePaused
<1>1. ASSUME TypeOK, PausedInv, [Next]_vars, paused, paused' PROVE ItemsOf(sent') \subseteq InFlight
  <2> USE <1>1 DEF guiVars, stateVars, loopVars, bridgeVars, childVars
  <2>1. ASSUME UNCHANGED sent PROVE ItemsOf(sent') \subseteq InFlight
    BY <2>1 DEF InFlight
  <2>2. CASE EndBatch \/ Recover \/ Burst
    BY <2>2 DEF EndBatch, Recover, Burst, ForgetChild, PausedInv
  <2>3. CASE HandleDone \/ HandleError
    <3>1. sent' = Drop(sent, {Head(evs).item}) /\ sent \in WorkPair
      BY <2>3 DEF HandleDone, HandleError, TypeOK
    <3>2. ItemsOf(Drop(sent, {Head(evs).item})) = ItemsOf(sent) \ {Head(evs).item}
      BY <3>1, PairFields
    <3> QED BY <3>1, <3>2 DEF InFlight
  <2>4. CASE Admit
    <3>1. UNCHANGED sent
      BY <2>4 DEF Admit, MayAdmit
    <3> QED BY <2>1, <3>1
  <2>5. CASE \/ \E match \in BOOLEAN : TakeBatch(match)
             \/ ReleaseWarm \/ TopCancelled \/ TopPoll \/ ListCancelled \/ Spawn
             \/ LoopCancelled \/ LoopPoll \/ HandleRss \/ LoopEnd
    BY <2>1, <2>5 DEF TakeBatch, ReleaseWarm, TopCancelled, TopPoll, ListCancelled, Spawn, LoopCancelled,
       LoopPoll, HandleRss, LoopEnd
  <2>6. CASE Child \/ GuiNext \/ UNCHANGED vars
    BY <2>1, <2>6 DEF Child, ChildNext, ChildFinish, ChildCancel, ChildRss, ChildCrash, ChildHang, ChildWake,
       Silence, ChildOnly, GuiNext, GuiStream, GuiClose, GuiCancelAll, GuiCancelItem, GuiOnly, vars, segVars
  <2> QED BY <2>2, <2>3, <2>4, <2>5, <2>6 DEF Next, Serve, BridgeNext
<1>2. Init => PausedInv
  BY DEF Init, PausedInv
<1>3. TypeOK /\ PausedInv /\ [Next]_vars => [paused /\ paused' => ItemsOf(sent') \subseteq InFlight]_vars
  BY <1>1
<1> QED BY <1>2, <1>3, PausedStep, TypeCorrect, PTL DEF Spec, NoAdmissionWhilePaused

----------------------------------------------------------------------------
(* The promise of BatchService                                             *)

\* Answers and retries do not end the batch.
LEMMA LogRunning ==
    ASSUME NEW log \in Seq(Results), ~Over(log), batch.id \in Batches
    PROVE  /\ \A i \in Items, r \in {"ok", "err", "cancelled"} : ~Over(Append(log, Answer(i, r)))
           /\ \A s \in Seq(Items), r \in {"ok", "err", "cancelled"} : ~Over(log \o AnswerAll(s, r))
           /\ ~Over(Append(log, Signal("Retry")))
<1>1. ASSUME NEW e \in Results, e.type \notin {"Complete", "Cancelled"} PROVE ~Over(Append(log, e))
  <2> DEFINE new == Append(log, e)
  <2>1. /\ DOMAIN log = 1 .. Len(log) /\ DOMAIN new = 1 .. Len(log) + 1 /\ Len(log) \in Nat
        /\ new[Len(log) + 1] = e /\ \A n \in 1 .. Len(log) : new[n] = log[n]
    BY <1>1, AppendProperties, LenProperties
  <2> HIDE DEF new
  <2>2. ~Over(new)
    BY <1>1, <2>1 DEF Over
  <2> QED BY <2>2 DEF new
<1>2. ASSUME NEW i \in Items, NEW r \in {"ok", "err", "cancelled"} PROVE ~Over(Append(log, Answer(i, r)))
  <2>1. Answer(i, r) \in Results /\ Answer(i, r).type = "ItemDone"
    BY AnswerTypes DEF Answer
  <2> QED BY <1>1, <2>1
<1>3. ~Over(Append(log, Signal("Retry")))
  <2>1. Signal("Retry") \in Results /\ Signal("Retry").type = "Retry"
    BY AnswerTypes DEF Signal
  <2> QED BY <1>1, <2>1
<1>4. ASSUME NEW s \in Seq(Items), NEW r \in {"ok", "err", "cancelled"} PROVE ~Over(log \o AnswerAll(s, r))
  <2> DEFINE round == AnswerAll(s, r)
             new   == log \o round
  <2>1. round \in Seq(Results) /\ \A n \in DOMAIN round : round[n].type = "ItemDone"
    BY AnswerTypes DEF AnswerAll, Answer
  <2> HIDE DEF round
  <2>2. /\ DOMAIN log = 1 .. Len(log) /\ DOMAIN round = 1 .. Len(round)
        /\ \A n \in 1 .. Len(log) : new[n] = log[n]
        /\ \A n \in 1 .. Len(round) : new[Len(log) + n] = round[n]
        /\ \A n \in DOMAIN new : n \in 1 .. Len(log) \/ \E k \in 1 .. Len(round) : n = Len(log) + k
    BY <2>1, ConcatAt, LenProperties
  <2> HIDE DEF new
  <2>3. ~Over(new)
    BY <2>1, <2>2 DEF Over
  <2> QED BY <2>3 DEF new, round
<1> QED BY <1>2, <1>3, <1>4

\* The batch is over only when the bridge returns.
LEMMA RunningStep ==
    ASSUME TypeOK, OneAnswerInv, RunningInv, [Next]_vars
    PROVE  RunningInv'
<1> USE DEF guiVars, stateVars, loopVars, bridgeVars, childVars
<1>1. ASSUME pc \notin {"idle", "return"}
      PROVE  ~Over(results) /\ results \in Seq(Results) /\ batch.id \in Batches
  BY <1>1, Serving DEF RunningInv
<1>2. ASSUME UNCHANGED <<pc, results>> PROVE RunningInv'
  BY <1>2 DEF RunningInv
<1>3. ASSUME pc \notin {"idle", "return"}, UNCHANGED results PROVE RunningInv'
  BY <1>1, <1>3 DEF RunningInv
<1>4. ASSUME pc' \in {"idle", "return"} PROVE RunningInv'
  BY <1>4 DEF RunningInv
<1>5. ASSUME NEW match \in BOOLEAN, TakeBatch(match) PROVE RunningInv'
  <2>1. results' = <<>>
    BY <1>5 DEF TakeBatch, OneAnswerInv, InboxInv
  <2>2. ~Over(<<>>)
    BY DEF Over
  <2> QED BY <2>1, <2>2 DEF RunningInv
<1>6. CASE Spawn \/ Admit
  <2>1. pc \in {"spawn", "admit"}
    BY <1>6 DEF Spawn, Admit
  <2>2. ~Over(Told) /\ Told \in Seq(Results) /\ batch.id \in Batches
    <3>1. doomed \in Seq(Items)
      BY DEF TypeOK
    <3> QED BY <1>1, <2>1, <3>1, LogRunning, SweepTypes DEF Told
  <2>3. CASE Spawn
    <3>1. pc' = "return" \/ results' = Told
      BY <2>3 DEF Spawn
    <3> QED BY <1>4, <2>2, <3>1 DEF RunningInv
  <2>4. CASE Admit
    <3>1. results' = Told \/ (Feed # <<>> /\ results' = Append(Told, Answer(Head(Feed), "cancelled")))
      BY <2>4, Zenon DEF Admit
    <3>2. ASSUME Feed # <<>> PROVE Head(Feed) \in Items
      BY <2>1, <3>2, Serving, TailItems
    <3> QED BY <2>2, <3>1, <3>2, LogRunning DEF RunningInv
  <2> QED BY <1>6, <2>3, <2>4
<1>7. CASE HandleDone \/ HandleError
  <2>1. /\ pc = "handle" /\ evs # <<>> /\ evs \in Seq(Events)
        /\ \/ Head(evs).type = "Done" /\ results' = Append(results, Answer(Head(evs).item, "ok"))
           \/ Head(evs).type = "Error" /\ results' = Append(results, Answer(Head(evs).item, Head(evs).res))
    BY <1>7 DEF HandleDone, HandleError, TypeOK
  <2>2. Head(evs) \in Events
    BY <2>1, HeadTailProperties
  <2>3. \E i \in Items, r \in {"ok", "err", "cancelled"} : results' = Append(results, Answer(i, r))
    BY <2>1, <2>2 DEF Events
  <2> QED BY <1>1, <2>1, <2>3, LogRunning DEF RunningInv
<1>8. CASE Recover
  <2> DEFINE lost == Without(sent.cached, completed)
             told == results \o AnswerAll(lost, "err")
  <2>1. pc = "head" /\ (pc' = "return" \/ results' = Append(told, Signal("Retry")))
    BY <1>8 DEF Recover
  <2>2. lost \in Seq(Items)
    BY <2>1, Serving, PairFields, WithoutItems
  <2> HIDE DEF lost
  <2>3. ~Over(told) /\ told \in Seq(Results)
    BY <1>1, <2>1, <2>2, LogRunning, LogAnswerAll
  <2> HIDE DEF told
  <2>4. ~Over(Append(told, Signal("Retry")))
    BY <1>1, <2>1, <2>3, LogRunning
  <2> QED BY <1>4, <2>1, <2>4 DEF RunningInv
<1>9. CASE TopCancelled \/ LoopCancelled \/ EndBatch
  BY <1>4, <1>9 DEF TopCancelled, LoopCancelled, EndBatch
<1>10. CASE TopPoll \/ LoopEnd
  <2>1. pc \notin {"idle", "return"} /\ (pc' = "return" \/ UNCHANGED results)
    BY <1>10 DEF TopPoll, LoopEnd
  <2> QED BY <1>3, <1>4, <2>1
<1>11. CASE ListCancelled \/ Burst \/ LoopPoll \/ HandleRss
  BY <1>3, <1>11 DEF ListCancelled, Burst, LoopPoll, HandleRss
<1>12. CASE ReleaseWarm \/ Child \/ GuiNext \/ UNCHANGED vars
  BY <1>2, <1>12 DEF ReleaseWarm, Child, ChildNext, ChildFinish, ChildCancel, ChildRss, ChildCrash, ChildHang,
     ChildWake, Silence, ChildOnly, GuiNext, GuiStream, GuiClose, GuiCancelAll, GuiCancelItem, GuiOnly, vars, segVars
<1> QED BY <1>5, <1>6, <1>7, <1>8, <1>9, <1>10, <1>11, <1>12 DEF Next, Serve, BridgeNext

\* What the log says of an image, counted.
LEMMA SaidOnce == OneAnswerInv => SaidInv
<1> SUFFICES ASSUME OneAnswerInv, NEW i \in Items
             PROVE  Cardinality(AnswersTo(i)) = IF i \in AnsweredIn(results) THEN 1 ELSE 0
  BY DEF SaidInv
<1>1. \A m, n \in AnswersTo(i) : m = n
  BY DEF OneAnswerInv, OnceIn, Answers, AnswersTo
<1>2. i \in AnsweredIn(results) <=> AnswersTo(i) # {}
  BY DEF AnsweredIn, Answers, AnswersTo
<1>3. CASE AnswersTo(i) = {}
  BY <1>2, <1>3, FS_EmptySet
<1>4. CASE AnswersTo(i) # {}
  <2>1. PICK n \in AnswersTo(i) : TRUE
    BY <1>4
  <2>2. AnswersTo(i) = {n}
    BY <1>1, <2>1
  <2>3. Cardinality(AnswersTo(i)) = 1
    BY <2>2, FS_Singleton
  <2> QED BY <1>2, <1>4, <2>3
<1> QED BY <1>3, <1>4

\* The request, and what the GUI may ask for.
Request == Range(CachedWork) \cup Range(WholeImages)

\* Both are images of the batch.
LEMMA AskedItems ==
    ASSUME TypeOK
    PROVE  Request \subseteq Asked /\ Asked \subseteq Items
<1>1. Range(CachedWork) \subseteq Items /\ Range(WholeImages) \subseteq Items
  BY SegBatchAssumption, RangeOfSeq
<1>2. \A n \in 1 .. fed : StreamedImages[n] \in Items
  <2>1. \A n \in 1 .. fed : n \in 1 .. Len(StreamedImages)
    BY SegBatchAssumption, LenProperties DEF TypeOK
  <2> QED BY <2>1, SegBatchAssumption, ElementOfSeq
<1> QED BY <1>1, <1>2 DEF Request, Asked

\* A step that leaves the promise as it is.
LEMMA PromiseStays ==
    ASSUME UNCHANGED <<results, fed, cancelled, cancelAll>>
    PROVE  UNCHANGED Promise!vars
BY DEF Promise!vars, Asked, Stopped, AnswersTo, Ended

\* What a step of the bridge says of the images, in the words of the promise.
LEMMA PromiseTells ==
    ASSUME SaidInv, SaidInv', NEW S, AnsweredIn(results') = AnsweredIn(results) \cup S,
           S \cap AnsweredIn(results) = {}, S \subseteq Asked, Asked \subseteq Items
    PROVE  Promise!Tell(S) /\ S \in SUBSET Promise!Unanswered
<1> DEFINE said == [i \in Items |-> Cardinality(AnswersTo(i))]
<1>1. said = [i \in Items |-> IF i \in AnsweredIn(results) THEN 1 ELSE 0]
  BY DEF SaidInv
<1>2. said' = [i \in Items |-> IF i \in AnsweredIn(results') THEN 1 ELSE 0]
  BY DEF SaidInv
<1>3. said' = [i \in Items |-> IF i \in S THEN 1 ELSE said[i]]
  BY <1>1, <1>2
<1>4. \A i \in S : i \in Asked /\ said[i] = 0
  BY <1>1
<1> QED BY <1>3, <1>4 DEF Promise!Tell, Promise!Unanswered

\* A step that answers and goes on.
LEMMA PromiseAnswers ==
    ASSUME SaidInv, SaidInv', ~Over(results), ~Over(results'), Asked \subseteq Items,
           UNCHANGED <<fed, cancelled, cancelAll>>,
           AnsweredIn(results) \subseteq AnsweredIn(results'), AnsweredIn(results') \subseteq Asked
    PROVE  Promise!Next
<1> DEFINE S == AnsweredIn(results') \ AnsweredIn(results)
<1>1. AnsweredIn(results') = AnsweredIn(results) \cup S /\ S \cap AnsweredIn(results) = {} /\ S \subseteq Asked
  OBVIOUS
<1> HIDE DEF S
<1>2. Promise!Tell(S) /\ S \in SUBSET Promise!Unanswered
  BY <1>1, PromiseTells
<1>3. Asked' = Asked /\ Stopped' = Stopped /\ ~Ended /\ Ended' = Ended
  BY DEF Asked, Stopped, Ended, Over
<1>4. Promise!Answer(S)
  BY <1>2, <1>3 DEF Promise!Answer
<1> QED BY <1>2, <1>4 DEF Promise!Next

\* A step that completes the batch.
LEMMA PromiseCompletes ==
    ASSUME SaidInv, SaidInv', ~Over(results), Over(results'), Asked \subseteq Items,
           UNCHANGED <<fed, cancelled, cancelAll>>,
           AnsweredIn(results) \subseteq AnsweredIn(results'), AnsweredIn(results') \subseteq Asked,
           Request \ Stopped \subseteq AnsweredIn(results')
    PROVE  Promise!Next
<1> DEFINE S == AnsweredIn(results') \ AnsweredIn(results)
<1>1. AnsweredIn(results') = AnsweredIn(results) \cup S /\ S \cap AnsweredIn(results) = {} /\ S \subseteq Asked
  OBVIOUS
<1>2. Request \ Stopped \subseteq AnsweredIn(results) \cup S
  OBVIOUS
<1> HIDE DEF S
<1>3. Promise!Tell(S) /\ S \in SUBSET Promise!Unanswered
  BY <1>1, PromiseTells
<1>4. Asked' = Asked /\ Stopped' = Stopped /\ ~Ended /\ Ended' = TRUE
  BY DEF Asked, Stopped, Ended, Over
<1>5. \A i \in Promise!Unanswered : i \notin AnsweredIn(results)
  BY DEF Promise!Unanswered, SaidInv
<1>6. (Request \ Stopped) \cap Promise!Unanswered \subseteq S
  BY <1>2, <1>5
<1>7. Promise!Complete(S)
  BY <1>3, <1>4, <1>6 DEF Promise!Complete, Request
<1> QED BY <1>3, <1>7 DEF Promise!Next

\* The GUI asks for more, or withdraws.
LEMMA PromiseGui ==
    ASSUME TypeOK, GuiNext
    PROVE  Promise!Next
<1>1. UNCHANGED results
  BY DEF GuiNext, GuiStream, GuiClose, GuiCancelAll, GuiCancelItem, GuiOnly
<1>2. /\ Ended' = Ended
      /\ [i \in Items |-> Cardinality(AnswersTo(i))]' = [i \in Items |-> Cardinality(AnswersTo(i))]
  BY <1>1 DEF Ended, AnswersTo
<1>3. CASE GuiStream
  <2>1. UNCHANGED <<cancelled, cancelAll>> /\ fed < Len(StreamedImages) /\ fed' = fed + 1
    BY <1>3 DEF GuiStream
  <2>2. StreamedImages[fed + 1] \in Items /\ Asked' = Asked \cup {StreamedImages[fed + 1]}
    BY <2>1, StreamedIsNew DEF TypeOK
  <2>3. Stopped' = Stopped
    BY <2>1 DEF Stopped
  <2>4. Promise!Ask(StreamedImages[fed + 1])
    BY <1>2, <2>2, <2>3 DEF Promise!Ask
  <2> QED BY <2>2, <2>4 DEF Promise!Next
<1>4. CASE ~GuiStream
  <2>1. fed' = fed
    BY <1>4 DEF GuiNext, GuiClose, GuiCancelAll, GuiCancelItem
  <2>2. Asked' = Asked
    BY <2>1 DEF Asked
  <2>3. Stopped \subseteq Stopped' /\ Stopped' \subseteq Items
    <3>1. cancelled \subseteq Items /\ Cancels \subseteq Items
      BY SegBatchAssumption DEF TypeOK
    <3>2. cancelled \subseteq cancelled' /\ cancelled' \subseteq Items /\ (cancelAll => cancelAll')
      BY <1>4, <3>1 DEF GuiNext, GuiClose, GuiCancelAll, GuiCancelItem
    <3> QED BY <3>1, <3>2 DEF Stopped
  <2>4. Promise!Withdraw(Stopped')
    BY <1>2, <2>2, <2>3 DEF Promise!Withdraw
  <2> QED BY <2>3, <2>4 DEF Promise!Next
<1> QED BY <1>3, <1>4

\* The invariants a step of the refinement counts on.
PromiseInv == TypeOK /\ OneAnswerInv /\ KeptInv /\ OrderInv /\ RunningInv /\ SaidInv

\* A step of the bridge that goes on, and says nothing it had not been asked.
LEMMA PromiseGoesOn ==
    ASSUME PromiseInv, PromiseInv', UNCHANGED <<fed, cancelled, cancelAll>>,
           pc \notin {"idle", "return"}, pc' \notin {"idle", "return"},
           AnsweredIn(results) \subseteq AnsweredIn(results')
    PROVE  Promise!Next
<1>1. /\ ~Over(results) /\ ~Over(results') /\ Asked' = Asked /\ Asked \subseteq Items
  BY AskedItems DEF PromiseInv, RunningInv, Asked
<1>2. AnsweredIn(results') \subseteq Asked'
  BY DEF PromiseInv, OneAnswerInv, PlacesInv, Places
<1> QED BY <1>1, <1>2, PromiseAnswers DEF PromiseInv

\* A step of the bridge that ends the batch.
LEMMA PromiseEnds ==
    ASSUME PromiseInv, PromiseInv', UNCHANGED <<fed, cancelled, cancelAll>>,
           pc \notin {"idle", "return"}, pc' = "return",
           AnsweredIn(results) \subseteq AnsweredIn(results'),
           AnsweredIn(results') \subseteq Asked,
           Request \ Stopped \subseteq AnsweredIn(results')
    PROVE  Promise!Next
<1>1. /\ ~Over(results) /\ Over(results') /\ Asked \subseteq Items
  BY AskedItems DEF PromiseInv, RunningInv, KeptInv, Ended, Over
<1> QED BY <1>1, PromiseCompletes DEF PromiseInv

\* What is left of the request while the batch runs: the channel holds none of it.
LEMMA RequestIsSomewhere ==
    ASSUME PromiseInv, pc \notin {"idle", "return"}
    PROVE  /\ Request \ Stopped \subseteq ItemsOf(pending) \cup ItemsOf(sent) \cup AnsweredIn(results)
           /\ ItemsOf(pending) \cup ItemsOf(sent) \cup Range(chan[1].q) \cup AnsweredIn(results) \subseteq Asked
<1>1. Request \subseteq Asked /\ Asked \subseteq Somewhere
  BY AskedItems DEF PromiseInv, KeptInv
<1>2. Request \cap Range(chan[1].q) = {}
  BY OrderPlaces DEF Request, PromiseInv, OrderInv
<1>3. Request \ Stopped \subseteq ItemsOf(pending) \cup ItemsOf(sent) \cup AnsweredIn(results)
  BY <1>1, <1>2 DEF Somewhere
<1>4. ItemsOf(pending) \cup ItemsOf(sent) \cup Range(chan[1].q) \cup AnsweredIn(results) \subseteq Asked
  BY DEF PromiseInv, OneAnswerInv, PlacesInv, Places
<1> QED BY <1>3, <1>4

\* A queue of size zero holds nothing.
LEMMA EmptyPair ==
    ASSUME NEW p \in WorkPair, SizeOf(p) = 0
    PROVE  ItemsOf(p) = {}
<1>1. p.cached \in Seq(Items) /\ p.tier1 \in Seq(Items)
  BY PairFields
<1>2. SizeOf(p) = Len(p.cached) + Len(p.tier1)
  BY Zenon DEF SizeOf
<1>3. Len(p.cached) \in Nat /\ Len(p.tier1) \in Nat
  BY <1>1, LenProperties
<1> DEFINE a == Len(p.cached)
           b == Len(p.tier1)
<1>4. a = 0 /\ b = 0
  <2> HIDE DEF a, b
  <2>1. a + b = 0 /\ a \in Nat /\ b \in Nat
    BY <1>2, <1>3 DEF a, b
  <2> QED BY <2>1
<1>5. p.cached = <<>> /\ p.tier1 = <<>>
  BY <1>1, <1>4, EmptySeq
<1> QED BY <1>5, NoItems DEF ItemsOf

\* Failing a queue answers all of it that was not settled.
LEMMA FailedSays ==
    ASSUME NEW q \in WorkPair, NEW log \in Seq(Results), batch.id \in Batches
    PROVE  /\ log \o Failed(q) \in Seq(Results)
           /\ AnsweredIn(log) \subseteq AnsweredIn(log \o Failed(q))
           /\ AnsweredIn(log \o Failed(q)) \subseteq AnsweredIn(log) \cup ItemsOf(q)
           /\ ItemsOf(q) \subseteq AnsweredIn(log \o Failed(q)) \cup completed
<1> DEFINE t == Without(q.tier1, completed)
           all == t \o q.cached
<1>1. q.cached \in Seq(Items) /\ q.tier1 \in Seq(Items)
  BY PairFields
<1>2. t \in Seq(Items) /\ Range(t) = Range(q.tier1) \ completed
  BY <1>1, WithoutItems
<1> HIDE DEF t
<1>3. all \in Seq(Items) /\ Range(all) = Range(t) \cup Range(q.cached)
  BY <1>1, <1>2, ConcatItems
<1>4. Failed(q) = AnswerAll(all, "err")
  BY DEF Failed, t
<1> HIDE DEF all
<1>5. /\ log \o Failed(q) \in Seq(Results)
      /\ AnsweredIn(log \o Failed(q)) = AnsweredIn(log) \cup Range(all)
  BY <1>3, <1>4, LogAnswerAll
<1> QED BY <1>2, <1>3, <1>5 DEF ItemsOf

\* A global cancel ends the batch unanswered.
LEMMA PromiseAborts ==
    ASSUME PromiseInv, PromiseInv', UNCHANGED fed, TopCancelled \/ LoopCancelled
    PROVE  Promise!Next
<1>1. /\ pc \in {"top", "head"} /\ cancelAll /\ pc' = "return" /\ UNCHANGED <<cancelled, cancelAll>>
      /\ results' = Append(results, Signal("Cancelled"))
  BY DEF TopCancelled, LoopCancelled, guiVars
<1>2. results \in Seq(Results) /\ batch.id \in Batches
  BY <1>1, Serving DEF PromiseInv
<1>3. AnsweredIn(results') = AnsweredIn(results)
  BY <1>1, <1>2, LogSignal
<1>4. [i \in Items |-> Cardinality(AnswersTo(i))]' = [i \in Items |-> Cardinality(AnswersTo(i))]
  BY <1>3 DEF PromiseInv, SaidInv
<1>5. ~Ended /\ Ended' = TRUE
  BY <1>1 DEF PromiseInv, RunningInv, KeptInv, Ended, Over
<1>6. Stopped = Items /\ Stopped' = Stopped /\ Asked' = Asked
  BY <1>1 DEF Stopped, Asked
<1>7. Promise!Abort
  BY <1>4, <1>5, <1>6 DEF Promise!Abort
<1> QED BY <1>7 DEF Promise!Next

\* With nothing queued and nothing in flight the request is answered.
LEMMA PromiseDrained ==
    ASSUME PromiseInv, PromiseInv', UNCHANGED fed, TopPoll \/ LoopEnd
    PROVE  Promise!Next \/ UNCHANGED Promise!vars
<1>1. pc \in {"top", "handle"} /\ UNCHANGED <<cancelled, cancelAll>>
  BY DEF TopPoll, LoopEnd, guiVars
<1>2. CASE UNCHANGED results
  BY <1>1, <1>2, PromiseStays
<1>3. CASE ~UNCHANGED results
  <2>1. /\ pc' = "return" /\ results' = Append(results, Signal("Complete"))
        /\ SizeOf(pending) = 0 /\ (pc = "handle" => InFlight = {})
    BY <1>3 DEF TopPoll, LoopEnd, Drained
  <2>2. /\ results \in Seq(Results) /\ batch.id \in Batches /\ pending \in WorkPair
    BY <1>1, Serving DEF PromiseInv
  <2>3. AnsweredIn(results') = AnsweredIn(results)
    BY <2>1, <2>2, LogSignal
  <2>4. ItemsOf(pending) = {} /\ ItemsOf(sent) = {}
    BY <1>1, <2>1, <2>2, EmptyPair, NoItems DEF PromiseInv, OneAnswerInv, StartInv, InFlight
  <2> QED BY <1>1, <2>1, <2>3, <2>4, RequestIsSomewhere, PromiseEnds
<1> QED BY <1>2, <1>3

\* The last look at the registry before a child is started, and a start that fails.
LEMMA PromiseSpawns ==
    ASSUME PromiseInv, PromiseInv', UNCHANGED fed, Spawn
    PROVE  Promise!Next
<1>1. /\ pc = "spawn" /\ UNCHANGED <<cancelled, cancelAll>> /\ sent = NoWork
  BY DEF Spawn, guiVars, PromiseInv, OneAnswerInv, StartInv
<1>2. /\ Swept \in WorkPair /\ Told \in Seq(Results) /\ batch.id \in Batches
      /\ Places(Swept, sent, chan[1].q, AnsweredIn(Told), Asked)
      /\ ItemsOf(pending) \subseteq ItemsOf(Swept) \cup Stopped
      /\ AnsweredIn(Told) = AnsweredIn(results) \cup Range(doomed)
      /\ completed \subseteq AnsweredIn(Told)
  BY <1>1, SweepSays, SweptKept, Serving DEF PromiseInv
<1>3. ItemsOf(Swept) \cup AnsweredIn(Told) \subseteq Asked
  BY <1>2 DEF Places
<1>4. Request \ Stopped \subseteq ItemsOf(Swept) \cup AnsweredIn(Told)
  BY <1>1, <1>2, RequestIsSomewhere, NoItems
<1>5. CASE results' = Told /\ pc' = "burst"
  BY <1>1, <1>2, <1>5, PromiseGoesOn
<1>6. CASE SizeOf(Swept) = 0 /\ results' = Append(Told, Signal("Complete")) /\ pc' = "return"
  <2>1. AnsweredIn(results') = AnsweredIn(Told)
    BY <1>2, <1>6, LogSignal
  <2>2. ItemsOf(Swept) = {}
    BY <1>2, <1>6, EmptyPair
  <2> QED BY <1>1, <1>2, <1>3, <1>4, <1>6, <2>1, <2>2, PromiseEnds
<1>7. CASE results' = Append(Told \o Failed(Swept), Signal("Complete")) /\ pc' = "return"
  <2> DEFINE log == Told \o Failed(Swept)
  <2>1. /\ log \in Seq(Results) /\ AnsweredIn(Told) \subseteq AnsweredIn(log)
        /\ AnsweredIn(log) \subseteq AnsweredIn(Told) \cup ItemsOf(Swept)
        /\ ItemsOf(Swept) \subseteq AnsweredIn(log) \cup completed
    BY <1>2, FailedSays
  <2> HIDE DEF log
  <2>2. AnsweredIn(results') = AnsweredIn(log)
    BY <1>2, <1>7, <2>1, LogSignal DEF log
  <2>3. AnsweredIn(results) \subseteq AnsweredIn(log)
    BY <1>2, <2>1
  <2>4. AnsweredIn(log) \subseteq Asked
    BY <1>3, <2>1
  <2>5. Request \ Stopped \subseteq AnsweredIn(log)
    BY <1>2, <1>4, <2>1
  <2> QED BY <1>1, <1>7, <2>2, <2>3, <2>4, <2>5, PromiseEnds
<1> QED BY <1>5, <1>6, <1>7 DEF Spawn

\* An answer of the child, and an admission that answers what was cancelled.
LEMMA PromiseServes ==
    ASSUME PromiseInv, PromiseInv', UNCHANGED fed, HandleDone \/ HandleError \/ Admit
    PROVE  Promise!Next
<1>1. /\ pc \in {"handle", "admit"} /\ pc' \in {"handle", "admit"} /\ UNCHANGED <<cancelled, cancelAll>>
  BY DEF HandleDone, HandleError, Admit, guiVars
<1>2. results \in Seq(Results) /\ batch.id \in Batches /\ evs \in Seq(Events) /\ Feed \in Seq(Items)
  BY <1>1, Serving DEF PromiseInv
<1>3. CASE HandleDone \/ HandleError
  <2>1. /\ evs # <<>>
        /\ \/ Head(evs).type = "Done" /\ results' = Append(results, Answer(Head(evs).item, "ok"))
           \/ Head(evs).type = "Error" /\ results' = Append(results, Answer(Head(evs).item, Head(evs).res))
    BY <1>3 DEF HandleDone, HandleError
  <2>2. Head(evs) \in Events
    BY <1>2, <2>1, HeadTailProperties
  <2>3. PICK i \in Items, r \in {"ok", "err", "cancelled"} : results' = Append(results, Answer(i, r))
    BY <2>1, <2>2 DEF Events
  <2>4. AnsweredIn(results') = AnsweredIn(results) \cup {i}
    BY <1>2, <2>3, LogAnswer
  <2> QED BY <1>1, <2>4, PromiseGoesOn
<1>4. CASE Admit
  <2>1. pc = "admit"
    BY <1>4 DEF Admit
  <2>2. Told \in Seq(Results) /\ AnsweredIn(Told) = AnsweredIn(results) \cup Range(doomed)
    BY <2>1, SweepSays, SweptKept DEF PromiseInv
  <2>3. results' = Told \/ (Feed # <<>> /\ results' = Append(Told, Answer(Head(Feed), "cancelled")))
    BY <1>4, Zenon DEF Admit
  <2>4. ASSUME Feed # <<>>, results' = Append(Told, Answer(Head(Feed), "cancelled"))
        PROVE  AnsweredIn(Told) \subseteq AnsweredIn(results')
    <3>1. Head(Feed) \in Items
      BY <1>2, <2>4, TailItems
    <3> QED BY <1>2, <2>2, <2>4, <3>1, LogAnswer
  <2> QED BY <1>1, <2>2, <2>3, <2>4, PromiseGoesOn
<1> QED BY <1>3, <1>4

\* A lost child: what it had is answered or queued again, and at one job
\* everything is answered.
LEMMA PromiseRecovers ==
    ASSUME PromiseInv, PromiseInv', UNCHANGED fed, Recover
    PROVE  Promise!Next
<1> DEFINE again == Without(sent.tier1, completed)
           lost  == Without(sent.cached, completed)
           line  == Requeued(again, Feed)
           queue == [pending EXCEPT !.tier1 = line]
           told  == results \o AnswerAll(lost, "err")
<1>1. /\ pc = "head" /\ UNCHANGED <<cancelled, cancelAll>>
      /\ \/ /\ pc' = "return"
            /\ results' = Append(told \o Failed(queue), Signal("Complete"))
         \/ pc' = "top" /\ results' = Append(told, Signal("Retry"))
  BY DEF Recover, guiVars
<1>2. /\ batch.id \in Batches /\ Feed \in Seq(Items) /\ (Feed = chan[1].q \/ Feed = <<>>)
      /\ pending \in WorkPair /\ sent \in WorkPair /\ results \in Seq(Results)
  BY <1>1, Serving DEF PromiseInv
<1>3. /\ sent.tier1 \in Seq(Items) /\ sent.cached \in Seq(Items) /\ pending.tier1 \in Seq(Items)
  BY <1>2, PairFields
<1>4. /\ again \in Seq(Items) /\ Range(again) = Range(sent.tier1) \ completed
      /\ lost \in Seq(Items) /\ Range(lost) = Range(sent.cached) \ completed
  BY <1>3, WithoutItems
<1>5. told \in Seq(Results) /\ AnsweredIn(told) = AnsweredIn(results) \cup Range(lost)
  BY <1>2, <1>4, LogAnswerAll
<1> HIDE DEF again, lost
<1>6. line \in Seq(Items) /\ Range(line) = Range(again) \cup Range(pending.tier1) \cup Range(Feed)
  <2> DEFINE front == again \o pending.tier1
  <2>1. front \in Seq(Items) /\ Range(front) = Range(again) \cup Range(pending.tier1)
    BY <1>3, <1>4, ConcatItems
  <2>2. line = front \o Feed
    BY DEF Requeued
  <2> HIDE DEF front, line
  <2>3. line \in Seq(Items) /\ Range(line) = Range(front) \cup Range(Feed)
    BY <1>2, <2>1, <2>2, ConcatItems
  <2> QED BY <2>1, <2>3
<1> HIDE DEF line
<1>7. queue \in WorkPair /\ ItemsOf(queue) = Range(pending.cached) \cup Range(line)
  <2>1. queue.cached = pending.cached /\ queue.tier1 = line
    BY <1>2, <1>6, PairFields
  <2>2. queue \in WorkPair
    BY <1>2, <1>6 DEF WorkPair
  <2> QED BY <2>1, <2>2 DEF ItemsOf
<1> HIDE DEF told, queue
<1>8. CASE pc' = "top" /\ results' = Append(told, Signal("Retry"))
  <2>1. AnsweredIn(results') = AnsweredIn(told)
    BY <1>2, <1>5, <1>8, LogSignal
  <2> QED BY <1>1, <1>5, <1>8, <2>1, PromiseGoesOn
<1>9. CASE pc' = "return" /\ results' = Append(told \o Failed(queue), Signal("Complete"))
  <2> DEFINE log == told \o Failed(queue)
  <2>1. /\ log \in Seq(Results) /\ AnsweredIn(told) \subseteq AnsweredIn(log)
        /\ AnsweredIn(log) \subseteq AnsweredIn(told) \cup ItemsOf(queue)
        /\ ItemsOf(queue) \subseteq AnsweredIn(log) \cup completed
    BY <1>2, <1>5, <1>7, FailedSays
  <2> HIDE DEF log
  <2>2. AnsweredIn(results') = AnsweredIn(log)
    BY <1>2, <1>9, <2>1, LogSignal DEF log
  <2>3. completed \subseteq AnsweredIn(results)
    BY <1>1 DEF PromiseInv, KeptInv
  <2>4. /\ Request \ Stopped \subseteq ItemsOf(pending) \cup ItemsOf(sent) \cup AnsweredIn(results)
        /\ ItemsOf(pending) \cup ItemsOf(sent) \cup Range(chan[1].q) \cup AnsweredIn(results) \subseteq Asked
    BY <1>1, RequestIsSomewhere
  <2>5. ItemsOf(pending) \cup ItemsOf(sent) \subseteq ItemsOf(queue) \cup Range(lost) \cup completed
    BY <1>4, <1>6, <1>7 DEF ItemsOf
  <2>6. ItemsOf(queue) \cup Range(lost) \subseteq ItemsOf(pending) \cup ItemsOf(sent) \cup Range(chan[1].q)
    BY <1>2, <1>4, <1>6, <1>7, NoItems DEF ItemsOf
  <2>7. AnsweredIn(results) \subseteq AnsweredIn(log)
    BY <1>5, <2>1
  <2>8. AnsweredIn(log) \subseteq Asked
    BY <1>5, <2>1, <2>4, <2>6
  <2>9. Request \ Stopped \subseteq AnsweredIn(log)
    BY <1>5, <2>1, <2>3, <2>4, <2>5
  <2> QED BY <1>1, <1>9, <2>2, <2>7, <2>8, <2>9, PromiseEnds
<1> QED BY <1>1, <1>8, <1>9

\* The bridge, with its queues, its children, its retries and its cancels,
\* implements BatchService: every step of it answers images that were asked for
\* and not answered, or ends the batch with the request answered or withdrawn,
\* or is a stutter of the promise.
THEOREM PromiseKept == Spec => KeepsPromise
<1>1. Init => RunningInv
  BY DEF Init, RunningInv
<1>2. Spec => []PromiseInv
  <2>1. Init => OrderInv
    BY OrderInit
  <2>2. TypeOK /\ OneAnswerInv /\ OrderInv /\ [Next]_vars => OrderInv'
    BY OrderStep
  <2>3. TypeOK /\ OneAnswerInv /\ RunningInv /\ [Next]_vars => RunningInv'
    BY RunningStep
  <2> QED BY <1>1, <2>1, <2>2, <2>3, TypeCorrect, OnePlace, AllKept, SaidOnce, PTL DEF Spec, PromiseInv
<1>3. Init => Promise!Init
  <2> SUFFICES ASSUME Init PROVE Promise!Init
    OBVIOUS
  <2>1. results = <<>> /\ cancelled = {} /\ cancelAll = FALSE /\ fed = 0
    BY DEF Init
  <2>2. Asked = Range(CachedWork) \cup Range(WholeImages)
    BY <2>1 DEF Asked
  <2>3. Stopped = {} /\ Ended = FALSE
    BY <2>1 DEF Stopped, Ended
  <2>4. \A i \in Items : Cardinality(AnswersTo(i)) = 0
    <3>1. \A i \in Items : AnswersTo(i) = {}
      BY <2>1 DEF AnswersTo
    <3> QED BY <3>1, FS_EmptySet
  <2> QED BY <2>2, <2>3, <2>4 DEF Promise!Init
<1>4. PromiseInv /\ PromiseInv' /\ [Next]_vars => [Promise!Next]_Promise!vars
  <2> SUFFICES ASSUME PromiseInv, PromiseInv', [Next]_vars PROVE Promise!Next \/ UNCHANGED Promise!vars
    OBVIOUS
  <2> USE DEF guiVars, stateVars, loopVars, bridgeVars, childVars
  <2>1. CASE UNCHANGED fed /\ \/ \E match \in BOOLEAN : TakeBatch(match)
                              \/ ReleaseWarm \/ EndBatch \/ ListCancelled \/ Burst \/ LoopPoll \/ HandleRss
    BY <2>1, PromiseStays DEF TakeBatch, ReleaseWarm, EndBatch, ListCancelled, Burst, LoopPoll, HandleRss
  <2>2. CASE Child \/ UNCHANGED vars
    BY <2>2, PromiseStays DEF Child, ChildNext, ChildFinish, ChildCancel, ChildRss, ChildCrash, ChildHang,
       ChildWake, Silence, ChildOnly, vars, segVars
  <2>3. CASE GuiNext
    BY <2>3, PromiseGui DEF PromiseInv
  <2> QED BY <2>1, <2>2, <2>3, PromiseAborts, PromiseDrained, PromiseSpawns, PromiseServes, PromiseRecovers
          DEF Next, Serve, BridgeNext
<1> QED BY <1>2, <1>3, <1>4, PTL DEF Spec, KeepsPromise, Promise!Spec
============================================================================
