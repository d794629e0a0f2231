----------------------------- MODULE AppProofs -----------------------------
(***************************************************************************)
(* The GUI thread's side of background removal, for any number of images,  *)
(* runs and steps of the user: the memory of what is in flight is          *)
(* accounted for, no image is with the bridge twice, and a result lands on *)
(* the state it was made from.  First comes the admission controller by    *)
(* itself, for any sequence of calls.                                      *)
(***************************************************************************)
EXTENDS MCApp, CollectionTheorems, TLAPS

----------------------------------------------------------------------------
(* The admission controller: every image has one place, what is in flight  *)
(* is counted exactly, and the budget is exceeded for one image alone.     *)

Controllers == [waiting : Seq(Images), held : SUBSET Images, committed : Nat]

\* A controller as it can be: its type, and what ControllerOK says of it.
Sound(c) == c \in Controllers /\ Placed(c) /\ Balanced(c) /\ WithinMeans(c)

AdmInv == Sound(ctrl)

----------------------------------------------------------------------------
(* Facts about costs and lines                                             *)

\* A set of places in a line has a first one.
LEMMA FirstIsThere ==
    ASSUME NEW S, S \subseteq Nat, S # {}
    PROVE  First(S) \in S
<1>1. PICK n \in S : \A y \in S : ~ (<<y, n>> \in OpToRel(<, Nat))
  BY WFMin, NatLessThanWellFounded
<1>2. \A m \in S : n <= m
  <2> SUFFICES ASSUME NEW m \in S, ~(n <= m) PROVE FALSE
    OBVIOUS
  <2>1. m < n /\ m \in Nat /\ n \in Nat
    OBVIOUS
  <2>2. <<m, n>> \in OpToRel(<, Nat)
    BY <2>1 DEF OpToRel
  <2> QED BY <1>1, <2>2
<1> QED BY <1>1, <1>2 DEF First

\* What is in flight is finite, and its cost a number.
LEMMA CostsAdd ==
    ASSUME NEW S, S \subseteq Images
    PROVE  /\ IsFiniteSet(S)
           /\ \A x \in S : Cost[x] \in Nat
           /\ Total(Cost, S) \in Nat
<1>1. IsFiniteSet(S)
  BY FS_Subset, AdmissionAssumption
<1>2. \A x \in S : Cost[x] \in Nat
  BY AdmissionAssumption
<1> QED BY <1>1, <1>2, TokensFinite

\* The image let in waited; it fits, or nothing is in flight.
LEMMA ChosenWaits ==
    ASSUME NEW c, Sound(c), CanAdmit(c)
    PROVE  /\ Chosen(c) \in Range(c.waiting) /\ Chosen(c) \in Images
           /\ Cost[Chosen(c)] <= Remaining(c) \/ c.held = {}
<1>1. c.waiting \in Seq(Images)
  BY DEF Sound, Controllers
<1>2. DOMAIN c.waiting = 1 .. Len(c.waiting) /\ Len(c.waiting) \in Nat
  BY <1>1, LenProperties
<1>3. CASE Fitting(c) # {}
  <2>1. Fitting(c) \subseteq Nat
    BY <1>2 DEF Fitting
  <2>2. First(Fitting(c)) \in Fitting(c)
    BY <2>1, <1>3, FirstIsThere
  <2>3. First(Fitting(c)) \in DOMAIN c.waiting /\ Cost[c.waiting[First(Fitting(c))]] <= Remaining(c)
    BY <2>2 DEF Fitting
  <2>4. Chosen(c) = c.waiting[First(Fitting(c))]
    BY <1>3 DEF Chosen
  <2>5. Chosen(c) \in Range(c.waiting)
    BY <2>3, <2>4 DEF Range
  <2> QED BY <2>3, <2>4, <2>5, <1>1, RangeOfSeq
<1>4. CASE Fitting(c) = {}
  <2>1. c.held = {} /\ c.waiting # <<>>
    BY <1>4 DEF CanAdmit, Forced
  <2>2. Chosen(c) = c.waiting[Len(c.waiting)]
    BY <1>4 DEF Chosen
  <2>3. Len(c.waiting) \in DOMAIN c.waiting
    BY <1>1, <1>2, <2>1, EmptySeq
  <2>4. Chosen(c) \in Range(c.waiting)
    BY <2>2, <2>3 DEF Range
  <2> QED BY <2>1, <2>4, <1>1, RangeOfSeq
<1> QED BY <1>3, <1>4

----------------------------------------------------------------------------
(* The two operations                                                      *)

\* try_admit_next moves one image from the line to those in flight.
LEMMA AdmittedIsSound ==
    ASSUME NEW c, Sound(c), CanAdmit(c)
    PROVE  Sound(Admitted(c))
<1> DEFINE i == Chosen(c)
           d == Admitted(c)
<1>1. /\ i \in Range(c.waiting) /\ i \in Images /\ i \notin c.held
      /\ Cost[i] <= Remaining(c) \/ c.held = {}
  BY ChosenWaits DEF Sound, Placed
<1>2. /\ c.waiting \in Seq(Images) /\ c.held \subseteq Images /\ c.committed \in Nat
      /\ Distinct(c.waiting) /\ Range(c.waiting) \cap c.held = {}
      /\ c.committed = Total(Cost, c.held)
  BY DEF Sound, Controllers, Placed, Balanced
<1>3. /\ d.waiting = Without(c.waiting, {i}) /\ d.held = c.held \cup {i}
      /\ d.committed = c.committed + Cost[i]
      /\ d = [waiting |-> d.waiting, held |-> d.held, committed |-> d.committed]
  BY DEF Admitted
<1>4. Cost[i] \in Nat /\ Cost[i] > 0 /\ Budget \in Nat
  BY <1>1, AdmissionAssumption
<1> HIDE DEF i, d
<1>5. /\ Without(c.waiting, {i}) \in Seq(Images)
      /\ Range(Without(c.waiting, {i})) = Range(c.waiting) \ {i}
      /\ Distinct(Without(c.waiting, {i}))
  BY <1>2, WithoutItems
<1>6. d \in Controllers
  BY <1>1, <1>2, <1>3, <1>4, <1>5 DEF Controllers
<1>7. Placed(d)
  BY <1>1, <1>2, <1>3, <1>5 DEF Placed
<1>8. Balanced(d)
  <2>1. IsFiniteSet(c.held) /\ \A y \in c.held \cup {i} : Cost[y] \in Nat
    BY <1>1, <1>2, CostsAdd
  <2>2. Total(Cost, c.held \cup {i}) = Total(Cost, c.held) + Cost[i]
    BY <2>1, <1>1, TotalWith
  <2> QED BY <1>2, <1>3, <2>2 DEF Balanced
<1>9. WithinMeans(d)
  <2>1. CASE c.held = {}
    BY <2>1, <1>1, <1>3 DEF WithinMeans
  <2>2. CASE Cost[i] <= Remaining(c)
    BY <2>2, <1>2, <1>3, <1>4 DEF WithinMeans, Remaining, Less
  <2> QED BY <1>1, <2>1, <2>2
<1> QED BY <1>6, <1>7, <1>8, <1>9 DEF Sound, d

\* release gives back what the image was let in with, once; the subtraction, which
\* saturates, never has to.
LEMMA ReleasedIsSound ==
    ASSUME NEW c, Sound(c), NEW i \in Images
    PROVE  Sound(Released(c, i))
<1>1. CASE i \notin c.held
  BY <1>1 DEF Released
<1>2. CASE i \in c.held
  <2> DEFINE d == Released(c, i)
  <2>1. /\ c \in Controllers
        /\ c.waiting \in Seq(Images) /\ c.held \subseteq Images /\ c.committed \in Nat
        /\ Distinct(c.waiting) /\ Range(c.waiting) \cap c.held = {}
        /\ c.committed = Total(Cost, c.held)
        /\ WithinMeans(c)
    BY DEF Sound, Controllers, Placed, Balanced
  <2>2. /\ d.waiting = c.waiting /\ d.held = c.held \ {i}
        /\ d.committed = Less(c.committed, Cost[i])
        /\ d = [waiting |-> d.waiting, held |-> d.held, committed |-> d.committed]
    BY <1>2, <2>1 DEF Released, Controllers
  <2> HIDE DEF d
  <2>3. Cost[i] \in Nat /\ Budget \in Nat
    BY AdmissionAssumption
  <2>4. /\ Total(Cost, c.held \ {i}) \in Nat
        /\ Total(Cost, c.held) = Total(Cost, c.held \ {i}) + Cost[i]
    BY <1>2, <2>1, CostsAdd, TotalWithout
  <2>5. d.committed = Total(Cost, c.held \ {i}) /\ d.committed <= c.committed
    BY <2>1, <2>2, <2>3, <2>4 DEF Less
  <2>6. d \in Controllers
    BY <2>1, <2>2, <2>4, <2>5 DEF Controllers
  <2>7. Placed(d)
    BY <2>1, <2>2 DEF Placed
  <2>8. Balanced(d)
    BY <2>2, <2>5 DEF Balanced
  <2>9. WithinMeans(d)
    <3>1. CASE c.committed <= Budget
      BY <3>1, <2>1, <2>3, <2>4, <2>5 DEF WithinMeans
    <3>2. CASE \E j \in Images : c.held = {j}
      <4>1. c.held \ {i} = {}
        BY <3>2, <1>2
      <4>2. d.committed = 0
        BY <4>1, <2>5, TotalOfNobody
      <4> QED BY <4>2, <2>3 DEF WithinMeans
    <3> QED BY <2>1, <3>1, <3>2 DEF WithinMeans
  <2> QED BY <2>6, <2>7, <2>8, <2>9 DEF Sound, d
<1> QED BY <1>1, <1>2

----------------------------------------------------------------------------
(* Letting in as many as possible                                          *)

\* f[k], for k in 0 .. n, is what k applications of step make of start.
Iterates(f, G, start, step, n) ==
    f \in [0 .. n -> G] /\ f[0] = start /\ \A k \in 1 .. n : f[k] = step[f[k-1]]

\* A function can be applied n times over.
LEMMA Iterated ==
    ASSUME NEW G, NEW start \in G, NEW step \in [G -> G], NEW n \in Nat
    PROVE  \E f : Iterates(f, G, start, step, n)
<1> DEFINE Good(f, m) == Iterates(f, G, start, step, m)
           P == {m \in Nat : \E f : Good(f, m)}
<1> USE DEF Iterates
<1>1. 0 \in P
  <2>1. Good([k \in 0 .. 0 |-> start], 0)
    OBVIOUS
  <2> QED BY <2>1
<1>2. ASSUME NEW m \in Nat, m \in P PROVE m + 1 \in P
  <2>1. PICK f : Good(f, m)
    BY <1>2
  <2> DEFINE g == [k \in 0 .. m + 1 |-> IF k = m + 1 THEN step[f[m]] ELSE f[k]]
  <2>2. f[m] \in G /\ step[f[m]] \in G
    BY <2>1
  <2>3. g \in [0 .. m + 1 -> G] /\ g[0] = start
    BY <2>1, <2>2
  <2>4. ASSUME NEW k \in 1 .. m + 1 PROVE g[k] = step[g[k-1]]
    <3>1. CASE k = m + 1
      BY <3>1
    <3>2. CASE k # m + 1
      <4>1. k \in 1 .. m /\ k - 1 \in 0 .. m
        BY <3>2
      <4> QED BY <4>1, <3>2, <2>1
    <3> QED BY <3>1, <3>2
  <2> HIDE DEF g
  <2>5. Good(g, m + 1)
    BY <2>3, <2>4
  <2> QED BY <2>5
<1> HIDE DEF P
<1>3. n \in P
  BY <1>1, <1>2, NatInductionOnSet
<1> QED BY <1>3 DEF P

\* What the rounds of a loop that began with c may lead to: images have gone from
\* the line to those in flight, and nothing else has happened.
FurtherFrom(c) ==
    {d \in Controllers : /\ Sound(d) /\ c.held \subseteq d.held
                         /\ d.held \ c.held \subseteq Range(c.waiting)
                         /\ Range(d.waiting) = Range(c.waiting) \ d.held}

\* One round keeps it so.
LEMMA RoundGoesFurther ==
    ASSUME NEW c, Sound(c), NEW d \in FurtherFrom(c), CanAdmit(d)
    PROVE  Admitted(d) \in FurtherFrom(c)
<1> DEFINE i == Chosen(d)
           e == Admitted(d)
<1>1. /\ Sound(d) /\ c.held \subseteq d.held /\ d.held \ c.held \subseteq Range(c.waiting)
      /\ Range(d.waiting) = Range(c.waiting) \ d.held
  BY DEF FurtherFrom
<1>2. i \in Range(d.waiting) /\ Sound(e)
  BY <1>1, ChosenWaits, AdmittedIsSound
<1>3. e.waiting = Without(d.waiting, {i}) /\ e.held = d.held \cup {i}
  BY DEF Admitted
<1>4. d.waiting \in Seq(Images) /\ e \in Controllers
  BY <1>1, <1>2 DEF Sound, Controllers
<1> HIDE DEF i, e
<1>5. Range(e.waiting) = Range(d.waiting) \ {i}
  BY <1>3, <1>4, WithoutItems
<1>6. /\ c.held \subseteq e.held /\ e.held \ c.held \subseteq Range(c.waiting)
      /\ Range(e.waiting) = Range(c.waiting) \ e.held
  BY <1>1, <1>2, <1>3, <1>5
<1> QED BY <1>2, <1>4, <1>6, Zenon DEF FurtherFrom, e

\* The loop, wherever it stops, moves images from the line to those in flight.
LEMMA LoopLetsIn ==
    ASSUME NEW c, Sound(c), NEW stop
    PROVE  AdmitLoop(c, stop) \in FurtherFrom(c)
<1> DEFINE G == FurtherFrom(c)
           Step(d) == IF CanAdmit(d) /\ (d.held \ c.held) \cap stop = {} THEN Admitted(d) ELSE d
           step == [d \in G |-> Step(d)]
           D(f) == [n \in 0 .. Len(c.waiting) |-> IF n = 0 THEN c ELSE Step(f[n-1])]
<1>1. c \in G
  BY DEF FurtherFrom, Sound, Placed
<1>2. \A d \in G : Step(d) \in G
  BY RoundGoesFurther
<1> HIDE DEF G
<1>3. step \in [G -> G]
  BY <1>2
<1>4. Len(c.waiting) \in Nat
  BY LenProperties DEF Sound, Placed
<1> HIDE DEF step
<1>5. PICK f : Iterates(f, G, c, step, Len(c.waiting))
  BY <1>1, <1>3, <1>4, Iterated
<1>6. /\ f \in [0 .. Len(c.waiting) -> G] /\ f[0] = c
       /\ \A k \in 1 .. Len(c.waiting) : f[k] = step[f[k-1]]
  BY <1>5 DEF Iterates
<1>7. ASSUME NEW n \in 1 .. Len(c.waiting) PROVE f[n] = Step(f[n-1])
  <2>1. n - 1 \in 0 .. Len(c.waiting)
    BY <1>4
  <2>2. f[n-1] \in G
    BY <1>6, <2>1
  <2> HIDE DEF Step
  <2>3. step[f[n-1]] = Step(f[n-1])
    BY <2>2 DEF step
  <2> QED BY <1>6, <2>3
<1> HIDE DEF Step
<1>8. f = D(f)
  <2>1. ASSUME NEW n \in 0 .. Len(c.waiting) PROVE f[n] = D(f)[n]
    BY <1>4, <1>6, <1>7
  <2> QED BY <2>1, <1>6
<1> DEFINE g == CHOOSE h : h = D(h)
<1>9. g = D(g)
  BY <1>8
<1>10. AdmitLoop(c, stop) = g[Len(c.waiting)]
  BY DEF AdmitLoop, Step
<1> HIDE DEF g
<1>11. g[0] = c
  BY <1>9, <1>4
<1>12. ASSUME NEW n \in 1 .. Len(c.waiting) PROVE g[n] = Step(g[n-1])
  <2>1. n \in 0 .. Len(c.waiting) /\ n # 0
    BY <1>4
  <2>2. g[n] = D(g)[n]
    <3> HIDE DEF D
    <3> QED BY <1>9
  <2> QED BY <2>1, <2>2
<1> DEFINE P == {n \in Nat : n <= Len(c.waiting) => g[n] = f[n]}
<1>13. 0 \in P
  BY <1>6, <1>11
<1>14. ASSUME NEW n \in Nat, n \in P PROVE n + 1 \in P
  BY <1>4, <1>7, <1>12, <1>14
<1> HIDE DEF P
<1>15. Nat \subseteq P
  BY <1>13, <1>14, NatInductionOnSet
<1>16. g[Len(c.waiting)] = f[Len(c.waiting)]
  BY <1>15, <1>4 DEF P
<1>17. f[Len(c.waiting)] \in G
  BY <1>4, <1>6
<1> QED BY <1>10, <1>16, <1>17 DEF G

----------------------------------------------------------------------------
(* The invariant                                                           *)

\* enqueue leaves everybody waiting, once.
LEMMA LineIsSound ==
    ASSUME NEW S \in SUBSET Images, NEW line \in Lines(S)
    PROVE  /\ Sound([EmptyController EXCEPT !.waiting = line])
           /\ Range(line) \subseteq S
<1> DEFINE c == [EmptyController EXCEPT !.waiting = line]
<1>1. Cardinality(S) \in Nat
  BY FS_Subset, FS_CardinalityType, AdmissionAssumption
<1>2. line \in Seq(Images) /\ Distinct(line) /\ Range(line) \subseteq S
  <2>1. line \in [1 .. Cardinality(S) -> Images] /\ line \in [1 .. Cardinality(S) -> S]
    BY DEF Lines
  <2>2. line \in Seq(Images)
    BY <1>1, <2>1, IsASeq
  <2>3. Range(line) \subseteq S
    BY <2>1 DEF Range
  <2> QED BY <2>2, <2>3 DEF Lines
<1>3. c = [waiting |-> line, held |-> {}, committed |-> 0]
  BY DEF EmptyController
<1> HIDE DEF c
<1>4. c.waiting = line /\ c.held = {} /\ c.committed = 0
  BY <1>3
<1>5. Balanced(c) /\ WithinMeans(c)
  BY <1>4, TotalOfNobody, AdmissionAssumption DEF Balanced, WithinMeans
<1>6. c \in Controllers
  <2>1. {} \in SUBSET Images /\ 0 \in Nat /\ line \in Seq(Images)
    BY <1>2
  <2>2. [waiting |-> line, held |-> {}, committed |-> 0] \in Controllers
    BY <2>1, Zenon DEF Controllers
  <2> QED BY <1>3, <2>2
<1>7. Placed(c)
  BY <1>2, <1>4 DEF Placed
<1> QED BY <1>2, <1>5, <1>6, <1>7 DEF Sound, c

\* So every controller begins.
LEMMA AdmInvInit == AdmInit => AdmInv
BY LineIsSound DEF AdmInit, AdmInv

\* Whatever the calls of try_admit_next and release, the controller stays sound.
THEOREM ControllerSound == AdmSpec => []ControllerOK
<1>1. ASSUME AdmInv, [AdmNext]_ctrl PROVE AdmInv'
  <2>1. CASE TryAdmitNext
    BY <1>1, <2>1, AdmittedIsSound DEF TryAdmitNext, AdmInv
  <2>2. ASSUME NEW i \in Images, Release(i) PROVE AdmInv'
    BY <1>1, <2>2, ReleasedIsSound DEF Release, AdmInv
  <2>3. CASE UNCHANGED ctrl
    BY <1>1, <2>3 DEF AdmInv
  <2> QED BY <1>1, <2>1, <2>2, <2>3 DEF AdmNext
<1>2. AdmInv => ControllerOK
  BY DEF AdmInv, Sound, ControllerOK
<1> QED BY <1>1, <1>2, AdmInvInit, PTL DEF AdmSpec

----------------------------------------------------------------------------
(* Timelines                                                               *)

Pages     == [kind : {"Original", "Adjust", "Select", "CutOut"}, result : 0 .. MaxRuns]
Timelines == {t \in [states : Seq(Pages), at : Nat, version : Nat] :
                 t.at \in 1 .. Len(t.states) /\ Len(t.states) <= Depth}

\* What is shown is a state, and filling it in keeps the timeline one.
LEMMA ShownIsAPage ==
    ASSUME NEW t \in Timelines
    PROVE  /\ TL!Shown(t) \in Pages
           /\ \A s \in Pages : TL!Amended(t, s) \in Timelines /\ TL!Amended(t, s).version = t.version
<1>1. t \in [states : Seq(Pages), at : Nat, version : Nat] /\ t.at \in 1 .. Len(t.states) /\ Len(t.states) <= Depth
  BY DEF Timelines
<1>2. t.states[t.at] \in Pages
  BY <1>1, ElementOfSeq
<1>3. ASSUME NEW s \in Pages PROVE TL!Amended(t, s) \in Timelines /\ TL!Amended(t, s).version = t.version
  <2> DEFINE states == [t.states EXCEPT ![t.at] = s]
             u == TL!Amended(t, s)
  <2>1. states \in Seq(Pages) /\ Len(states) = Len(t.states)
    BY <1>1, ExceptSeq
  <2>2. u = [t EXCEPT !.states = states]
    BY <1>1 DEF TL!Amended
  <2> HIDE DEF states
  <2>3. u \in [states : Seq(Pages), at : Nat, version : Nat]
        /\ u.states = states /\ u.at = t.at /\ u.version = t.version
    BY <1>1, <2>1, <2>2
  <2> QED BY <1>1, <2>1, <2>3 DEF Timelines
<1> QED BY <1>2, <1>3 DEF TL!Shown

\* The newest states of a longer history.
LEMMA LatestStates ==
    ASSUME NEW s \in Seq(Pages), Len(s) > 0
    PROVE  /\ TL!Latest(s) \in Seq(Pages) /\ Len(TL!Latest(s)) \in 1 .. Depth
<1>1. Depth \in Nat \ {0} /\ Len(s) \in Nat
  BY BatchAppAssumption, LenProperties
<1> DEFINE from == IF Len(s) > Depth THEN Len(s) - Depth + 1 ELSE 1
<1>2. from \in 1 .. Len(s)
  BY <1>1
<1>3. \A n \in from .. Len(s) : s[n] \in Pages
  BY <1>1, <1>2, ElementOfSeq
<1>4. TL!Latest(s) = SubSeq(s, from, Len(s))
  BY DEF TL!Latest
<1> HIDE DEF from
<1>5. /\ SubSeq(s, from, Len(s)) \in Seq(Pages)
      /\ Len(SubSeq(s, from, Len(s))) = Len(s) - from + 1
  BY <1>1, <1>2, <1>3, SubSeqProperties
<1> QED BY <1>1, <1>4, <1>5 DEF from

\* A push makes a timeline; its version is the next one, or the same if the state
\* joined the one before.
LEMMA PushedIsATimeline ==
    ASSUME NEW t \in Timelines, NEW s \in Pages, NEW soon \in BOOLEAN
    PROVE  TL!Pushed(t, s, soon) \in Timelines
           /\ TL!Pushed(t, s, soon).version \in {t.version, t.version + 1}
<1>1. CASE TL!Joins(t, s, soon)
  BY <1>1, ShownIsAPage DEF TL!Pushed
<1>2. CASE ~TL!Joins(t, s, soon)
  <2> DEFINE past == SubSeq(t.states, 1, t.at)
             states == TL!Latest(Append(past, s))
             u == TL!Pushed(t, s, soon)
  <2>1. t.states \in Seq(Pages) /\ t.at \in 1 .. Len(t.states) /\ t.version \in Nat
    BY DEF Timelines
  <2>2. past \in Seq(Pages)
    BY <2>1, SplitItems, LenProperties
  <2> HIDE DEF past
  <2>3. Append(past, s) \in Seq(Pages) /\ Len(Append(past, s)) > 0
    BY <2>2, AppendProperties, LenProperties
  <2>4. states \in Seq(Pages) /\ Len(states) \in 1 .. Depth
    BY <2>3, LatestStates
  <2>5. u = [states |-> states, at |-> Len(states), version |-> t.version + 1]
    BY <1>2 DEF TL!Pushed, past
  <2> HIDE DEF states
  <2>6. u \in [states : Seq(Pages), at : Nat, version : Nat]
        /\ u.states = states /\ u.at = Len(states) /\ u.version = t.version + 1
    BY <2>1, <2>4, <2>5
  <2> QED BY <2>4, <2>6, BatchAppAssumption DEF Timelines
<1> QED BY <1>1, <1>2

\* Another state may be shown under a new version.
LEMMA ShownElsewhere ==
    ASSUME NEW t \in Timelines, NEW n \in 1 .. Len(t.states)
    PROVE  [[t EXCEPT !.at = n] EXCEPT !.version = t.version + 1] \in Timelines
<1> DEFINE Histories == [states : Seq(Pages), at : Nat, version : Nat]
           v == [t EXCEPT !.at = n]
           u == [v EXCEPT !.version = t.version + 1]
<1>1. t \in Histories /\ Len(t.states) <= Depth /\ n \in Nat /\ t.version + 1 \in Nat
  BY LenProperties DEF Timelines
<1>2. v \in Histories /\ v.at = n /\ v.states = t.states
  BY <1>1
<1> HIDE DEF v
<1>3. u \in Histories
  BY <1>1, <1>2
<1>4. u.states = v.states /\ u.at = v.at
  BY <1>2
<1> HIDE DEF u
<1>5. u.at \in 1 .. Len(u.states) /\ Len(u.states) <= Depth
  BY <1>1, <1>2, <1>4
<1>6. u \in Timelines
  BY <1>3, <1>5 DEF Timelines
<1> QED BY <1>6 DEF u, v

\* A step back or forth makes a timeline.
LEMMA SteppedIsATimeline ==
    ASSUME NEW t \in Timelines
    PROVE  /\ TL!CanUndo(t) => TL!Undone(t) \in Timelines
           /\ TL!CanRedo(t) => TL!Redone(t) \in Timelines
<1>1. t \in [states : Seq(Pages), at : Nat, version : Nat] /\ t.at \in 1 .. Len(t.states) /\ Len(t.states) \in Nat
  BY LenProperties DEF Timelines
<1>2. ASSUME TL!CanUndo(t) PROVE TL!Undone(t) \in Timelines
  <2>1. t.at - 1 \in 1 .. Len(t.states)
    BY <1>1, <1>2 DEF TL!CanUndo
  <2>2. TL!Undone(t) = [[t EXCEPT !.at = t.at - 1] EXCEPT !.version = t.version + 1]
    BY <1>1 DEF TL!Undone
  <2> QED BY <2>1, <2>2, ShownElsewhere
<1>3. ASSUME TL!CanRedo(t) PROVE TL!Redone(t) \in Timelines
  <2>1. t.at + 1 \in 1 .. Len(t.states)
    BY <1>1, <1>3 DEF TL!CanRedo
  <2>2. TL!Redone(t) = [[t EXCEPT !.at = t.at + 1] EXCEPT !.version = t.version + 1]
    BY <1>1 DEF TL!Redone
  <2> QED BY <2>1, <2>2, ShownElsewhere
<1> QED BY <1>2, <1>3

\* A timeline that begins has one state.
LEMMA NewIsATimeline ==
    TL!NewTimeline([kind |-> "Original", result |-> NoRun]) \in Timelines
<1> DEFINE page == [kind |-> "Original", result |-> NoRun]
           t == TL!NewTimeline(page)
<1>1. page \in Pages /\ Depth \in Nat \ {0}
  BY BatchAppAssumption DEF Pages, NoRun
<1>2. <<page>> \in Seq(Pages) /\ Len(<<page>>) = 1
  BY <1>1
<1> DEFINE one == <<page>>
<1>3. t = [states |-> one, at |-> 1, version |-> 0]
  BY DEF TL!NewTimeline
<1>4. one \in Seq(Pages) /\ Len(one) = 1
  BY <1>2
<1> HIDE DEF page, one, t
<1>5. t \in [states : Seq(Pages), at : Nat, version : Nat] /\ t.states = one /\ t.at = 1
  BY <1>3, <1>4
<1>6. 1 \in 1 .. Len(one) /\ Len(one) <= Depth
  BY <1>1, <1>4
<1>7. t \in Timelines
  BY <1>5, <1>6 DEF Timelines
<1> QED BY <1>7 DEF t, page

----------------------------------------------------------------------------
(* The results channel                                                     *)

\* The images answered in a log of results, and that none is twice.
Answered(log)  == {n \in DOMAIN log : log[n].type = "ItemDone"}
Items(log)     == {log[n].item : n \in Answered(log)}
ItemsOnce(log) == \A m, n \in Answered(log) : log[m].item = log[n].item => m = n

\* An empty log answers nothing.
LEMMA NoItems == Items(<<>>) = {} /\ ItemsOnce(<<>>) /\ <<>> \in Seq(Answers)
BY EmptySeq DEF Items, ItemsOnce, Answered

\* Reading the head takes its image off those answered.
LEMMA ReadHead ==
    ASSUME NEW log \in Seq(Answers), log # <<>>, ItemsOnce(log)
    PROVE  /\ Head(log) \in Answers /\ Tail(log) \in Seq(Answers) /\ ItemsOnce(Tail(log))
           /\ Head(log).type = "ItemDone" => /\ Head(log).item \in Items(log)
                                             /\ Items(Tail(log)) = Items(log) \ {Head(log).item}
           /\ Head(log).type # "ItemDone" => Items(Tail(log)) = Items(log)
<1> DEFINE rest == Tail(log)
<1>1. /\ Len(log) \in Nat \ {0} /\ DOMAIN log = 1 .. Len(log) /\ Head(log) = log[1] /\ log[1] \in Answers
      /\ rest \in Seq(Answers) /\ Len(rest) = Len(log) - 1
      /\ \A n \in 1 .. Len(rest) : rest[n] = log[n + 1]
  BY HeadTailProperties, LenProperties, EmptySeq, ElementOfSeq
<1> HIDE DEF rest
<1>2. DOMAIN rest = 1 .. Len(log) - 1
  BY <1>1, LenProperties
<1>3. \A n \in 1 .. Len(log) - 1 : n + 1 \in DOMAIN log /\ n + 1 # 1 /\ rest[n] = log[n + 1]
  BY <1>1
<1>4. \A n \in Answered(rest) : n \in 1 .. Len(log) - 1 /\ n + 1 \in Answered(log) /\ rest[n].item = log[n + 1].item
  BY <1>2, <1>3 DEF Answered
<1>5. \A n \in Answered(log) : n # 1 => n - 1 \in Answered(rest) /\ rest[n - 1].item = log[n].item
  <2> SUFFICES ASSUME NEW n \in Answered(log), n # 1
               PROVE  n - 1 \in Answered(rest) /\ rest[n - 1].item = log[n].item
    OBVIOUS
  <2>1. n \in 1 .. Len(log) /\ log[n].type = "ItemDone"
    BY <1>1 DEF Answered
  <2>2. n - 1 \in 1 .. Len(log) - 1 /\ (n - 1) + 1 = n
    BY <1>1, <2>1
  <2>3. rest[n - 1] = log[n]
    BY <1>3, <2>2
  <2> QED BY <1>2, <2>1, <2>2, <2>3 DEF Answered
<1>6. ItemsOnce(rest)
  <2> SUFFICES ASSUME NEW m \in Answered(rest), NEW n \in Answered(rest), rest[m].item = rest[n].item
               PROVE  m = n
    BY DEF ItemsOnce
  <2>1. m + 1 = n + 1
    BY <1>4 DEF ItemsOnce
  <2> QED BY <2>1, <1>4
<1>7. Items(rest) \subseteq Items(log)
  BY <1>4 DEF Items
<1>8. ASSUME log[1].type = "ItemDone"
      PROVE  log[1].item \in Items(log) /\ Items(rest) = Items(log) \ {log[1].item}
  <2>1. 1 \in Answered(log)
    BY <1>1, <1>8 DEF Answered
  <2>2. log[1].item \in Items(log)
    BY <2>1 DEF Items
  <2>3. log[1].item \notin Items(rest)
    <3> SUFFICES ASSUME NEW n \in Answered(rest), rest[n].item = log[1].item PROVE FALSE
      BY DEF Items
    <3>1. n + 1 = 1
      BY <1>4, <2>1 DEF ItemsOnce
    <3> QED BY <3>1, <1>4, <1>1
  <2>4. ASSUME NEW x \in Items(log), x # log[1].item PROVE x \in Items(rest)
    <3>1. PICK n \in Answered(log) : x = log[n].item
      BY DEF Items
    <3>2. n # 1
      BY <2>4, <3>1
    <3> QED BY <1>5, <3>1, <3>2 DEF Items
  <2> QED BY <1>7, <2>2, <2>3, <2>4
<1>9. ASSUME log[1].type # "ItemDone" PROVE Items(rest) = Items(log)
  <2> SUFFICES ASSUME NEW x \in Items(log) PROVE x \in Items(rest)
    BY <1>7
  <2>1. PICK n \in Answered(log) : x = log[n].item
    BY DEF Items
  <2>2. n # 1
    BY <1>9, <2>1 DEF Answered
  <2> QED BY <1>5, <2>1, <2>2 DEF Items
<1> QED BY <1>1, <1>6, <1>8, <1>9 DEF rest

\* Two logs with no image in common.
LEMMA JoinLogs ==
    ASSUME NEW s \in Seq(Answers), NEW t \in Seq(Answers), ItemsOnce(s), ItemsOnce(t), Items(s) \cap Items(t) = {}
    PROVE  s \o t \in Seq(Answers) /\ ItemsOnce(s \o t) /\ Items(s \o t) = Items(s) \cup Items(t)
<1> DEFINE u == s \o t
<1>1. /\ Len(s) \in Nat /\ Len(t) \in Nat
      /\ DOMAIN s = 1 .. Len(s) /\ DOMAIN t = 1 .. Len(t) /\ DOMAIN u = 1 .. Len(s) + Len(t)
      /\ \A n \in 1 .. Len(s) : n \in DOMAIN u /\ u[n] = s[n]
      /\ \A n \in 1 .. Len(t) : Len(s) + n \in DOMAIN u /\ u[Len(s) + n] = t[n]
      /\ \A n \in DOMAIN u : n \in 1 .. Len(s) \/ \E k \in 1 .. Len(t) : n = Len(s) + k
  BY ConcatAt
<1>2. u \in Seq(Answers)
  BY ConcatProperties
<1> HIDE DEF u
<1>3. \A n \in Answered(s) : n \in Answered(u) /\ u[n] = s[n]
  BY <1>1 DEF Answered
<1>4. \A n \in Answered(t) : Len(s) + n \in Answered(u) /\ u[Len(s) + n] = t[n]
  BY <1>1 DEF Answered
<1>5. \A n \in Answered(u) : \/ n \in Answered(s) /\ u[n] = s[n]
                             \/ \E k \in Answered(t) : n = Len(s) + k /\ u[n] = t[k]
  BY <1>1 DEF Answered
<1>6. Items(u) = Items(s) \cup Items(t)
  <2>1. Items(s) \cup Items(t) \subseteq Items(u)
    BY <1>3, <1>4 DEF Items
  <2>2. Items(u) \subseteq Items(s) \cup Items(t)
    BY <1>5 DEF Items
  <2> QED BY <2>1, <2>2
<1>7. ItemsOnce(u)
  <2> SUFFICES ASSUME NEW m \in Answered(u), NEW n \in Answered(u), u[m].item = u[n].item PROVE m = n
    BY DEF ItemsOnce
  <2>1. CASE m \in Answered(s) /\ u[m] = s[m] /\ n \in Answered(s) /\ u[n] = s[n]
    BY <2>1 DEF ItemsOnce
  <2>2. ASSUME NEW k \in Answered(t), n = Len(s) + k, u[n] = t[k], m \in Answered(s), u[m] = s[m] PROVE FALSE
    BY <2>2 DEF Items
  <2>3. ASSUME NEW k \in Answered(t), m = Len(s) + k, u[m] = t[k], n \in Answered(s), u[n] = s[n] PROVE FALSE
    BY <2>3 DEF Items
  <2>4. ASSUME NEW j \in Answered(t), m = Len(s) + j, u[m] = t[j],
               NEW k \in Answered(t), n = Len(s) + k, u[n] = t[k] PROVE m = n
    BY <2>4 DEF ItemsOnce
  <2> QED BY <1>5, <2>1, <2>2, <2>3, <2>4
<1> QED BY <1>2, <1>6, <1>7 DEF u

\* One answer after the others.
LEMMA LogAnswer ==
    ASSUME NEW log \in Seq(Answers), ItemsOnce(log), NEW a \in Answers,
           a.type = "ItemDone" => a.item \notin Items(log)
    PROVE  /\ Append(log, a) \in Seq(Answers) /\ ItemsOnce(Append(log, a))
           /\ Items(Append(log, a)) = Items(log) \cup (IF a.type = "ItemDone" THEN {a.item} ELSE {})
<1> DEFINE one == <<a>>
<1>1. one \in Seq(Answers) /\ DOMAIN one = {1} /\ one[1] = a /\ Append(log, a) = log \o one
  OBVIOUS
<1> HIDE DEF one
<1>2. Items(one) = (IF a.type = "ItemDone" THEN {a.item} ELSE {}) /\ ItemsOnce(one)
  BY <1>1 DEF Items, ItemsOnce, Answered
<1>3. Items(log) \cap Items(one) = {}
  BY <1>2
<1> QED BY <1>1, <1>2, <1>3, JoinLogs
----------------------------------------------------------------------------
(* The inductive invariant                                                 *)

Statuses == {"pending", "processing", "done", "error"}
Jobs     == [version : Nat, run : 0 .. MaxRuns, step : {"none", "cutout", "fill"}]
Batches  == [run : Runs, request : SUBSET Images, cached : SUBSET Images]

ImageTypes ==
    /\ present \subseteq Images /\ gone \subseteq Images
    /\ status \in [Images -> Statuses] /\ doc \in [Images -> Timelines] /\ job \in [Images -> Jobs]
    /\ \A i \in Images : job[i].version <= doc[i].version

ProcTypes ==
    /\ Sound(ctrl) /\ window \in 0 .. MaxRuns /\ (window = NoRun => ctrl = EmptyController)
    /\ tracked \subseteq Images /\ cancelled \subseteq Images /\ cancelAll \in BOOLEAN

PipeTypes ==
    /\ mail \in Seq(Batches) /\ feed \in [Runs -> Seq(Images)] /\ results \in Seq(Answers)
    /\ serving \in [run : 0 .. MaxRuns, todo : SUBSET Images, cached : SUBSET Images]
    /\ runs \in 0 .. MaxRuns /\ over \subseteq 1 .. runs

\* One run at a time: it is in the mail, then served, then over; its answers are
\* read before the next is dispatched, and the end of a batch is its last answer.
Working == mail # <<>> \/ serving # Idle

PhaseInv ==
    /\ mail # <<>> => Len(mail) = 1 /\ mail[1].run = runs /\ serving = Idle /\ results = <<>>
    /\ serving # Idle => serving.run = runs
    /\ Working => runs \in Runs \ over
    /\ \A r \in Runs : feed[r] # <<>> => serving # Idle /\ r = runs
    /\ \A n \in DOMAIN results :
           results[n].run = runs /\ (results[n].type # "ItemDone" => n = Len(results) /\ serving = Idle)
    /\ window # NoRun => window \in over \/ (window = runs /\ Working)

\* What the bridge has to do and has done for the run under way, and what of it
\* needs no memory.
Requests == IF mail = <<>> THEN {} ELSE mail[1].request
Streamed == IF serving = Idle THEN {} ELSE Range(feed[runs])
Given    == Requests \cup Streamed \cup serving.todo
Underway == Given \cup Items(results)
Cached   == (IF mail = <<>> THEN {} ELSE mail[1].cached) \cup serving.cached

\* An image is in one place on the way through the bridge, and none that is
\* there still waits for memory.
OnceInv ==
    /\ serving # Idle => Distinct(feed[runs])
    /\ ItemsOnce(results)
    /\ serving.todo \cap Streamed = {} /\ Items(results) \cap (Streamed \cup serving.todo) = {}
    /\ Open => Range(ctrl.waiting) \cap Underway = {}

\* The reservations and what they are for.
HeldInv ==
    Open => /\ Given \ Cached \subseteq ctrl.held
            /\ ctrl.held \subseteq Underway \cup adrift \cup gone

\* An image whose run is under way is awaited, unless it went adrift; one that went
\* adrift is not, except while a dead batch's controller marks it.  An image that
\* waits for memory will be awaited if it did not go adrift.
AwaitInv ==
    /\ \A i \in Underway : i \notin adrift => Awaited(i)
    /\ \A i \in Underway : i \in adrift /\ Awaited(i) => window \in over /\ i \in ctrl.held
    /\ Open => \A i \in Range(ctrl.waiting) :
                   /\ status[i] # "processing"
                   /\ i \notin adrift <=> i \in present /\ IsCurrent(i)

AppInv == ImageTypes /\ ProcTypes /\ PipeTypes /\ PhaseInv /\ OnceInv /\ HeldInv /\ AwaitInv

\* Of the images that are underway or wait, all are images.
LEMMA UnderwayImages ==
    ASSUME ProcTypes, PipeTypes, PhaseInv
    PROVE  /\ Underway \subseteq Images /\ Range(ctrl.waiting) \subseteq Images
           /\ Requests \subseteq Images /\ Streamed \subseteq Images
<1>1. Requests \subseteq Images
  <2>1. CASE mail = <<>>
    BY <2>1 DEF Requests
  <2>2. CASE mail # <<>>
    <3>1. mail[1] \in Batches
      BY <2>2, ElementOfSeq, EmptySeq, LenProperties DEF PipeTypes
    <3> QED BY <2>2, <3>1 DEF Requests, Batches
  <2> QED BY <2>1, <2>2
<1>2. Streamed \subseteq Images
  <2>1. CASE runs \in Runs
    <3>1. feed[runs] \in Seq(Images)
      BY <2>1 DEF PipeTypes
    <3> QED BY <3>1, RangeOfSeq DEF Streamed
  <2>2. CASE serving = Idle
    BY <2>2 DEF Streamed
  <2> QED BY <2>1, <2>2 DEF PhaseInv, Working
<1>3. Items(results) \subseteq Images
  <2>1. \A n \in DOMAIN results : results[n] \in Answers
    BY ElementOfSeq, LenProperties DEF PipeTypes
  <2>2. \A a \in Answers : a.item \in Images
    BY DEF Answers
  <2> QED BY <2>1, <2>2 DEF Items, Answered
<1>4. Range(ctrl.waiting) \subseteq Images
  BY RangeOfSeq DEF ProcTypes, Sound, Placed
<1>5. serving.todo \subseteq Images
  BY DEF PipeTypes
<1> QED BY <1>1, <1>2, <1>3, <1>4, <1>5 DEF Underway, Given
----------------------------------------------------------------------------
(* The beginning, and what the user does to the images                     *)

\* An empty controller is sound.
LEMMA EmptyIsSound == Sound(EmptyController)
<1> DEFINE c == EmptyController
<1>1. c.waiting = <<>> /\ c.held = {} /\ c.committed = 0
  BY DEF EmptyController
<1>2. c \in Controllers
  <2>1. <<>> \in Seq(Images) /\ {} \in SUBSET Images /\ 0 \in Nat
    BY EmptySeq
  <2> QED BY <2>1, Zenon DEF Controllers, EmptyController
<1>3. Placed(c)
  BY <1>1, EmptySeq DEF Placed, Distinct, Range
<1>4. Balanced(c) /\ WithinMeans(c)
  BY <1>1, TotalOfNobody, AdmissionAssumption DEF Balanced, WithinMeans
<1> QED BY <1>2, <1>3, <1>4 DEF Sound

\* With any images in the list, nothing is under way.
LEMMA BeginInv ==
    ASSUME NEW images \in SUBSET Images, NEW runs0 \in 0 .. MaxRuns, NEW steps0, Begin(images, runs0, steps0)
    PROVE  AppInv
<1> USE DEF Begin
<1>1. MayVanish \subseteq Images /\ MaxRuns \in Nat
  BY BatchAppAssumption
<1>2. ImageTypes
  <2>1. NoJob \in Jobs /\ NoJob.version = 0
    BY <1>1 DEF NoJob, Jobs, NoRun
  <2>2. TL!NewTimeline([kind |-> "Original", result |-> NoRun]) \in Timelines
    BY NewIsATimeline
  <2>3. \A t \in Timelines : t.version \in Nat
    BY DEF Timelines
  <2>4. status \in [Images -> Statuses]
    BY DEF Statuses
  <2>5. job \in [Images -> Jobs] /\ \A i \in Images : job[i].version = 0
    BY <2>1
  <2>6. doc \in [Images -> Timelines]
    BY <2>2
  <2>7. \A i \in Images : job[i].version <= doc[i].version
    BY <2>3, <2>5, <2>6
  <2> QED BY <1>1, <2>4, <2>5, <2>6, <2>7 DEF ImageTypes
<1>3. ctrl.waiting = <<>> /\ ctrl.held = {} /\ ctrl.committed = 0 /\ ctrl = EmptyController
  BY DEF EmptyController
<1>4. Sound(ctrl)
  BY <1>3, EmptyIsSound
<1>5. ProcTypes
  <2>1. window \in 0 .. MaxRuns /\ tracked \subseteq Images /\ cancelled \subseteq Images
    BY <1>1 DEF NoRun
  <2>2. cancelAll \in BOOLEAN
    OBVIOUS
  <2> QED BY <1>3, <1>4, <2>1, <2>2, Zenon DEF ProcTypes
<1>6. PipeTypes
  <2>1. <<>> \in Seq(Batches) /\ <<>> \in Seq(Images) /\ <<>> \in Seq(Answers)
    BY EmptySeq
  <2>2. Idle \in [run : 0 .. MaxRuns, todo : SUBSET Images, cached : SUBSET Images]
    BY <1>1 DEF Idle, NoRun
  <2>3. feed \in [Runs -> Seq(Images)]
    BY <2>1
  <2> QED BY <2>1, <2>2, <2>3 DEF PipeTypes
<1>7. ~Working /\ window = NoRun
  BY DEF Working
<1>8. PhaseInv
  BY <1>7, EmptySeq DEF PhaseInv, Working
<1>9. Requests = {} /\ Streamed = {} /\ serving.todo = {} /\ Items(results) = {} /\ ItemsOnce(results)
  BY NoItems DEF Requests, Streamed, Idle
<1>10. OnceInv /\ HeldInv /\ AwaitInv
  BY <1>7, <1>9 DEF OnceInv, HeldInv, AwaitInv, Given, Underway, Open
<1> QED BY <1>2, <1>5, <1>6, <1>8, <1>10 DEF AppInv

Threads == <<mail, feed, results, serving, over, runs>>

\* Whatever the user does to images beside the runs: those it concerns go adrift
\* and are no longer awaited.
LEMMA ImagesTouched ==
    ASSUME AppInv, ImageTypes', ProcTypes', UNCHANGED <<Threads, ctrl, window>>,
           adrift \subseteq adrift', gone \subseteq gone',
           \A i \in Images : i \notin adrift' =>
               status'[i] = status[i] /\ (i \in present' <=> i \in present) /\ (IsCurrent(i)' <=> IsCurrent(i)),
           \A i \in Images : i \in adrift' /\ Awaited(i)' => i \in adrift /\ Awaited(i),
           \A i \in Images : status[i] # "processing" =>
               /\ status'[i] # "processing"
               /\ i \in adrift' /\ i \in present' /\ IsCurrent(i)' => i \in adrift /\ i \in present /\ IsCurrent(i)
    PROVE  AppInv'
<1>1. /\ mail' = mail /\ feed' = feed /\ results' = results /\ serving' = serving /\ over' = over /\ runs' = runs
      /\ ctrl' = ctrl /\ window' = window
  BY DEF Threads
<1>2. /\ Underway' = Underway /\ Given' = Given /\ Cached' = Cached /\ (Open' <=> Open) /\ Streamed' = Streamed
      /\ Items(results)' = Items(results) /\ ItemsOnce(results)' = ItemsOnce(results)
  BY <1>1 DEF Underway, Given, Cached, Open, Requests, Streamed
<1>3. PipeTypes'
  BY <1>1 DEF AppInv, PipeTypes
<1>4. PhaseInv'
  BY <1>1 DEF AppInv, PhaseInv, Working
<1>5. OnceInv'
  BY <1>1, <1>2 DEF AppInv, OnceInv
<1>6. HeldInv'
  BY <1>1, <1>2 DEF AppInv, HeldInv
<1>7. Underway \subseteq Images /\ Range(ctrl.waiting) \subseteq Images
  BY UnderwayImages DEF AppInv
<1>8. AwaitInv'
  <2>1. ASSUME NEW i \in Underway, i \notin adrift' PROVE Awaited(i)'
    <3>1. Awaited(i)
      BY <2>1 DEF AppInv, AwaitInv
    <3> QED BY <2>1, <3>1, <1>7 DEF Awaited
  <2>2. ASSUME NEW i \in Underway, i \in adrift', Awaited(i)' PROVE window' \in over' /\ i \in ctrl'.held
    BY <2>2, <1>1, <1>7 DEF AppInv, AwaitInv
  <2>3. ASSUME Open, NEW i \in Range(ctrl.waiting)
        PROVE  status'[i] # "processing" /\ (i \notin adrift' <=> i \in present' /\ IsCurrent(i)')
    <3>1. status[i] # "processing" /\ (i \notin adrift <=> i \in present /\ IsCurrent(i)) /\ i \in Images
      BY <2>3, <1>7 DEF AppInv, AwaitInv
    <3>2. CASE i \notin adrift'
      <4>1. i \notin adrift /\ (i \in present' <=> i \in present) /\ (IsCurrent(i)' <=> IsCurrent(i))
        BY <3>1, <3>2
      <4> QED BY <3>1, <3>2, <4>1
    <3>3. CASE i \in adrift'
      BY <3>1, <3>3
    <3> QED BY <3>2, <3>3
  <2> QED BY <1>1, <1>2, <2>1, <2>2, <2>3 DEF AwaitInv
<1> QED BY <1>3, <1>4, <1>5, <1>6, <1>8 DEF AppInv

\* handle_cancel_selected.
LEMMA CancelSelectedKeeps ==
    ASSUME AppInv, NEW S \in SUBSET Processing, CancelSelected(S)
    PROVE  AppInv'
<1>1. /\ status' = [i \in Images |-> IF i \in S THEN "pending" ELSE status[i]]
      /\ adrift' = adrift \cup S /\ cancelled' = cancelled \cup S
      /\ present' = present /\ gone' = gone /\ doc' = doc /\ job' = job /\ ctrl' = ctrl /\ window' = window
      /\ tracked' = tracked /\ cancelAll' = cancelAll /\ UNCHANGED <<Threads, ctrl, window>>
  BY DEF CancelSelected, Threads, bridgeVars
<1>2. \A i \in S : i \in Images /\ status[i] = "processing"
  BY DEF Processing, AppInv, ImageTypes
<1>3. ImageTypes'
  BY <1>1 DEF AppInv, ImageTypes, Statuses
<1>4. ProcTypes'
  BY <1>1, <1>2 DEF AppInv, ProcTypes
<1>5. \A i \in Images : IsCurrent(i)' <=> IsCurrent(i)
  BY <1>1 DEF IsCurrent
<1>6. \A i \in Images : status'[i] = IF i \in S THEN "pending" ELSE status[i]
  BY <1>1
<1>7. \A i \in Images : i \in adrift' /\ Awaited(i)' => i \in adrift /\ Awaited(i)
  BY <1>1, <1>5, <1>6 DEF Awaited
<1> QED BY <1>1, <1>2, <1>3, <1>4, <1>5, <1>6, <1>7, ImagesTouched

\* Any change of a knob or of the selection.
LEMMA EditKeeps ==
    ASSUME AppInv, NEW i \in present, Edit(i)
    PROVE  AppInv'
<1>1. PICK kind \in {"Adjust", "Select"}, soon \in BOOLEAN :
          /\ doc' = [doc EXCEPT ![i] = TL!Pushed(doc[i], [kind |-> kind, result |-> ShownResult(i)], soon)]
          /\ adrift' = IF TL!Pushed(doc[i], [kind |-> kind, result |-> ShownResult(i)], soon).version = doc[i].version
                       THEN adrift ELSE adrift \cup {i}
  BY DEF Edit
<1> DEFINE page == [kind |-> kind, result |-> ShownResult(i)]
           after == TL!Pushed(doc[i], page, soon)
<1>2. /\ present' = present /\ gone' = gone /\ status' = status /\ job' = job /\ ctrl' = ctrl /\ window' = window
      /\ tracked' = tracked /\ cancelled' = cancelled /\ cancelAll' = cancelAll /\ UNCHANGED <<Threads, ctrl, window>>
  BY DEF Edit, Threads, bridgeVars, procVars
<1>3. i \in Images /\ doc[i] \in Timelines /\ doc \in [Images -> Timelines] /\ doc[i].version \in Nat
      /\ \A j \in Images : job[j].version <= doc[j].version /\ job[j].version \in Nat
  BY DEF AppInv, ImageTypes, Timelines, Jobs
<1>4. page \in Pages
  BY <1>3, ShownIsAPage DEF ShownResult, Pages
<1> HIDE DEF page
<1>5. after \in Timelines /\ after.version \in {doc[i].version, doc[i].version + 1}
  BY <1>3, <1>4, PushedIsATimeline
<1>6. doc' = [doc EXCEPT ![i] = after] /\ adrift' = IF after.version = doc[i].version THEN adrift ELSE adrift \cup {i}
  BY <1>1 DEF page
<1> HIDE DEF after
<1>7. doc' \in [Images -> Timelines] /\ doc'[i] = after /\ \A j \in Images : j # i => doc'[j] = doc[j]
  BY <1>3, <1>5, <1>6
<1>8. ImageTypes'
  <2>1. \A j \in Images : job[j].version <= doc'[j].version
    BY <1>3, <1>5, <1>7
  <2> QED BY <1>2, <1>7, <2>1 DEF AppInv, ImageTypes
<1>9. ProcTypes'
  BY <1>2 DEF AppInv, ProcTypes
<1>10. \A j \in Images : (j # i \/ after.version = doc[i].version) => (IsCurrent(j)' <=> IsCurrent(j))
  BY <1>2, <1>7 DEF IsCurrent
<1>11. after.version # doc[i].version => ~IsCurrent(i)'
  BY <1>2, <1>3, <1>5, <1>7 DEF IsCurrent
<1>12. \A j \in Images : j \in adrift' /\ Awaited(j)' => j \in adrift /\ Awaited(j)
  BY <1>2, <1>6, <1>10, <1>11 DEF Awaited
<1>13. \A j \in Images : j \notin adrift' =>
          status'[j] = status[j] /\ (j \in present' <=> j \in present) /\ (IsCurrent(j)' <=> IsCurrent(j))
  BY <1>2, <1>6, <1>10
<1>14. \A j \in Images : status[j] # "processing" =>
            /\ status'[j] # "processing"
            /\ j \in adrift' /\ j \in present' /\ IsCurrent(j)' => j \in adrift /\ j \in present /\ IsCurrent(j)
  BY <1>2, <1>6, <1>10, <1>11
<1>15. adrift \subseteq adrift' /\ gone \subseteq gone'
  BY <1>2, <1>6
<1> QED BY <1>2, <1>8, <1>9, <1>12, <1>13, <1>14, <1>15, ImagesTouched

\* An image that is stepped through has no job any more.
LEMMA SteppedKeeps ==
    ASSUME AppInv, NEW i \in present, NEW t \in Timelines, Stepped(i, t),
           UNCHANGED <<present, gone, ctrl, window, tracked, cancelAll, Threads>>, cancelled' \subseteq Images
    PROVE  AppInv'
<1>1. /\ doc' = [doc EXCEPT ![i] = t]
      /\ status' = [status EXCEPT ![i] = IF TL!Shown(t).result # NoRun THEN "done" ELSE "pending"]
      /\ job' = [job EXCEPT ![i] = NoJob] /\ adrift' = adrift \cup {i}
      /\ present' = present /\ gone' = gone /\ ctrl' = ctrl /\ window' = window /\ tracked' = tracked
      /\ cancelAll' = cancelAll /\ UNCHANGED <<Threads, ctrl, window>>
  BY DEF Stepped, Threads
<1>2. i \in Images /\ doc \in [Images -> Timelines] /\ job \in [Images -> Jobs] /\ status \in [Images -> Statuses]
  BY DEF AppInv, ImageTypes
<1>3. NoJob \in Jobs /\ NoJob.version = 0 /\ t.version \in Nat
  BY BatchAppAssumption DEF NoJob, Jobs, NoRun, Timelines
<1>4. /\ doc' \in [Images -> Timelines] /\ doc'[i] = t /\ job' \in [Images -> Jobs] /\ job'[i] = NoJob
      /\ status' \in [Images -> Statuses] /\ status'[i] # "processing"
      /\ \A j \in Images : j # i => doc'[j] = doc[j] /\ job'[j] = job[j] /\ status'[j] = status[j]
  BY <1>1, <1>2, <1>3 DEF Statuses
<1>5. ImageTypes'
  <2>1. \A j \in Images : job'[j].version <= doc'[j].version
    BY <1>3, <1>4 DEF AppInv, ImageTypes
  <2> QED BY <1>1, <1>4, <2>1 DEF AppInv, ImageTypes
<1>6. ProcTypes'
  BY <1>1 DEF AppInv, ProcTypes
<1>7. ~IsCurrent(i)' /\ \A j \in Images : j # i => (IsCurrent(j)' <=> IsCurrent(j))
  BY <1>4 DEF IsCurrent
<1>8. \A j \in Images : j \in adrift' /\ Awaited(j)' => j \in adrift /\ Awaited(j)
  BY <1>1, <1>4, <1>7 DEF Awaited
<1>9. \A j \in Images : j \notin adrift' =>
          status'[j] = status[j] /\ (j \in present' <=> j \in present) /\ (IsCurrent(j)' <=> IsCurrent(j))
  BY <1>1, <1>4, <1>7
<1>10. \A j \in Images : status[j] # "processing" =>
            /\ status'[j] # "processing"
            /\ j \in adrift' /\ j \in present' /\ IsCurrent(j)' => j \in adrift /\ j \in present /\ IsCurrent(j)
  BY <1>1, <1>4, <1>7
<1>11. adrift \subseteq adrift' /\ gone \subseteq gone'
  BY <1>1
<1> QED BY <1>1, <1>5, <1>6, <1>8, <1>9, <1>10, <1>11, ImagesTouched

\* Nothing but the registry of cancels changes.
LEMMA RegistryKeeps ==
    ASSUME AppInv, UNCHANGED <<present, gone, status, doc, job, adrift, ctrl, window, tracked, cancelAll, Threads>>,
           cancelled' \subseteq Images
    PROVE  AppInv'
<1>1. /\ present' = present /\ gone' = gone /\ status' = status /\ doc' = doc /\ job' = job /\ adrift' = adrift
      /\ ctrl' = ctrl /\ window' = window /\ tracked' = tracked /\ cancelAll' = cancelAll
      /\ UNCHANGED <<Threads, ctrl, window>>
  BY DEF Threads
<1>2. ImageTypes' /\ ProcTypes'
  BY <1>1 DEF AppInv, ImageTypes, ProcTypes
<1>3. \A i \in Images : (IsCurrent(i)' <=> IsCurrent(i)) /\ (Awaited(i)' <=> Awaited(i))
  BY <1>1 DEF IsCurrent, Awaited
<1> QED BY <1>1, <1>2, <1>3, ImagesTouched

\* step_targets.
LEMMA UndoOrRedoKeeps ==
    ASSUME AppInv, NEW i \in present, UndoOrRedo(i)
    PROVE  AppInv'
<1>1. i \in Images /\ doc[i] \in Timelines /\ cancelled \subseteq Images
  BY DEF AppInv, ImageTypes, ProcTypes
<1>2. /\ UNCHANGED <<present, gone, ctrl, window, tracked, cancelAll, Threads>>
      /\ cancelled' \subseteq Images
  BY <1>1 DEF UndoOrRedo, Threads, bridgeVars
<1>3. \/ TL!CanUndo(doc[i]) /\ Stepped(i, TL!Undone(doc[i]))
      \/ TL!CanRedo(doc[i]) /\ Stepped(i, TL!Redone(doc[i]))
      \/ UNCHANGED <<doc, status, job, adrift>>
  BY DEF UndoOrRedo
<1>4. CASE TL!CanUndo(doc[i]) /\ Stepped(i, TL!Undone(doc[i]))
  BY <1>1, <1>2, <1>4, SteppedIsATimeline, SteppedKeeps
<1>5. CASE TL!CanRedo(doc[i]) /\ Stepped(i, TL!Redone(doc[i]))
  BY <1>1, <1>2, <1>5, SteppedIsATimeline, SteppedKeeps
<1>6. CASE UNCHANGED <<doc, status, job, adrift>>
  BY <1>2, <1>6, RegistryKeeps
<1> QED BY <1>3, <1>4, <1>5, <1>6

\* remove_batch_item.
LEMMA RemoveImageKeeps ==
    ASSUME AppInv, NEW i \in present, RemoveImage(i)
    PROVE  AppInv'
<1>1. /\ present' = present \ {i} /\ adrift' = adrift \cup {i}
      /\ gone' = gone /\ status' = status /\ doc' = doc /\ job' = job /\ ctrl' = ctrl /\ window' = window
      /\ tracked' = tracked /\ cancelled' = cancelled /\ cancelAll' = cancelAll
      /\ UNCHANGED <<Threads, ctrl, window>>
  BY DEF RemoveImage, Threads, bridgeVars, procVars
<1>2. ImageTypes' /\ ProcTypes'
  BY <1>1 DEF AppInv, ImageTypes, ProcTypes
<1>3. \A j \in Images : IsCurrent(j)' <=> IsCurrent(j)
  BY <1>1 DEF IsCurrent
<1>4. \A j \in Images : j \in adrift' /\ Awaited(j)' => j \in adrift /\ Awaited(j)
  BY <1>1, <1>3 DEF Awaited
<1> QED BY <1>1, <1>2, <1>3, <1>4, ImagesTouched

\* A file vanishes.
LEMMA VanishKeeps ==
    ASSUME AppInv, NEW i \in present, Vanish(i)
    PROVE  AppInv'
<1>1. /\ gone' = gone \cup {i} /\ present' = present /\ adrift' = adrift
      /\ status' = status /\ doc' = doc /\ job' = job /\ ctrl' = ctrl /\ window' = window
      /\ tracked' = tracked /\ cancelled' = cancelled /\ cancelAll' = cancelAll
      /\ UNCHANGED <<Threads, ctrl, window>>
  BY DEF Vanish, Threads, bridgeVars, procVars
<1>2. ImageTypes' /\ ProcTypes'
  BY <1>1 DEF AppInv, ImageTypes, ProcTypes
<1>3. \A j \in Images : (IsCurrent(j)' <=> IsCurrent(j)) /\ (Awaited(j)' <=> Awaited(j))
  BY <1>1 DEF IsCurrent, Awaited
<1> QED BY <1>1, <1>2, <1>3, ImagesTouched

\* handle_cancel_all_and_reset: nothing is awaited any more, and the controller goes.
LEMMA CancelAllKeeps ==
    ASSUME AppInv, CancelAll
    PROVE  AppInv'
<1>1. /\ ctrl' = EmptyController /\ window' = NoRun /\ cancelAll' = TRUE
      /\ status' = Abandoned(Processing) /\ job' = WithoutJobs(Processing) /\ adrift' = adrift \cup Processing
      /\ present' = present /\ gone' = gone /\ doc' = doc /\ tracked' = tracked /\ cancelled' = cancelled
      /\ mail' = mail /\ feed' = feed /\ results' = results /\ serving' = serving /\ over' = over /\ runs' = runs
  BY DEF CancelAll, bridgeVars
<1>2. Processing \subseteq Images /\ NoJob \in Jobs /\ NoJob.version = 0 /\ \A i \in Images : doc[i].version \in Nat
  BY BatchAppAssumption DEF Processing, AppInv, ImageTypes, NoJob, Jobs, NoRun, Timelines
<1>3. \A i \in Images : AtRest(i) \in {"done", "pending"}
  BY DEF AtRest
<1>4. /\ status' \in [Images -> Statuses] /\ job' \in [Images -> Jobs]
      /\ \A i \in Images : i \in Processing => status'[i] # "processing"
      /\ \A i \in Images : i \notin Processing => status'[i] = status[i]
      /\ \A i \in Images : job'[i] = NoJob \/ job'[i] = job[i]
  BY <1>1, <1>2, <1>3 DEF Abandoned, WithoutJobs, AppInv, ImageTypes, Statuses
<1>5. ImageTypes'
  <2>1. \A i \in Images : job'[i].version <= doc[i].version
    BY <1>2, <1>4 DEF AppInv, ImageTypes
  <2> QED BY <1>1, <1>4, <2>1 DEF AppInv, ImageTypes
<1>6. ProcTypes'
  <2>1. Sound(EmptyController)
    BY EmptyIsSound
  <2>2. NoRun \in 0 .. MaxRuns
    BY BatchAppAssumption DEF NoRun
  <2> QED BY <1>1, <2>1, <2>2 DEF AppInv, ProcTypes
<1>7. PipeTypes'
  BY <1>1 DEF AppInv, PipeTypes
<1>8. PhaseInv'
  BY <1>1 DEF AppInv, PhaseInv, Working
<1>9. /\ Underway' = Underway /\ ~Open' /\ Streamed' = Streamed
      /\ Items(results)' = Items(results) /\ ItemsOnce(results)' = ItemsOnce(results)
  BY <1>1 DEF Underway, Given, Open, Requests, Streamed
<1>10. OnceInv' /\ HeldInv'
  BY <1>1, <1>9 DEF AppInv, OnceInv, HeldInv
<1>11. AwaitInv'
  <2>1. Underway \subseteq Images
    BY UnderwayImages DEF AppInv
  <2>2. \A i \in Images : ~Awaited(i)'
    BY <1>1, <1>4 DEF Awaited, Processing
  <2>3. \A i \in Underway : i \in adrift'
    BY <1>1 DEF AppInv, AwaitInv, Awaited, Processing
  <2> QED BY <1>9, <2>1, <2>2, <2>3 DEF AwaitInv
<1> QED BY <1>5, <1>6, <1>7, <1>8, <1>10, <1>11 DEF AppInv
----------------------------------------------------------------------------
(* Dispatch                                                                *)

\* Before a dispatch nothing is under way.
LEMMA NothingUnderway ==
    ASSUME AppInv, ~Impatient, Ready
    PROVE  /\ serving = Idle /\ mail = <<>> /\ results = <<>> /\ runs + 1 \in Runs
           /\ \A r \in Runs : feed[r] = <<>>
           /\ Underway = {} /\ window \in over \cup {NoRun}
<1>1. serving = Idle /\ mail = <<>> /\ results = <<>> /\ runs < MaxRuns
  BY DEF Ready
<1>2. runs + 1 \in Runs
  BY <1>1, BatchAppAssumption DEF AppInv, PipeTypes, Runs
<1>3. Requests = {} /\ Streamed = {} /\ serving.todo = {} /\ Items(results) = {}
  BY <1>1, NoItems DEF Requests, Streamed, Idle
<1>4. ~Working
  BY <1>1 DEF Working
<1> QED BY <1>1, <1>2, <1>3, <1>4 DEF AppInv, PhaseInv, Underway, Given

\* Of the images of a dispatch, none is sent and fails, or either and left.
Apart(sent, failed, left) ==
    /\ sent \subseteq Images /\ left \subseteq Images
    /\ sent \cap failed = {} /\ sent \cap left = {} /\ failed \cap left = {}

\* What becomes of their statuses.
LEMMA MarkedStatuses ==
    ASSUME ImageTypes, NEW sent, NEW failed, NEW left, Apart(sent, failed, left)
    PROVE  /\ Marked(sent, failed, left) \in [Images -> Statuses]
           /\ \A i \in sent : Marked(sent, failed, left)[i] = "processing"
           /\ \A i \in left : Marked(sent, failed, left)[i] # "processing"
<1> DEFINE Mark(i) == CASE i \in sent   -> "processing"
                        [] i \in failed -> "error"
                        [] i \in left   -> "pending"
                        [] OTHER        -> status[i]
<1>1. Marked(sent, failed, left) = [i \in Images |-> Mark(i)]
  BY DEF Marked
<1>2. ASSUME NEW i \in Images
      PROVE  /\ Mark(i) \in Statuses
             /\ i \in sent => Mark(i) = "processing"
             /\ i \in left => Mark(i) # "processing"
  <2>1. CASE i \in sent
    BY <2>1 DEF Statuses, Apart
  <2>2. CASE i \in failed
    BY <2>2 DEF Statuses, Apart
  <2>3. CASE i \in left
    BY <2>3 DEF Statuses, Apart
  <2>4. CASE i \notin sent \cup failed \cup left
    BY <2>4 DEF ImageTypes
  <2> QED BY <2>1, <2>2, <2>3, <2>4
<1> HIDE DEF Mark
<1> QED BY <1>1, <1>2 DEF Apart

\* The images of a dispatch, and timelines that have moved on since.
Picked(whole, cached) == whole \subseteq Candidates /\ cached \subseteq Candidates \ whole
Later(timelines) ==
    timelines \in [Images -> Timelines] /\ \A i \in Images : doc[i].version <= timelines[i].version

\* What else a dispatch makes of the images: each has a job for what it shows.
LEMMA DispatchedImages ==
    ASSUME AppInv, runs + 1 \in Runs, NEW whole, NEW cached, Picked(whole, cached),
           NEW timelines, Later(timelines), NEW step \in {"cutout", "fill"},
           Dispatch(whole, cached, timelines, step), status' \in [Images -> Statuses]
    PROVE  /\ ImageTypes'
           /\ \A i \in whole \cup cached : i \notin adrift' /\ i \in present' /\ IsCurrent(i)'
<1> DEFINE new(i) == [version |-> timelines[i].version, run |-> runs + 1, step |-> step]
<1>1. /\ job' = [i \in Images |-> IF i \in whole \cup cached THEN new(i) ELSE job[i]]
      /\ doc' = timelines /\ adrift' = adrift \ (whole \cup cached) /\ present' = present /\ gone' = gone
  BY DEF Dispatch
<1>2. whole \cup cached \subseteq present /\ present \subseteq Images
  BY DEF Candidates, Picked, AppInv, ImageTypes
<1>3. \A i \in Images : new(i) \in Jobs /\ new(i) # NoJob /\ new(i).version = timelines[i].version
                        /\ timelines[i].version \in Nat
  BY DEF Jobs, NoJob, Later, Timelines, Runs
<1> HIDE DEF new
<1>4. job' \in [Images -> Jobs] /\ \A i \in Images : job'[i] = IF i \in whole \cup cached THEN new(i) ELSE job[i]
  BY <1>1, <1>3 DEF AppInv, ImageTypes
<1>5. \A i \in Images : job'[i].version <= doc'[i].version
  <2> SUFFICES ASSUME NEW i \in Images PROVE job'[i].version <= timelines[i].version
    BY <1>1
  <2>1. CASE i \in whole \cup cached
    BY <2>1, <1>3, <1>4
  <2>2. CASE i \notin whole \cup cached
    <3>1. job[i].version <= doc[i].version /\ job[i].version \in Nat /\ doc[i].version \in Nat
      BY DEF AppInv, ImageTypes, Jobs, Timelines
    <3>2. doc[i].version <= timelines[i].version
      BY DEF Later
    <3> QED BY <2>2, <3>1, <3>2, <1>3, <1>4
  <2> QED BY <2>1, <2>2
<1>6. ImageTypes'
  BY <1>1, <1>4, <1>5 DEF AppInv, ImageTypes, Later
<1>7. \A i \in whole \cup cached : i \notin adrift' /\ i \in present' /\ IsCurrent(i)'
  BY <1>1, <1>2, <1>3, <1>4 DEF IsCurrent
<1> QED BY <1>6, <1>7

\* A dispatch that sends nothing leaves nothing under way.
LEMMA NothingSent ==
    ASSUME AppInv, ~Impatient, Ready, ImageTypes', SendNothing,
           UNCHANGED <<ctrl, window, feed, results, bridgeVars>>, runs' = runs + 1
    PROVE  AppInv'
<1>1. /\ serving = Idle /\ mail = <<>> /\ results = <<>> /\ runs + 1 \in Runs
      /\ \A r \in Runs : feed[r] = <<>>
      /\ Underway = {} /\ window \in over \cup {NoRun}
  BY NothingUnderway
<1>2. /\ cancelled' = cancelled /\ cancelAll' = cancelAll /\ tracked' = tracked /\ mail' = mail
      /\ ctrl' = ctrl /\ window' = window /\ feed' = feed /\ results' = results /\ serving' = serving /\ over' = over
  BY DEF SendNothing, bridgeVars
<1>3. ProcTypes'
  BY <1>2 DEF AppInv, ProcTypes
<1>4. PipeTypes'
  <2>1. over \subseteq 1 .. runs + 1
    BY DEF AppInv, PipeTypes
  <2>2. runs + 1 \in 0 .. MaxRuns
    BY <1>1, BatchAppAssumption DEF Runs
  <2> QED BY <1>2, <2>1, <2>2 DEF AppInv, PipeTypes
<1>5. ~Working' /\ ~Open'
  BY <1>1, <1>2 DEF Working, Open
<1>6. PhaseInv'
  <2>1. DOMAIN results' = {}
    BY <1>1, <1>2, EmptySeq
  <2> QED BY <1>1, <1>2, <1>5, <2>1 DEF PhaseInv
<1>7. Requests' = {} /\ Streamed' = {} /\ Items(results)' = {} /\ ItemsOnce(results)' /\ serving'.todo = {}
  BY <1>1, <1>2, NoItems DEF Requests, Streamed, Idle
<1>8. OnceInv' /\ HeldInv' /\ AwaitInv'
  BY <1>1, <1>2, <1>5, <1>7 DEF OnceInv, HeldInv, AwaitInv, Underway, Given
<1> QED BY <1>3, <1>4, <1>6, <1>8, Zenon DEF AppInv

\* One that sends a batch has its images under way, and nothing else.
LEMMA BatchSent ==
    ASSUME AppInv, ~Impatient, Ready, NEW request \in SUBSET Images, NEW cached \in SUBSET Images,
           Send(runs + 1, request, cached), UNCHANGED <<feed, results, bridgeVars>>, runs' = runs + 1
    PROVE  /\ PipeTypes' /\ Working' /\ serving' = Idle /\ results' = <<>> /\ over' = over
           /\ tracked' \subseteq Images /\ cancelled' \subseteq Images /\ cancelAll' \in BOOLEAN
           /\ runs' \in Runs \ over'
           /\ Underway' = request /\ Given' = request /\ Cached' = cached
           /\ window' \in over' \cup {NoRun, runs'} => PhaseInv'
           /\ ~Open' \/ Range(ctrl.waiting)' \cap request = {} => OnceInv'
<1> DEFINE m == [run |-> runs + 1, request |-> request, cached |-> cached]
<1>1. /\ serving = Idle /\ mail = <<>> /\ results = <<>> /\ runs + 1 \in Runs
      /\ \A r \in Runs : feed[r] = <<>>
  BY NothingUnderway
<1>2. /\ cancelled' = {} /\ cancelAll' = FALSE /\ tracked' = request /\ mail' = Append(mail, m)
      /\ feed' = feed /\ results' = results /\ serving' = serving /\ over' = over
  BY DEF Send, bridgeVars
<1>3. m \in Batches /\ m.run = runs + 1 /\ m.request = request /\ m.cached = cached
  BY <1>1 DEF Batches
<1> HIDE DEF m
<1>4. mail' \in Seq(Batches) /\ Len(mail') = 1 /\ mail'[1] = m /\ mail' # <<>>
  <2>1. mail' = <<m>>
    BY <1>1, <1>2
  <2> QED BY <1>3, <2>1
<1>5. over \subseteq 1 .. runs /\ runs \in Nat
  BY DEF AppInv, PipeTypes
<1>6. PipeTypes'
  <2>1. over \subseteq 1 .. runs + 1
    BY <1>5
  <2>2. runs + 1 \in 0 .. MaxRuns
    BY <1>1, BatchAppAssumption DEF Runs
  <2> QED BY <1>2, <1>4, <2>1, <2>2 DEF AppInv, PipeTypes
<1>7. Working' /\ runs' \in Runs \ over'
  BY <1>1, <1>2, <1>4, <1>5 DEF Working
<1>8. /\ Requests' = request /\ Streamed' = {} /\ serving'.todo = {} /\ serving'.cached = {}
      /\ Items(results)' = {} /\ ItemsOnce(results)'
  BY <1>1, <1>2, <1>3, <1>4, NoItems DEF Requests, Streamed, Idle
<1>9. Underway' = request /\ Given' = request /\ Cached' = cached
  BY <1>3, <1>4, <1>8 DEF Underway, Given, Cached
<1>10. ASSUME window' \in over' \cup {NoRun, runs'} PROVE PhaseInv'
  <2>1. DOMAIN results' = {}
    BY <1>1, <1>2, EmptySeq
  <2>2. /\ mail' # <<>> => Len(mail') = 1 /\ mail'[1].run = runs' /\ serving' = Idle /\ results' = <<>>
        /\ serving' # Idle => serving'.run = runs'
        /\ \A r \in Runs : feed'[r] # <<>> => serving' # Idle /\ r = runs'
    BY <1>1, <1>2, <1>3, <1>4
  <2> QED BY <1>7, <1>10, <2>1, <2>2 DEF PhaseInv
<1>11. ASSUME ~Open' \/ Range(ctrl.waiting)' \cap request = {} PROVE OnceInv'
  BY <1>1, <1>2, <1>8, <1>9, <1>11 DEF OnceInv
<1> QED BY <1>1, <1>2, <1>6, <1>7, <1>9, <1>10, <1>11

\* dispatch_batch, whichever way the images are let in.
LEMMA DispatchKeeps ==
    ASSUME AppInv, ~Impatient, Ready, NEW whole, NEW cached, Picked(whole, cached),
           NEW timelines, Later(timelines), NEW step \in {"cutout", "fill"},
           Dispatch(whole, cached, timelines, step)
    PROVE  AppInv'
<1>1. /\ UNCHANGED <<feed, results, bridgeVars>> /\ runs' = runs + 1
      /\ DispatchSmall(runs + 1, whole, cached) \/ DispatchAdmitted(runs + 1, whole, cached)
      /\ adrift' = adrift \ (whole \cup cached) /\ gone' = gone
  BY DEF Dispatch
<1>2. /\ runs + 1 \in Runs /\ window \in over \cup {NoRun}
  BY NothingUnderway
<1>3. /\ whole \in SUBSET Images /\ cached \in SUBSET Images /\ whole \cap cached = {}
      /\ whole \subseteq Candidates /\ cached \subseteq Candidates
  BY DEF Candidates, Picked, AppInv, ImageTypes
<1>4. CASE DispatchSmall(runs + 1, whole, cached)
  <2> DEFINE request == (whole \cup cached) \ gone
  <2>1. /\ status' = Marked(request, cached \cap gone, {}) /\ UNCHANGED <<ctrl, window>>
        /\ IF request = {} THEN SendNothing ELSE Send(runs + 1, request, cached \ gone)
    BY <1>4 DEF DispatchSmall
  <2>2. request \in SUBSET (whole \cup cached) /\ request \cap (cached \cap gone) = {} /\ {} \in SUBSET Images
    OBVIOUS
  <2> HIDE DEF request
  <2>3. ImageTypes' /\ (\A i \in request : i \notin adrift' /\ Awaited(i)')
    <3>1. request \in SUBSET Images /\ ImageTypes
      BY <1>3, <2>2 DEF AppInv
    <3>2. status' \in [Images -> Statuses] /\ \A i \in request : status'[i] = "processing"
      <4> DEFINE failed == cached \cap gone
                 left == {}
      <4>1. Apart(request, failed, left) /\ status' = Marked(request, failed, left)
        BY <2>1, <2>2, <3>1 DEF Apart
      <4> HIDE DEF failed, left
      <4> QED BY <3>1, <4>1, MarkedStatuses
    <3>3. ImageTypes' /\ \A i \in whole \cup cached : i \notin adrift' /\ i \in present' /\ IsCurrent(i)'
      BY <1>2, <1>3, <3>2, DispatchedImages
    <3> QED BY <2>2, <3>2, <3>3 DEF Awaited
  <2>4. CASE SendNothing
    BY <2>4, <1>1, <2>1, <2>3, NothingSent
  <2>5. CASE Send(runs + 1, request, cached \ gone)
    <3>1. request \in SUBSET Images /\ cached \ gone \in SUBSET Images
      BY <1>3, <2>2
    <3>2. /\ PipeTypes' /\ over' = over
          /\ tracked' \subseteq Images /\ cancelled' \subseteq Images /\ cancelAll' \in BOOLEAN
          /\ Underway' = request
          /\ window' \in over' \cup {NoRun, runs'} => PhaseInv'
          /\ ~Open' \/ Range(ctrl.waiting)' \cap request = {} => OnceInv'
      BY <1>1, <2>5, <3>1, BatchSent
    <3>3. ctrl' = ctrl /\ window' = window
      BY <2>1
    <3>4. ~Open' /\ PhaseInv' /\ OnceInv'
      BY <1>2, <3>2, <3>3 DEF Open
    <3>5. ProcTypes'
      BY <3>2, <3>3 DEF AppInv, ProcTypes
    <3>6. HeldInv' /\ AwaitInv'
      BY <2>3, <3>2, <3>4 DEF HeldInv, AwaitInv
    <3> QED BY <2>3, <3>2, <3>4, <3>5, <3>6 DEF AppInv
  <2> QED BY <2>1, <2>4, <2>5
<1>5. CASE DispatchAdmitted(runs + 1, whole, cached)
  <2>1. PICK line \in Lines(whole) :
            LET c == AdmitAll([EmptyController EXCEPT !.waiting = line])
                request == (c.held \cup cached) \ gone
            IN  /\ status' = Marked(request, cached \cap gone, whole \ request)
                /\ IF request = {} THEN SendNothing /\ UNCHANGED <<ctrl, window>>
                   ELSE Send(runs + 1, request, cached \ gone) /\ ctrl' = c /\ window' = runs + 1
    BY <1>5 DEF DispatchAdmitted
  <2> DEFINE c0 == [EmptyController EXCEPT !.waiting = line]
             c == AdmitAll(c0)
             request == (c.held \cup cached) \ gone
  <2>2. /\ status' = Marked(request, cached \cap gone, whole \ request)
        /\ IF request = {} THEN SendNothing /\ UNCHANGED <<ctrl, window>>
           ELSE Send(runs + 1, request, cached \ gone) /\ ctrl' = c /\ window' = runs + 1
    BY <2>1
  <2>3. Sound(c0) /\ c0.waiting = line /\ c0.held = {} /\ Range(line) \subseteq whole
    BY <1>3, LineIsSound DEF EmptyController
  <2>4. c \in FurtherFrom(c0)
    <3> HIDE DEF c0
    <3> QED BY <2>3, LoopLetsIn DEF AdmitAll
  <2> HIDE DEF c, c0
  <2>5. Sound(c) /\ c.held \subseteq whole /\ Range(c.waiting) \subseteq whole \ c.held
    BY <2>3, <2>4 DEF FurtherFrom
  <2>6. request \in SUBSET (whole \cup cached)
    BY <2>5
  <2>7. Range(c.waiting) \subseteq whole \ request
    BY <1>3, <2>5
  <2>8. /\ c.held \subseteq request \cup gone /\ request \ (cached \ gone) \subseteq c.held
        /\ request \cap (cached \cap gone) = {} /\ (cached \cap gone) \cap (whole \ request) = {}
        /\ whole \ request \in SUBSET Images
    BY <1>3
  <2> HIDE DEF request
  <2>9. /\ ImageTypes'
        /\ \A i \in whole \cup cached : i \notin adrift' /\ i \in present' /\ IsCurrent(i)'
        /\ \A i \in request : Awaited(i)'
        /\ \A i \in whole \ request : status'[i] # "processing"
    <3>1. request \in SUBSET Images /\ ImageTypes
      BY <1>3, <2>6 DEF AppInv
    <3>2. /\ status' \in [Images -> Statuses] /\ \A i \in request : status'[i] = "processing"
          /\ \A i \in whole \ request : status'[i] # "processing"
      <4> DEFINE failed == cached \cap gone
                 left == whole \ request
      <4>1. Apart(request, failed, left) /\ status' = Marked(request, failed, left)
        BY <2>2, <2>8, <3>1 DEF Apart
      <4> HIDE DEF failed
      <4>2. /\ status' \in [Images -> Statuses] /\ \A i \in request : status'[i] = "processing"
            /\ \A i \in left : status'[i] # "processing"
        <5> HIDE DEF left
        <5> QED BY <3>1, <4>1, MarkedStatuses
      <4> QED BY <4>2
    <3>3. ImageTypes' /\ \A i \in whole \cup cached : i \notin adrift' /\ i \in present' /\ IsCurrent(i)'
      BY <1>2, <1>3, <3>2, DispatchedImages
    <3> QED BY <2>6, <3>2, <3>3 DEF Awaited
  <2>10. CASE SendNothing /\ UNCHANGED <<ctrl, window>>
    BY <2>10, <1>1, <2>9, NothingSent
  <2>11. CASE Send(runs + 1, request, cached \ gone) /\ ctrl' = c /\ window' = runs + 1
    <3>1. request \in SUBSET Images /\ cached \ gone \in SUBSET Images
      BY <1>3, <2>6
    <3>2. /\ PipeTypes' /\ over' = over /\ runs' \in Runs \ over'
          /\ tracked' \subseteq Images /\ cancelled' \subseteq Images /\ cancelAll' \in BOOLEAN
          /\ Underway' = request /\ Given' = request /\ Cached' = cached \ gone
          /\ window' \in over' \cup {NoRun, runs'} => PhaseInv'
          /\ ~Open' \/ Range(ctrl.waiting)' \cap request = {} => OnceInv'
      BY <1>1, <2>11, <3>1, BatchSent
    <3>3. ctrl' = c /\ window' = runs' /\ Range(ctrl.waiting)' = Range(c.waiting)
      BY <1>1, <2>11
    <3>4. PhaseInv' /\ OnceInv'
      BY <2>7, <3>2, <3>3
    <3>5. ProcTypes'
      <4>1. window' \in 0 .. MaxRuns /\ window' # NoRun
        BY <1>1, <1>2, <3>3, BatchAppAssumption DEF Runs, NoRun
      <4> QED BY <2>5, <3>2, <3>3, <4>1 DEF ProcTypes
    <3>6. HeldInv'
      BY <1>1, <2>8, <3>2, <3>3 DEF HeldInv
    <3>7. AwaitInv'
      <4>1. \A i \in request : i \notin adrift' /\ Awaited(i)'
        BY <2>6, <2>9
      <4>2. \A i \in Range(c.waiting) :
               status'[i] # "processing" /\ (i \notin adrift' <=> i \in present' /\ IsCurrent(i)')
        BY <2>7, <2>9
      <4> QED BY <3>2, <3>3, <4>1, <4>2 DEF AwaitInv
    <3> QED BY <2>9, <3>2, <3>4, <3>5, <3>6, <3>7 DEF AppInv
  <2> QED BY <2>2, <2>10, <2>11
<1> QED BY <1>1, <1>4, <1>5

\* process_items.
LEMMA ProcessKeeps ==
    ASSUME AppInv, ~Impatient, Process
    PROVE  AppInv'
<1>1. Ready
  BY DEF Process
<1>2. PICK whole \in SUBSET Candidates :
          \E cached \in SUBSET (Candidates \ whole) : Dispatch(whole, cached, doc, "cutout")
  BY DEF Process
<1>3. PICK cached \in SUBSET (Candidates \ whole) : Dispatch(whole, cached, doc, "cutout")
  BY <1>2
<1>4. Later(doc) /\ Picked(whole, cached)
  BY DEF AppInv, ImageTypes, Timelines, Later, Picked
<1> QED BY <1>1, <1>3, <1>4, DispatchKeeps

\* A run again, for a knob.
LEMMA RerunKeeps ==
    ASSUME AppInv, ~Impatient, NEW i \in present, Rerun(i)
    PROVE  AppInv'
<1>1. Ready /\ i \in Candidates
  BY DEF Rerun
<1> DEFINE page == [kind |-> "Adjust", result |-> ShownResult(i)]
           adjusted(soon) == [doc EXCEPT ![i] = TL!Pushed(doc[i], page, soon)]
<1>2. PICK soon \in BOOLEAN, whole \in {{}, {i}} : Dispatch(whole, {i} \ whole, adjusted(soon), "fill")
  BY DEF Rerun
<1>3. i \in Images /\ doc \in [Images -> Timelines] /\ doc[i] \in Timelines
  BY DEF AppInv, ImageTypes
<1>4. page \in Pages
  BY <1>3, ShownIsAPage DEF ShownResult, Pages
<1> HIDE DEF page
<1>5. TL!Pushed(doc[i], page, soon) \in Timelines
      /\ TL!Pushed(doc[i], page, soon).version \in {doc[i].version, doc[i].version + 1}
  BY <1>3, <1>4, PushedIsATimeline
<1>6. Later(adjusted(soon))
  <2>1. \A j \in Images : doc[j].version \in Nat
    BY <1>3 DEF Timelines
  <2>2. adjusted(soon) \in [Images -> Timelines]
    BY <1>3, <1>5
  <2>3. \A j \in Images : adjusted(soon)[j] = IF j = i THEN TL!Pushed(doc[i], page, soon) ELSE doc[j]
    BY <1>3
  <2>4. \A j \in Images : doc[j].version <= adjusted(soon)[j].version
    BY <1>5, <2>1, <2>3
  <2> HIDE DEF adjusted
  <2> QED BY <2>2, <2>4 DEF Later
<1> HIDE DEF adjusted
<1>7. Picked(whole, {i} \ whole)
  BY <1>1 DEF Picked
<1> QED BY <1>1, <1>2, <1>6, <1>7, DispatchKeeps

----------------------------------------------------------------------------
(* The bridge                                                              *)

\* An image that moves on within the bridge, or is answered, stays underway.
LEMMA BridgeMoves ==
    ASSUME AppInv, GuiUnchanged, UNCHANGED <<over, adrift>>, PipeTypes', PhaseInv',
           Underway' = Underway, Given' \ Cached' \subseteq Given \ Cached,
           serving' # Idle => Distinct(feed'[runs']), ItemsOnce(results)', serving'.todo \cap Streamed' = {},
           Items(results)' \cap (Streamed' \cup serving'.todo) = {}
    PROVE  AppInv'
<1>1. /\ present' = present /\ gone' = gone /\ status' = status /\ doc' = doc /\ job' = job
      /\ ctrl' = ctrl /\ window' = window /\ tracked' = tracked /\ cancelled' = cancelled /\ cancelAll' = cancelAll
      /\ over' = over /\ adrift' = adrift
  BY DEF GuiUnchanged, imageVars
<1>2. ImageTypes' /\ ProcTypes'
  BY <1>1 DEF AppInv, ImageTypes, ProcTypes
<1>3. (Open' <=> Open) /\ \A i : (Awaited(i)' <=> Awaited(i)) /\ (IsCurrent(i)' <=> IsCurrent(i))
  BY <1>1 DEF Open, Awaited, IsCurrent
<1>4. OnceInv'
  BY <1>1, <1>3 DEF AppInv, OnceInv
<1>5. HeldInv'
  BY <1>1, <1>3 DEF AppInv, HeldInv
<1>6. AwaitInv'
  BY <1>1, <1>3 DEF AppInv, AwaitInv
<1> QED BY <1>2, <1>4, <1>5, <1>6 DEF AppInv

\* What the invariant says of a bridge that works at a batch.
LEMMA WhileServing ==
    ASSUME AppInv, serving # Idle
    PROVE  /\ serving.run = runs /\ runs \in Runs \ over /\ mail = <<>> /\ Requests = {} /\ Streamed = Range(feed[runs])
           /\ feed[runs] \in Seq(Images) /\ serving.todo \subseteq Images
           /\ \A r \in Runs : r # runs => feed[r] = <<>>
           /\ \A n \in DOMAIN results : results[n].run = runs /\ results[n].type = "ItemDone"
           /\ Distinct(feed[runs]) /\ ItemsOnce(results)
           /\ serving.todo \cap Streamed = {} /\ Items(results) \cap (Streamed \cup serving.todo) = {}
           /\ window \in over \cup {NoRun, runs}
<1>1. PhaseInv /\ OnceInv /\ PipeTypes
  BY DEF AppInv
<1>2. serving.run = runs /\ runs \in Runs \ over /\ mail = <<>>
  BY <1>1 DEF PhaseInv, Working
<1> QED BY <1>1, <1>2 DEF PhaseInv, OnceInv, PipeTypes, Requests, Streamed

\* recv: a batch is taken out of the mail.
LEMMA TakeBatchKeeps ==
    ASSUME AppInv, TakeBatch
    PROVE  AppInv'
<1>1. /\ serving = Idle /\ mail # <<>>
      /\ serving' = [run |-> Head(mail).run, todo |-> Head(mail).request, cached |-> Head(mail).cached]
      /\ mail' = Tail(mail) /\ feed' = feed /\ results' = results /\ over' = over /\ adrift' = adrift /\ GuiUnchanged
      /\ runs' = runs
  BY DEF TakeBatch, GuiUnchanged
<1>2. Len(mail) = 1 /\ mail[1].run = runs /\ results = <<>> /\ runs \in Runs \ over /\ \A r \in Runs : feed[r] = <<>>
  BY <1>1 DEF AppInv, PhaseInv, Working
<1>3. /\ mail \in Seq(Batches) /\ feed \in [Runs -> Seq(Images)] /\ runs \in 0 .. MaxRuns /\ over \subseteq 1 .. runs
      /\ results \in Seq(Answers)
  BY DEF AppInv, PipeTypes
<1>4. mail' = <<>> /\ Head(mail) = mail[1] /\ mail[1] \in Batches
  BY <1>1, <1>2, <1>3, HeadTailProperties, EmptySeq, ElementOfSeq
<1>5. /\ serving' \in [run : 0 .. MaxRuns, todo : SUBSET Images, cached : SUBSET Images]
      /\ serving'.run = runs /\ serving'.todo = mail[1].request /\ serving'.cached = mail[1].cached
  BY <1>1, <1>2, <1>3, <1>4 DEF Batches
<1>6. serving' # Idle
  BY <1>2, <1>5 DEF Idle, NoRun, Runs
<1>7. PipeTypes'
  BY <1>1, <1>3, <1>4, <1>5, EmptySeq DEF PipeTypes
<1>8. PhaseInv'
  <2>1. DOMAIN results' = {}
    BY <1>1, <1>2, EmptySeq
  <2>2. Working /\ Working'
    BY <1>1, <1>6 DEF Working
  <2>3. window' = window
    BY <1>1 DEF GuiUnchanged
  <2> QED BY <1>1, <1>2, <1>4, <1>5, <2>1, <2>2, <2>3 DEF AppInv, PhaseInv
<1>9. Requests = mail[1].request /\ Streamed = {} /\ serving.todo = {} /\ serving.cached = {} /\ Items(results) = {}
  BY <1>1, <1>2, NoItems DEF Requests, Streamed, Idle
<1>10. /\ Requests' = {} /\ Streamed' = {} /\ Items(results)' = {} /\ ItemsOnce(results)' /\ Distinct(feed'[runs'])
  BY <1>1, <1>2, <1>4, <1>6, NoItems, EmptySeq DEF Requests, Streamed, Range, Distinct
<1>11. Given' = Given /\ Underway' = Underway /\ Cached' = Cached
  BY <1>1, <1>4, <1>5, <1>9, <1>10 DEF Underway, Given, Cached
<1> QED BY <1>1, <1>5, <1>7, <1>8, <1>10, <1>11, BridgeMoves

\* drain_admission: an image that was streamed to the batch is taken up.
LEMMA TakeStreamedKeeps ==
    ASSUME AppInv, TakeStreamed
    PROVE  AppInv'
<1>1. /\ serving # Idle /\ feed[serving.run] # <<>>
      /\ serving' = [serving EXCEPT !.todo = @ \cup {Head(feed[serving.run])}]
      /\ feed' = [feed EXCEPT ![serving.run] = Tail(@)]
      /\ mail' = mail /\ results' = results /\ over' = over /\ adrift' = adrift /\ GuiUnchanged
      /\ runs' = runs /\ window' = window
  BY DEF TakeStreamed, GuiUnchanged
<1> DEFINE s == feed[runs]
<1>2. /\ serving.run = runs /\ runs \in Runs \ over /\ mail = <<>> /\ Requests = {} /\ Streamed = Range(s)
      /\ s \in Seq(Images) /\ serving.todo \subseteq Images
      /\ \A r \in Runs : r # runs => feed[r] = <<>>
      /\ \A n \in DOMAIN results : results[n].run = runs /\ results[n].type = "ItemDone"
      /\ Distinct(s) /\ ItemsOnce(results)
      /\ serving.todo \cap Streamed = {} /\ Items(results) \cap (Streamed \cup serving.todo) = {}
      /\ window \in over \cup {NoRun, runs}
  BY <1>1, WhileServing
<1>3. /\ Head(s) \in Range(s) /\ Head(s) \in Images /\ Tail(s) \in Seq(Images)
      /\ Range(s) = {Head(s)} \cup Range(Tail(s))
      /\ Distinct(Tail(s)) /\ Head(s) \notin Range(Tail(s))
  BY <1>1, <1>2, TailItems
<1> HIDE DEF s
<1>4. /\ feed \in [Runs -> Seq(Images)]
      /\ serving \in [run : 0 .. MaxRuns, todo : SUBSET Images, cached : SUBSET Images]
  BY DEF AppInv, PipeTypes
<1>5. /\ serving' \in [run : 0 .. MaxRuns, todo : SUBSET Images, cached : SUBSET Images]
      /\ serving'.run = runs /\ serving'.todo = serving.todo \cup {Head(s)} /\ serving'.cached = serving.cached
  BY <1>1, <1>2, <1>3, <1>4 DEF s
<1>6. feed' \in [Runs -> Seq(Images)] /\ feed'[runs] = Tail(s) /\ \A r \in Runs : r # runs => feed'[r] = feed[r]
  BY <1>1, <1>2, <1>3, <1>4 DEF s
<1>7. serving' # Idle
  BY <1>2, <1>5 DEF Idle, NoRun, Runs
<1>8. PipeTypes'
  BY <1>1, <1>5, <1>6 DEF AppInv, PipeTypes
<1>9. PhaseInv'
  <2>1. Working'
    BY <1>7 DEF Working
  <2>2. /\ \A r \in Runs : feed'[r] # <<>> => r = runs'
        /\ \A n \in DOMAIN results' : results'[n].run = runs' /\ results'[n].type = "ItemDone"
        /\ window' # NoRun => window' \in over' \/ window' = runs'
    BY <1>1, <1>2, <1>6
  <2> QED BY <1>1, <1>2, <1>5, <1>7, <2>1, <2>2 DEF PhaseInv
<1>10. Streamed' = Range(Tail(s)) /\ Requests' = {} /\ Items(results)' = Items(results) /\ ItemsOnce(results)'
  BY <1>1, <1>2, <1>6, <1>7 DEF Streamed, Requests
<1>11. Given' = Given /\ Underway' = Underway /\ Cached' = Cached
  BY <1>1, <1>2, <1>3, <1>5, <1>10 DEF Underway, Given, Cached
<1>12. serving'.todo \cap Streamed' = {} /\ Items(results)' \cap (Streamed' \cup serving'.todo) = {}
  BY <1>2, <1>3, <1>5, <1>10
<1>13. Distinct(feed'[runs'])
  BY <1>1, <1>3, <1>6
<1> QED BY <1>1, <1>8, <1>9, <1>10, <1>11, <1>12, <1>13, BridgeMoves

\* An image is answered.
LEMMA AnswerItemKeeps ==
    ASSUME AppInv, NEW i \in Images, AnswerItem(i)
    PROVE  AppInv'
<1>1. PICK res \in {"ok", "err", "cancelled"} : results' = Append(results, ItemAnswer(i, res))
  BY DEF AnswerItem
<1>2. /\ i \in serving.todo /\ serving' = [serving EXCEPT !.todo = @ \ {i}]
      /\ mail' = mail /\ feed' = feed /\ over' = over /\ adrift' = adrift /\ GuiUnchanged
      /\ runs' = runs /\ window' = window
  BY DEF AnswerItem, GuiUnchanged
<1>3. serving # Idle
  BY <1>2 DEF Idle
<1>4. /\ serving.run = runs /\ runs \in Runs \ over /\ mail = <<>> /\ Requests = {} /\ Streamed = Range(feed[runs])
      /\ feed[runs] \in Seq(Images) /\ serving.todo \subseteq Images
      /\ \A r \in Runs : r # runs => feed[r] = <<>>
      /\ \A n \in DOMAIN results : results[n].run = runs /\ results[n].type = "ItemDone"
      /\ Distinct(feed[runs]) /\ ItemsOnce(results)
      /\ serving.todo \cap Streamed = {} /\ Items(results) \cap (Streamed \cup serving.todo) = {}
      /\ window \in over \cup {NoRun, runs}
  BY <1>3, WhileServing
<1> DEFINE a == ItemAnswer(i, res)
<1>5. a \in Answers /\ a.type = "ItemDone" /\ a.item = i /\ a.run = runs
  BY <1>4 DEF ItemAnswer, Answers
<1>6. results' = Append(results, a) /\ results \in Seq(Answers) /\ i \notin Items(results)
  BY <1>1, <1>2, <1>4 DEF AppInv, PipeTypes
<1> HIDE DEF a
<1>7. results' \in Seq(Answers) /\ ItemsOnce(results)' /\ Items(results)' = Items(results) \cup {i}
  <2>1. /\ Append(results, a) \in Seq(Answers) /\ ItemsOnce(Append(results, a))
        /\ Items(Append(results, a)) = Items(results) \cup {i}
    BY <1>4, <1>5, <1>6, LogAnswer
  <2> QED BY <1>6, <2>1
<1>8. \A n \in DOMAIN results' : results'[n].run = runs /\ results'[n].type = "ItemDone"
  <2>1. /\ DOMAIN results' = 1 .. Len(results) + 1 /\ DOMAIN results = 1 .. Len(results) /\ Len(results) \in Nat
        /\ results'[Len(results) + 1] = a /\ \A n \in 1 .. Len(results) : results'[n] = results[n]
    BY <1>5, <1>6, AppendProperties, LenProperties
  <2> QED BY <1>4, <1>5, <2>1
<1>9. serving \in [run : 0 .. MaxRuns, todo : SUBSET Images, cached : SUBSET Images]
  BY DEF AppInv, PipeTypes
<1>10. /\ serving' \in [run : 0 .. MaxRuns, todo : SUBSET Images, cached : SUBSET Images]
       /\ serving'.run = runs /\ serving'.todo = serving.todo \ {i} /\ serving'.cached = serving.cached
  BY <1>2, <1>4, <1>9
<1>11. serving' # Idle
  BY <1>4, <1>10 DEF Idle, NoRun, Runs
<1>12. PipeTypes'
  BY <1>2, <1>7, <1>10 DEF AppInv, PipeTypes
<1>13. PhaseInv'
  <2>1. Working'
    BY <1>11 DEF Working
  <2> QED BY <1>2, <1>4, <1>8, <1>10, <1>11, <2>1 DEF PhaseInv
<1>14. Streamed' = Streamed /\ Requests' = {}
  BY <1>2, <1>4, <1>11 DEF Streamed, Requests
<1>15. Given' \subseteq Given /\ Underway' = Underway /\ Cached' = Cached
  BY <1>2, <1>4, <1>7, <1>10, <1>14 DEF Underway, Given, Cached
<1>16. serving'.todo \cap Streamed' = {} /\ Items(results)' \cap (Streamed' \cup serving'.todo) = {}
  BY <1>2, <1>4, <1>7, <1>10, <1>14
<1> QED BY <1>2, <1>4, <1>7, <1>12, <1>13, <1>15, <1>16, BridgeMoves

\* The last answers of a batch: images that were left, if any, and the end.
LastAnswers(told) ==
    /\ told \in Seq(Answers) /\ ItemsOnce(told) /\ Items(told) \subseteq serving.todo
    /\ \A n \in DOMAIN told : told[n].run = serving.run /\ (told[n].type # "ItemDone" => n = Len(told))

\* The batch ends: what is left of it are the answers on their way, and whatever was
\* in its channel went adrift.
LEMMA EndBatchKeeps ==
    ASSUME AppInv, serving # Idle, NEW told, LastAnswers(told), EndBatch(told)
    PROVE  AppInv'
<1>1. /\ results' = results \o told /\ serving' = Idle /\ over' = over \cup {serving.run}
      /\ feed' = [feed EXCEPT ![serving.run] = <<>>] /\ adrift' = adrift \cup Range(feed[serving.run])
      /\ mail' = mail /\ present' = present /\ gone' = gone /\ status' = status /\ doc' = doc /\ job' = job
      /\ ctrl' = ctrl /\ window' = window /\ tracked' = tracked /\ cancelled' = cancelled /\ cancelAll' = cancelAll
      /\ runs' = runs
  BY DEF EndBatch, GuiUnchanged, imageVars
<1>2. /\ serving.run = runs /\ runs \in Runs \ over /\ mail = <<>> /\ Requests = {} /\ Streamed = Range(feed[runs])
      /\ feed[runs] \in Seq(Images) /\ serving.todo \subseteq Images
      /\ \A r \in Runs : r # runs => feed[r] = <<>>
      /\ \A n \in DOMAIN results : results[n].run = runs /\ results[n].type = "ItemDone"
      /\ Distinct(feed[runs]) /\ ItemsOnce(results)
      /\ serving.todo \cap Streamed = {} /\ Items(results) \cap (Streamed \cup serving.todo) = {}
      /\ window \in over \cup {NoRun, runs}
  BY WhileServing
<1>3. /\ feed \in [Runs -> Seq(Images)] /\ results \in Seq(Answers) /\ runs \in 0 .. MaxRuns /\ over \subseteq 1 .. runs
      /\ mail \in Seq(Batches) /\ MaxRuns \in Nat
  BY BatchAppAssumption DEF AppInv, PipeTypes
<1>4. /\ told \in Seq(Answers) /\ ItemsOnce(told) /\ Items(told) \subseteq serving.todo
      /\ \A n \in DOMAIN told : told[n].run = runs /\ (told[n].type # "ItemDone" => n = Len(told))
  BY <1>2 DEF LastAnswers
<1>5. /\ results' \in Seq(Answers) /\ ItemsOnce(results)' /\ Items(results)' = Items(results) \cup Items(told)
  <2>1. Items(results) \cap Items(told) = {}
    BY <1>2, <1>4
  <2>2. /\ results \o told \in Seq(Answers) /\ ItemsOnce(results \o told)
        /\ Items(results \o told) = Items(results) \cup Items(told)
    BY <1>2, <1>3, <1>4, <2>1, JoinLogs
  <2> QED BY <1>1, <2>2
<1>6. \A n \in DOMAIN results' : results'[n].run = runs /\ (results'[n].type # "ItemDone" => n = Len(results'))
  <2>1. /\ Len(results) \in Nat /\ Len(told) \in Nat
        /\ DOMAIN results = 1 .. Len(results) /\ DOMAIN told = 1 .. Len(told)
        /\ DOMAIN results' = 1 .. Len(results) + Len(told)
        /\ \A n \in 1 .. Len(results) : results'[n] = results[n]
        /\ \A n \in 1 .. Len(told) : results'[Len(results) + n] = told[n]
    BY <1>1, <1>3, <1>4, ConcatAt
  <2>2. Len(results') = Len(results) + Len(told)
    BY <1>1, <1>3, <1>4, ConcatProperties
  <2> SUFFICES ASSUME NEW n \in DOMAIN results'
               PROVE  results'[n].run = runs /\ (results'[n].type # "ItemDone" => n = Len(results'))
    OBVIOUS
  <2>3. CASE n \in 1 .. Len(results)
    BY <1>2, <2>1, <2>3
  <2>4. CASE n \notin 1 .. Len(results)
    <3>1. n - Len(results) \in 1 .. Len(told) /\ n = Len(results) + (n - Len(results))
      BY <2>1, <2>4
    <3>2. results'[n] = told[n - Len(results)]
      BY <2>1, <3>1
    <3> QED BY <1>4, <2>1, <2>2, <3>1, <3>2
  <2> QED BY <2>3, <2>4
<1>7. feed' \in [Runs -> Seq(Images)] /\ \A r \in Runs : feed'[r] = <<>>
  BY <1>1, <1>2, <1>3, EmptySeq
<1>8. PipeTypes'
  <2>1. over' \subseteq 1 .. runs'
    BY <1>1, <1>2, <1>3 DEF Runs
  <2>2. Idle \in [run : 0 .. MaxRuns, todo : SUBSET Images, cached : SUBSET Images]
    BY <1>3 DEF Idle, NoRun
  <2> QED BY <1>1, <1>3, <1>5, <1>7, <2>1, <2>2 DEF PipeTypes
<1>9. window' \in over' \cup {NoRun} /\ ~Open' /\ ~Working'
  BY <1>1, <1>2 DEF Open, Working
<1>10. PhaseInv'
  BY <1>1, <1>2, <1>6, <1>7, <1>9 DEF PhaseInv
<1>11. Requests' = {} /\ Streamed' = {} /\ serving'.todo = {}
  BY <1>1, <1>2 DEF Requests, Streamed, Idle
<1>12. OnceInv' /\ HeldInv'
  BY <1>1, <1>5, <1>9, <1>11 DEF OnceInv, HeldInv
<1>13. Underway' = Items(results) \cup Items(told) /\ Underway' \subseteq Underway /\ Underway' \cap Streamed = {}
  BY <1>2, <1>4, <1>5, <1>11 DEF Underway, Given
<1>14. \A i : Awaited(i)' <=> Awaited(i)
  BY <1>1 DEF Awaited, IsCurrent
<1>15. AwaitInv'
  <2>1. ASSUME NEW i \in Underway', i \notin adrift' PROVE Awaited(i)'
    BY <2>1, <1>1, <1>13, <1>14 DEF AppInv, AwaitInv
  <2>2. ASSUME NEW i \in Underway', i \in adrift', Awaited(i)' PROVE window' \in over' /\ i \in ctrl'.held
    <3>1. i \in adrift /\ i \in Underway /\ Awaited(i)
      BY <2>2, <1>1, <1>2, <1>13, <1>14
    <3> QED BY <3>1, <1>1 DEF AppInv, AwaitInv
  <2> QED BY <2>1, <2>2, <1>9 DEF AwaitInv
<1>16. ImageTypes' /\ ProcTypes'
  BY <1>1 DEF AppInv, ImageTypes, ProcTypes
<1> QED BY <1>8, <1>10, <1>12, <1>15, <1>16 DEF AppInv

\* The end of a batch is an answer of its own, for no image.
LEMMA EndAnswers ==
    ASSUME AppInv, serving # Idle, NEW type \in {"Complete", "Cancelled"}
    PROVE  /\ BatchEnd(type) \in Answers /\ BatchEnd(type).type # "ItemDone" /\ BatchEnd(type).run = serving.run
           /\ LastAnswers(<<BatchEnd(type)>>)
           /\ Items(<<BatchEnd(type)>>) = {} /\ ItemsOnce(<<BatchEnd(type)>>)
<1> DEFINE a == BatchEnd(type)
           one == <<a>>
<1>1. serving.run \in Runs
  BY WhileServing
<1>2. (CHOOSE i \in Images : TRUE) \in Images
  BY BatchAppAssumption
<1>3. a \in Answers /\ a.type # "ItemDone" /\ a.run = serving.run
  BY <1>1, <1>2 DEF BatchEnd, Answers
<1> HIDE DEF a
<1>4. one \in Seq(Answers) /\ DOMAIN one = {1} /\ one[1] = a /\ Len(one) = 1
  BY <1>3
<1> HIDE DEF one
<1>5. Answered(one) = {}
  BY <1>3, <1>4 DEF Answered
<1>6. Items(one) = {} /\ ItemsOnce(one)
  BY <1>5 DEF Items, ItemsOnce
<1>7. LastAnswers(one)
  BY <1>3, <1>4, <1>6 DEF LastAnswers
<1> QED BY <1>3, <1>6, <1>7 DEF one, a

\* All is answered.
LEMMA CompleteKeeps ==
    ASSUME AppInv, Complete
    PROVE  AppInv'
BY EndAnswers, EndBatchKeeps DEF Complete

\* cancel_subprocess.
LEMMA AbortKeeps ==
    ASSUME AppInv, Abort
    PROVE  AppInv'
BY EndAnswers, EndBatchKeeps DEF Abort

\* What is left fails.
LEMMA GiveUpKeeps ==
    ASSUME AppInv, GiveUp
    PROVE  AppInv'
<1>1. serving # Idle
  BY DEF GiveUp
<1>2. PICK line \in SetToSeqs(serving.todo) :
          EndBatch([n \in DOMAIN line |-> ItemAnswer(line[n], "err")] \o <<BatchEnd("Complete")>>)
  BY DEF GiveUp
<1> DEFINE failures == [n \in DOMAIN line |-> ItemAnswer(line[n], "err")]
           end == <<BatchEnd("Complete")>>
           told == failures \o end
<1>3. serving.run \in Runs /\ serving.todo \subseteq Images
  BY <1>1, WhileServing
<1>4. Cardinality(serving.todo) \in Nat
  BY <1>3, FS_Subset, FS_CardinalityType, BatchAppAssumption
<1>5. /\ line \in [1 .. Cardinality(serving.todo) -> serving.todo] /\ DOMAIN line = 1 .. Cardinality(serving.todo)
      /\ \A m, n \in DOMAIN line : line[m] = line[n] => m = n
  BY <1>4 DEF SetToSeqs
<1>6. \A i \in serving.todo : /\ ItemAnswer(i, "err") \in Answers /\ ItemAnswer(i, "err").item = i
                              /\ ItemAnswer(i, "err").type = "ItemDone" /\ ItemAnswer(i, "err").run = serving.run
  BY <1>3 DEF ItemAnswer, Answers
<1>7. /\ failures \in [1 .. Cardinality(serving.todo) -> Answers]
      /\ \A n \in DOMAIN failures : /\ failures[n].type = "ItemDone" /\ failures[n].item = line[n]
                                    /\ failures[n].run = serving.run /\ line[n] \in serving.todo
      /\ DOMAIN failures = DOMAIN line
  BY <1>5, <1>6
<1> HIDE DEF failures
<1>8. failures \in Seq(Answers)
  BY <1>4, <1>7, IsASeq
<1>9. ItemsOnce(failures) /\ Items(failures) \subseteq serving.todo
  BY <1>5, <1>7 DEF ItemsOnce, Items, Answered
<1>10. /\ end \in Seq(Answers) /\ Items(end) = {} /\ ItemsOnce(end) /\ LastAnswers(end)
       /\ Len(end) = 1 /\ DOMAIN end = {1} /\ end[1].run = serving.run
  <2>1. BatchEnd("Complete") \in Answers /\ BatchEnd("Complete").run = serving.run /\ LastAnswers(end)
        /\ Items(end) = {} /\ ItemsOnce(end)
    BY <1>1, EndAnswers
  <2> QED BY <2>1
<1> HIDE DEF end
<1>11. /\ told \in Seq(Answers) /\ ItemsOnce(told) /\ Items(told) \subseteq serving.todo
  <2>1. Items(failures) \cap Items(end) = {}
    BY <1>10
  <2>2. /\ told \in Seq(Answers) /\ ItemsOnce(told) /\ Items(told) = Items(failures) \cup Items(end)
    BY <1>8, <1>9, <1>10, <2>1, JoinLogs
  <2> QED BY <1>9, <1>10, <2>2
<1>12. \A n \in DOMAIN told : told[n].run = serving.run /\ (told[n].type # "ItemDone" => n = Len(told))
  <2>1. /\ Len(failures) \in Nat /\ DOMAIN failures = 1 .. Len(failures) /\ DOMAIN told = 1 .. Len(failures) + 1
        /\ \A n \in 1 .. Len(failures) : told[n] = failures[n]
        /\ told[Len(failures) + 1] = end[1]
    <3>1. /\ Len(failures) \in Nat /\ DOMAIN failures = 1 .. Len(failures)
          /\ DOMAIN told = 1 .. Len(failures) + Len(end)
          /\ \A n \in 1 .. Len(failures) : told[n] = failures[n]
          /\ \A n \in 1 .. Len(end) : told[Len(failures) + n] = end[n]
      <4>1. failures \in Seq(Answers) /\ end \in Seq(Answers)
        BY <1>8, <1>10
      <4> QED BY <4>1, ConcatAt
    <3> HIDE DEF told
    <3> QED BY <1>10, <3>1
  <2>2. Len(told) = Len(failures) + 1
    BY <1>8, <1>10, ConcatProperties
  <2> HIDE DEF told
  <2> QED BY <1>7, <1>10, <2>1, <2>2
<1>13. LastAnswers(told)
  BY <1>11, <1>12 DEF LastAnswers
<1>14. EndBatch(told)
  BY <1>2 DEF failures, end
<1> QED BY <1>1, <1>13, <1>14, EndBatchKeeps

----------------------------------------------------------------------------
(* Answers                                                                 *)

\* What there is to read: an answer for an image, which is then nowhere else, or the
\* end of a batch, after which nothing is under way.
LEMMA ReadOne ==
    ASSUME AppInv, results # <<>>
    PROVE  /\ mail = <<>> /\ Requests = {}
           /\ Answer \in Answers /\ Tail(results) \in Seq(Answers) /\ ItemsOnce(Tail(results))
           /\ Answer.type = "ItemDone" => /\ Answer.item \in Items(results) /\ Answer.item \in Images
                                          /\ Answer.item \notin Given
                                          /\ Items(Tail(results)) = Items(results) \ {Answer.item}
           /\ Answer.type # "ItemDone" => serving = Idle /\ Tail(results) = <<>> /\ Underway = {}
           /\ \A n \in DOMAIN Tail(results) :
                  /\ Tail(results)[n].run = runs
                  /\ Tail(results)[n].type # "ItemDone" => n = Len(Tail(results)) /\ serving = Idle
<1> DEFINE rest == Tail(results)
<1>1. results \in Seq(Answers) /\ ItemsOnce(results) /\ PhaseInv /\ OnceInv
  BY DEF AppInv, PipeTypes, OnceInv
<1>2. mail = <<>> /\ Requests = {}
  BY <1>1 DEF PhaseInv, Requests
<1>3. /\ Answer \in Answers /\ rest \in Seq(Answers) /\ ItemsOnce(rest)
      /\ Answer.type = "ItemDone" => Answer.item \in Items(results) /\ Items(rest) = Items(results) \ {Answer.item}
      /\ Answer.type # "ItemDone" => Items(rest) = Items(results)
  BY <1>1, ReadHead DEF Answer
<1>4. /\ Len(results) \in Nat \ {0} /\ DOMAIN results = 1 .. Len(results) /\ Answer = results[1]
      /\ Len(rest) = Len(results) - 1 /\ \A n \in 1 .. Len(rest) : rest[n] = results[n + 1]
  BY <1>1, HeadTailProperties, LenProperties, EmptySeq DEF Answer
<1>5. Answer.item \in Images
  BY <1>3 DEF Answers
<1> HIDE DEF rest
<1>6. ASSUME Answer.type = "ItemDone" PROVE Answer.item \notin Given
  BY <1>1, <1>2, <1>3, <1>6 DEF OnceInv, Given
<1>7. ASSUME Answer.type # "ItemDone" PROVE serving = Idle /\ rest = <<>> /\ Underway = {}
  <2>1. 1 \in DOMAIN results
    BY <1>4
  <2>2. Len(results) = 1 /\ serving = Idle
    BY <1>1, <1>4, <1>7, <2>1 DEF PhaseInv
  <2>3. rest = <<>>
    BY <1>3, <1>4, <2>2, EmptySeq
  <2>4. Items(results) = {}
    BY <1>3, <1>7, <2>3, NoItems
  <2> QED BY <1>2, <2>2, <2>3, <2>4 DEF Underway, Given, Streamed, Idle
<1>8. ASSUME NEW n \in DOMAIN rest
      PROVE  rest[n].run = runs /\ (rest[n].type # "ItemDone" => n = Len(rest) /\ serving = Idle)
  <2>1. n \in 1 .. Len(rest) /\ n + 1 \in DOMAIN results /\ rest[n] = results[n + 1]
    BY <1>3, <1>4, LenProperties
  <2> QED BY <1>1, <1>4, <2>1 DEF PhaseInv
<1> QED BY <1>2, <1>3, <1>5, <1>6, <1>7, <1>8 DEF rest

\* What Settle does: image i gives back what it held, and of those that wait some are
\* let in; of these, the ones that are there begin.
Settled(i, atRest, starting) ==
    /\ starting = Range(ctrl.waiting) \cap ctrl'.held \cap (present \ gone)
    /\ ctrl.held \ {i} \subseteq ctrl'.held /\ ctrl'.held \subseteq (ctrl.held \ {i}) \cup Range(ctrl.waiting)
    /\ Range(ctrl'.waiting) = Range(ctrl.waiting) \ ctrl'.held
    /\ Sound(ctrl') /\ window' \in {window, NoRun} /\ (window' = NoRun => ctrl' = EmptyController)
    /\ status' \in [Images -> Statuses]
    /\ \A j \in Images : status'[j] = IF j \in starting THEN "processing" ELSE atRest[j]
    /\ tracked' \subseteq Images
    /\ IF Open THEN /\ adrift' = adrift
                    /\ \E told \in Seq(Images) :
                           /\ Range(told) = starting /\ Distinct(told)
                           /\ feed' = [feed EXCEPT ![window] = @ \o told]
       ELSE adrift' = adrift \cup starting /\ feed' = feed

\* That is what it does.
LEMMA SettleSettles ==
    ASSUME AppInv, NEW i \in Images, NEW left \in SUBSET Images, NEW atRest \in [Images -> Statuses],
           Settle(i, left, atRest)
    PROVE  \E starting : Settled(i, atRest, starting)
<1>1. /\ Sound(ctrl) /\ window \in 0 .. MaxRuns /\ (window = NoRun => ctrl = EmptyController)
      /\ feed \in [Runs -> Seq(Images)] /\ present \subseteq Images
  BY DEF AppInv, ProcTypes, PipeTypes, ImageTypes
<1>2. CASE window = NoRun
  <2>1. /\ status' = atRest /\ tracked' = left /\ ctrl' = ctrl /\ window' = window /\ feed' = feed /\ adrift' = adrift
    BY <1>2 DEF Settle
  <2>2. ctrl.held = {} /\ Range(ctrl.waiting) = {}
    BY <1>1, <1>2, EmptySeq DEF EmptyController, Range
  <2>3. ~Open
    BY <1>2 DEF Open
  <2>4. Settled(i, atRest, {})
    BY <1>1, <1>2, <2>1, <2>2, <2>3 DEF Settled
  <2> QED BY <2>4
<1>3. CASE window # NoRun
  <2> DEFINE freed    == Released(ctrl, i)
             dead     == window \in over
             after    == AdmitLoop(freed, IF dead THEN present \ gone ELSE {})
             starting == Range(freed.waiting) \cap after.held \cap (present \ gone)
             told     == IF dead THEN <<>> ELSE Without(freed.waiting, Images \ starting)
  <2>1. /\ status' = [j \in Images |-> IF j \in starting THEN "processing" ELSE atRest[j]]
        /\ feed' = [feed EXCEPT ![window] = @ \o told]
        /\ tracked' = IF left = {} THEN {} ELSE left \cup Range(told)
        /\ adrift' = IF dead THEN adrift \cup starting ELSE adrift
        /\ IF IsComplete(after) THEN ctrl' = EmptyController /\ window' = NoRun
           ELSE ctrl' = after /\ window' = window
    BY <1>3 DEF Settle, ReleaseAndAdmit, LetGo
  <2>2. Sound(freed)
    BY <1>1, ReleasedIsSound
  <2>3. freed.waiting = ctrl.waiting /\ freed.held = ctrl.held \ {i}
    <3>1. CASE i \notin ctrl.held
      BY <3>1 DEF Released
    <3>2. CASE i \in ctrl.held
      BY <1>1, <3>2 DEF Released, Sound, Controllers
    <3> QED BY <3>1, <3>2
  <2> HIDE DEF freed
  <2>4. after \in FurtherFrom(freed)
    BY <2>2, LoopLetsIn
  <2> HIDE DEF after
  <2>5. /\ Sound(after) /\ ctrl.held \ {i} \subseteq after.held
        /\ after.held \ (ctrl.held \ {i}) \subseteq Range(ctrl.waiting)
        /\ Range(after.waiting) = Range(ctrl.waiting) \ after.held
    BY <2>3, <2>4 DEF FurtherFrom
  <2>6. starting = Range(ctrl.waiting) \cap after.held \cap (present \ gone) /\ starting \subseteq Images
    BY <1>1, <2>3
  <2> HIDE DEF starting
  <2>7. ctrl'.held = after.held /\ Range(ctrl'.waiting) = Range(after.waiting) /\ Sound(ctrl')
        /\ window' \in {window, NoRun} /\ (window' = NoRun => ctrl' = EmptyController)
    <3>1. CASE IsComplete(after)
      <4>1. after.waiting = <<>> /\ after.held = {} /\ ctrl' = EmptyController /\ window' = NoRun
        BY <3>1, <2>1 DEF IsComplete
      <4>2. EmptyController.waiting = <<>> /\ EmptyController.held = {}
        BY DEF EmptyController
      <4> QED BY <4>1, <4>2, EmptyIsSound
    <3>2. CASE ~IsComplete(after)
      BY <3>2, <1>3, <2>1, <2>5
    <3> QED BY <3>1, <3>2
  <2>8. /\ status' \in [Images -> Statuses]
        /\ \A j \in Images : status'[j] = IF j \in starting THEN "processing" ELSE atRest[j]
    BY <2>1 DEF Statuses
  <2>9. CASE dead
    <3>1. told = <<>> /\ ~Open
      BY <2>9 DEF Open
    <3>2. window \in Runs /\ feed[window] \in Seq(Images)
      BY <1>1, <1>3, BatchAppAssumption DEF Runs, NoRun
    <3>3. feed[window] \o <<>> = feed[window]
      BY <3>2, ConcatEmptySeq
    <3>4. feed' = feed
      BY <1>1, <2>1, <3>1, <3>2, <3>3
    <3>5. tracked' \subseteq Images
      BY <2>1, <3>1, EmptySeq DEF Range
    <3>6. adrift' = adrift \cup starting
      BY <2>1, <2>9
    <3> HIDE DEF told, dead
    <3>7. Settled(i, atRest, starting)
      BY <2>5, <2>6, <2>7, <2>8, <3>1, <3>4, <3>5, <3>6 DEF Settled
    <3> QED BY <3>7
  <2>10. CASE ~dead
    <3>1. told = Without(ctrl.waiting, Images \ starting) /\ Open /\ adrift' = adrift
      BY <2>10, <1>3, <2>1, <2>3 DEF Open
    <3>2. ctrl.waiting \in Seq(Images) /\ Distinct(ctrl.waiting) /\ Range(ctrl.waiting) \subseteq Images
      BY <1>1, RangeOfSeq DEF Sound, Placed
    <3> HIDE DEF told
    <3>3. told \in Seq(Images) /\ Range(told) = Range(ctrl.waiting) \ (Images \ starting) /\ Distinct(told)
      BY <3>1, <3>2, WithoutItems
    <3>4. Range(told) = starting
      BY <2>6, <3>2, <3>3
    <3>5. tracked' \subseteq Images
      BY <2>1, <2>6, <3>4
    <3>6. feed' = [feed EXCEPT ![window] = @ \o told]
      BY <2>1
    <3> HIDE DEF dead
    <3>7. Settled(i, atRest, starting)
      BY <2>5, <2>6, <2>7, <2>8, <3>1, <3>3, <3>4, <3>5, <3>6 DEF Settled
    <3> QED BY <3>7
  <2> QED BY <2>9, <2>10
<1> QED BY <1>2, <1>3

\* An answer for image i is read and its run settled: whatever the handler made of the
\* image, the others are as they were, but for those that begin.
LEMMA AfterAnswer ==
    ASSUME AppInv, results # <<>>, Answer.type = "ItemDone", Read, NEW atRest, NEW starting,
           Settled(Answer.item, atRest, starting), ImageTypes',
           Answer.item \in present => atRest[Answer.item] # "processing",
           \A j \in Images \ {Answer.item} : atRest[j] = status[j] /\ doc'[j] = doc[j] /\ job'[j] = job[j]
    PROVE  AppInv'
<1> DEFINE i == Answer.item
           rest == Tail(results)
<1>1. /\ results' = rest /\ present' = present /\ gone' = gone /\ cancelled' = cancelled /\ cancelAll' = cancelAll
      /\ mail' = mail /\ serving' = serving /\ over' = over /\ runs' = runs
  BY DEF Read, bridgeVars
<1>2. /\ mail = <<>> /\ Requests = {} /\ rest \in Seq(Answers) /\ ItemsOnce(rest)
      /\ i \in Items(results) /\ i \in Images /\ i \notin Given /\ Items(rest) = Items(results) \ {i}
      /\ \A n \in DOMAIN rest : rest[n].run = runs /\ (rest[n].type # "ItemDone" => n = Len(rest) /\ serving = Idle)
  BY ReadOne
<1> HIDE DEF i, rest
<1>3. /\ starting = Range(ctrl.waiting) \cap ctrl'.held \cap (present \ gone)
      /\ ctrl.held \ {i} \subseteq ctrl'.held /\ ctrl'.held \subseteq (ctrl.held \ {i}) \cup Range(ctrl.waiting)
      /\ Range(ctrl'.waiting) = Range(ctrl.waiting) \ ctrl'.held
      /\ Sound(ctrl') /\ window' \in {window, NoRun} /\ (window' = NoRun => ctrl' = EmptyController)
      /\ \A j \in Images : status'[j] = IF j \in starting THEN "processing" ELSE atRest[j]
      /\ tracked' \subseteq Images
      /\ IF Open THEN /\ adrift' = adrift
                      /\ \E told \in Seq(Images) :
                             /\ Range(told) = starting /\ Distinct(told)
                             /\ feed' = [feed EXCEPT ![window] = @ \o told]
         ELSE adrift' = adrift \cup starting /\ feed' = feed
  BY DEF Settled, i
<1>4. Underway \subseteq Images /\ Range(ctrl.waiting) \subseteq Images
  BY UnderwayImages DEF AppInv
<1>5. /\ PhaseInv /\ OnceInv /\ HeldInv /\ AwaitInv /\ window \in 0 .. MaxRuns
      /\ feed \in [Runs -> Seq(Images)] /\ (window = NoRun => ctrl = EmptyController)
  BY DEF AppInv, ProcTypes, PipeTypes
<1>6. ASSUME Open PROVE serving # Idle /\ window = runs /\ runs \in Runs /\ Working
  BY <1>2, <1>5, <1>6 DEF PhaseInv, Open, Working
<1>7. /\ feed' \in [Runs -> Seq(Images)] /\ \A r \in Runs : r # runs => feed'[r] = feed[r]
      /\ ~Open => feed' = feed
      /\ Open => /\ Range(feed'[runs]) = Range(feed[runs]) \cup starting
                 /\ Distinct(feed[runs]) /\ Range(feed[runs]) \cap starting = {} => Distinct(feed'[runs])
  <2>1. CASE Open
    <3>1. PICK told \in Seq(Images) : /\ Range(told) = starting /\ Distinct(told)
                                      /\ feed' = [feed EXCEPT ![window] = @ \o told]
      BY <2>1, <1>3
    <3>2. feed[runs] \in Seq(Images) /\ window = runs /\ runs \in Runs
      BY <2>1, <1>5, <1>6
    <3> DEFINE s == feed[runs] \o told
    <3>3. /\ s \in Seq(Images) /\ Range(s) = Range(feed[runs]) \cup starting
          /\ Distinct(feed[runs]) /\ Range(feed[runs]) \cap starting = {} => Distinct(s)
      BY <3>1, <3>2, ConcatItems
    <3> HIDE DEF s
    <3>4. feed' = [feed EXCEPT ![runs] = s]
      BY <3>1, <3>2 DEF s
    <3>5. feed' \in [Runs -> Seq(Images)] /\ feed'[runs] = s /\ \A r \in Runs : r # runs => feed'[r] = feed[r]
      BY <1>5, <3>2, <3>3, <3>4
    <3> QED BY <2>1, <3>3, <3>5
  <2>2. CASE ~Open
    BY <2>2, <1>3, <1>5
  <2> QED BY <2>1, <2>2
<1>8. /\ ~Open => Streamed' = Streamed
      /\ Open => Streamed' = Streamed \cup starting /\ starting \cap Underway = {} /\ i \notin Range(ctrl.waiting)
  <2>1. CASE Open
    <3>1. starting \cap Underway = {} /\ i \notin Range(ctrl.waiting)
      BY <2>1, <1>2, <1>3, <1>5 DEF OnceInv, Underway
    <3>2. Streamed' = Streamed \cup starting
      BY <2>1, <1>1, <1>6, <1>7 DEF Streamed
    <3> QED BY <2>1, <3>1, <3>2
  <2>2. CASE ~Open
    BY <2>2, <1>1, <1>7 DEF Streamed
  <2> QED BY <2>1, <2>2
<1> DEFINE more == IF Open THEN starting ELSE {}
<1>9. /\ Given' = Given \cup more /\ Underway' = (Underway \ {i}) \cup more
      /\ Items(results)' = Items(results) \ {i} /\ ItemsOnce(results)' /\ Cached' = Cached
      /\ more \cap Underway = {} /\ more \subseteq starting
  <2>1. Requests' = {} /\ Cached' = Cached
    BY <1>1, <1>2 DEF Requests, Cached
  <2>2. Given' = Given \cup more
    BY <1>1, <1>2, <1>8, <2>1 DEF Given
  <2>3. Items(results)' = Items(results) \ {i} /\ ItemsOnce(results)'
    BY <1>1, <1>2
  <2>4. more \cap Underway = {} /\ more \subseteq starting
    BY <1>8
  <2>5. Underway' = (Underway \ {i}) \cup more
    <3> HIDE DEF more
    <3> QED BY <1>2, <2>2, <2>3 DEF Underway
  <2> QED BY <2>1, <2>2, <2>3, <2>4, <2>5
<1>10. (Open' => Open /\ window' = window) /\ (~Open /\ starting # {} => window \in over)
  <2>1. window = NoRun => Range(ctrl.waiting) = {}
    BY <1>5, EmptySeq DEF EmptyController, Range
  <2> QED BY <2>1, <1>1, <1>3 DEF Open
<1>11. ProcTypes'
  <2>1. window' \in 0 .. MaxRuns
    BY <1>3, <1>5, BatchAppAssumption DEF NoRun
  <2> QED BY <1>1, <1>3, <2>1 DEF AppInv, ProcTypes
<1>12. PipeTypes'
  BY <1>1, <1>2, <1>7 DEF AppInv, PipeTypes
<1>13. PhaseInv'
  <2>1. Working' <=> Working
    BY <1>1 DEF Working
  <2>2. \A r \in Runs : feed'[r] # <<>> => serving' # Idle /\ r = runs'
    BY <1>1, <1>5, <1>6, <1>7 DEF PhaseInv
  <2>3. window' # NoRun => window' \in over' \/ (window' = runs' /\ Working')
    BY <1>1, <1>3, <1>5, <2>1 DEF PhaseInv
  <2> QED BY <1>1, <1>2, <1>5, <2>1, <2>2, <2>3 DEF PhaseInv
<1>14. OnceInv'
  <2>1. serving' # Idle => Distinct(feed'[runs'])
    <3>1. ASSUME serving # Idle PROVE Distinct(feed[runs]) /\ Streamed = Range(feed[runs])
      BY <1>5, <3>1 DEF OnceInv, Streamed
    <3>2. Open => Streamed \cap starting = {}
      BY <1>8 DEF Underway, Given
    <3> QED BY <1>1, <1>7, <3>1, <3>2
  <2>2. serving'.todo \cap Streamed' = {} /\ Items(results)' \cap (Streamed' \cup serving'.todo) = {}
    BY <1>1, <1>5, <1>8, <1>9 DEF OnceInv, Underway, Given
  <2>3. Open' => Range(ctrl'.waiting) \cap Underway' = {}
    <3> SUFFICES ASSUME Open' PROVE Range(ctrl'.waiting) \cap Underway' = {}
      OBVIOUS
    <3>1. Open /\ Range(ctrl.waiting) \cap Underway = {}
      BY <1>5, <1>10 DEF OnceInv
    <3>2. starting \subseteq ctrl'.held
      BY <1>3
    <3> QED BY <1>3, <1>9, <3>1, <3>2
  <2> QED BY <1>9, <2>1, <2>2, <2>3 DEF OnceInv
<1>15. HeldInv'
  <2> SUFFICES ASSUME Open'
               PROVE  Given' \ Cached' \subseteq ctrl'.held /\ ctrl'.held \subseteq Underway' \cup adrift' \cup gone'
    BY DEF HeldInv
  <2>1. /\ Open /\ Given \ Cached \subseteq ctrl.held /\ ctrl.held \subseteq Underway \cup adrift \cup gone
        /\ adrift' = adrift /\ more = starting
    BY <1>3, <1>5, <1>10 DEF HeldInv
  <2>2. Given' \ Cached' \subseteq ctrl'.held
    BY <1>2, <1>3, <1>9, <2>1
  <2>3. ASSUME NEW x \in ctrl'.held PROVE x \in Underway' \cup adrift' \cup gone'
    <3>1. CASE x \in ctrl.held \ {i}
      BY <3>1, <1>1, <1>9, <2>1
    <3>2. CASE x \in Range(ctrl.waiting)
      <4>1. x \notin adrift => x \in present
        BY <3>2, <1>5, <2>1 DEF AwaitInv
      <4> QED BY <3>2, <4>1, <2>3, <1>1, <1>3, <1>9, <2>1
    <3> QED BY <1>3, <2>3, <3>1, <3>2
  <2> QED BY <2>2, <2>3
<1>16. \A j \in Images \ {i} : (IsCurrent(j)' <=> IsCurrent(j)) /\ atRest[j] = status[j]
  BY DEF IsCurrent, i
<1>17. AwaitInv'
  <2>1. ASSUME NEW j \in Underway', j \notin adrift' PROVE Awaited(j)'
    <3>1. CASE j \in Underway \ {i}
      <4>1. j \notin adrift
        BY <1>3, <2>1
      <4>2. Awaited(j) /\ j \in Images
        BY <3>1, <4>1, <1>4, <1>5 DEF AwaitInv
      <4> QED BY <3>1, <4>2, <1>1, <1>3, <1>16 DEF Awaited
    <3>2. CASE j \in more
      <4>1. Open /\ j \in starting /\ j \in Range(ctrl.waiting) /\ j # i /\ j \in Images /\ j \notin adrift
        BY <3>2, <2>1, <1>3, <1>4, <1>8
      <4>2. j \in present /\ IsCurrent(j)
        BY <4>1, <1>5 DEF AwaitInv
      <4> QED BY <4>1, <4>2, <1>1, <1>3, <1>16 DEF Awaited
    <3> QED BY <2>1, <3>1, <3>2, <1>9
  <2>2. ASSUME NEW j \in Underway', j \in adrift', Awaited(j)' PROVE window' \in over' /\ j \in ctrl'.held
    <3>1. ASSUME window \in over, j \in ctrl'.held PROVE window' \in over'
      <4>1. EmptyController.held = {}
        BY DEF EmptyController
      <4> QED BY <3>1, <4>1, <1>1, <1>3
    <3>2. CASE j \in Underway \ {i}
      <4>1. j \in Images /\ j \in present /\ IsCurrent(j) /\ status'[j] = "processing"
        BY <3>2, <2>2, <1>1, <1>4, <1>16 DEF Awaited
      <4>2. CASE j \in starting
        <5>1. ~Open
          BY <3>2, <4>2, <1>8
        <5> QED BY <4>2, <5>1, <3>1, <1>3, <1>10
      <4>3. CASE j \notin starting
        <5>1. status[j] = "processing" /\ j \in adrift
          BY <3>2, <4>1, <4>3, <2>2, <1>3, <1>16
        <5>2. window \in over /\ j \in ctrl.held
          BY <3>2, <4>1, <5>1, <1>5 DEF AwaitInv, Awaited
        <5> QED BY <3>1, <3>2, <5>2, <1>3
      <4> QED BY <4>2, <4>3
    <3>3. CASE j \in more
      <4>1. Open /\ j \in Range(ctrl.waiting) /\ j # i /\ j \in Images /\ j \in adrift
        BY <3>3, <2>2, <1>3, <1>4, <1>8
      <4>2. j \in present /\ IsCurrent(j)
        BY <4>1, <2>2, <1>1, <1>16 DEF Awaited
      <4> QED BY <4>1, <4>2, <1>5 DEF AwaitInv
    <3> QED BY <2>2, <3>2, <3>3, <1>9
  <2>3. ASSUME Open', NEW j \in Range(ctrl'.waiting)
        PROVE  status'[j] # "processing" /\ (j \notin adrift' <=> j \in present' /\ IsCurrent(j)')
    <3>1. Open /\ adrift' = adrift
      BY <2>3, <1>3, <1>10
    <3>2. j \in Range(ctrl.waiting) /\ j \in Images /\ j # i /\ j \notin starting
      BY <2>3, <3>1, <1>3, <1>4, <1>8
    <3>3. status[j] # "processing" /\ (j \notin adrift <=> j \in present /\ IsCurrent(j))
      BY <3>1, <3>2, <1>5 DEF AwaitInv
    <3> QED BY <3>1, <3>2, <3>3, <1>1, <1>3, <1>16
  <2> QED BY <2>1, <2>2, <2>3 DEF AwaitInv
<1> QED BY <1>11, <1>12, <1>13, <1>14, <1>15, <1>17 DEF AppInv

\* Taking jobs away leaves jobs, of versions no later.
LEMMA JobsTaken ==
    ASSUME ImageTypes, NEW S
    PROVE  /\ WithoutJobs(S) \in [Images -> Jobs]
           /\ \A i \in Images : i \notin S => WithoutJobs(S)[i] = job[i]
           /\ \A i \in Images, t \in Timelines : doc[i].version <= t.version => WithoutJobs(S)[i].version <= t.version
           /\ \A i \in S, t \in Timelines : i \in Images => WithoutJobs(S)[i].version <= t.version
<1>1. NoJob \in Jobs /\ NoJob.version = 0
  BY BatchAppAssumption DEF NoJob, Jobs, NoRun
<1>2. /\ \A i \in Images : job[i] \in Jobs /\ job[i].version \in Nat /\ doc[i].version \in Nat
                           /\ job[i].version <= doc[i].version
      /\ \A t \in Timelines : t.version \in Nat
  BY DEF ImageTypes, Jobs, Timelines
<1>3. \A i \in Images : WithoutJobs(S)[i] = IF i \in S THEN NoJob ELSE job[i]
  BY DEF WithoutJobs
<1>4. WithoutJobs(S) \in [Images -> Jobs]
  BY <1>1, <1>2 DEF WithoutJobs
<1> QED BY <1>1, <1>2, <1>3, <1>4

\* on_batch_item_done for a cancelled image that the processor or the list still knows.
LEMMA CancelledKnownKeeps ==
    ASSUME AppInv, ItemCancelled, Answer.item \in tracked \cup present
    PROVE  AppInv'
<1> DEFINE i   == Answer.item
           hit == IF i \in Processing THEN {i} ELSE {}
<1>1. /\ results # <<>> /\ Answer.type = "ItemDone" /\ Read /\ doc' = doc
      /\ Settle(i, tracked \ {i}, Abandoned(hit)) /\ job' = WithoutJobs(hit)
  BY DEF ItemCancelled, HasAnswer
<1>2. i \in Images /\ tracked \ {i} \in SUBSET Images /\ ImageTypes
  BY <1>1, ReadOne DEF AppInv, ProcTypes
<1>3. /\ Abandoned(hit) \in [Images -> Statuses]
      /\ i \in present => Abandoned(hit)[i] # "processing"
      /\ \A j \in Images \ {i} : Abandoned(hit)[j] = status[j]
  <2>1. \A j \in Images : AtRest(j) \in {"done", "pending"} /\ status[j] \in Statuses
    BY <1>2 DEF AtRest, ImageTypes
  <2>2. i \in present /\ i \notin Processing => status[i] # "processing"
    BY DEF Processing
  <2>3. hit \subseteq {i} /\ (i \in Processing => hit = {i}) /\ (i \notin Processing => hit = {})
    OBVIOUS
  <2> HIDE DEF i, hit
  <2>4. \A j \in Images : Abandoned(hit)[j] = IF j \in hit THEN AtRest(j) ELSE status[j]
    BY DEF Abandoned
  <2>5. Abandoned(hit) \in [Images -> Statuses]
    BY <2>1 DEF Abandoned, Statuses
  <2> QED BY <1>2, <2>1, <2>2, <2>3, <2>4, <2>5
<1>4. \A j \in Images \ {i} : j \notin hit
  OBVIOUS
<1> HIDE DEF hit
<1>5. /\ job' \in [Images -> Jobs] /\ \A j \in Images \ {i} : job'[j] = job[j]
      /\ \A j \in Images : job'[j].version <= doc'[j].version
  <2>1. \A j \in Images : doc[j] \in Timelines /\ doc[j].version <= doc[j].version
    BY <1>2 DEF ImageTypes, Timelines
  <2> QED BY <1>1, <1>2, <1>4, <2>1, JobsTaken
<1> DEFINE atRest == Abandoned(hit)
<1> HIDE DEF atRest, i
<1>6. PICK starting : Settled(i, atRest, starting)
  BY <1>1, <1>2, <1>3, SettleSettles DEF atRest
<1>7. ImageTypes'
  BY <1>1, <1>2, <1>5, <1>6 DEF ImageTypes, Settled, Read
<1>8. /\ Settled(Answer.item, atRest, starting) /\ (Answer.item \in present => atRest[Answer.item] # "processing")
      /\ \A j \in Images \ {Answer.item} : atRest[j] = status[j] /\ doc'[j] = doc[j] /\ job'[j] = job[j]
  BY <1>1, <1>3, <1>5, <1>6 DEF atRest, i
<1> QED BY <1>1, <1>7, <1>8, AfterAnswer

\* A result is a state of its image: a new one, or in the place of the shown one.
LEMMA FinishedIsATimeline ==
    ASSUME ImageTypes, NEW i \in Images, NEW r \in Runs
    PROVE  Finished(i, r) \in Timelines
<1>1. doc[i] \in Timelines /\ r \in 0 .. MaxRuns
  BY DEF ImageTypes, Runs
<1>2. TL!Shown(doc[i]) \in Pages
  BY <1>1, ShownIsAPage
<1>3. [kind |-> "CutOut", result |-> r] \in Pages /\ [TL!Shown(doc[i]) EXCEPT !.result = r] \in Pages
  BY <1>1, <1>2 DEF Pages
<1>4. CASE job[i].step = "cutout"
  BY <1>1, <1>3, <1>4, PushedIsATimeline DEF Finished
<1>5. CASE job[i].step # "cutout"
  <2> DEFINE page == [TL!Shown(doc[i]) EXCEPT !.result = r]
  <2>1. page \in Pages /\ Finished(i, r) = TL!Amended(doc[i], page)
    BY <1>3, <1>5 DEF Finished
  <2> HIDE DEF page
  <2> QED BY <1>1, <2>1, ShownIsAPage
<1> QED BY <1>4, <1>5

\* apply_tier_result, finish_job, admission_release_and_admit.
LEMMA LandedKeeps ==
    ASSUME AppInv, ItemLanded
    PROVE  AppInv'
<1> DEFINE i      == Answer.item
           ok     == Answer.res = "ok"
           atRest == [status EXCEPT ![i] = IF ok THEN "done" ELSE "error"]
<1>1. /\ results # <<>> /\ Answer.type = "ItemDone" /\ Read
      /\ doc' = IF ok THEN [doc EXCEPT ![i] = Finished(i, Answer.run)] ELSE doc
      /\ job' = WithoutJobs({i}) /\ Settle(i, tracked \ {i}, atRest)
  BY DEF ItemLanded, HasAnswer
<1>2. i \in Images /\ Answer.run \in Runs /\ tracked \ {i} \in SUBSET Images /\ ImageTypes
  BY <1>1, ReadOne DEF AppInv, ProcTypes, Answers
<1>3. Finished(i, Answer.run) \in Timelines
  BY <1>2, FinishedIsATimeline
<1>4. doc' \in [Images -> Timelines] /\ \A j \in Images \ {i} : doc'[j] = doc[j]
  BY <1>1, <1>2, <1>3 DEF ImageTypes
<1>5. /\ job' \in [Images -> Jobs] /\ \A j \in Images \ {i} : job'[j] = job[j]
      /\ \A j \in Images : job'[j].version <= doc'[j].version
  <2>1. \A j \in Images : doc[j] \in Timelines /\ doc[j].version <= doc[j].version
    BY <1>2 DEF ImageTypes, Timelines
  <2>2. /\ WithoutJobs({i}) \in [Images -> Jobs] /\ \A j \in Images : j \notin {i} => WithoutJobs({i})[j] = job[j]
        /\ \A j \in Images, t \in Timelines : doc[j].version <= t.version => WithoutJobs({i})[j].version <= t.version
        /\ \A j \in {i}, t \in Timelines : j \in Images => WithoutJobs({i})[j].version <= t.version
    BY <1>2, JobsTaken
  <2>3. \A j \in Images : job'[j].version <= doc'[j].version
    <3> SUFFICES ASSUME NEW j \in Images PROVE job'[j].version <= doc'[j].version
      OBVIOUS
    <3> HIDE DEF i
    <3>1. CASE j = i
      BY <3>1, <1>1, <1>4, <2>2
    <3>2. CASE j # i
      BY <3>2, <1>1, <1>4, <2>1, <2>2
    <3> QED BY <3>1, <3>2
  <2> QED BY <1>1, <2>2, <2>3
<1>6. /\ atRest \in [Images -> Statuses] /\ atRest[i] # "processing"
      /\ \A j \in Images \ {i} : atRest[j] = status[j]
  BY <1>2 DEF ImageTypes, Statuses
<1> HIDE DEF atRest, i
<1>7. PICK starting : Settled(i, atRest, starting)
  BY <1>1, <1>2, <1>6, SettleSettles
<1>8. ImageTypes'
  BY <1>1, <1>2, <1>4, <1>5, <1>7 DEF ImageTypes, Settled, Read
<1>9. /\ Settled(Answer.item, atRest, starting) /\ (Answer.item \in present => atRest[Answer.item] # "processing")
      /\ \A j \in Images \ {Answer.item} : atRest[j] = status[j] /\ doc'[j] = doc[j] /\ job'[j] = job[j]
  BY <1>4, <1>5, <1>6, <1>7 DEF i
<1> QED BY <1>1, <1>8, <1>9, AfterAnswer

\* An answer that nobody waits for: its image went adrift.
LEMMA AnswerDropped ==
    ASSUME AppInv, results # <<>>, Answer.type = "ItemDone", Read, ~Awaited(Answer.item),
           UNCHANGED <<status, doc, job, ctrl, window, feed, adrift>>, tracked' \subseteq Images
    PROVE  AppInv'
<1> DEFINE i == Answer.item
           rest == Tail(results)
<1>1. /\ results' = rest /\ present' = present /\ gone' = gone /\ cancelled' = cancelled /\ cancelAll' = cancelAll
      /\ mail' = mail /\ serving' = serving /\ over' = over /\ runs' = runs
      /\ status' = status /\ doc' = doc /\ job' = job /\ ctrl' = ctrl /\ window' = window /\ feed' = feed
      /\ adrift' = adrift
  BY DEF Read, bridgeVars
<1>2. /\ mail = <<>> /\ Requests = {} /\ rest \in Seq(Answers) /\ ItemsOnce(rest)
      /\ i \in Items(results) /\ i \notin Given /\ Items(rest) = Items(results) \ {i}
      /\ \A n \in DOMAIN rest : rest[n].run = runs /\ (rest[n].type # "ItemDone" => n = Len(rest) /\ serving = Idle)
  BY ReadOne
<1> HIDE DEF i, rest
<1>3. i \in adrift
  BY <1>2 DEF AppInv, AwaitInv, Underway, i
<1>4. /\ ImageTypes' /\ ProcTypes' /\ PipeTypes'
  BY <1>1, <1>2 DEF AppInv, ImageTypes, ProcTypes, PipeTypes
<1>5. PhaseInv'
  BY <1>1, <1>2 DEF AppInv, PhaseInv, Working
<1>6. /\ Streamed' = Streamed /\ Given' = Given /\ Cached' = Cached /\ (Open' <=> Open)
      /\ Items(results)' = Items(results) \ {i} /\ ItemsOnce(results)' /\ Underway' = Underway \ {i}
  <2>1. /\ Streamed' = Streamed /\ Given' = Given /\ Cached' = Cached /\ (Open' <=> Open)
    BY <1>1 DEF Streamed, Given, Requests, Cached, Open
  <2> QED BY <1>1, <1>2, <2>1 DEF Underway
<1>7. \A j : (Awaited(j)' <=> Awaited(j)) /\ (IsCurrent(j)' <=> IsCurrent(j))
  BY <1>1 DEF Awaited, IsCurrent
<1>8. OnceInv' /\ HeldInv' /\ AwaitInv'
  <2>1. OnceInv'
    BY <1>1, <1>6 DEF AppInv, OnceInv
  <2>2. HeldInv'
    BY <1>1, <1>3, <1>6 DEF AppInv, HeldInv
  <2>3. AwaitInv'
    BY <1>1, <1>6, <1>7 DEF AppInv, AwaitInv
  <2> QED BY <2>1, <2>2, <2>3
<1> QED BY <1>4, <1>5, <1>8 DEF AppInv

\* on_batch_item_done for an image that neither knows.
LEMMA CancelledUnknownKeeps ==
    ASSUME AppInv, ItemCancelled, Answer.item \notin tracked \cup present
    PROVE  AppInv'
<1>1. /\ results # <<>> /\ Answer.type = "ItemDone" /\ Read /\ doc' = doc /\ tracked' = tracked
      /\ UNCHANGED <<status, doc, job, ctrl, window, feed, adrift>>
  BY DEF ItemCancelled, HasAnswer
<1>2. ~Awaited(Answer.item) /\ tracked' \subseteq Images
  BY <1>1 DEF Awaited, AppInv, ProcTypes
<1> QED BY <1>1, <1>2, AnswerDropped

\* An answer that comes too late.
LEMMA DroppedKeeps ==
    ASSUME AppInv, ItemDropped
    PROVE  AppInv'
<1>1. /\ results # <<>> /\ Answer.type = "ItemDone" /\ Read /\ ~Awaited(Answer.item)
      /\ tracked' = tracked \ {Answer.item} /\ UNCHANGED <<status, doc, job, ctrl, window, feed, adrift>>
  BY DEF ItemDropped, HasAnswer
<1>2. tracked' \subseteq Images
  BY <1>1 DEF AppInv, ProcTypes
<1> QED BY <1>1, <1>2, AnswerDropped

\* The end of a batch is read when nothing of it is under way, whether its controller
\* stays or goes.
LEMMA EndKeeps ==
    ASSUME AppInv, results # <<>>, Answer.type # "ItemDone", Read, tracked' = {},
           UNCHANGED <<status, doc, job, feed, adrift>>,
           UNCHANGED <<ctrl, window>> \/ (ctrl' = EmptyController /\ window' = NoRun)
    PROVE  AppInv'
<1>1. /\ results' = Tail(results) /\ present' = present /\ gone' = gone
      /\ cancelled' = cancelled /\ cancelAll' = cancelAll
      /\ mail' = mail /\ serving' = serving /\ over' = over /\ runs' = runs
      /\ status' = status /\ doc' = doc /\ job' = job /\ feed' = feed /\ adrift' = adrift
  BY DEF Read, bridgeVars
<1>2. mail = <<>> /\ Requests = {} /\ serving = Idle /\ Tail(results) = <<>>
  BY ReadOne
<1>3. ~Working /\ ~Working' /\ window \in over \cup {NoRun}
  BY <1>1, <1>2 DEF Working, AppInv, PhaseInv
<1>4. ~Open'
  BY <1>1, <1>3 DEF Open
<1>5. ImageTypes'
  BY <1>1 DEF AppInv, ImageTypes
<1>6. ProcTypes'
  <2>1. NoRun \in 0 .. MaxRuns /\ Sound(EmptyController)
    BY EmptyIsSound, BatchAppAssumption DEF NoRun
  <2> QED BY <1>1, <2>1 DEF AppInv, ProcTypes
<1>7. PipeTypes'
  BY <1>1, <1>2, EmptySeq DEF AppInv, PipeTypes
<1>8. PhaseInv'
  <2>1. DOMAIN results' = {}
    BY <1>1, <1>2, EmptySeq
  <2>2. window' \in over' \cup {NoRun}
    BY <1>1, <1>3
  <2> QED BY <1>1, <1>2, <1>3, <2>1, <2>2 DEF AppInv, PhaseInv
<1>9. Requests' = {} /\ Streamed' = {} /\ serving'.todo = {} /\ Items(results)' = {} /\ ItemsOnce(results)'
  BY <1>1, <1>2, NoItems DEF Requests, Streamed, Idle
<1>10. OnceInv' /\ HeldInv' /\ AwaitInv'
  BY <1>1, <1>2, <1>4, <1>9 DEF OnceInv, HeldInv, AwaitInv, Underway, Given
<1> QED BY <1>5, <1>6, <1>7, <1>8, <1>10 DEF AppInv

\* on_batch_complete and on_cancelled.
LEMMA BatchEndKeeps ==
    ASSUME AppInv, BatchComplete \/ BatchCancelled
    PROVE  AppInv'
BY EndKeeps DEF BatchComplete, BatchCancelled, HasAnswer

----------------------------------------------------------------------------
(* The invariant                                                           *)

\* Every step of the window and of the bridge keeps it, if the user waits for a batch to
\* end before the next.
LEMMA NextKeeps ==
    ASSUME AppInv, ~Impatient, [Next]_vars
    PROVE  AppInv'
<1>1. CASE Poll
  BY <1>1, CancelledKnownKeeps, CancelledUnknownKeeps, DroppedKeeps, LandedKeeps, BatchEndKeeps DEF Poll
<1>2. CASE Serve
  BY <1>2, TakeBatchKeeps, TakeStreamedKeeps, AnswerItemKeeps, CompleteKeeps, AbortKeeps DEF Serve
<1>3. CASE GiveUp
  BY <1>3, GiveUpKeeps
<1>4. CASE User
  BY <1>4, ProcessKeeps, CancelAllKeeps, CancelSelectedKeeps, RerunKeeps, EditKeeps, UndoOrRedoKeeps,
     RemoveImageKeeps, VanishKeeps DEF User
<1>5. CASE UNCHANGED vars
  BY <1>5, RegistryKeeps DEF vars, imageVars, procVars, bridgeVars, ghostVars, Threads, AppInv, ProcTypes
<1> QED BY <1>1, <1>2, <1>3, <1>4, <1>5 DEF Next

\* The batch of a controller that is still there is the one under way.
LEMMA OpenIsUnderway ==
    ASSUME AppInv, Open
    PROVE  SentFor(window) = Given /\ CachedFor(window) = Cached /\ AnsweredFor(window) = Items(results)
<1>1. window = runs /\ Working /\ runs \in Runs /\ runs # NoRun
  BY DEF AppInv, PhaseInv, Open, Runs, NoRun
<1>2. AnsweredFor(runs) = Items(results)
  <2>1. \A n \in DOMAIN results : results[n].run = runs
    BY DEF AppInv, PhaseInv
  <2> QED BY <2>1 DEF AnsweredFor, Items, Answered, Range
<1>3. CASE mail # <<>>
  <2>1. /\ serving = Idle /\ Len(mail) = 1 /\ mail[1].run = runs /\ mail \in Seq(Batches)
        /\ \A r \in Runs : feed[r] = <<>>
    BY <1>3 DEF AppInv, PhaseInv, PipeTypes
  <2>2. DOMAIN mail = {1}
    BY <2>1, LenProperties
  <2>3. Mailed(runs) = {1}
    BY <2>1, <2>2 DEF Mailed
  <2>4. serving.run # runs /\ serving.todo = {} /\ serving.cached = {}
    BY <1>1, <2>1 DEF Idle
  <2>5. Range(feed[runs]) = {}
    BY <1>1, <2>1, EmptySeq DEF Range
  <2>6. SentFor(runs) = mail[1].request /\ CachedFor(runs) = mail[1].cached
    BY <2>3, <2>4, <2>5 DEF SentFor, CachedFor
  <2>7. Given = mail[1].request /\ Cached = mail[1].cached
    BY <1>3, <2>1, <2>4 DEF Given, Cached, Requests, Streamed
  <2> QED BY <1>1, <1>2, <2>6, <2>7
<1>4. CASE mail = <<>>
  <2>1. serving # Idle /\ serving.run = runs
    BY <1>1, <1>4 DEF Working, AppInv, PhaseInv
  <2>2. Mailed(runs) = {}
    BY <1>4, EmptySeq DEF Mailed
  <2>3. SentFor(runs) = Range(feed[runs]) \cup serving.todo /\ CachedFor(runs) = serving.cached
    <3>1. UNION {mail[n].request : n \in Mailed(runs)} = {} /\ UNION {mail[n].cached : n \in Mailed(runs)} = {}
      BY <2>2
    <3> DEFINE sent  == UNION {mail[n].request : n \in Mailed(runs)}
               cheap == UNION {mail[n].cached : n \in Mailed(runs)}
               todo  == IF serving.run = runs THEN serving.todo ELSE {}
               free  == IF serving.run = runs THEN serving.cached ELSE {}
    <3>2. SentFor(runs) = sent \cup Range(feed[runs]) \cup todo /\ CachedFor(runs) = cheap \cup free
      BY DEF SentFor, CachedFor
    <3>3. sent = {} /\ cheap = {} /\ todo = serving.todo /\ free = serving.cached
      BY <2>1, <3>1
    <3> HIDE DEF sent, cheap, todo, free
    <3> QED BY <3>2, <3>3
  <2>4. Given = Range(feed[runs]) \cup serving.todo /\ Cached = serving.cached
    BY <1>4, <2>1 DEF Given, Cached, Requests, Streamed
  <2> QED BY <1>1, <1>2, <2>3, <2>4
<1> QED BY <1>3, <1>4

\* So memory is accounted for.
LEMMA AppInvIsOK ==
    ASSUME AppInv
    PROVE  AppOK
<1>1. TypeOK
  <2>1. \A i \in Images : doc[i].at \in DOMAIN doc[i].states /\ Len(doc[i].states) <= Depth
    <3> SUFFICES ASSUME NEW i \in Images PROVE doc[i].at \in DOMAIN doc[i].states /\ Len(doc[i].states) <= Depth
      OBVIOUS
    <3>1. doc[i] \in Timelines
      BY DEF AppInv, ImageTypes
    <3>2. doc[i].states \in Seq(Pages) /\ doc[i].at \in 1 .. Len(doc[i].states) /\ Len(doc[i].states) <= Depth
      BY <3>1 DEF Timelines
    <3> QED BY <3>2, LenProperties
  <2>2. over \subseteq Runs
    BY BatchAppAssumption DEF AppInv, PipeTypes, Runs
  <2> QED BY <2>1, <2>2 DEF TypeOK, AppInv, ImageTypes, ProcTypes, PipeTypes, Statuses, Jobs, Batches
<1>2. InFlightIsReserved
  BY OpenIsUnderway DEF InFlightIsReserved, AppInv, HeldInv
<1>3. OnlyStraysStayReserved
  BY OpenIsUnderway DEF OnlyStraysStayReserved, Outstanding, AppInv, HeldInv, Underway
<1> QED BY <1>1, <1>2, <1>3 DEF AppOK

\* A set whose members are all one.
LEMMA AtMostOne ==
    ASSUME NEW S, \A x, y \in S : x = y
    PROVE  Cardinality(S) \in {0, 1} /\ (S = {} => Cardinality(S) = 0)
<1>1. CASE S = {}
  BY <1>1, FS_EmptySet
<1>2. CASE S # {}
  <2>1. PICK x \in S : S = {x}
    BY <1>2
  <2> QED BY <2>1, FS_Singleton
<1> QED BY <1>1, <1>2

\* And no image is with the bridge twice.
LEMMA AppInvSendsOnce ==
    ASSUME AppInv
    PROVE  SentOnce
<1> SUFFICES ASSUME NEW i \in Images PROVE PlacesOf(i) <= 1
  BY DEF SentOnce
<1> DEFINE Mail == {n \in DOMAIN mail : i \in mail[n].request}
           Log  == {n \in DOMAIN results : results[n].type = "ItemDone" /\ results[n].item = i}
           Line == {p \in Runs \X (1 .. Cardinality(Images)) : p[2] \in DOMAIN feed[p[1]] /\ feed[p[1]][p[2]] = i}
<1>1. PlacesOf(i) = Cardinality(Mail) + Cardinality(Log) + Cardinality(Line) + (IF i \in serving.todo THEN 1 ELSE 0)
  BY DEF PlacesOf
<1>2. PhaseInv /\ OnceInv /\ mail \in Seq(Batches) /\ feed \in [Runs -> Seq(Images)]
  BY DEF AppInv, PipeTypes
<1>3. (\A x, y \in Mail : x = y) /\ (mail = <<>> => Mail = {})
  <2>1. CASE mail = <<>>
    BY <2>1, EmptySeq
  <2>2. CASE mail # <<>>
    <3>1. DOMAIN mail = {1}
      BY <2>2, <1>2, LenProperties DEF PhaseInv
    <3> QED BY <2>2, <3>1
  <2> QED BY <2>1, <2>2
<1>4. (\A x, y \in Log : x = y) /\ (i \notin Items(results) => Log = {})
  <2>1. \A n \in Log : n \in Answered(results) /\ results[n].item = i
    BY DEF Answered
  <2>2. \A x, y \in Log : x = y
    BY <2>1, <1>2 DEF OnceInv, ItemsOnce
  <2>3. i \notin Items(results) => Log = {}
    BY <2>1 DEF Items
  <2> QED BY <2>2, <2>3
<1>5. (\A x, y \in Line : x = y) /\ (i \notin Streamed => Line = {})
  <2>1. ASSUME NEW p \in Line
        PROVE  serving # Idle /\ p[1] = runs /\ p[2] \in DOMAIN feed[runs] /\ feed[runs][p[2]] = i /\ p = <<runs, p[2]>>
               /\ i \in Streamed
    <3>1. p[1] \in Runs /\ p[2] \in DOMAIN feed[p[1]] /\ feed[p[1]][p[2]] = i /\ p = <<p[1], p[2]>>
      OBVIOUS
    <3>2. feed[p[1]] # <<>>
      BY <3>1, EmptySeq
    <3>3. serving # Idle /\ p[1] = runs
      BY <3>1, <3>2, <1>2 DEF PhaseInv
    <3> QED BY <3>1, <3>3 DEF Streamed, Range
  <2>2. ASSUME NEW p \in Line, NEW q \in Line PROVE p = q
    <3>1. /\ p = <<runs, p[2]>> /\ q = <<runs, q[2]>> /\ serving # Idle
          /\ p[2] \in DOMAIN feed[runs] /\ q[2] \in DOMAIN feed[runs] /\ feed[runs][p[2]] = feed[runs][q[2]]
      BY <2>1
    <3>2. p[2] = q[2]
      BY <3>1, <1>2 DEF OnceInv, Distinct
    <3> QED BY <3>1, <3>2
  <2> QED BY <2>1, <2>2
<1> HIDE DEF Mail, Log, Line
<1>6. /\ Cardinality(Mail) \in {0, 1} /\ (Mail = {} => Cardinality(Mail) = 0)
      /\ Cardinality(Log) \in {0, 1} /\ (Log = {} => Cardinality(Log) = 0)
      /\ Cardinality(Line) \in {0, 1} /\ (Line = {} => Cardinality(Line) = 0)
  BY <1>3, <1>4, <1>5, AtMostOne
<1>7. CASE mail # <<>>
  <2>1. i \notin Streamed /\ i \notin serving.todo /\ i \notin Items(results)
    BY <1>7, <1>2, NoItems DEF PhaseInv, Streamed, Idle
  <2> QED BY <1>1, <1>4, <1>5, <1>6, <2>1
<1>8. CASE mail = <<>>
  <2>1. /\ i \in Streamed => i \notin serving.todo /\ i \notin Items(results)
        /\ i \in serving.todo => i \notin Items(results)
    BY <1>2 DEF OnceInv
  <2> QED BY <1>1, <1>3, <1>4, <1>5, <1>6, <1>8, <2>1
<1> QED BY <1>7, <1>8

----------------------------------------------------------------------------
(* The capsule: what is shown of which run                                 *)

Lives   == {"lama", "sd", "Upscale", "Seg"}
Moments == {"works", "writes", "ends", "clears", "helper", "child", "dropped", "batch", "over"}
CapsuleRuns == [kind : Lives, image : Canvases, at : Moments, told : Nat, owed : BOOLEAN]
BatchStates == [run : Nat, left : Nat, total : Nat, late : Nat, going : BOOLEAN]
Counts  == {p \in Nat \X Nat : p[1] <= p[2]}
Shown   == [run : Nat \ {0}, kind : {"Inpaint", "Upscale", "Seg"}, outer : {<<>>} \cup Counts,
            inner : Counts, stopping : BOOLEAN]

\* Where a run can be, by its kind and by what is owed for it.
InPlace(x) ==
    /\ x.at \in {"works", "writes", "clears"} => x.kind \in {"lama", "Upscale"}
    /\ x.at = "ends" => x.kind = "Upscale"
    /\ x.at \in {"helper", "child", "dropped"} => x.kind = "sd"
    /\ x.at = "batch" => x.kind = "Seg"
    /\ x.at = "writes" => x.told >= 1
    /\ x.at = "helper" => x.told = 0
    /\ x.at \in {"works", "writes", "child"} => x.told <= Len(Reports(x.kind))
    /\ x.kind \in {"lama", "sd"} /\ ~x.owed => x.at \in {"over", "dropped"}

RunsInv ==
    /\ newest \in Nat /\ begun \in Seq(CapsuleRuns) /\ Len(begun) = newest
    /\ \A r \in 1 .. newest : InPlace(begun[r])

BatchInv ==
    /\ batch \in BatchStates
    /\ batch.left <= batch.total
    /\ batch.run # 0 => batch.going
    /\ batch.run # 0 => batch.run <= newest /\ begun[batch.run].at = "batch"
    /\ \A r \in 1 .. newest : begun[r].at = "batch" => batch.run = r

\* One upscale at a time, and one stroke an image.
AloneInv ==
    \A r, s \in 1 .. newest : r < s =>
        /\ begun[r].kind = "Upscale" /\ begun[s].kind = "Upscale" => ~begun[r].owed
        /\ Eraser(r) /\ Eraser(s) /\ begun[r].image = begun[s].image => ~begun[r].owed \/ ~begun[s].owed

ShownAs(x) == IF x.kind \in {"lama", "sd"} THEN "Inpaint" ELSE x.kind

SlotInv ==
    slot # Blank =>
        /\ slot \in Shown /\ slot.run = newest
        /\ slot.kind = ShownAs(begun[newest])
        /\ begun[newest].at # "over"

Unit == Patches + 2
SdShown(s, told) ==
    IF told = 0 THEN s.outer = <<>> /\ s.inner = <<0, 0>>
    ELSE /\ s.outer # <<>> /\ s.outer[1] <= (told - 1) \div Unit /\ s.outer[2] = Crops
         /\ told <= Crops * Unit /\ (told - 1) % Unit # 0 => s.inner = <<((told - 1) % Unit) - 1, Patches>>
TilesShown(s, told) ==
    s.outer = <<>> /\ s.inner = IF told = 0 THEN <<0, 0>> ELSE <<told - 1, Patches>>

\* What s shows of a run, by what that has told; b is the batch.
Tells(x, s, b) ==
    /\ x.at = "works" => TilesShown(s, x.told)
    /\ x.at = "writes" => TilesShown(s, x.told - 1)
    /\ x.at \in {"helper", "child"} => SdShown(s, x.told)
    /\ x.at = "batch" => s.outer = <<b.total - b.left, b.total>> /\ s.inner = <<0, 0>>

ToldInv == slot # Blank /\ newest \notin crossed => Tells(begun[newest], slot, batch)

CapsuleInv == RunsInv /\ BatchInv /\ AloneInv /\ SlotInv /\ ToldInv /\ ShowsTheNewest /\ StoppingIsTold

----------------------------------------------------------------------------
(* What a run reports, and the share that comes to                         *)

\* More of one factor, more of the product.
LEMMA ProductGrows ==
    \A x, y, z \in Nat : x <= y => x * z <= y * z
<1> TAKE x, y, z \in Nat
<1> HAVE x <= y
<1> DEFINE d == y - x
<1>1. d \in Nat /\ y = x + d
  OBVIOUS
<1>2. y * z = x * z + d * z
  <2> HIDE DEF d
  <2> QED BY <1>1
<1>3. d * z \in Nat /\ x * z \in Nat
  <2> HIDE DEF d
  <2> QED BY <1>1
<1> HIDE DEF d
<1> QED BY <1>2, <1>3

\* The reports of a run, and how many they are.
LEMMA ReportsOfTiles ==
    ASSUME NEW k, k # "sd"
    PROVE  /\ Len(Reports(k)) = Patches + 1
           /\ \A n \in 1 .. Patches + 1 : Reports(k)[n] = Inner(n - 1, Patches)
<1> DEFINE f == [n \in 1 .. Patches + 1 |-> Inner(n - 1, Patches)]
<1>1. Reports(k) = f
  BY DEF Reports
<1>2. Patches + 1 \in Nat
  BY CapsuleAssumption
<1>3. Len(f) = Patches + 1
  BY <1>2
<1> QED BY <1>1, <1>3

\* Those of a stroke of Stable Diffusion, crop by crop and step by step.
LEMMA ReportsOfCrops ==
    /\ Len(Reports("sd")) = Crops * Unit + 1
    /\ \A n \in 1 .. Crops * Unit + 1 :
          Reports("sd")[n] = IF n > Crops * Unit THEN Outer(Crops, Crops)
                             ELSE IF (n - 1) % Unit = 0 THEN Outer((n - 1) \div Unit, Crops)
                             ELSE Inner(((n - 1) % Unit) - 1, Patches)
<1> DEFINE last == Crops * Unit
           f == [n \in 1 .. last + 1 |->
                   IF n > last THEN Outer(Crops, Crops)
                   ELSE IF (n - 1) % Unit = 0 THEN Outer((n - 1) \div Unit, Crops)
                   ELSE Inner(((n - 1) % Unit) - 1, Patches)]
<1>1. Reports("sd") = f
  BY DEF Reports, Unit
<1>2. last + 1 \in Nat
  <2>1. Crops \in Nat /\ Unit \in Nat
    BY CapsuleAssumption DEF Unit
  <2> QED BY <2>1
<1> HIDE DEF last
<1>3. Len(f) = last + 1
  BY <1>2
<1> QED BY <1>1, <1>3 DEF last

\* What the count of a stroke's report comes to.
LEMMA CropOf ==
    ASSUME NEW n \in 1 .. Crops * Unit
    PROVE  /\ (n - 1) \div Unit \in 0 .. Crops - 1
           /\ (n - 1) % Unit \in 0 .. Patches + 1
           /\ n - 1 = Unit * ((n - 1) \div Unit) + ((n - 1) % Unit)
<1> DEFINE q == (n - 1) \div Unit
           m == (n - 1) % Unit
<1>1. Crops \in Nat /\ Unit \in Nat /\ Unit > 0 /\ Patches \in Nat /\ Unit = Patches + 2
  BY CapsuleAssumption DEF Unit
<1>2. n - 1 \in Nat /\ n \in Nat /\ n <= Crops * Unit
  BY <1>1
<1>3. q \in Nat /\ m \in Nat /\ m < Unit /\ n - 1 = Unit * q + m
  <2> DEFINE w == n - 1
  <2>1. w \in Nat
    BY <1>2
  <2> HIDE DEF w
  <2>2. w \div Unit \in Nat /\ w % Unit \in Nat /\ w % Unit < Unit /\ w = Unit * (w \div Unit) + (w % Unit)
    BY <1>1, <2>1
  <2> QED BY <2>2 DEF w
<1> HIDE DEF q, m
<1>4. q < Crops
  <2> SUFFICES ASSUME Crops <= q PROVE FALSE
    BY <1>1, <1>3
  <2>1. Crops * Unit <= q * Unit
    BY <1>1, <1>3, ProductGrows
  <2>2. q * Unit = Unit * q /\ Unit * q \in Nat /\ Crops * Unit \in Nat
    BY <1>1, <1>3
  <2> QED BY <1>2, <1>3, <2>1, <2>2
<1> QED BY <1>1, <1>3, <1>4 DEF q, m

\* The report after one of a crop: the next step of the same crop, or the next crop.
LEMMA NextCrop ==
    ASSUME NEW n \in 1 .. Crops * Unit, n > 1
    PROVE  \/ /\ (n - 1) % Unit = 0 /\ (n - 2) \div Unit <= (n - 1) \div Unit
           \/ /\ (n - 1) % Unit = ((n - 2) % Unit) + 1
              /\ (n - 1) \div Unit = (n - 2) \div Unit
<1> DEFINE w == n - 2
<1>1. w \in Nat /\ Unit \in Nat /\ Unit > 1 /\ n - 1 = w + 1
  BY CapsuleAssumption DEF Unit
<1> HIDE DEF w
<1>2. \/ (w + 1) % Unit = 0 /\ (w \div Unit) <= (w + 1) \div Unit
      \/ (w + 1) % Unit = (w % Unit) + 1 /\ (w + 1) \div Unit = w \div Unit
  BY <1>1
<1> QED BY <1>1, <1>2 DEF w

\* A pair of counts is not the empty tuple.
LEMMA CountIsAPair ==
    ASSUME NEW p \in Counts
    PROVE  p # <<>> /\ p[1] \in Nat /\ p[2] \in Nat /\ p[1] <= p[2] /\ p = <<p[1], p[2]>>
<1>1. p \in Nat \X Nat /\ p[1] <= p[2]
  BY DEF Counts
<1>2. PICK a \in Nat, b \in Nat : p = <<a, b>>
  BY <1>1
<1> QED BY <1>1, <1>2

\* The flat count of a run that counts on two levels.
FlatOf(oc, ot, ic, it) ==
    IF it = 0 THEN <<oc, ot>>
    ELSE <<IF oc * it + ic < ot * it THEN oc * it + ic ELSE ot * it, ot * it>>

\* What flat_counter comes to for it.
LEMMA FlatIs ==
    ASSUME NEW p, p.outer \in Counts, p.inner \in Counts
    PROVE  FlatCounter(p) = FlatOf(p.outer[1], p.outer[2], p.inner[1], p.inner[2])
<1>1. /\ p.outer # <<>> /\ p.outer[1] \in Nat /\ p.outer[2] \in Nat /\ p.outer[1] <= p.outer[2]
      /\ p.inner[1] \in Nat /\ p.inner[2] \in Nat
  BY CountIsAPair
<1>2. (IF p.outer[1] < p.outer[2] THEN p.outer[1] ELSE p.outer[2]) = p.outer[1]
  BY <1>1
<1> QED BY <1>1, <1>2 DEF FlatCounter, FlatOf

\* The flat count lies between the unit that is counted and the next.
LEMMA FlatInItsUnit ==
    ASSUME NEW oc \in Nat, NEW ot \in Nat, NEW ic \in Nat, NEW it \in Nat, oc <= ot, ic <= it
    PROVE  /\ NotLess(<<oc, ot>>, FlatOf(oc, ot, ic, it))
           /\ NotLess(FlatOf(oc, ot, ic, it), <<oc + 1, ot>>)
<1>1. CASE it = 0
  BY <1>1, ProductGrows DEF NotLess, FlatOf
<1>2. CASE it # 0
  <2> DEFINE a == oc * it
             t == ot * it
             n == IF a + ic < t THEN a + ic ELSE t
  <2>1. a \in Nat /\ t \in Nat /\ a <= t
    BY ProductGrows
  <2>2. (oc + 1) * it = a + it /\ a + ic <= a + it
    BY <2>1
  <2>3. n \in Nat /\ a <= n /\ n <= a + it
    BY <2>1, <2>2
  <2>4. FlatOf(oc, ot, ic, it) = <<n, t>>
    BY <1>2 DEF FlatOf
  <2>5. oc * t = a * ot /\ (oc + 1) * t = (a + it) * ot
    <3>1. oc * (ot * it) = (oc * it) * ot /\ (oc + 1) * (ot * it) = ((oc + 1) * it) * ot
      OBVIOUS
    <3> QED BY <3>1, <2>2
  <2> HIDE DEF n, a, t
  <2>6. a * ot <= n * ot /\ n * ot <= (a + it) * ot
    BY <2>1, <2>3, ProductGrows
  <2> QED BY <2>4, <2>5, <2>6 DEF NotLess
<1> QED BY <1>1, <1>2

\* It grows with either count.
LEMMA FlatGrows ==
    ASSUME NEW oc \in Nat, NEW ot \in Nat, NEW ic \in Nat, NEW it \in Nat, oc <= ot,
           NEW od \in Nat, NEW id \in Nat, oc <= od, od <= ot, ic <= id
    PROVE  NotLess(FlatOf(oc, ot, ic, it), FlatOf(od, ot, id, it))
<1>1. CASE it = 0
  BY <1>1, ProductGrows DEF NotLess, FlatOf
<1>2. CASE it # 0
  <2> DEFINE t == ot * it
             m == IF oc * it + ic < t THEN oc * it + ic ELSE t
             n == IF od * it + id < t THEN od * it + id ELSE t
  <2>1. oc * it \in Nat /\ od * it \in Nat /\ oc * it <= od * it /\ t \in Nat
    BY ProductGrows
  <2>2. m \in Nat /\ n \in Nat /\ m <= n
    BY <2>1
  <2>3. FlatOf(oc, ot, ic, it) = <<m, t>> /\ FlatOf(od, ot, id, it) = <<n, t>>
    BY <1>2 DEF FlatOf
  <2> HIDE DEF m, n, t
  <2>4. m * t <= n * t
    BY <2>1, <2>2, ProductGrows
  <2> QED BY <2>3, <2>4 DEF NotLess
<1> QED BY <1>1, <1>2

\* What is shown of a run is not nothing.
LEMMA ShownIsNotBlank == \A s \in Shown : s # Blank
<1> SUFFICES ASSUME NEW s \in Shown PROVE s # Blank
  OBVIOUS
<1>1. s.run # 0
  BY DEF Shown
<1>2. Blank.run = 0
  BY DEF Blank
<1> QED BY <1>1, <1>2

\* Reports: a count at one of the two levels.
Tellings == {p \in [level : {"outer", "inner"}, done : Nat, total : Nat] : p.done <= p.total}

\* A report changes one of the two counts of what is shown.
LEMMA AppliedIs ==
    ASSUME NEW s \in Shown, NEW p \in Tellings
    PROVE  /\ Applied(s, p) \in Shown
           /\ Applied(s, p).run = s.run /\ Applied(s, p).kind = s.kind
           /\ Applied(s, p).stopping = s.stopping
           /\ Applied(s, p).outer = IF p.level = "outer" THEN <<p.done, p.total>> ELSE s.outer
           /\ Applied(s, p).inner = IF p.level = "outer" THEN s.inner ELSE <<p.done, p.total>>
<1>1. s # Blank
  BY ShownIsNotBlank
<1>2. p.level \in {"outer", "inner"} /\ <<p.done, p.total>> \in Counts
  BY DEF Tellings, Counts
<1> DEFINE c == <<p.done, p.total>>
<1>3. s \in [run : Nat \ {0}, kind : {"Inpaint", "Upscale", "Seg"}, outer : {<<>>} \cup Counts,
             inner : Counts, stopping : BOOLEAN]
  BY DEF Shown
<1>4. CASE p.level = "outer"
  <2>1. Applied(s, p) = [s EXCEPT !.outer = c]
    BY <1>1, <1>4 DEF Applied
  <2> HIDE DEF c
  <2>2. c \in Counts
    BY <1>2 DEF c
  <2>3. [s EXCEPT !.outer = c] \in Shown
    BY <1>3, <2>2 DEF Shown
  <2> QED BY <1>3, <1>4, <2>1, <2>3 DEF c
<1>5. CASE p.level # "outer"
  <2>1. Applied(s, p) = [s EXCEPT !.inner = c]
    BY <1>1, <1>5 DEF Applied
  <2> HIDE DEF c
  <2>2. c \in Counts
    BY <1>2 DEF c
  <2>3. [s EXCEPT !.inner = c] \in Shown
    BY <1>3, <2>2 DEF Shown
  <2> QED BY <1>3, <1>5, <2>1, <2>3 DEF c
<1> QED BY <1>4, <1>5

\* A run reports counts.
LEMMA ReportsAreCounts ==
    /\ \A k : k # "sd" => \A n \in 1 .. Len(Reports(k)) : Reports(k)[n] \in Tellings
    /\ \A n \in 1 .. Len(Reports("sd")) : Reports("sd")[n] \in Tellings
<1>0. Patches \in Nat /\ Crops \in Nat
  BY CapsuleAssumption
<1>i. \A a, b \in Nat : a <= b => Inner(a, b) \in Tellings /\ Outer(a, b) \in Tellings
  BY DEF Inner, Outer, Tellings
<1>1. ASSUME NEW k, k # "sd", NEW n \in 1 .. Len(Reports(k)) PROVE Reports(k)[n] \in Tellings
  <2>1. Len(Reports(k)) = Patches + 1 /\ \A m \in 1 .. Patches + 1 : Reports(k)[m] = Inner(m - 1, Patches)
    BY <1>1, ReportsOfTiles
  <2>2. n \in 1 .. Patches + 1 /\ Reports(k)[n] = Inner(n - 1, Patches)
    BY <2>1
  <2>3. n - 1 \in Nat /\ n - 1 <= Patches
    BY <1>0, <2>2
  <2> QED BY <1>0, <1>i, <2>2, <2>3
<1>2. ASSUME NEW n \in 1 .. Len(Reports("sd")) PROVE Reports("sd")[n] \in Tellings
  <2> DEFINE q == (n - 1) \div Unit
             m == (n - 1) % Unit
             last == Crops * Unit
  <2>1. /\ n \in 1 .. last + 1
        /\ Reports("sd")[n] = IF n > last THEN Outer(Crops, Crops)
                              ELSE IF m = 0 THEN Outer(q, Crops) ELSE Inner(m - 1, Patches)
    BY <1>2, ReportsOfCrops
  <2>2. last \in Nat
    <3>1. Unit \in Nat
      BY <1>0 DEF Unit
    <3> QED BY <1>0, <3>1
  <2>3. CASE n > last
    BY <1>0, <1>i, <2>1, <2>3
  <2>4. CASE ~(n > last)
    <3>1. q \in 0 .. Crops - 1 /\ m \in 0 .. Patches + 1
      <4>1. n \in 1 .. Crops * Unit
        BY <2>1, <2>2, <2>4
      <4> QED BY <4>1, CropOf
    <3> HIDE DEF q, m, last
    <3>2. q \in Nat /\ q <= Crops /\ (m # 0 => m - 1 \in Nat /\ m - 1 <= Patches)
      BY <1>0, <3>1
    <3> QED BY <1>0, <1>i, <2>1, <2>4, <3>2
  <2> QED BY <2>3, <2>4
<1> QED BY <1>1, <1>2

\* A run that is in the sequence.
LEMMA RunTyped ==
    ASSUME RunsInv, NEW r \in DOMAIN begun
    PROVE  /\ r \in 1 .. newest /\ r \in Nat /\ begun[r] \in CapsuleRuns /\ InPlace(begun[r])
           /\ DOMAIN begun = 1 .. newest
           /\ begun[r].kind \in Lives /\ begun[r].at \in Moments
           /\ begun[r].told \in Nat /\ begun[r].owed \in BOOLEAN /\ begun[r].image \in Canvases
<1>1. begun \in Seq(CapsuleRuns) /\ Len(begun) = newest /\ newest \in Nat
  BY DEF RunsInv
<1>2. DOMAIN begun = 1 .. newest
  BY <1>1, LenProperties
<1>3. r \in 1 .. newest /\ begun[r] \in CapsuleRuns
  BY <1>1, <1>2, ElementOfSeq
<1> QED BY <1>1, <1>2, <1>3 DEF RunsInv, CapsuleRuns

\* The runs are numbered from 1 to the newest.
LEMMA RunsDomain == RunsInv => newest \in Nat /\ DOMAIN begun = 1 .. newest
BY LenProperties DEF RunsInv

\* One run comes to be x: it stays the run it was, and owes no more than it did.
Becomes(r, x) ==
    /\ begun' = [begun EXCEPT ![r] = x] /\ newest' = newest
    /\ x \in CapsuleRuns /\ InPlace(x)
    /\ x.kind = begun[r].kind /\ x.image = begun[r].image /\ (x.owed => begun[r].owed)
    /\ begun[r].at \in {"over", "dropped"} => x.at = begun[r].at

\* Such a change keeps the runs what they are, and alone of their kind.
LEMMA OneRunChanges ==
    ASSUME RunsInv, AloneInv, NEW r \in 1 .. newest, NEW x, Becomes(r, x)
    PROVE  /\ RunsInv' /\ AloneInv'
           /\ \A q \in 1 .. newest : begun'[q] = IF q = r THEN x ELSE begun[q]
           /\ \A q \in 1 .. newest : begun'[q].kind = begun[q].kind /\ (begun'[q].owed => begun[q].owed)
<1>1. begun \in Seq(CapsuleRuns) /\ Len(begun) = newest /\ newest \in Nat
  BY DEF RunsInv
<1>2. /\ begun' \in Seq(CapsuleRuns) /\ Len(begun') = newest
      /\ \A q \in 1 .. newest : begun'[q] = IF q = r THEN x ELSE begun[q]
  BY <1>1, ExceptSeq DEF Becomes
<1>3. \A q \in 1 .. newest : /\ begun'[q].kind = begun[q].kind /\ begun'[q].image = begun[q].image
                             /\ begun'[q].owed => begun[q].owed
                             /\ InPlace(begun'[q])
  BY <1>2 DEF Becomes, RunsInv
<1>4. RunsInv'
  <2>1. \A q \in 1 .. newest' : InPlace(begun[q])'
    BY <1>3 DEF Becomes, InPlace, Reports, Outer, Inner
  <2> QED BY <1>1, <1>2, <2>1 DEF RunsInv, Becomes
<1>5. AloneInv'
  BY <1>3 DEF AloneInv, Eraser, Becomes
<1> QED BY <1>2, <1>3, <1>4, <1>5

----------------------------------------------------------------------------
(* The steps of a run                                                      *)

\* The newest run has been told to stop, or a stroke has been and it is one.
StopTold == newest \in asked' \/ (Eraser(newest) /\ \E q \in asked' : q \in DOMAIN begun /\ Eraser(q))

\* What such a step does to the capsule: it is cleared by the run it shows, or by one
\* that had looked before.
ShowsOn(r, x) ==
    /\ slot' # Blank => /\ slot # Blank /\ slot' \in Shown
                        /\ slot'.run = slot.run /\ slot'.kind = slot.kind
                        /\ slot'.stopping => slot.stopping \/ StopTold
    /\ slot' # Blank /\ r = newest => x.at # "over"
    /\ slot # Blank /\ slot' = Blank /\ newest \notin crossed' => r = newest /\ x.at = "over"
    /\ crossed \subseteq crossed' /\ asked \subseteq asked'

\* What is shown stays the newest run, and what it says of stopping stays true.
LEMMA RunStepShows ==
    ASSUME CapsuleInv, NEW r \in 1 .. newest, NEW x, Becomes(r, x), ShowsOn(r, x)
    PROVE  SlotInv' /\ ShowsTheNewest' /\ StoppingIsTold'
<1>0. RunsInv /\ AloneInv /\ SlotInv /\ ShowsTheNewest /\ StoppingIsTold
  BY DEF CapsuleInv
<1>1. /\ newest' = newest /\ newest \in Nat
      /\ \A q \in 1 .. newest : begun'[q] = IF q = r THEN x ELSE begun[q]
      /\ \A q \in 1 .. newest : begun'[q].kind = begun[q].kind
      /\ DOMAIN begun = 1 .. newest /\ DOMAIN begun' = 1 .. newest
  <2>1. RunsInv'
    BY <1>0, OneRunChanges
  <2>2. newest' = newest
    BY DEF Becomes
  <2>3. DOMAIN begun' = 1 .. newest
    BY <2>1, <2>2, LenProperties DEF RunsInv
  <2> QED BY <1>0, <2>2, <2>3, OneRunChanges, RunsDomain
<1>2. ASSUME slot' # Blank
      PROVE  /\ newest \in 1 .. newest /\ slot' \in Shown /\ slot'.run = newest
             /\ slot'.kind = ShownAs(begun[newest]) /\ begun'[newest].at # "over"
  <2>1. slot # Blank /\ slot' \in Shown /\ slot'.run = slot.run /\ slot'.kind = slot.kind
    BY <1>2 DEF ShowsOn
  <2>2. slot \in Shown /\ slot.run = newest /\ slot.kind = ShownAs(begun[newest]) /\ begun[newest].at # "over"
    BY <1>0, <2>1 DEF SlotInv
  <2>3. newest \in 1 .. newest
    BY <1>1, <2>2 DEF Shown
  <2> QED BY <1>1, <1>2, <2>1, <2>2, <2>3 DEF ShowsOn
<1>3. SlotInv'
  BY <1>1, <1>2 DEF SlotInv, ShownAs
<1>4. ShowsTheNewest'
  <2>1. slot' # Blank => slot'.run = newest' /\ (Going(newest) \/ Dropped(newest))'
    BY <1>1, <1>2 DEF Going, Dropped
  <2>2. ASSUME newest' > 0, Going(newest)', newest' \notin crossed' PROVE slot' # Blank
    <3>1. newest \in 1 .. newest /\ newest \notin crossed' /\ begun'[newest].at \notin {"over", "dropped"}
      BY <1>1, <2>2 DEF Going
    <3>2. Going(newest) /\ newest \notin crossed
      BY <1>1, <3>1 DEF Going, Becomes, ShowsOn
    <3>3. slot # Blank
      BY <1>0, <1>1, <3>1, <3>2 DEF ShowsTheNewest
    <3>4. ~(newest = r /\ x.at = "over")
      BY <1>1, <3>1
    <3> QED BY <3>1, <3>3, <3>4 DEF ShowsOn
  <2> QED BY <2>1, <2>2 DEF ShowsTheNewest
<1>5. StoppingIsTold'
  <2> SUFFICES ASSUME slot' # Blank, slot'.stopping
               PROVE  \/ slot'.run \in asked'
                      \/ Eraser(slot.run)' /\ \E q \in asked' : q \in DOMAIN begun' /\ Eraser(q)'
    BY DEF StoppingIsTold
  <2>1. slot # Blank /\ slot'.run = newest /\ slot.run = newest /\ (slot.stopping \/ StopTold)
    BY <1>0, <1>2 DEF ShowsOn, SlotInv
  <2>2. CASE slot.stopping
    <3>1. \/ slot.run \in asked
          \/ Eraser(slot.run) /\ \E q \in asked : q \in DOMAIN begun /\ Eraser(q)
      BY <1>0, <2>1, <2>2 DEF StoppingIsTold
    <3> QED BY <1>1, <1>2, <2>1, <3>1 DEF Eraser, ShowsOn
  <2>3. CASE StopTold
    BY <1>1, <1>2, <2>1, <2>3 DEF Eraser, StopTold
  <2> QED BY <2>1, <2>2, <2>3
<1> QED BY <1>3, <1>4, <1>5

\* The batch is not touched by what is not its run.
LEMMA RunStepBatch ==
    ASSUME RunsInv, AloneInv, BatchInv, NEW r \in 1 .. newest, NEW x, Becomes(r, x),
           begun[r].at # "batch", x.at # "batch", batch' = batch
    PROVE  BatchInv'
<1>1. /\ newest' = newest
      /\ \A q \in 1 .. newest : begun'[q] = IF q = r THEN x ELSE begun[q]
  BY OneRunChanges DEF Becomes
<1>2. batch.run # 0 => batch.run \in 1 .. newest
  BY DEF BatchInv, BatchStates, RunsInv
<1> QED BY <1>1, <1>2 DEF BatchInv

\* A step of a run of its own.
LEMMA RunStepKeeps ==
    ASSUME CapsuleInv, NEW r \in 1 .. newest, NEW x, Becomes(r, x), ShowsOn(r, x),
           begun[r].at # "batch", x.at # "batch", batch' = batch,
           slot' # Blank /\ newest \notin crossed' =>
               Tells(IF r = newest THEN x ELSE begun[newest], slot', batch)
    PROVE  CapsuleInv'
<1>0. RunsInv /\ AloneInv /\ BatchInv
  BY DEF CapsuleInv
<1>1. RunsInv' /\ AloneInv' /\ newest' = newest /\ \A q \in 1 .. newest : begun'[q] = IF q = r THEN x ELSE begun[q]
  BY <1>0, OneRunChanges DEF Becomes
<1>2. SlotInv' /\ ShowsTheNewest' /\ StoppingIsTold'
  BY RunStepShows
<1>3. BatchInv'
  BY <1>0, RunStepBatch
<1>4. ToldInv'
  <2> SUFFICES ASSUME slot' # Blank, newest \notin crossed' PROVE Tells(begun'[newest], slot', batch)
    BY <1>1 DEF ToldInv
  <2>1. newest \in 1 .. newest
    BY <1>1, <1>2 DEF SlotInv, Shown, RunsInv
  <2> QED BY <1>1, <2>1
<1> QED BY <1>1, <1>2, <1>3, <1>4 DEF CapsuleInv

\* One that does not touch the capsule.
LEMMA QuietKeeps ==
    ASSUME CapsuleInv, NEW r \in 1 .. newest, NEW x, Becomes(r, x),
           begun[r].at # "batch", x.at # "batch", x.at = "over" => begun[r].at = "over" \/ r # newest,
           UNCHANGED <<slot, batch, asked, crossed>>,
           r = newest /\ slot # Blank /\ newest \notin crossed => Tells(x, slot, batch)
    PROVE  CapsuleInv'
<1>1. slot # Blank => slot \in Shown /\ begun[newest].at # "over"
  BY DEF CapsuleInv, SlotInv
<1>2. ShowsOn(r, x)
  BY <1>1 DEF ShowsOn
<1>3. slot' # Blank /\ newest \notin crossed' => Tells(IF r = newest THEN x ELSE begun[newest], slot', batch)
  BY DEF CapsuleInv, ToldInv
<1> QED BY <1>2, <1>3, RunStepKeeps

\* A run changes by two fields.
LEMMA FieldsOfRun ==
    ASSUME RunsInv, NEW r \in DOMAIN begun, NEW a \in Moments, NEW t \in Nat
    PROVE  /\ [begun EXCEPT ![r].at = a, ![r].told = t] = [begun EXCEPT ![r] = [begun[r] EXCEPT !.at = a, !.told = t]]
           /\ [begun EXCEPT ![r].told = t, ![r].at = a] = [begun EXCEPT ![r] = [begun[r] EXCEPT !.at = a, !.told = t]]
           /\ [begun EXCEPT ![r].at = a, ![r].owed = FALSE] = [begun EXCEPT ![r] = [begun[r] EXCEPT !.at = a, !.owed = FALSE]]
<1>1. begun[r] \in CapsuleRuns
  BY RunTyped
<1>2. begun[r] \in [kind : Lives, image : Canvases, at : Moments, told : Nat, owed : BOOLEAN]
  BY <1>1 DEF CapsuleRuns
<1> QED BY <1>2

\* What Goes changes.
LEMMA GoesIs ==
    ASSUME RunsInv, NEW r, NEW from, NEW to \in Moments, Goes(r, from, to)
    PROVE  \E x : /\ begun' = [begun EXCEPT ![r] = x] /\ newest' = newest /\ asked' = asked /\ batch' = batch
                  /\ r \in DOMAIN begun /\ r \in 1 .. newest /\ begun[r].at = from
                  /\ x \in CapsuleRuns /\ x.kind = begun[r].kind /\ x.image = begun[r].image /\ x.owed = begun[r].owed
                  /\ x.at = to /\ x.told = IF to \in {"over", "ends", "clears"} THEN 0 ELSE begun[r].told
<1>1. r \in DOMAIN begun /\ begun[r].at = from /\ newest' = newest /\ asked' = asked /\ batch' = batch
  BY DEF Goes
<1>2. r \in 1 .. newest /\ begun[r].told \in Nat
  BY <1>1, RunTyped
<1> DEFINE t == IF to \in {"over", "ends", "clears"} THEN 0 ELSE begun[r].told
           x == [begun[r] EXCEPT !.at = to, !.told = t]
<1>3. begun' = [begun EXCEPT ![r].at = to, ![r].told = t]
  BY <1>1, RunTyped DEF Goes, CapsuleRuns
<1>4. t \in Nat
  BY <1>2
<1> HIDE DEF t
<1>5. /\ x \in CapsuleRuns /\ x.at = to /\ x.told = t /\ x.owed = begun[r].owed
      /\ x.kind = begun[r].kind /\ x.image = begun[r].image
      /\ begun' = [begun EXCEPT ![r] = x]
  <2>1. begun[r] \in CapsuleRuns
    BY <1>1, <1>3, <1>4, RunTyped
  <2>2. begun' = [begun EXCEPT ![r] = x]
    BY <1>1, <1>3, <1>4, FieldsOfRun
  <2>3. /\ x \in CapsuleRuns /\ x.at = to /\ x.told = t /\ x.owed = begun[r].owed
        /\ x.kind = begun[r].kind /\ x.image = begun[r].image
    BY <1>4, <2>1 DEF CapsuleRuns
  <2> QED BY <2>2, <2>3
<1> HIDE DEF x
<1> QED BY <1>1, <1>2, <1>5 DEF t

\* A thread looks whether the capsule is its own.
LEMMA LookKeeps ==
    ASSUME CapsuleInv, NEW r, Look(r)
    PROVE  CapsuleInv'
<1>0. RunsInv /\ r \in DOMAIN begun /\ begun[r].at = "works" /\ begun[r].told < Len(Reports(begun[r].kind))
  BY DEF CapsuleInv, Look
<1>1. r \in 1 .. newest /\ begun[r].told \in Nat /\ InPlace(begun[r]) /\ begun[r].kind \in {"lama", "Upscale"}
  BY <1>0, RunTyped DEF InPlace
<1> DEFINE t == begun[r].told + 1
           a == IF Current(r) THEN "writes" ELSE "works"
           x == [begun[r] EXCEPT !.at = a, !.told = t]
<1>2. begun' = [begun EXCEPT ![r].told = t, ![r].at = a]
  BY <1>0, RunTyped DEF Look, CapsuleRuns
<1>3. t \in Nat /\ a \in Moments /\ t >= 1 /\ a \in {"writes", "works"} /\ (r = newest => a = "writes")
      /\ t - 1 = begun[r].told
  BY <1>1 DEF Moments, Current
<1>4. t <= Len(Reports(begun[r].kind))
  <2>1. Len(Reports(begun[r].kind)) \in Nat
    BY <1>1, ReportsOfTiles, CapsuleAssumption
  <2> QED BY <1>0, <1>1, <2>1
<1> HIDE DEF t, a
<1>5. /\ x \in CapsuleRuns /\ x.at = a /\ x.told = t /\ x.owed = begun[r].owed
      /\ x.kind = begun[r].kind /\ x.image = begun[r].image
      /\ begun' = [begun EXCEPT ![r] = x]
  <2>1. begun[r] \in CapsuleRuns
    BY <1>0, <1>2, <1>3, RunTyped
  <2>2. begun' = [begun EXCEPT ![r] = x]
    BY <1>0, <1>2, <1>3, FieldsOfRun
  <2>3. /\ x \in CapsuleRuns /\ x.at = a /\ x.told = t /\ x.owed = begun[r].owed
        /\ x.kind = begun[r].kind /\ x.image = begun[r].image
    BY <1>3, <2>1 DEF CapsuleRuns
  <2> QED BY <2>2, <2>3
<1> HIDE DEF x
<1>6. Becomes(r, x)
  <2>1. InPlace(x)
    BY <1>0, <1>1, <1>3, <1>4, <1>5 DEF InPlace
  <2> QED BY <1>0, <1>5, <2>1 DEF Becomes, Look
<1>7. r = newest /\ slot # Blank /\ newest \notin crossed => Tells(x, slot, batch)
  BY <1>0, <1>1, <1>3, <1>5 DEF CapsuleInv, ToldInv, Tells
<1>8. UNCHANGED <<slot, batch, asked, crossed>>
  BY DEF Look
<1> QED BY <1>0, <1>1, <1>3, <1>5, <1>6, <1>7, <1>8, QuietKeeps

\* It writes to it, whether it still is or not.
LEMMA WriteKeeps ==
    ASSUME CapsuleInv, NEW r, Write(r)
    PROVE  CapsuleInv'
<1>0. RunsInv /\ Goes(r, "writes", "works")
  BY DEF CapsuleInv, Write
<1>1. PICK x : /\ begun' = [begun EXCEPT ![r] = x] /\ newest' = newest /\ asked' = asked /\ batch' = batch
               /\ r \in DOMAIN begun /\ r \in 1 .. newest /\ begun[r].at = "writes"
               /\ x \in CapsuleRuns /\ x.kind = begun[r].kind /\ x.image = begun[r].image /\ x.owed = begun[r].owed
               /\ x.at = "works" /\ x.told = begun[r].told
  BY <1>0, GoesIs DEF Moments
<1>2. InPlace(begun[r]) /\ begun[r].kind \in {"lama", "Upscale"} /\ begun[r].told \in 1 .. Len(Reports(begun[r].kind))
  <2>1. InPlace(begun[r]) /\ begun[r].told \in Nat
    BY <1>0, <1>1, RunTyped
  <2>2. begun[r].kind # "sd"
    BY <1>1, <2>1 DEF InPlace
  <2>3. Len(Reports(begun[r].kind)) \in Nat
    BY <2>2, ReportsOfTiles, CapsuleAssumption
  <2> QED BY <1>1, <2>1, <2>3 DEF InPlace
<1>3. Becomes(r, x)
  BY <1>1, <1>2 DEF Becomes, InPlace
<1> DEFINE p == Reports(begun[r].kind)[begun[r].told]
<1>4. p \in Tellings /\ p = Inner(begun[r].told - 1, Patches)
  <2>1. begun[r].kind # "sd"
    BY <1>2
  <2> QED BY <1>2, <2>1, ReportsAreCounts, ReportsOfTiles
<1>5. slot' = Applied(slot, p) /\ (crossed' = IF Current(r) THEN crossed ELSE crossed \cup {newest})
  BY DEF Write, Crosses
<1> HIDE DEF p
<1>6. slot = Blank => slot' = Blank
  BY <1>5 DEF Applied
<1>7. slot # Blank => /\ slot' \in Shown /\ slot' # Blank
                      /\ slot'.run = slot.run /\ slot'.kind = slot.kind /\ slot'.stopping = slot.stopping
                      /\ slot'.outer = IF p.level = "outer" THEN <<p.done, p.total>> ELSE slot.outer
                      /\ slot'.inner = IF p.level = "outer" THEN slot.inner ELSE <<p.done, p.total>>
  <2> SUFFICES ASSUME slot # Blank PROVE slot \in Shown
    BY <1>4, <1>5, AppliedIs, ShownIsNotBlank
  <2> QED BY DEF CapsuleInv, SlotInv
<1>8. ShowsOn(r, x)
  BY <1>1, <1>5, <1>6, <1>7 DEF ShowsOn
<1>9. slot' # Blank /\ newest \notin crossed' => Tells(IF r = newest THEN x ELSE begun[newest], slot', batch)
  <2> SUFFICES ASSUME slot' # Blank, newest \notin crossed' PROVE r = newest /\ Tells(x, slot', batch)
    OBVIOUS
  <2>1. r = newest /\ newest \notin crossed /\ slot # Blank
    BY <1>5, <1>6 DEF Current
  <2>2. TilesShown(slot, begun[r].told - 1)
    BY <1>1, <2>1 DEF CapsuleInv, ToldInv, Tells
  <2>3. p.level = "inner" /\ p.done = begun[r].told - 1 /\ p.total = Patches
    BY <1>4 DEF Inner
  <2>4. TilesShown(slot', x.told)
    BY <1>1, <1>2, <1>7, <2>1, <2>2, <2>3 DEF TilesShown
  <2> QED BY <1>1, <2>1, <2>4 DEF Tells
<1> QED BY <1>1, <1>3, <1>8, <1>9, RunStepKeeps

\* An upscale sends its result.
LEMMA SendsKeeps ==
    ASSUME CapsuleInv, NEW r, Sends(r)
    PROVE  CapsuleInv'
<1>0. RunsInv /\ r \in DOMAIN begun /\ begun[r].at = "works" /\ begun[r].kind = "Upscale"
  BY DEF CapsuleInv, Sends
<1>1. r \in 1 .. newest /\ "ends" \in Moments /\ 0 \in Nat
  BY <1>0, RunTyped DEF Moments
<1> DEFINE x == [begun[r] EXCEPT !.at = "ends", !.owed = FALSE]
<1>2. begun' = [begun EXCEPT ![r].at = "ends", ![r].owed = FALSE] /\ newest' = newest
      /\ UNCHANGED <<slot, batch, asked, crossed>>
  BY DEF Sends
<1>3. /\ x \in CapsuleRuns /\ x.at = "ends" /\ x.owed = FALSE /\ x.kind = begun[r].kind /\ x.image = begun[r].image
      /\ begun' = [begun EXCEPT ![r] = x]
  <2>1. begun[r] \in CapsuleRuns
    BY <1>0, <1>1, <1>2, RunTyped
  <2>2. begun' = [begun EXCEPT ![r] = x]
    BY <1>0, <1>1, <1>2, FieldsOfRun
  <2>3. /\ x \in CapsuleRuns /\ x.at = "ends" /\ x.owed = FALSE /\ x.kind = begun[r].kind /\ x.image = begun[r].image
    BY <1>1, <2>1 DEF CapsuleRuns
  <2> QED BY <2>2, <2>3
<1> HIDE DEF x
<1>4. Becomes(r, x)
  BY <1>0, <1>2, <1>3 DEF Becomes, InPlace
<1>5. Tells(x, slot, batch)
  BY <1>3 DEF Tells
<1> QED BY <1>0, <1>1, <1>2, <1>3, <1>4, <1>5, QuietKeeps

\* A step to where nothing more is told.
LEMMA GoesQuietly ==
    ASSUME CapsuleInv, NEW r, NEW from \in {"works", "ends", "helper", "child"},
           NEW to \in {"clears", "over", "child", "dropped"}, Goes(r, from, to),
           UNCHANGED <<slot, crossed>>, to = "over" => r # newest,
           to = "clears" => begun[r].kind \in {"lama", "Upscale"}, to \in {"child", "dropped"} => from = "helper"
    PROVE  CapsuleInv'
<1>0. RunsInv /\ to \in Moments
  BY DEF CapsuleInv, Moments
<1>1. PICK x : /\ begun' = [begun EXCEPT ![r] = x] /\ newest' = newest /\ asked' = asked /\ batch' = batch
               /\ r \in DOMAIN begun /\ r \in 1 .. newest /\ begun[r].at = from
               /\ x \in CapsuleRuns /\ x.kind = begun[r].kind /\ x.image = begun[r].image /\ x.owed = begun[r].owed
               /\ x.at = to /\ x.told = IF to \in {"over", "ends", "clears"} THEN 0 ELSE begun[r].told
  BY <1>0, GoesIs
<1>2. InPlace(begun[r])
  BY <1>0, <1>1, RunTyped
<1>3. from = "helper" => begun[r].kind = "sd" /\ begun[r].told = 0
  BY <1>1, <1>2 DEF InPlace
<1>4. Len(Reports("sd")) \in Nat
  <2>1. Crops * Unit \in Nat
    <3>1. Crops \in Nat /\ Unit \in Nat
      BY CapsuleAssumption DEF Unit
    <3> QED BY <3>1
  <2> QED BY <2>1, ReportsOfCrops
<1>5. Becomes(r, x)
  <2>1. InPlace(x)
    BY <1>1, <1>2, <1>3, <1>4 DEF InPlace
  <2> QED BY <1>1, <2>1 DEF Becomes
<1>6. r = newest /\ slot # Blank /\ newest \notin crossed => Tells(x, slot, batch)
  BY <1>1, <1>3 DEF Tells, CapsuleInv, ToldInv
<1> QED BY <1>1, <1>5, <1>6, QuietKeeps

\* A run looks whether it has to clear the capsule.
LEMMA LookToEndKeeps ==
    ASSUME CapsuleInv, NEW r, LookToEnd(r)
    PROVE  CapsuleInv'
<1> DEFINE from == IF begun[r].kind = "lama" THEN "works" ELSE "ends"
           to   == IF Current(r) THEN "clears" ELSE "over"
<1>1. Goes(r, from, to) /\ begun[r].kind \in {"lama", "Upscale"} /\ UNCHANGED <<slot, crossed>>
  BY DEF LookToEnd
<1>2. from \in {"works", "ends"} /\ to \in {"clears", "over"} /\ (to = "over" => r # newest)
  BY DEF Current
<1> HIDE DEF from, to
<1> QED BY <1>1, <1>2, GoesQuietly

\* A stroke's result has come.
LEMMA DrainKeeps ==
    ASSUME CapsuleInv, NEW r, Drain(r)
    PROVE  CapsuleInv'
<1>0. RunsInv /\ r \in DOMAIN begun /\ Eraser(r) /\ begun[r].at \in {"over", "dropped"}
  BY DEF CapsuleInv, Drain
<1>1. r \in 1 .. newest /\ begun[r] \in CapsuleRuns /\ InPlace(begun[r])
  BY <1>0, RunTyped
<1> DEFINE x == [begun[r] EXCEPT !.owed = FALSE]
<1>2. begun' = [begun EXCEPT ![r] = x] /\ newest' = newest /\ UNCHANGED <<slot, batch, asked, crossed>>
  BY <1>0 DEF Drain
<1>3. /\ x \in CapsuleRuns /\ x.at = begun[r].at /\ x.owed = FALSE /\ x.kind = begun[r].kind /\ x.image = begun[r].image
      /\ x.told = begun[r].told
  BY <1>1 DEF CapsuleRuns
<1> HIDE DEF x
<1>4. Becomes(r, x)
  BY <1>0, <1>1, <1>2, <1>3 DEF Becomes, InPlace
<1>5. Tells(x, slot, batch)
  BY <1>0, <1>3 DEF Tells
<1> QED BY <1>0, <1>1, <1>2, <1>3, <1>4, <1>5, QuietKeeps

\* A run that leaves the capsule empty as it ends.
LEMMA GoesBlank ==
    ASSUME CapsuleInv, NEW r, NEW from \in {"clears", "child"}, Goes(r, from, "over"),
           slot' = IF Current(r) \/ from = "clears" THEN Blank ELSE slot,
           crossed' = IF Current(r) \/ from = "child" THEN crossed ELSE crossed \cup {newest}
    PROVE  CapsuleInv'
<1>0. RunsInv
  BY DEF CapsuleInv
<1>1. PICK x : /\ begun' = [begun EXCEPT ![r] = x] /\ newest' = newest /\ asked' = asked /\ batch' = batch
               /\ r \in DOMAIN begun /\ r \in 1 .. newest /\ begun[r].at = from
               /\ x \in CapsuleRuns /\ x.kind = begun[r].kind /\ x.image = begun[r].image /\ x.owed = begun[r].owed
               /\ x.at = "over" /\ x.told = 0
  BY <1>0, GoesIs DEF Moments
<1>2. Becomes(r, x)
  BY <1>1 DEF Becomes, InPlace
<1>3. slot # Blank => slot \in Shown
  BY DEF CapsuleInv, SlotInv
<1>4. ShowsOn(r, x)
  BY <1>1, <1>3 DEF ShowsOn, Current
<1>5. slot' # Blank /\ newest \notin crossed' => Tells(IF r = newest THEN x ELSE begun[newest], slot', batch)
  BY DEF Current, CapsuleInv, ToldInv
<1> QED BY <1>1, <1>2, <1>4, <1>5, RunStepKeeps

\* A run clears the capsule.
LEMMA ClearKeeps ==
    ASSUME CapsuleInv, NEW r, Clear(r)
    PROVE  CapsuleInv'
BY GoesBlank DEF Clear, Crosses

\* The bridge has a stroke's answer.
LEMMA PumpAnswerKeeps ==
    ASSUME CapsuleInv, NEW r, PumpAnswer(r)
    PROVE  CapsuleInv'
BY GoesBlank DEF PumpAnswer, EndRun

\* The bridge forwards a stroke's report.
LEMMA PumpReportKeeps ==
    ASSUME CapsuleInv, NEW r, PumpReport(r)
    PROVE  CapsuleInv'
<1>0. RunsInv /\ r \in DOMAIN begun /\ begun[r].at = "child" /\ begun[r].told < Len(Reports("sd"))
  BY DEF CapsuleInv, PumpReport
<1>1. /\ r \in 1 .. newest /\ begun[r] \in CapsuleRuns /\ begun[r].told \in Nat
      /\ begun[r].kind = "sd" /\ InPlace(begun[r])
  BY <1>0, RunTyped DEF InPlace
<1>c. Crops \in Nat /\ Crops > 0 /\ Unit \in Nat /\ Unit > 1 /\ Crops * Unit \in Nat /\ Crops * Unit > 0 /\ Unit = Patches + 2 /\ Patches \in Nat
  <2>1. Crops \in Nat /\ Crops > 0 /\ Unit \in Nat /\ Unit > 1 /\ Unit = Patches + 2 /\ Patches \in Nat
    BY CapsuleAssumption DEF Unit
  <2> QED BY <2>1
<1>d. Len(Reports("sd")) = Crops * Unit + 1 /\ Len(Reports("sd")) \in Nat
  BY <1>c, ReportsOfCrops
<1> DEFINE t == begun[r].told + 1
           x == [begun[r] EXCEPT !.told = t]
           p == Reports("sd")[t]
<1>2. begun' = [begun EXCEPT ![r] = x] /\ newest' = newest /\ asked' = asked /\ batch' = batch /\ crossed' = crossed
  BY <1>0, <1>1 DEF PumpReport, CapsuleRuns
<1>3. t \in Nat /\ t \in 1 .. Len(Reports("sd"))
  BY <1>0, <1>1, <1>d
<1>4. /\ x \in CapsuleRuns /\ x.at = begun[r].at /\ x.told = t /\ x.owed = begun[r].owed
      /\ x.kind = begun[r].kind /\ x.image = begun[r].image
  <2> HIDE DEF t
  <2> QED BY <1>1, <1>3 DEF CapsuleRuns
<1>5. Becomes(r, x)
  <2>1. InPlace(x)
    BY <1>0, <1>1, <1>3, <1>4 DEF InPlace
  <2> QED BY <1>2, <1>4, <2>1 DEF Becomes
<1>6. p \in Tellings
  BY <1>3, ReportsAreCounts
<1>7. begun'[r].told = t
  BY <1>0, <1>2, <1>4
<1>8. slot' = IF r = newest THEN Applied(slot, p) ELSE slot
  BY <1>7 DEF PumpReport, ReportRun, Current
<1>9. slot = Blank => slot' = Blank
  BY <1>8 DEF Applied
<1>10. slot # Blank => /\ slot \in Shown /\ slot' \in Shown /\ slot' # Blank
                      /\ slot'.run = slot.run /\ slot'.kind = slot.kind /\ slot'.stopping = slot.stopping
  <2> SUFFICES ASSUME slot # Blank PROVE slot \in Shown
    BY <1>6, <1>8, AppliedIs, ShownIsNotBlank
  <2> QED BY DEF CapsuleInv, SlotInv
<1>11. ShowsOn(r, x)
  BY <1>0, <1>2, <1>4, <1>9, <1>10 DEF ShowsOn
<1>12. ASSUME slot' # Blank, newest \notin crossed', r = newest PROVE SdShown(slot', t)
  <2>1. slot # Blank /\ newest \notin crossed /\ slot \in Shown
    BY <1>2, <1>9, <1>10, <1>12
  <2>2. SdShown(slot, begun[r].told)
    BY <1>0, <1>12, <2>1 DEF CapsuleInv, ToldInv, Tells
  <2>3. /\ slot'.outer = IF p.level = "outer" THEN <<p.done, p.total>> ELSE slot.outer
        /\ slot'.inner = IF p.level = "outer" THEN slot.inner ELSE <<p.done, p.total>>
    BY <1>6, <1>8, <1>12, <2>1, AppliedIs
  <2>4. p = IF t > Crops * Unit THEN Outer(Crops, Crops)
            ELSE IF (t - 1) % Unit = 0 THEN Outer((t - 1) \div Unit, Crops)
            ELSE Inner(((t - 1) % Unit) - 1, Patches)
    BY <1>3, <1>d, ReportsOfCrops
  <2> DEFINE q == (t - 1) \div Unit
             m == (t - 1) % Unit
             last == Crops * Unit
  <2>5. CASE t > last
    <3>1. t = last + 1
      BY <1>3, <1>c, <1>d, <2>5
    <3>2. p.level = "outer" /\ p.done = Crops /\ p.total = Crops
      BY <2>4, <2>5 DEF Outer
    <3>3. q = Crops
      <4>1. t - 1 = Crops * Unit
        BY <3>1, <1>c
      <4>2. (Crops * Unit) \div Unit = Crops
        BY <1>c
      <4> QED BY <4>1, <4>2
    <3>4. slot'.outer = <<Crops, Crops>>
      BY <2>3, <3>2
    <3> QED BY <1>c, <1>3, <2>5, <3>3, <3>4 DEF SdShown
  <2>6. CASE ~(t > last)
    <3>1. t \in 1 .. Crops * Unit
      BY <1>3, <1>c, <2>6
    <3>2. q \in 0 .. Crops - 1 /\ m \in 0 .. Patches + 1
      BY <3>1, CropOf
    <3>3. CASE m = 0
      <4>1. p.level = "outer" /\ p.done = q /\ p.total = Crops
        BY <2>4, <2>6, <3>3 DEF Outer
      <4>2. slot'.outer = <<q, Crops>>
        BY <2>3, <4>1
      <4> QED BY <1>c, <1>3, <3>2, <3>3, <4>2 DEF SdShown
    <3>4. CASE m # 0
      <4>1. p.level = "inner" /\ p.done = m - 1 /\ p.total = Patches
        BY <2>4, <2>6, <3>4 DEF Inner
      <4>2. slot'.outer = slot.outer /\ slot'.inner = <<m - 1, Patches>>
        BY <2>3, <4>1
      <4>3. t > 1
        <5> SUFFICES ASSUME t = 1 PROVE FALSE
          BY <1>3
        <5>1. 0 % Unit = 0
          BY <1>c
        <5> QED BY <3>4, <5>1
      <4>4. begun[r].told # 0 /\ slot.outer # <<>> /\ slot.outer[1] <= (begun[r].told - 1) \div Unit
            /\ slot.outer[2] = Crops
        BY <1>1, <2>2, <4>3 DEF SdShown
      <4>5. (begun[r].told - 1) \div Unit = q
        <5>1. t - 2 = begun[r].told - 1
          BY <1>1
        <5> QED BY <3>1, <3>4, <4>3, <5>1, NextCrop
      <4> QED BY <1>3, <4>2, <4>4, <4>5 DEF SdShown
    <3> QED BY <3>3, <3>4
  <2> QED BY <2>5, <2>6
<1>13. slot' # Blank /\ newest \notin crossed' => Tells(IF r = newest THEN x ELSE begun[newest], slot', batch)
  <2> SUFFICES ASSUME slot' # Blank, newest \notin crossed'
               PROVE Tells(IF r = newest THEN x ELSE begun[newest], slot', batch)
    OBVIOUS
  <2>1. CASE r = newest
    BY <1>0, <1>4, <1>12, <2>1 DEF Tells
  <2>2. CASE r # newest
    BY <1>2, <1>8, <2>2 DEF CapsuleInv, ToldInv
  <2> QED BY <2>1, <2>2
<1> HIDE DEF x, p, t
<1> QED BY <1>0, <1>1, <1>2, <1>4, <1>5, <1>11, <1>13, RunStepKeeps

\* The helper of a stroke sends it to the child, or answers it.
LEMMA HelpersKeep ==
    ASSUME CapsuleInv, NEW r, HelperSends(r) \/ HelperAnswers(r)
    PROVE  CapsuleInv'
BY GoesQuietly DEF HelperSends, HelperAnswers

----------------------------------------------------------------------------
(* The steps of the batch and of the user                                  *)

\* A step of no run.
LEMMA RunsStay ==
    ASSUME CapsuleInv, UNCHANGED <<newest, begun, crossed>>, asked \subseteq asked',
           slot' = Blank <=> slot = Blank,
           slot' # Blank => /\ slot' \in Shown /\ slot'.run = slot.run /\ slot'.kind = slot.kind
                            /\ slot'.stopping => slot.stopping \/ StopTold
                            /\ newest \notin crossed => Tells(begun[newest], slot', batch'),
           BatchInv'
    PROVE  CapsuleInv'
<1>0. RunsInv /\ AloneInv /\ SlotInv /\ ShowsTheNewest /\ StoppingIsTold
  BY DEF CapsuleInv
<1>1. newest \in Nat /\ DOMAIN begun = 1 .. newest
  BY <1>0, RunsDomain
<1>2. CASE newest = 0
  <2>1. slot = Blank
    BY <1>0, <1>2 DEF SlotInv, Shown
  <2> QED BY <1>0, <1>2, <2>1 DEF CapsuleInv, RunsInv, AloneInv, SlotInv, ToldInv, ShowsTheNewest, StoppingIsTold
<1>3. CASE newest # 0
  <2>1. newest \in 1 .. newest
    BY <1>1, <1>3
  <2> DEFINE x == begun[newest]
  <2>2. x \in CapsuleRuns /\ InPlace(x)
    BY <1>0, <1>1, <2>1, RunTyped
  <2>3. begun' = [begun EXCEPT ![newest] = x]
    <3>1. begun \in [1 .. newest -> CapsuleRuns]
      BY <1>0, LenProperties DEF RunsInv
    <3> QED BY <2>1, <3>1
  <2>4. Becomes(newest, x)
    BY <2>2, <2>3 DEF Becomes
  <2>5. ShowsOn(newest, x)
    BY <1>0 DEF ShowsOn, SlotInv
  <2>6. SlotInv' /\ ShowsTheNewest' /\ StoppingIsTold'
    BY <2>1, <2>4, <2>5, RunStepShows
  <2>7. RunsInv' /\ AloneInv'
    BY <1>0, <2>1, <2>4, OneRunChanges
  <2>8. ToldInv'
    BY DEF ToldInv
  <2> QED BY <2>6, <2>7, <2>8 DEF CapsuleInv
<1> QED BY <1>2, <1>3

\* The batch's run is over, and nothing more of it is counted.
LEMMA SegIsOver ==
    ASSUME CapsuleInv, batch.run # 0, SegOver(batch.run), newest' = newest, crossed' = crossed,
           asked \subseteq asked', batch'.run = 0,
           batch' \in [run : Nat, left : Nat, total : Nat, late : Nat, going : BOOLEAN], batch'.left <= batch'.total,
           IF Current(batch.run) THEN slot' = Blank
           ELSE /\ slot' = Blank <=> slot = Blank
                /\ slot' # Blank => /\ slot' \in Shown /\ slot'.run = slot.run /\ slot'.kind = slot.kind
                                    /\ slot'.stopping => slot.stopping \/ StopTold
                                    /\ slot'.outer = slot.outer /\ slot'.inner = slot.inner
    PROVE  CapsuleInv'
<1>0. RunsInv /\ AloneInv /\ SlotInv /\ BatchInv /\ ToldInv
  BY DEF CapsuleInv
<1> DEFINE r == batch.run
           x == [begun[r] EXCEPT !.at = "over", !.owed = FALSE]
<1>1. r \in 1 .. newest /\ r \in DOMAIN begun /\ begun[r].at = "batch" /\ newest \in Nat
  BY <1>0, RunsDomain DEF BatchInv, BatchStates
<1>2. begun[r] \in CapsuleRuns /\ InPlace(begun[r])
  BY <1>0, <1>1, RunTyped
<1>3. begun' = [begun EXCEPT ![r] = x]
  <2>1. begun' = [begun EXCEPT ![r].at = "over", ![r].owed = FALSE]
    BY DEF SegOver
  <2> HIDE DEF r
  <2> QED BY <1>0, <1>1, <2>1, FieldsOfRun DEF Moments
<1>4. /\ x \in CapsuleRuns /\ x.at = "over" /\ x.owed = FALSE
      /\ x.kind = begun[r].kind /\ x.image = begun[r].image
  <2> HIDE DEF r
  <2> QED BY <1>2 DEF CapsuleRuns, Moments
<1> HIDE DEF r, x
<1>5. Becomes(r, x)
  BY <1>1, <1>2, <1>3, <1>4 DEF Becomes, InPlace
<1>6. ShowsOn(r, x)
  BY <1>0, <1>1, <1>4 DEF ShowsOn, SlotInv, Current, r
<1>7. RunsInv' /\ AloneInv' /\ \A q \in 1 .. newest : begun'[q] = IF q = r THEN x ELSE begun[q]
  BY <1>0, <1>1, <1>5, OneRunChanges
<1>8. SlotInv' /\ ShowsTheNewest' /\ StoppingIsTold'
  BY <1>1, <1>5, <1>6, RunStepShows
<1>9. BatchInv'
  BY <1>0, <1>4, <1>7 DEF BatchInv, BatchStates, r
<1>10. ToldInv'
  <2> SUFFICES ASSUME slot' # Blank, newest \notin crossed PROVE Tells(begun'[newest], slot', batch')
    BY DEF ToldInv
  <2>1. slot # Blank /\ newest # r /\ slot'.outer = slot.outer /\ slot'.inner = slot.inner /\ newest \in 1 .. newest
    BY <1>0, <1>1 DEF Current, r, SlotInv, Shown
  <2>2. Tells(begun[newest], slot, batch) /\ begun[newest].at # "batch"
    BY <1>0, <2>1 DEF ToldInv, BatchInv, r
  <2> QED BY <1>7, <2>1, <2>2 DEF Tells, TilesShown, SdShown
<1> QED BY <1>7, <1>8, <1>9, <1>10 DEF CapsuleInv

\* What is told of the batch changes with its count.
LEMMA CountTold ==
    ASSUME CapsuleInv, UNCHANGED <<newest, begun, crossed, asked>>,
           batch' \in BatchStates, batch'.left <= batch'.total, batch'.run = batch.run, batch'.going = batch.going,
           ReportRun(batch.run, Count(batch')) \/ (slot' = slot /\ batch'.left = batch.left /\ batch'.total = batch.total)
    PROVE  CapsuleInv'
<1>0. RunsInv /\ SlotInv /\ BatchInv /\ ToldInv
  BY DEF CapsuleInv
<1> DEFINE p == Count(batch')
<1>1. p \in Tellings /\ p.level = "outer" /\ p.done = batch'.total - batch'.left /\ p.total = batch'.total
  <2>1. batch'.total - batch'.left \in Nat /\ batch'.total - batch'.left <= batch'.total /\ batch'.total \in Nat
    BY DEF BatchStates
  <2> QED BY <2>1 DEF Count, Outer, Tellings
<1>2. BatchInv'
  BY <1>0 DEF BatchInv, BatchStates
<1>3. slot' = (IF Current(batch.run) THEN Applied(slot, p) ELSE slot) \/ (slot' = slot /\ batch'.left = batch.left /\ batch'.total = batch.total)
  BY DEF ReportRun
<1> HIDE DEF p
<1>4. slot = Blank => slot' = Blank
  BY <1>3 DEF Applied
<1>5. ASSUME slot # Blank
      PROVE  /\ slot' \in Shown /\ slot' # Blank
             /\ slot'.run = slot.run /\ slot'.kind = slot.kind /\ slot'.stopping = slot.stopping
             /\ newest \notin crossed => Tells(begun[newest], slot', batch')
  <2>1. slot \in Shown /\ newest \in 1 .. newest
    BY <1>0, <1>5 DEF SlotInv, RunsInv, Shown
  <2>2. newest \notin crossed => Tells(begun[newest], slot, batch)
    BY <1>0, <1>5 DEF ToldInv
  <2>3. CASE slot' = slot /\ batch'.left = batch.left /\ batch'.total = batch.total
    BY <1>5, <2>1, <2>2, <2>3 DEF Tells
  <2>4. CASE slot' = slot /\ ~Current(batch.run)
    <3>1. begun[newest].at # "batch"
      BY <1>0, <2>1, <2>4 DEF BatchInv, Current
    <3> QED BY <1>5, <2>1, <2>2, <2>4, <3>1 DEF Tells
  <2>5. CASE slot' = Applied(slot, p) /\ Current(batch.run)
    <3>1. /\ slot' \in Shown /\ slot' # Blank
          /\ slot'.run = slot.run /\ slot'.kind = slot.kind /\ slot'.stopping = slot.stopping
          /\ slot'.outer = <<p.done, p.total>> /\ slot'.inner = slot.inner
      BY <1>1, <2>1, <2>5, AppliedIs, ShownIsNotBlank
    <3>2. begun[newest].at = "batch"
      BY <1>0, <2>1, <2>5 DEF BatchInv, Current
    <3> QED BY <1>1, <2>2, <3>1, <3>2 DEF Tells
  <2> QED BY <1>3, <2>3, <2>4, <2>5
<1> QED BY <1>2, <1>4, <1>5, RunsStay

\* The counts of the batch.
LEMMA BatchTyped ==
    ASSUME BatchInv
    PROVE  /\ batch \in BatchStates /\ batch.left \in Nat /\ batch.total \in Nat /\ batch.late \in Nat
           /\ batch.run \in Nat /\ batch.left <= batch.total
BY DEF BatchInv, BatchStates

\* An item of the batch is done.
LEMMA ItemEndsKeeps ==
    ASSUME CapsuleInv, ItemEnds
    PROVE  CapsuleInv'
<1>0. BatchInv /\ batch.left > 0 /\ SlotInv
  BY DEF CapsuleInv, ItemEnds
<1>1. batch \in BatchStates /\ batch.left \in Nat /\ batch.total \in Nat /\ batch.left <= batch.total
  BY <1>0, BatchTyped
<1> DEFINE b == [batch EXCEPT !.left = @ - 1]
<1>2. /\ b \in BatchStates /\ b.left = batch.left - 1 /\ b.left <= b.total
      /\ b.run = batch.run /\ b.going = batch.going /\ b.total = batch.total
  <2>1. b = [batch EXCEPT !.left = batch.left - 1] /\ batch.left - 1 \in Nat
    BY <1>0, <1>1 DEF BatchStates
  <2> QED BY <1>1, <2>1 DEF BatchStates
<1>3. UNCHANGED <<newest, asked, selected, crossed>>
  BY DEF ItemEnds, BatchStep
<1>4. CASE b.left > 0 \/ batch.run = 0
  <2>1. batch' = b /\ begun' = begun /\ ReportRun(batch.run, Count(b))
    BY <1>4 DEF ItemEnds, BatchStep
  <2> HIDE DEF b
  <2> QED BY <1>2, <1>3, <2>1, CountTold
<1>5. CASE ~(b.left > 0 \/ batch.run = 0)
  <2>1. batch' = [b EXCEPT !.run = 0] /\ SegOver(batch.run) /\ EndRun(batch.run) /\ batch.run # 0
    BY <1>5 DEF ItemEnds, BatchStep
  <2> HIDE DEF b
  <2>2. batch' \in BatchStates /\ batch'.run = 0 /\ batch'.left <= batch'.total
    BY <1>2, <2>1 DEF BatchStates
  <2> QED BY <1>0, <1>3, <2>1, <2>2, SegIsOver DEF EndRun, BatchStates, SlotInv
<1> QED BY <1>4, <1>5

\* An image joins the batch.
LEMMA StreamsKeeps ==
    ASSUME CapsuleInv, Streams
    PROVE  CapsuleInv'
<1>0. BatchInv /\ batch.late > 0
  BY DEF CapsuleInv, Streams
<1>1. /\ batch \in BatchStates /\ batch.left \in Nat /\ batch.total \in Nat /\ batch.late \in Nat
      /\ batch.left <= batch.total
  BY <1>0, BatchTyped
<1> DEFINE late == [batch EXCEPT !.late = @ - 1]
           more == [late EXCEPT !.left = @ + 1, !.total = @ + 1]
<1>2. /\ late \in BatchStates /\ late.left = batch.left /\ late.total = batch.total
      /\ late.run = batch.run /\ late.going = batch.going
  <2>1. late = [batch EXCEPT !.late = batch.late - 1] /\ batch.late - 1 \in Nat
    BY <1>0, <1>1 DEF BatchStates
  <2> QED BY <1>1, <2>1 DEF BatchStates
<1>3. /\ more \in BatchStates /\ more.left = batch.left + 1 /\ more.total = batch.total + 1
      /\ more.run = batch.run /\ more.going = batch.going
  <2> HIDE DEF late
  <2>1. more = [late EXCEPT !.left = batch.left + 1, !.total = batch.total + 1]
        /\ batch.left + 1 \in Nat /\ batch.total + 1 \in Nat
    BY <1>1, <1>2 DEF BatchStates
  <2> QED BY <1>2, <2>1 DEF BatchStates
<1>4. UNCHANGED <<newest, begun, asked, selected, crossed>>
  BY DEF Streams, BatchStep
<1>5. CASE batch.left > 0
  <2>1. batch' = more /\ ReportRun(batch.run, Count(more))
    BY <1>5 DEF Streams, BatchStep
  <2> HIDE DEF more
  <2> QED BY <1>1, <1>3, <1>4, <2>1, CountTold
<1>6. CASE ~(batch.left > 0)
  <2>1. batch' = late /\ slot' = slot
    BY <1>6 DEF Streams, BatchStep
  <2> HIDE DEF late
  <2> QED BY <1>1, <1>2, <1>4, <2>1, CountTold
<1> QED BY <1>5, <1>6

\* The batch is over, with no run of its own.
LEMMA BatchForgotten ==
    ASSUME CapsuleInv, batch.run = 0, UNCHANGED <<newest, begun, crossed>>, asked \subseteq asked',
           batch' \in BatchStates, batch'.left <= batch'.total, batch'.run = 0,
           slot' = Blank <=> slot = Blank,
           slot' # Blank => /\ slot' \in Shown /\ slot'.run = slot.run /\ slot'.kind = slot.kind
                            /\ slot'.stopping => slot.stopping \/ StopTold
                            /\ slot'.outer = slot.outer /\ slot'.inner = slot.inner
    PROVE  CapsuleInv'
<1>0. RunsInv /\ SlotInv /\ BatchInv /\ ToldInv
  BY DEF CapsuleInv
<1>1. BatchInv'
  BY <1>0 DEF BatchInv, BatchStates
<1>2. slot' # Blank /\ newest \notin crossed => Tells(begun[newest], slot', batch')
  <2> SUFFICES ASSUME slot' # Blank, newest \notin crossed PROVE Tells(begun[newest], slot', batch')
    OBVIOUS
  <2>1. slot # Blank /\ newest \in 1 .. newest
    BY <1>0 DEF SlotInv, RunsInv, Shown
  <2>2. Tells(begun[newest], slot, batch) /\ begun[newest].at # "batch"
    BY <1>0, <2>1 DEF ToldInv, BatchInv
  <2> QED BY <2>1, <2>2 DEF Tells, TilesShown, SdShown
<1> QED BY <1>1, <1>2, RunsStay

\* The batch ends, whatever of it was answered.
LEMMA BatchEndsKeeps ==
    ASSUME CapsuleInv, BatchEnds
    PROVE  CapsuleInv'
<1>0. SlotInv
  BY DEF CapsuleInv
<1>1. batch' = NoBatch /\ UNCHANGED <<newest, asked, selected, crossed>>
  BY DEF BatchEnds, BatchStep
<1>2. batch' \in BatchStates /\ batch'.run = 0 /\ batch'.left <= batch'.total
  BY <1>1 DEF NoBatch, BatchStates
<1>3. CASE batch.run # 0
  <2>1. SegOver(batch.run) /\ EndRun(batch.run)
    BY <1>3 DEF BatchEnds
  <2> QED BY <1>0, <1>1, <1>2, <1>3, <2>1, SegIsOver DEF EndRun, BatchStates, SlotInv
<1>4. CASE batch.run = 0
  <2>1. UNCHANGED <<begun, slot>>
    BY <1>4 DEF BatchEnds
  <2> QED BY <1>0, <1>1, <1>2, <1>4, <2>1, BatchForgotten DEF SlotInv
<1> QED BY <1>3, <1>4

\* Marking the capsule changes what it says of stopping, for a kind of run.
LEMMA MarkedIs ==
    ASSUME SlotInv, NEW k, NEW s, s = MarkCancelling(k)
    PROVE  /\ s = Blank <=> slot = Blank
           /\ s # Blank => /\ s \in Shown /\ s.run = slot.run /\ s.kind = slot.kind
                           /\ s.outer = slot.outer /\ s.inner = slot.inner
                           /\ s.stopping => slot.stopping \/ slot.kind = k
<1>1. CASE slot # Blank /\ slot.kind = k
  <2>1. slot \in Shown
    BY <1>1 DEF SlotInv
  <2>2. s = [slot EXCEPT !.stopping = TRUE]
    BY <1>1 DEF MarkCancelling
  <2>3. s \in Shown /\ s.run = slot.run /\ s.kind = slot.kind /\ s.outer = slot.outer /\ s.inner = slot.inner
    BY <2>1, <2>2 DEF Shown
  <2> QED BY <1>1, <2>3, ShownIsNotBlank
<1>2. CASE ~(slot # Blank /\ slot.kind = k)
  BY <1>2 DEF MarkCancelling, SlotInv
<1> QED BY <1>1, <1>2

\* An upscale that is shown is the one that is owed.
LEMMA UpscaleShownIsOwed ==
    ASSUME CapsuleInv, slot # Blank, slot.kind = "Upscale", Upscaling
    PROVE  Upscales = {newest}
<1>0. RunsInv /\ SlotInv /\ AloneInv
  BY DEF CapsuleInv
<1>1. slot \in Shown /\ slot.run = newest /\ slot.kind = ShownAs(begun[newest])
  BY <1>0 DEF SlotInv
<1>2. newest \in Nat /\ newest > 0 /\ DOMAIN begun = 1 .. newest
  BY <1>0, <1>1, RunsDomain DEF Shown
<1>3. begun[newest].kind = "Upscale"
  BY <1>1 DEF ShownAs
<1>4. \A r \in 1 .. newest : begun[r].kind = "Upscale" /\ begun[r].owed => r = newest
  BY <1>0, <1>2, <1>3 DEF AloneInv
<1> QED BY <1>2, <1>4 DEF Upscaling, Upscales

\* The user stops the upscale.
LEMMA StopUpscaleKeeps ==
    ASSUME CapsuleInv, Orders, Upscaling, StopUpscale
    PROVE  CapsuleInv'
<1>0. SlotInv /\ BatchInv /\ ToldInv
  BY DEF CapsuleInv
<1>1. /\ UNCHANGED <<newest, begun, crossed, batch>> /\ asked' = asked \cup Upscales
      /\ slot' = MarkCancelling("Upscale")
  BY DEF Orders, StopUpscale
<1>2. slot' # Blank /\ slot'.stopping => slot.stopping \/ StopTold
  BY <1>0, <1>1, MarkedIs, UpscaleShownIsOwed DEF StopTold
<1>3. BatchInv'
  BY <1>0, <1>1 DEF BatchInv
<1>4. slot' # Blank /\ newest \notin crossed => Tells(begun[newest], slot', batch')
  BY <1>0, <1>1, MarkedIs DEF ToldInv, Tells, TilesShown, SdShown
<1> QED BY <1>0, <1>1, <1>2, <1>3, <1>4, MarkedIs, RunsStay

\* The user stops the stroke on an image that has one.
LEMMA StopStrokeKeeps ==
    ASSUME CapsuleInv, Orders, NEW c, Target(c), StopStroke(c)
    PROVE  CapsuleInv'
<1>0. SlotInv /\ BatchInv /\ ToldInv /\ RunsInv
  BY DEF CapsuleInv
<1>1. /\ UNCHANGED <<newest, begun, crossed, batch>> /\ asked' = asked \cup Strokes({c})
      /\ slot' = MarkCancelling("Inpaint")
  BY DEF Orders, StopStroke
<1>2. slot' # Blank /\ slot'.stopping => slot.stopping \/ StopTold
  <2> SUFFICES ASSUME slot' # Blank, slot.kind = "Inpaint" PROVE StopTold
    BY <1>0, <1>1, MarkedIs
  <2>1. slot # Blank
    BY <1>0, <1>1, MarkedIs
  <2>2. Eraser(newest)
    <3>1. slot.kind = ShownAs(begun[newest]) /\ newest \in DOMAIN begun
      BY <1>0, <2>1, RunsDomain DEF SlotInv, Shown
    <3>2. begun[newest].kind \in Lives
      BY <1>0, <3>1, RunTyped
    <3> QED BY <3>1, <3>2 DEF ShownAs, Lives, Eraser
  <2>3. PICK q \in DOMAIN begun : Eraser(q) /\ begun[q].image = c /\ begun[q].owed
    BY DEF Target, ErasedOn
  <2>4. q \in asked'
    BY <1>1, <2>3 DEF Strokes
  <2> QED BY <2>2, <2>3, <2>4 DEF StopTold
<1>3. BatchInv'
  BY <1>0, <1>1 DEF BatchInv
<1>4. slot' # Blank /\ newest \notin crossed => Tells(begun[newest], slot', batch')
  BY <1>0, <1>1, MarkedIs DEF ToldInv, Tells, TilesShown, SdShown
<1> QED BY <1>0, <1>1, <1>2, <1>3, <1>4, MarkedIs, RunsStay

\* The user stops everything.
LEMMA StopEverythingKeeps ==
    ASSUME CapsuleInv, Orders, StopEverything
    PROVE  CapsuleInv'
<1>0. SlotInv /\ BatchInv
  BY DEF CapsuleInv
<1>1. /\ UNCHANGED <<newest, crossed>> /\ Upscales \subseteq asked' /\ asked \subseteq asked'
      /\ batch' = [batch EXCEPT !.run = 0, !.late = 0]
  BY DEF Orders, StopEverything
<1>2. batch' \in BatchStates /\ batch'.run = 0 /\ batch'.left <= batch'.total
  <2>1. batch \in BatchStates /\ batch.left <= batch.total
    BY <1>0, BatchTyped
  <2> QED BY <1>1, <2>1 DEF BatchStates
<1>3. ASSUME slot' = IF Upscaling THEN MarkCancelling("Upscale") ELSE slot
      PROVE  /\ slot' = Blank <=> slot = Blank
             /\ slot' # Blank => /\ slot' \in Shown /\ slot'.run = slot.run /\ slot'.kind = slot.kind
                                 /\ slot'.stopping => slot.stopping \/ StopTold
                                 /\ slot'.outer = slot.outer /\ slot'.inner = slot.inner
  <2>1. CASE Upscaling
    <3>1. slot # Blank /\ slot.kind = "Upscale" => StopTold
      BY <1>1, <2>1, UpscaleShownIsOwed DEF StopTold
    <3> QED BY <1>0, <1>3, <2>1, <3>1, MarkedIs
  <2>2. CASE ~Upscaling
    BY <1>0, <1>3, <2>2 DEF SlotInv
  <2> QED BY <2>1, <2>2
<1>4. CASE batch.run # 0
  <2>1. SegOver(batch.run)
    BY <1>4 DEF StopEverything
  <2>2. IF Current(batch.run) THEN slot' = Blank ELSE slot' = IF Upscaling THEN MarkCancelling("Upscale") ELSE slot
    BY <1>4 DEF StopEverything
  <2> QED BY <1>1, <1>2, <1>3, <1>4, <2>1, <2>2, SegIsOver DEF BatchStates
<1>5. CASE batch.run = 0
  <2>1. begun' = begun /\ slot' = IF Upscaling THEN MarkCancelling("Upscale") ELSE slot
    BY <1>5 DEF StopEverything
  <2> QED BY <1>1, <1>2, <1>3, <1>5, <2>1, BatchForgotten
<1> QED BY <1>4, <1>5

\* A step of the user that begins, counts and stops nothing.
LEMMA SlotStays ==
    ASSUME CapsuleInv, UNCHANGED <<newest, begun, crossed, batch, slot>>, asked \subseteq asked'
    PROVE  CapsuleInv'
<1>1. BatchInv'
  BY DEF CapsuleInv, BatchInv
<1>2. slot # Blank => slot \in Shown /\ (newest \notin crossed => Tells(begun[newest], slot, batch))
  BY DEF CapsuleInv, SlotInv, ToldInv
<1> QED BY <1>1, <1>2, RunsStay

\* Every click, key and choice of an image keeps the invariant.
LEMMA UserKeeps ==
    ASSUME CapsuleInv, Click \/ Escape \/ \E c \in Canvases : Select(c)
    PROVE  CapsuleInv'
<1>1. CASE Click
  BY <1>1, StopStrokeKeeps, StopUpscaleKeeps, StopEverythingKeeps DEF Click
<1>2. CASE Escape
  <2>1. CASE Upscaling /\ StopUpscale
    BY <1>2, <2>1, StopUpscaleKeeps DEF Escape
  <2>2. CASE asked' = asked \cup Strokes(Canvases) /\ UNCHANGED <<slot, begun, batch>>
    BY <1>2, <2>2, SlotStays DEF Escape, Orders
  <2>3. CASE StopEverything
    BY <1>2, <2>3, StopEverythingKeeps DEF Escape
  <2> QED BY <1>2, <2>1, <2>2, <2>3 DEF Escape
<1>3. CASE \E c \in Canvases : Select(c)
  BY <1>3, SlotStays DEF Select, Orders
<1> QED BY <1>1, <1>2, <1>3

\* A run begins, alone of its kind, and is shown.
Begins(x) ==
    /\ begun' = Append(begun, x) /\ newest' = newest + 1 /\ UNCHANGED <<asked, crossed>>
    /\ x \in CapsuleRuns /\ InPlace(x) /\ x.at # "over"
    /\ slot' \in Shown /\ slot'.run = newest' /\ slot'.kind = ShownAs(x) /\ ~slot'.stopping
    /\ Tells(x, slot', batch')
    /\ x.kind = "Upscale" => ~Upscaling
    /\ Eraser(newest)' => ~ErasedOn(x.image)

\* A run that begins keeps the invariant; a batch begins where none is.
LEMMA BeginsKeeps ==
    ASSUME CapsuleInv, NEW x, Begins(x),
           \/ batch' = batch /\ x.at # "batch"
           \/ /\ batch.run = 0 /\ x.at = "batch" /\ batch'.run = newest'
              /\ batch' \in BatchStates /\ batch'.left <= batch'.total /\ batch'.going
    PROVE  CapsuleInv'
<1>0. RunsInv /\ AloneInv /\ BatchInv /\ newest \in Nat
  BY DEF CapsuleInv, RunsInv
<1>1. /\ begun' \in Seq(CapsuleRuns) /\ Len(begun') = newest + 1 /\ newest' = newest + 1
      /\ \A q \in 1 .. newest : begun'[q] = begun[q]
      /\ begun'[newest + 1] = x
  <2>1. begun \in Seq(CapsuleRuns) /\ Len(begun) = newest
    BY <1>0 DEF RunsInv
  <2>2. begun' = Append(begun, x) /\ newest' = newest + 1 /\ x \in CapsuleRuns
    BY DEF Begins
  <2> QED BY <2>1, <2>2, AppendProperties
<1>2. DOMAIN begun = 1 .. newest /\ DOMAIN begun' = 1 .. newest + 1 /\ newest + 1 \in 1 .. newest + 1
      /\ \A q \in 1 .. newest + 1 : q = newest + 1 \/ q \in 1 .. newest
  <2>1. DOMAIN begun' = 1 .. newest + 1
    BY <1>1, LenProperties
  <2> QED BY <1>0, <2>1, RunsDomain
<1>3. RunsInv'
  <2>1. \A q \in 1 .. newest' : InPlace(begun[q])'
    <3>1. ASSUME NEW q \in 1 .. newest + 1 PROVE InPlace(begun'[q])
      BY <1>0, <1>1, <1>2, <3>1 DEF RunsInv, Begins
    <3> QED BY <1>1, <3>1 DEF InPlace, Reports, Outer, Inner
  <2> QED BY <1>0, <1>1, <2>1 DEF RunsInv
<1>4. AloneInv'
  <2> SUFFICES ASSUME NEW r \in 1 .. newest + 1, NEW s \in 1 .. newest + 1, r < s
      PROVE /\ begun'[r].kind = "Upscale" /\ begun'[s].kind = "Upscale" => ~begun'[r].owed
            /\ Eraser(r)' /\ Eraser(s)' /\ begun'[r].image = begun'[s].image => ~begun'[r].owed \/ ~begun'[s].owed
    BY <1>1 DEF AloneInv, Eraser
  <2>1. r \in 1 .. newest /\ r \in Nat
    BY <1>0
  <2>2. CASE s \in 1 .. newest
    BY <1>0, <1>1, <2>1, <2>2 DEF AloneInv, Eraser
  <2>3. CASE s = newest + 1
    <3>1. begun'[s] = x /\ begun'[r] = begun[r] /\ r \in DOMAIN begun
      BY <1>1, <1>2, <2>1, <2>3
    <3>2. x.kind = "Upscale" /\ begun[r].kind = "Upscale" => ~begun[r].owed
      BY <3>1 DEF Begins, Upscaling
    <3>3. Eraser(s)' /\ Eraser(r) /\ begun[r].image = x.image => ~begun[r].owed
      BY <1>1, <2>3, <3>1 DEF Begins, ErasedOn, Eraser
    <3> QED BY <3>1, <3>2, <3>3 DEF Eraser
  <2> QED BY <1>2, <2>2, <2>3
<1>5. BatchInv'
  <2>1. batch.run # 0 => batch.run \in 1 .. newest
    BY <1>0 DEF BatchInv, BatchStates
  <2>2. CASE batch' = batch /\ x.at # "batch"
    BY <1>0, <1>1, <1>2, <2>1, <2>2 DEF BatchInv
  <2>3. CASE batch.run = 0 /\ x.at = "batch" /\ batch'.run = newest' /\ batch' \in BatchStates
             /\ batch'.left <= batch'.total /\ batch'.going
    <3>1. \A q \in 1 .. newest : begun[q].at # "batch"
      BY <1>0, <2>3 DEF BatchInv
    <3> QED BY <1>0, <1>1, <1>2, <2>3, <3>1 DEF BatchInv, BatchStates
  <2> QED BY <2>2, <2>3
<1>6. SlotInv' /\ ShowsTheNewest' /\ StoppingIsTold'
  <2>1. slot' # Blank
    BY ShownIsNotBlank DEF Begins
  <2> QED BY <1>1, <2>1 DEF SlotInv, ShowsTheNewest, StoppingIsTold, Begins, Going, Dropped, ShownAs
<1>7. ToldInv'
  BY <1>1 DEF ToldInv, Begins
<1> QED BY <1>3, <1>4, <1>5, <1>6, <1>7 DEF CapsuleInv

\* What is shown of a run that has told nothing.
LEMMA FirstShown ==
    ASSUME NEW n \in Nat \ {0}, NEW k \in {"Inpaint", "Upscale", "Seg"}, NEW o \in {<<>>} \cup Counts,
           NEW s, s = [run |-> n, kind |-> k, outer |-> o, inner |-> <<0, 0>>, stopping |-> FALSE]
    PROVE  s \in Shown /\ s.run = n /\ s.kind = k /\ s.outer = o /\ s.inner = <<0, 0>> /\ ~s.stopping
<1>1. <<0, 0>> \in Counts
  BY DEF Counts
<1> QED BY <1>1 DEF Shown

\* A stroke or an upscale begins.
LEMMA BeginRunKeeps ==
    ASSUME CapsuleInv, selected \in Canvases,
           NEW k \in {"lama", "sd", "Upscale"}, NEW a \in {"works", "helper"}, BeginRun(k, selected, a),
           a = "helper" <=> k = "sd", UNCHANGED <<asked, crossed, batch>>,
           k = "Upscale" => ~Upscaling, k \in {"lama", "sd"} => ~ErasedOn(selected)
    PROVE  CapsuleInv'
<1> DEFINE x == [kind |-> k, image |-> selected, at |-> a, told |-> 0, owed |-> TRUE]
<1>0. newest \in Nat /\ newest + 1 \in Nat \ {0}
  BY DEF CapsuleInv, RunsInv
<1>1. begun' = Append(begun, x) /\ newest' = newest + 1
  BY DEF BeginRun
<1>2. x \in CapsuleRuns /\ x.at = a /\ x.kind = k /\ x.image = selected /\ x.told = 0 /\ x.owed
  BY DEF CapsuleRuns, Lives, Moments
<1>3. /\ slot' \in Shown /\ slot'.run = newest + 1 /\ slot'.kind = ShownAs(x)
      /\ slot'.outer = <<>> /\ slot'.inner = <<0, 0>> /\ ~slot'.stopping
  <2>1. slot' = [run |-> newest + 1, kind |-> ShownAs(x), outer |-> <<>>, inner |-> <<0, 0>>, stopping |-> FALSE]
    BY <1>1 DEF BeginRun, ShownAs
  <2>2. ShownAs(x) \in {"Inpaint", "Upscale", "Seg"}
    BY <1>2 DEF ShownAs
  <2> DEFINE w == ShownAs(x)
             none == <<>>
  <2>3. slot' = [run |-> newest + 1, kind |-> w, outer |-> none, inner |-> <<0, 0>>, stopping |-> FALSE]
        /\ none \in {<<>>} \cup Counts /\ w \in {"Inpaint", "Upscale", "Seg"}
    BY <2>1, <2>2
  <2> HIDE DEF w, none
  <2>4. <<0, 0>> \in Counts
    BY DEF Counts
  <2>5. slot' \in Shown
    BY <1>0, <2>3, <2>4 DEF Shown
  <2>6. slot'.run = newest + 1 /\ slot'.kind = w /\ slot'.outer = none /\ slot'.inner = <<0, 0>> /\ ~slot'.stopping
    BY <2>3
  <2> QED BY <2>5, <2>6 DEF w, none
<1> HIDE DEF x
<1>4. InPlace(x)
  <2>1. \A y : Len(Reports(y)) \in Nat
    <3>1. \A y : y # "sd" => Len(Reports(y)) \in Nat
      BY ReportsOfTiles, CapsuleAssumption
    <3>2. Len(Reports("sd")) \in Nat
      <4>1. Crops \in Nat /\ Unit \in Nat
        BY CapsuleAssumption DEF Unit
      <4>2. Crops * Unit \in Nat
        BY <4>1
      <4> QED BY <4>2, ReportsOfCrops
    <3> QED BY <3>1, <3>2
  <2> QED BY <1>2, <2>1 DEF InPlace
<1>5. Tells(x, slot', batch')
  BY <1>2, <1>3 DEF Tells, TilesShown, SdShown
<1>6. Eraser(newest)' => ~ErasedOn(x.image)
  <2>1. begun'[newest'] = x
    <3>1. begun \in Seq(CapsuleRuns) /\ Len(begun) = newest
      BY DEF CapsuleInv, RunsInv
    <3> QED BY <1>1, <1>2, <3>1, AppendProperties
  <2> QED BY <1>2, <2>1 DEF Eraser
<1>7. Begins(x)
  BY <1>1, <1>2, <1>3, <1>4, <1>5, <1>6 DEF Begins
<1> QED BY <1>2, <1>7, BeginsKeeps

\* A batch begins.
LEMMA ProcessBatchKeeps ==
    ASSUME CapsuleInv, selected \in Canvases, ProcessBatch
    PROVE  CapsuleInv'
<1> DEFINE x == [kind |-> "Seg", image |-> selected, at |-> "batch", told |-> 0, owed |-> TRUE]
<1>0. newest \in Nat /\ newest + 1 \in Nat \ {0} /\ BatchInv
  BY DEF CapsuleInv, RunsInv
<1>1. begun' = Append(begun, x) /\ newest' = newest + 1 /\ UNCHANGED <<asked, crossed>> /\ batch.run = 0
  BY <1>0 DEF ProcessBatch, Starts, BatchInv
<1>2. x \in CapsuleRuns /\ x.at = "batch" /\ x.kind = "Seg" /\ x.image = selected /\ x.told = 0 /\ x.owed
  BY DEF CapsuleRuns, Lives, Moments
<1>3. Batch \in Nat /\ Late \in Nat
  BY CapsuleAssumption
<1>4. /\ batch' \in BatchStates /\ batch'.left <= batch'.total /\ batch'.going /\ batch'.run = newest'
      /\ batch'.left = Batch /\ batch'.total = Batch
  BY <1>0, <1>1, <1>3 DEF ProcessBatch, BatchStates
<1>5. /\ slot' \in Shown /\ slot'.run = newest + 1 /\ slot'.kind = "Seg"
      /\ slot'.outer = <<0, Batch>> /\ slot'.inner = <<0, 0>> /\ ~slot'.stopping
  <2>1. slot' = [run |-> newest + 1, kind |-> "Seg", outer |-> <<0, Batch>>, inner |-> <<0, 0>>, stopping |-> FALSE]
    BY <1>1 DEF ProcessBatch
  <2>2. <<0, Batch>> \in Counts
    BY <1>3 DEF Counts
  <2> QED BY <1>0, <2>1, <2>2, FirstShown
<1> HIDE DEF x
<1>6. InPlace(x) /\ ShownAs(x) = "Seg"
  BY <1>2 DEF InPlace, ShownAs
<1>7. Tells(x, slot', batch')
  BY <1>2, <1>3, <1>4, <1>5 DEF Tells
<1>8. ~Eraser(newest)'
  <2>1. begun'[newest'] = x
    <3>1. begun \in Seq(CapsuleRuns) /\ Len(begun) = newest
      BY DEF CapsuleInv, RunsInv
    <3> QED BY <1>1, <1>2, <3>1, AppendProperties
  <2> QED BY <1>2, <2>1 DEF Eraser
<1>9. Begins(x)
  BY <1>1, <1>2, <1>5, <1>6, <1>7, <1>8 DEF Begins
<1> QED BY <1>1, <1>2, <1>4, <1>9, BeginsKeeps

----------------------------------------------------------------------------

\* The invariant, with the image shown.
ShowInv == CapsuleInv /\ selected \in Canvases

\* Every step keeps the invariant.
LEMMA CapsuleNextKeeps == ShowInv /\ [CapsuleNext]_capsuleVars => ShowInv'
<1> SUFFICES ASSUME ShowInv, [CapsuleNext]_capsuleVars PROVE ShowInv'
  OBVIOUS
<1>0. CapsuleInv /\ selected \in Canvases
  BY DEF ShowInv
<1>1. CASE UNCHANGED capsuleVars
  BY <1>0, <1>1, SlotStays DEF capsuleVars, ShowInv
<1>2. CASE CapsuleNext
  <2>1. CapsuleInv'
    <3>1. ASSUME NEW r \in DOMAIN begun, Thread(r) PROVE CapsuleInv'
      BY <1>0, <3>1, LookKeeps, WriteKeeps, SendsKeeps, LookToEndKeeps, ClearKeeps DEF Thread
    <3>2. ASSUME NEW r \in DOMAIN begun, Forwards(r) PROVE CapsuleInv'
      BY <1>0, <3>2, DrainKeeps, HelpersKeep, PumpReportKeeps, PumpAnswerKeeps DEF Forwards
    <3>3. CASE Batching
      BY <1>0, <3>3, ItemEndsKeeps, StreamsKeeps, BatchEndsKeeps DEF Batching
    <3>4. ASSUME NEW engine \in {"lama", "sd"}, EraseShown(engine) PROVE CapsuleInv'
      <4> DEFINE a == IF engine = "sd" THEN "helper" ELSE "works"
      <4>1. BeginRun(engine, selected, a) /\ a \in {"works", "helper"} /\ (a = "helper" <=> engine = "sd")
            /\ UNCHANGED <<asked, crossed, batch>> /\ ~ErasedOn(selected)
        BY <3>4 DEF EraseShown, Starts
      <4> HIDE DEF a
      <4> QED BY <1>0, <4>1, BeginRunKeeps
    <3>5. CASE UpscaleShown
      BY <1>0, <3>5, BeginRunKeeps DEF UpscaleShown, Starts
    <3>6. CASE ProcessBatch
      BY <1>0, <3>6, ProcessBatchKeeps
    <3>7. CASE Click \/ Escape \/ \E c \in Canvases : Select(c)
      BY <1>0, <3>7, UserKeeps
    <3> QED BY <1>2, <3>1, <3>2, <3>3, <3>4, <3>5, <3>6, <3>7 DEF CapsuleNext
  <2>2. selected' \in Canvases
    BY <1>0, <1>2 DEF CapsuleNext, Thread, Look, Write, Goes, Sends, LookToEnd, Clear, Forwards, Drain, HelperSends,
       HelperAnswers, PumpReport, PumpAnswer, Batching, ItemEnds, Streams, BatchEnds, BatchStep, EraseShown,
       UpscaleShown, ProcessBatch, Starts, Select, Click, Escape, Orders
  <2> QED BY <2>1, <2>2 DEF ShowInv
<1> QED BY <1>1, <1>2

\* The capsule begins so.
LEMMA CapsuleInitInv == CapsuleInit => ShowInv
<1> SUFFICES ASSUME CapsuleInit PROVE ShowInv
  OBVIOUS
<1>1. begun \in Seq(CapsuleRuns) /\ Len(begun) = 0 /\ newest = 0 /\ slot = Blank /\ batch = NoBatch /\ selected \in Canvases
  BY EmptySeq DEF CapsuleInit
<1>2. RunsInv /\ AloneInv /\ SlotInv /\ ToldInv /\ ShowsTheNewest /\ StoppingIsTold
  BY <1>1 DEF RunsInv, AloneInv, SlotInv, ToldInv, ShowsTheNewest, StoppingIsTold
<1>3. BatchInv
  BY <1>1 DEF BatchInv, BatchStates, NoBatch
<1> QED BY <1>1, <1>2, <1>3 DEF ShowInv, CapsuleInv

\* The share shown lies in the unit that is counted.
LEMMA CountsAreInTheirUnit == CapsuleInv => CountsItsUnit
<1> SUFFICES ASSUME CapsuleInv, slot # Blank, slot.outer # <<>>
    PROVE  /\ NotLess(slot.outer, FlatCounter(slot))
           /\ NotLess(FlatCounter(slot), <<slot.outer[1] + 1, slot.outer[2]>>)
  BY DEF CountsItsUnit
<1>1. slot \in Shown
  BY DEF CapsuleInv, SlotInv
<1>2. slot.outer \in Counts /\ slot.inner \in Counts
  BY <1>1 DEF Shown
<1> DEFINE oc == slot.outer[1]
           ot == slot.outer[2]
           ic == slot.inner[1]
           it == slot.inner[2]
<1>3. oc \in Nat /\ ot \in Nat /\ ic \in Nat /\ it \in Nat /\ oc <= ot /\ ic <= it /\ slot.outer = <<oc, ot>>
  BY <1>2, CountIsAPair
<1>4. FlatCounter(slot) = FlatOf(oc, ot, ic, it)
  BY <1>2, FlatIs
<1> HIDE DEF oc, ot, ic, it
<1> QED BY <1>3, <1>4, FlatInItsUnit DEF oc, ot

\* The invariant is as strong as CapsuleOK.
LEMMA CapsuleInvIsOK == CapsuleInv => CapsuleOK
BY CountsAreInTheirUnit DEF CapsuleOK, CapsuleInv

----------------------------------------------------------------------------
(* The share grows                                                         *)

\* What is shown on two levels grows with them.
LEMMA ShownGrows ==
    ASSUME NEW s \in Shown, NEW t \in Shown, s.outer # <<>>, t.outer # <<>>,
           s.outer[2] = t.outer[2], s.outer[1] <= t.outer[1],
           s.inner[2] = t.inner[2], s.inner[1] <= t.inner[1]
    PROVE  NotLess(FlatCounter(s), FlatCounter(t))
<1>1. s.outer \in Counts /\ s.inner \in Counts /\ t.outer \in Counts /\ t.inner \in Counts
  BY DEF Shown
<1> DEFINE oc == s.outer[1]
           ot == s.outer[2]
           ic == s.inner[1]
           it == s.inner[2]
           od == t.outer[1]
           id == t.inner[1]
<1>2. /\ oc \in Nat /\ ot \in Nat /\ ic \in Nat /\ it \in Nat /\ oc <= ot /\ od \in Nat /\ id \in Nat
      /\ oc <= od /\ od <= ot /\ ic <= id
  BY <1>1, CountIsAPair
<1>3. FlatCounter(s) = FlatOf(oc, ot, ic, it) /\ FlatCounter(t) = FlatOf(od, ot, id, it)
  <2>1. FlatCounter(t) = FlatOf(t.outer[1], t.outer[2], t.inner[1], t.inner[2])
    BY <1>1, FlatIs
  <2> QED BY <1>1, <2>1, FlatIs
<1> HIDE DEF oc, ot, ic, it, od, id
<1> QED BY <1>2, <1>3, FlatGrows

\* And so it does on one.
LEMMA TilesGrow ==
    ASSUME NEW s \in Shown, NEW t \in Shown, s.outer = <<>>,
           \/ s.inner = <<0, 0>>
           \/ t.outer = <<>> /\ s.inner[2] = t.inner[2] /\ s.inner[1] <= t.inner[1]
    PROVE  NotLess(FlatCounter(s), FlatCounter(t))
<1>1. s.inner \in Counts /\ t.inner \in Counts /\ t.outer \in {<<>>} \cup Counts
  BY DEF Shown
<1>2. s.inner[1] \in Nat /\ s.inner[2] \in Nat /\ t.inner[1] \in Nat /\ t.inner[2] \in Nat
  BY <1>1, CountIsAPair
<1>3. FlatCounter(s) = s.inner
  BY DEF FlatCounter
<1>4. CASE s.inner = <<0, 0>>
  <2>1. FlatCounter(t)[1] \in Nat /\ FlatCounter(t)[2] \in Nat
    <3>1. CASE t.outer = <<>>
      BY <1>2, <3>1 DEF FlatCounter
    <3>2. CASE t.outer # <<>>
      <4>1. t.outer \in Counts
        BY <1>1, <3>2
      <4>2. t.outer[1] \in Nat /\ t.outer[2] \in Nat
        BY <4>1, CountIsAPair
      <4>3. t.outer[1] * t.inner[2] + t.inner[1] \in Nat /\ t.outer[2] * t.inner[2] \in Nat
        <5> DEFINE a == t.outer[1]
                   b == t.inner[2]
                   c == t.inner[1]
                   d == t.outer[2]
        <5>1. a \in Nat /\ b \in Nat /\ c \in Nat /\ d \in Nat
          BY <1>2, <4>2
        <5> HIDE DEF a, b, c, d
        <5>2. a * b + c \in Nat /\ d * b \in Nat
          BY <5>1
        <5> QED BY <5>2 DEF a, b, c, d
      <4> QED BY <1>1, <4>1, <4>2, <4>3, FlatIs DEF FlatOf
    <3> QED BY <3>1, <3>2
  <2>2. \A n \in Nat : 0 * n = 0 /\ n * 0 = 0
    OBVIOUS
  <2> QED BY <1>3, <1>4, <2>1, <2>2 DEF NotLess
<1>5. CASE t.outer = <<>> /\ s.inner[2] = t.inner[2] /\ s.inner[1] <= t.inner[1]
  <2>1. FlatCounter(t) = t.inner
    BY <1>5 DEF FlatCounter
  <2> QED BY <1>2, <1>3, <1>5, <2>1, ProductGrows DEF NotLess
<1> QED BY <1>4, <1>5

\* It is the same for the same counts.
LEMMA SameShare ==
    ASSUME NEW s \in Shown, NEW t \in Shown, s.outer = t.outer, s.inner = t.inner
    PROVE  NotLess(FlatCounter(s), FlatCounter(t))
<1>1. s.inner \in Counts /\ s.outer \in {<<>>} \cup Counts
  BY DEF Shown
<1>2. s.inner[1] \in Nat
  BY <1>1, CountIsAPair
<1>3. s.outer # <<>> => s.outer[1] \in Nat
  BY <1>1, CountIsAPair
<1> QED BY <1>2, <1>3, ShownGrows, TilesGrow

\* What a step that reports may do to the share.
Grew ==
    \/ NotLess(FlatCounter(slot), FlatCounter(slot'))
    \/ slot'.inner[1] = 0 /\ slot'.outer # <<>>
    \/ batch'.total > batch.total

\* A report of tiles lets the share grow.
LEMMA WriteGrows ==
    ASSUME CapsuleInv, CapsuleInv', NEW r, Write(r), slot # Blank, slot' # Blank, newest' \notin crossed'
    PROVE  Grew
<1>1. /\ r = newest /\ newest \notin crossed /\ newest' = newest
      /\ r \in DOMAIN begun /\ begun[r].at = "writes"
      /\ begun' = [begun EXCEPT ![r].at = "works", ![r].told = begun[r].told]
  BY DEF Write, Goes, Crosses, Current
<1>2. slot \in Shown /\ slot' \in Shown
  BY DEF CapsuleInv, SlotInv
<1>3. /\ begun[r].told \in Nat /\ begun[r].told >= 1 /\ begun[r].kind # "sd"
      /\ begun[r].told <= Len(Reports(begun[r].kind))
  <2>1. InPlace(begun[r]) /\ begun[r].told \in Nat
    BY <1>1, RunTyped DEF CapsuleInv
  <2> QED BY <1>1, <2>1 DEF InPlace
<1>4. TilesShown(slot, begun[r].told - 1)
  BY <1>1 DEF CapsuleInv, ToldInv, Tells
<1>5. Patches \in Nat /\ begun[r].told \in 1 .. Patches + 1
  BY <1>3, ReportsOfTiles, CapsuleAssumption
<1> DEFINE p == Inner(begun[r].told - 1, Patches)
<1>6. slot' = Applied(slot, p)
  BY <1>3, <1>5, ReportsOfTiles DEF Write
<1>7. p \in Tellings /\ p.level = "inner" /\ p.done = begun[r].told - 1 /\ p.total = Patches
  BY <1>5 DEF Inner, Tellings
<1> HIDE DEF p
<1>8. slot'.outer = slot.outer /\ slot'.inner = <<begun[r].told - 1, Patches>>
  <2>1. /\ Applied(slot, p).outer = IF p.level = "outer" THEN <<p.done, p.total>> ELSE slot.outer
        /\ Applied(slot, p).inner = IF p.level = "outer" THEN slot.inner ELSE <<p.done, p.total>>
    BY <1>2, <1>7, AppliedIs
  <2> QED BY <1>6, <1>7, <2>1
<1> QED BY <1>2, <1>3, <1>4, <1>8, TilesGrow DEF TilesShown, Grew

\* So does one of a stroke of Stable Diffusion.
LEMMA PumpGrows ==
    ASSUME CapsuleInv, CapsuleInv', NEW r, PumpReport(r), slot # Blank, slot' # Blank, newest' \notin crossed'
    PROVE  Grew
<1>1. /\ r \in DOMAIN begun /\ begun[r].at = "child" /\ begun[r].told < Len(Reports("sd"))
      /\ newest \notin crossed /\ newest' = newest /\ begun' = [begun EXCEPT ![r].told = begun[r].told + 1]
  BY DEF PumpReport
<1>2. slot \in Shown /\ slot' \in Shown
  BY DEF CapsuleInv, SlotInv
<1>3. begun[r] \in CapsuleRuns /\ begun[r].told \in Nat /\ RunsInv
  BY <1>1, RunTyped DEF CapsuleInv
<1> DEFINE t == begun[r].told + 1
           p == Reports("sd")[t]
<1>4. begun'[r].told = t
  BY <1>1, <1>3 DEF CapsuleRuns
<1>5. slot' = IF r = newest THEN Applied(slot, p) ELSE slot
  BY <1>4 DEF PumpReport, ReportRun, Current
<1>6. CASE r # newest
  BY <1>2, <1>5, <1>6, SameShare DEF Grew
<1>7. CASE r = newest
  <2>1. SdShown(slot, begun[r].told)
    BY <1>1, <1>7 DEF CapsuleInv, ToldInv, Tells
  <2>2. Crops \in Nat /\ Crops * Unit \in Nat /\ Unit \in Nat /\ Unit > 1 /\ Patches \in Nat
    <3>1. Crops \in Nat /\ Unit \in Nat /\ Unit > 1 /\ Patches \in Nat
      BY CapsuleAssumption DEF Unit
    <3> QED BY <3>1
  <2>3. t \in 1 .. Len(Reports("sd")) /\ Len(Reports("sd")) = Crops * Unit + 1 /\ t \in Nat /\ t - 1 = begun[r].told
    BY <1>1, <1>3, <2>2, ReportsOfCrops
  <2>4. p \in Tellings
    BY <2>3, ReportsAreCounts
  <2>5. p = IF t > Crops * Unit THEN Outer(Crops, Crops)
            ELSE IF (t - 1) % Unit = 0 THEN Outer((t - 1) \div Unit, Crops)
            ELSE Inner(((t - 1) % Unit) - 1, Patches)
    BY <2>3, ReportsOfCrops
  <2>6. /\ slot'.outer = IF p.level = "outer" THEN <<p.done, p.total>> ELSE slot.outer
        /\ slot'.inner = IF p.level = "outer" THEN slot.inner ELSE <<p.done, p.total>>
    BY <1>2, <1>5, <1>7, <2>4, AppliedIs
  <2> DEFINE q == (t - 1) \div Unit
             m == (t - 1) % Unit
             last == Crops * Unit
  <2>7. slot.outer \in {<<>>} \cup Counts /\ slot.inner \in Counts
    BY <1>2 DEF Shown
  <2>8. CASE t = 1
    BY <1>2, <2>1, <2>3, <2>8, TilesGrow DEF SdShown, Grew
  <2>9. CASE t > 1
    <3>1. /\ slot.outer \in Counts /\ slot.outer # <<>> /\ slot.outer[2] = Crops
          /\ slot.outer[1] <= (t - 2) \div Unit
          /\ t - 1 <= Crops * Unit /\ (t - 2) % Unit # 0 => slot.inner = <<((t - 2) % Unit) - 1, Patches>>
      <4>1. begun[r].told # 0 /\ begun[r].told - 1 = t - 2
        BY <1>3, <2>3, <2>9
      <4> QED BY <2>1, <2>3, <2>7, <4>1 DEF SdShown
    <3>2. slot.outer[1] \in Nat /\ slot.outer[1] <= Crops /\ slot.inner[1] \in Nat /\ slot.inner[2] \in Nat
      BY <2>7, <3>1, CountIsAPair
    <3>3. CASE t > last
      <4>1. p.level = "outer" /\ p.done = Crops /\ p.total = Crops
        BY <2>5, <3>3 DEF Outer
      <4>2. slot'.outer = <<Crops, Crops>> /\ slot'.inner = slot.inner
        BY <2>6, <4>1
      <4> QED BY <1>2, <2>2, <3>1, <3>2, <4>2, ShownGrows DEF Grew
    <3>4. CASE ~(t > last)
      <4>1. t \in 1 .. Crops * Unit
        BY <2>2, <2>3, <3>4
      <4>2. q \in 0 .. Crops - 1 /\ m \in 0 .. Patches + 1
        BY <4>1, CropOf
      <4>3. \/ m = 0 /\ (t - 2) \div Unit <= q
            \/ m = ((t - 2) % Unit) + 1
        BY <4>1, <2>9, NextCrop
      <4>5. (t - 2) \div Unit \in Nat /\ (t - 2) % Unit \in Nat
        <5>1. t - 2 \in Nat
          BY <2>3, <2>9
        <5> QED BY <2>2, <5>1
      <4>6. CASE m = 0 /\ (t - 2) \div Unit <= q
        <5>1. p.level = "outer" /\ p.done = q /\ p.total = Crops
          BY <2>5, <3>4, <4>6 DEF Outer
        <5>2. slot'.outer = <<q, Crops>> /\ slot'.inner = slot.inner
          BY <2>6, <5>1
        <5>3. slot.outer[1] <= q
          <6> HIDE DEF q
          <6> QED BY <3>1, <3>2, <4>2, <4>5, <4>6
        <5> QED BY <1>2, <2>2, <3>1, <3>2, <5>2, <5>3, ShownGrows DEF Grew
      <4>7. CASE m # 0 /\ m = ((t - 2) % Unit) + 1
        <5>1. p.level = "inner" /\ p.done = m - 1 /\ p.total = Patches
          BY <2>5, <3>4, <4>7 DEF Inner
        <5>2. slot'.outer = slot.outer /\ slot'.inner = <<m - 1, Patches>>
          BY <2>6, <5>1
        <5>3. CASE m = 1
          BY <3>1, <5>2, <5>3 DEF Grew
        <5>4. CASE m # 1
          <6> DEFINE k == (t - 2) % Unit
          <6>1. k # 0 /\ k = m - 1 /\ t - 1 <= Crops * Unit
            BY <2>2, <4>1, <4>2, <4>5, <4>7, <5>4
          <6>2. slot.inner = <<k - 1, Patches>>
            BY <3>1, <6>1
          <6>3. m \in Nat /\ k \in Nat
            BY <4>2, <4>5
          <6> HIDE DEF k, m
          <6>4. slot.inner[1] <= slot'.inner[1] /\ slot.inner[2] = slot'.inner[2]
            BY <5>2, <6>1, <6>2, <6>3
          <6>5. slot'.outer = slot.outer
            BY <5>2
          <6> QED BY <1>2, <3>1, <3>2, <6>4, <6>5, ShownGrows DEF Grew
        <5> QED BY <5>3, <5>4
      <4> QED BY <4>2, <4>3, <4>5, <4>6, <4>7
    <3> QED BY <3>3, <3>4
  <2> QED BY <2>3, <2>8, <2>9
<1> QED BY <1>6, <1>7

\* So does an item of the batch that is done.
LEMMA BatchGrows ==
    ASSUME CapsuleInv, CapsuleInv', Batching, slot # Blank, slot' # Blank, newest' \notin crossed'
    PROVE  Grew
<1>0. SlotInv /\ BatchInv /\ ToldInv /\ slot \in Shown /\ slot' \in Shown /\ newest \in 1 .. newest
  BY DEF CapsuleInv, SlotInv, RunsInv, Shown
<1>1. newest' = newest /\ crossed' = crossed
  BY DEF Batching, ItemEnds, Streams, BatchEnds, BatchStep
<1>2. CASE slot' = slot
  BY <1>0, <1>2, SameShare DEF Grew
<1>3. CASE batch'.total > batch.total
  BY <1>3 DEF Grew
<1>4. CASE ItemEnds /\ slot' # slot
  <2> DEFINE b == [batch EXCEPT !.left = @ - 1]
             p == Count(b)
  <2>1. batch' = b /\ slot' = Applied(slot, p) /\ newest = batch.run
    BY <1>4 DEF ItemEnds, BatchStep, ReportRun, EndRun, Current
  <2>2. /\ batch.left \in Nat /\ batch.total \in Nat /\ batch.left <= batch.total /\ batch.left > 0
        /\ batch \in BatchStates
    BY <1>0, <1>4, BatchTyped DEF ItemEnds
  <2>3. b.left = batch.left - 1 /\ b.total = batch.total
    BY <2>2 DEF BatchStates
  <2>4. p \in Tellings /\ p.level = "outer" /\ p.done = (batch.total - batch.left) + 1 /\ p.total = batch.total
    <3>1. b.total - b.left = (batch.total - batch.left) + 1 /\ b.total - b.left \in Nat /\ b.total - b.left <= b.total
      BY <2>2, <2>3
    <3> HIDE DEF b
    <3> QED BY <2>2, <2>3, <3>1 DEF Count, Outer, Tellings
  <2> HIDE DEF b, p
  <2>5. begun[newest].at = "batch"
    BY <1>0, <2>1 DEF BatchInv
  <2>6. slot.outer = <<batch.total - batch.left, batch.total>> /\ slot.inner = <<0, 0>>
    BY <1>0, <1>1, <2>5 DEF ToldInv, Tells
  <2>7. slot'.outer = <<(batch.total - batch.left) + 1, batch.total>> /\ slot'.inner = <<0, 0>>
    <3>1. /\ Applied(slot, p).outer = IF p.level = "outer" THEN <<p.done, p.total>> ELSE slot.outer
          /\ Applied(slot, p).inner = IF p.level = "outer" THEN slot.inner ELSE <<p.done, p.total>>
      BY <1>0, <2>4, AppliedIs
    <3> QED BY <2>1, <2>4, <2>6, <3>1
  <2> DEFINE d == batch.total - batch.left
  <2>8. d \in Nat
    BY <2>2
  <2> HIDE DEF d
  <2>9. slot.outer # <<>> /\ slot'.outer # <<>> /\ slot.outer[1] <= slot'.outer[1] /\ slot.outer[2] = slot'.outer[2]
    BY <2>6, <2>7, <2>8 DEF d
  <2>10. slot.inner[1] <= slot'.inner[1] /\ slot.inner[2] = slot'.inner[2]
    BY <2>6, <2>7
  <2> QED BY <1>0, <2>9, <2>10, ShownGrows DEF Grew
<1>5. CASE Streams /\ slot' # slot
  <2>1. batch' = [[batch EXCEPT !.late = @ - 1] EXCEPT !.left = @ + 1, !.total = @ + 1]
    BY <1>5 DEF Streams, BatchStep
  <2>2. batch \in BatchStates /\ batch.total \in Nat
    BY <1>0, BatchTyped
  <2>3. batch'.total = batch.total + 1
    BY <2>1, <2>2 DEF BatchStates
  <2> QED BY <2>2, <2>3 DEF Grew
<1>6. CASE BatchEnds /\ slot' # slot
  BY <1>6 DEF BatchEnds, EndRun
<1> QED BY <1>2, <1>4, <1>5, <1>6 DEF Batching

\* Every step of the capsule does.
LEMMA NextGrows ==
    ASSUME CapsuleInv, CapsuleInv', [CapsuleNext]_capsuleVars,
           slot # Blank, slot' # Blank, slot'.run = slot.run, newest' \notin crossed'
    PROVE  Grew
<1>0. SlotInv /\ slot \in Shown /\ slot' \in Shown /\ slot'.run = newest' /\ slot.run = newest /\ newest \in Nat
  BY DEF CapsuleInv, SlotInv, RunsInv
<1>1. CASE slot'.outer = slot.outer /\ slot'.inner = slot.inner
  BY <1>0, <1>1, SameShare DEF Grew
<1>2. CASE UNCHANGED capsuleVars
  BY <1>1, <1>2 DEF capsuleVars
<1>3. ASSUME NEW r \in DOMAIN begun, Thread(r) PROVE Grew
  <2>1. CASE Write(r)
    BY <2>1, WriteGrows
  <2>2. CASE Look(r) \/ Sends(r) \/ LookToEnd(r)
    BY <1>1, <2>2 DEF Look, Sends, LookToEnd
  <2>3. CASE Clear(r)
    BY <2>3 DEF Clear
  <2> QED BY <1>3, <2>1, <2>2, <2>3 DEF Thread
<1>4. ASSUME NEW r \in DOMAIN begun, Forwards(r) PROVE Grew
  <2>1. CASE PumpReport(r)
    BY <2>1, PumpGrows
  <2>2. CASE Drain(r) \/ HelperSends(r) \/ HelperAnswers(r) \/ PumpAnswer(r)
    BY <1>1, <2>2 DEF Drain, HelperSends, HelperAnswers, PumpAnswer, EndRun
  <2> QED BY <1>4, <2>1, <2>2 DEF Forwards
<1>5. CASE Batching
  BY <1>5, BatchGrows
<1>6. newest' # newest + 1
  <2>1. newest' = newest
    BY <1>0
  <2> QED BY <1>0, <2>1
<1>7. CASE (\E engine \in {"lama", "sd"} : EraseShown(engine)) \/ UpscaleShown \/ ProcessBatch
  BY <1>6, <1>7 DEF EraseShown, UpscaleShown, BeginRun, ProcessBatch
<1>8. CASE Click \/ Escape \/ \E c \in Canvases : Select(c)
  <2>1. \A k : slot' = MarkCancelling(k) => slot'.outer = slot.outer /\ slot'.inner = slot.inner
    BY <1>0, MarkedIs
  <2>2. \/ slot' = slot \/ slot' = Blank
        \/ slot' = MarkCancelling("Inpaint") \/ slot' = MarkCancelling("Upscale")
    BY <1>8 DEF Click, Escape, Select, StopStroke, StopUpscale, StopEverything
  <2> QED BY <1>1, <2>1, <2>2
<1> QED BY <1>2, <1>3, <1>4, <1>5, <1>7, <1>8 DEF CapsuleNext

----------------------------------------------------------------------------
(* The click                                                               *)

\* Two runs of a set are more than one.
LEMMA TwoOfThem ==
    ASSUME RunsInv, NEW S, S \subseteq DOMAIN begun, NEW a \in S, NEW b \in S, a # b
    PROVE  Cardinality(S) > 1
<1>1. newest \in Nat /\ DOMAIN begun = 1 .. newest
  BY RunsDomain
<1>2. IsFiniteSet(S)
  <2>1. IsFiniteSet(1 .. newest)
    BY <1>1, FS_Interval
  <2> QED BY <1>1, <2>1, FS_Subset
<1>3. Cardinality({a}) = 1 /\ IsFiniteSet({a})
  BY FS_Singleton
<1>4. IsFiniteSet(S \ {a}) /\ Cardinality(S \ {a}) = Cardinality(S) - 1
  BY <1>2, FS_RemoveElement
<1>5. Cardinality(S) \in Nat /\ Cardinality(S \ {a}) \in Nat
  BY <1>2, <1>4, FS_CardinalityType
<1>6. Cardinality(S \ {a}) # 0
  BY <1>4, FS_EmptySet
<1> QED BY <1>4, <1>5, <1>6

\* A click stops the run that is shown.
LEMMA ClickStops ==
    ASSUME CapsuleInv, Click
    PROVE  \/ slot.kind = "Seg"
           \/ asked' = asked \cup {slot.run}
           \/ Cardinality(Strokes(Canvases)) > 1 /\ asked' = asked \cup Strokes({selected})
           \/ Dropped(slot.run)
<1>0. RunsInv /\ SlotInv /\ AloneInv /\ slot # Blank
  BY DEF CapsuleInv, Click
<1>1. /\ slot.run = newest /\ slot.kind = ShownAs(begun[newest]) /\ begun[newest].at # "over" /\ slot \in Shown
      /\ newest \in DOMAIN begun /\ DOMAIN begun = 1 .. newest /\ newest \in Nat
  BY <1>0, RunsDomain DEF SlotInv, Shown
<1>2. begun[newest].kind \in Lives /\ InPlace(begun[newest]) /\ begun[newest].image \in Canvases
  BY <1>0, <1>1, RunTyped
<1>3. CASE slot.kind = "Upscale" /\ Upscaling /\ StopUpscale
  BY <1>0, <1>1, <1>3, UpscaleShownIsOwed DEF StopUpscale
<1>4. CASE slot.kind = "Inpaint" /\ Target(selected) /\ StopStroke(selected)
  <2>1. asked' = asked \cup Strokes({selected})
    BY <1>4 DEF StopStroke
  <2>2. CASE Dropped(newest)
    BY <1>1, <2>2
  <2>3. CASE ~Dropped(newest)
    <3>1. newest \in Strokes(Canvases)
      <4>1. Eraser(newest) /\ begun[newest].owed
        BY <1>1, <1>2, <1>4, <2>3 DEF ShownAs, Eraser, Lives, InPlace, Dropped
      <4> QED BY <1>1, <1>2, <4>1 DEF Strokes
    <3>2. PICK s \in DOMAIN begun : Eraser(s) /\ begun[s].image = selected /\ begun[s].owed
      BY <1>4 DEF Target, ErasedOn
    <3>3. Strokes({selected}) = {s}
      <4>1. \A r \in DOMAIN begun : Eraser(r) /\ begun[r].owed /\ begun[r].image = selected => r = s
        BY <1>0, <1>1, <3>2 DEF AloneInv
      <4> QED BY <3>2, <4>1 DEF Strokes
    <3>4. s \in Strokes(Canvases)
      <4>1. begun[s].image \in Canvases
        BY <1>0, <3>2, RunTyped
      <4> QED BY <3>2, <4>1 DEF Strokes
    <3>5. s # newest => Cardinality(Strokes(Canvases)) > 1
      <4>1. Strokes(Canvases) \subseteq DOMAIN begun
        BY DEF Strokes
      <4> DEFINE S == Strokes(Canvases)
      <4> HIDE DEF S
      <4>2. S \subseteq DOMAIN begun /\ newest \in S /\ s \in S
        BY <3>1, <3>4, <4>1 DEF S
      <4>3. s # newest => Cardinality(S) > 1
        BY <1>0, <4>2, TwoOfThem
      <4> QED BY <4>3 DEF S
    <3> QED BY <1>1, <2>1, <3>3, <3>5
  <2> QED BY <2>2, <2>3
<1> QED BY <1>3, <1>4 DEF Click

\* What a step may do to what is told.
LEMMA NextTells ==
    ShowInv /\ ShowInv' /\ [CapsuleNext]_capsuleVars
        => /\ Click => \/ slot.kind = "Seg"
                       \/ asked' = asked \cup {slot.run}
                       \/ Cardinality(Strokes(Canvases)) > 1 /\ asked' = asked \cup Strokes({selected})
                       \/ Dropped(slot.run)
           /\ slot # Blank /\ slot' # Blank /\ slot'.run = slot.run /\ newest' \notin crossed' =>
                 \/ NotLess(FlatCounter(slot), FlatCounter(slot'))
                 \/ slot'.inner[1] = 0 /\ slot'.outer # <<>>
                 \/ batch'.total > batch.total
<1> SUFFICES ASSUME ShowInv, ShowInv', [CapsuleNext]_capsuleVars
    PROVE  /\ Click => \/ slot.kind = "Seg"
                       \/ asked' = asked \cup {slot.run}
                       \/ Cardinality(Strokes(Canvases)) > 1 /\ asked' = asked \cup Strokes({selected})
                       \/ Dropped(slot.run)
           /\ slot # Blank /\ slot' # Blank /\ slot'.run = slot.run /\ newest' \notin crossed' => Grew
  BY DEF Grew
<1>1. CapsuleInv /\ CapsuleInv'
  BY DEF ShowInv
<1> QED BY <1>1, ClickStops, NextGrows

----------------------------------------------------------------------------
(* Theorems                                                                *)

\* It begins so.
LEMMA InitInv == Init => AppInv
BY BeginInv, BatchAppAssumption DEF Init

\* Whatever the user cancels, edits, undoes or removes, and whatever becomes of the
\* bridge and its batches: every whole image that the bridge has to do is paid for, and
\* what stays paid for beyond that belongs to an image the user changed or whose file is
\* gone (item.rs, processor.rs, memory.rs).
THEOREM MemoryAccounted ==
    ASSUME ~Impatient
    PROVE  Spec => []AppOK
<1>1. AppInv /\ [Next]_vars => AppInv'
  BY NextKeeps
<1> QED BY <1>1, InitInv, AppInvIsOK, PTL DEF Spec

\* No image is with the bridge twice, on any of the ways there.
THEOREM SentOnceEach ==
    ASSUME ~Impatient
    PROVE  Spec => []SentOnce
<1>1. AppInv /\ [Next]_vars => AppInv'
  BY NextKeeps
<1> QED BY <1>1, InitInv, AppInvSendsOnce, PTL DEF Spec

\* Whatever the window calls of it and in whatever order, the controller is in order.
THEOREM ControllerKept ==
    ASSUME ~Impatient
    PROVE  Spec => []ControllerOK
<1>1. AppInv /\ [Next]_vars => AppInv'
  BY NextKeeps
<1>2. AppInv => ControllerOK
  BY DEF AppInv, ProcTypes, Sound, ControllerOK
<1> QED BY <1>1, <1>2, InitInv, PTL DEF Spec

\* A result lands on the state it was made from (app.rs:2873), unless the controller of
\* a batch that the bridge gave up on is still there.
THEOREM LandsWhereItBelongs ==
    ASSUME ~Impatient
    PROVE  Spec => LandsOnItsState
<1>1. AppInv /\ [Next]_vars => AppInv'
  BY NextKeeps
<1>2. AppInv => [ItemLanded /\ window \notin over => Answer.item \notin adrift]_vars
  <2> SUFFICES ASSUME AppInv, ItemLanded, window \notin over PROVE Answer.item \notin adrift
    OBVIOUS
  <2>1. results # <<>> /\ Answer.type = "ItemDone" /\ Awaited(Answer.item)
    BY DEF ItemLanded, HasAnswer
  <2>2. Answer.item \in Underway
    BY <2>1, ReadOne DEF Underway
  <2> QED BY <2>1, <2>2 DEF AppInv, AwaitInv
<1> QED BY <1>1, <1>2, InitInv, PTL DEF Spec, LandsOnItsState

\* The window, in one.
WindowInv == AppInv /\ ShowInv

\* The window begins so.
LEMMA WindowInit == AppInit => WindowInv
<1> SUFFICES ASSUME AppInit PROVE WindowInv
  OBVIOUS
<1>1. ShowInv
  BY CapsuleInitInv DEF AppInit
<1>2. MaxRuns \in Nat /\ 0 \in 0 .. MaxRuns /\ 1 \in 0 .. MaxRuns /\ MaxRuns \in 0 .. MaxRuns
  BY BatchAppAssumption, WindowAssumption
<1>3. TwoImages \in SUBSET Images /\ ThreeImages \in SUBSET Images
  BY WindowAssumption DEF TwoImages, ThreeImages
<1>4. ASSUME NEW images \in {TwoImages, ThreeImages}, NEW r \in 0 .. MaxRuns, NEW n, Begin(images, r, n) PROVE AppInv
  BY <1>3, <1>4, BeginInv
<1>5. \/ Begin(TwoImages, 0, 0) \/ Begin(ThreeImages, 1, 0) \/ Begin(ThreeImages, 0, 1)
      \/ Begin(TwoImages, MaxRuns, MaxSteps)
  BY DEF AppInit, SmallInit
<1>6. AppInv
  BY <1>2, <1>4, <1>5
<1> QED BY <1>1, <1>6 DEF WindowInv

\* Every step of either part keeps both invariants.
LEMMA WindowNext ==
    ASSUME ~Impatient
    PROVE  WindowInv /\ [AppNext]_appVars => WindowInv'
<1> SUFFICES ASSUME WindowInv, [AppNext]_appVars PROVE WindowInv'
  OBVIOUS
<1>1. [Next]_vars /\ [CapsuleNext]_capsuleVars
  BY DEF AppNext, appVars
<1>2. AppInv'
  BY <1>1, NextKeeps DEF WindowInv
<1>3. ShowInv'
  BY <1>1, CapsuleNextKeeps DEF WindowInv
<1> QED BY <1>2, <1>3 DEF WindowInv

\* Memory is accounted for and the capsule shows what it should, for any number of
\* images, runs, crops and tiles: what is shown is the run begun last and that is still
\* going on, it says that a run is stopping when one has been told to, and its share
\* lies in the unit that is counted (dispatch_progress.rs, app.rs).
THEOREM WindowKept ==
    ASSUME ~Impatient
    PROVE  AppSpec => []WindowOK
<1>1. WindowInv => WindowOK
  BY AppInvIsOK, CapsuleInvIsOK DEF WindowInv, WindowOK, ShowInv
<1>2. WindowInv /\ [AppNext]_appVars => WindowInv'
  BY WindowNext
<1> QED BY <1>1, <1>2, WindowInit, PTL DEF AppSpec

\* A click stops the run the capsule shows, and the share shown of a run grows but where
\* a new unit begins its own count or an image joins the batch (dispatch_progress.rs:36
\* and 225, processor.rs, app.rs).
THEOREM CapsuleToldTrue == AppSpec => CapsuleTells
<1>1. AppInit => ShowInv
  BY CapsuleInitInv DEF AppInit
<1>2. [AppNext]_appVars => [CapsuleNext]_capsuleVars
  BY DEF AppNext, appVars
<1>3. ShowInv /\ [CapsuleNext]_capsuleVars => ShowInv'
  BY CapsuleNextKeeps
<1>4. ShowInv /\ ShowInv' /\ [CapsuleNext]_capsuleVars =>
        [Click => \/ slot.kind = "Seg"
                  \/ asked' = asked \cup {slot.run}
                  \/ Cardinality(Strokes(Canvases)) > 1 /\ asked' = asked \cup Strokes({selected})
                  \/ Dropped(slot.run)]_capsuleVars
  BY NextTells
<1>5. ShowInv /\ ShowInv' /\ [CapsuleNext]_capsuleVars =>
        [slot # Blank /\ slot' # Blank /\ slot'.run = slot.run /\ newest' \notin crossed' =>
            \/ NotLess(FlatCounter(slot), FlatCounter(slot'))
            \/ slot'.inner[1] = 0 /\ slot'.outer # <<>>
            \/ batch'.total > batch.total]_capsuleVars
  BY NextTells
<1> QED BY <1>1, <1>2, <1>3, <1>4, <1>5, PTL DEF AppSpec, CapsuleTells, ClickStopsTheShown, ShareGrows
=============================================================================
