-------------------------- MODULE PartProofs --------------------------
(***************************************************************************)
(* The parts that work by themselves (MCParts), for every value of the     *)
(* constants: the weighted semaphore loses no wakeup and no unit, an       *)
(* answer ends the wait for its own run, a preview lands on the state it   *)
(* was computed for, one download and one encode are under way at a time,  *)
(* and a retune replaces its own stroke and no other.                      *)
(***************************************************************************)
EXTENDS MCParts, CollectionTheorems, TLAPS

\* A thread waits exactly while it stands in the queue.
QueuedInv == \A t \in Threads : (t \in Range(waiters)) <=> (at[t] \in {"parked", "woken"})

SemInv == SemTypeOK /\ QueuedInv /\ NoLostWakeup

\* `line` is what the queue looks like to t, and wt what everybody wants: the
\* two ways to look at it, on arrival and when woken.
Looking(t, stand, wt) ==
    /\ stand \in Seq(Threads) /\ wt \in [Threads -> Nat]
    /\ Range(stand) = Range(waiters) \cup {t}
    /\ stand # <<>>
    /\ \A s \in (Threads \ {t}) \cup Range(waiters) : wt[s] = want[s]
    /\ waiters # <<>> => Head(stand) = Head(waiters)

----------------------------------------------------------------------------
(* The queue as a thread sees it                                           *)

\* An arriving thread sees the queue with itself at the end.
LEMMA ArrivalLooks ==
    ASSUME SemTypeOK, QueuedInv, NEW t \in Threads, NEW w \in Weights, at[t] = "out"
    PROVE  Looking(t, Append(waiters, t), [want EXCEPT ![t] = Capped(w)])
<1> DEFINE stand == Append(waiters, t)
           wt   == [want EXCEPT ![t] = Capped(w)]
<1>1. waiters \in Seq(Threads) /\ want \in [Threads -> Nat]
  BY DEF SemTypeOK
<1>2. Capped(w) \in Nat
  BY SemaphoreAssumption DEF Capped, Lesser
<1>3. stand \in Seq(Threads) /\ Range(stand) = Range(waiters) \cup {t}
  BY <1>1, AppendItems
<1>4. stand # <<>> /\ (waiters # <<>> => Head(stand) = Head(waiters))
  BY <1>1
<1>5. wt \in [Threads -> Nat] /\ \A s \in Threads \ {t} : wt[s] = want[s]
  BY <1>1, <1>2
<1>6. t \notin Range(waiters) /\ Range(waiters) \subseteq Threads
  BY <1>1, RangeOfSeq DEF QueuedInv
<1> QED BY <1>3, <1>4, <1>5, <1>6 DEF Looking

\* A woken thread sees the queue as it is.
LEMMA RecheckLooks ==
    ASSUME SemTypeOK, QueuedInv, NEW t \in Threads, at[t] = "woken"
    PROVE  Looking(t, waiters, want)
<1>1. waiters \in Seq(Threads) /\ want \in [Threads -> Nat]
  BY DEF SemTypeOK
<1>2. t \in Range(waiters)
  BY DEF QueuedInv
<1>3. waiters # <<>>
  BY <1>1, <1>2, RangeOfSeq DEF Range
<1> QED BY <1>1, <1>2, <1>3 DEF Looking

\* Notifying everybody leaves nobody parked, and moves nobody else.
LEMMA NobodySleeps ==
    ASSUME SemTypeOK
    PROVE  /\ Notified \in [Threads -> {"out", "woken", "in"}]
           /\ \A s \in Threads : (Notified[s] = "woken") <=> (at[s] \in {"parked", "woken"})
BY DEF SemTypeOK, Notified

----------------------------------------------------------------------------
(* The two outcomes of a look                                              *)

\* A thread that goes leaves everybody else awake and the queue without it.
LEMMA TakeKeeps ==
    ASSUME SemInv, NEW t \in Threads, NEW stand, NEW wt,
           Looking(t, stand, wt), Take(t, stand, wt), want' = wt
    PROVE  SemInv'
<1>1. /\ stand \in Seq(Threads) /\ wt \in [Threads -> Nat]
      /\ Range(stand) = Range(waiters) \cup {t} /\ stand # <<>>
  BY DEF Looking
<1>2. Head(stand) \in Threads
  BY <1>1, TailItems
<1>3. units' \in Nat
  <2>1. units \in Nat /\ wt[t] \in Nat /\ wt[Head(stand)] \in Nat
    BY <1>1, <1>2 DEF SemInv, SemTypeOK
  <2>2. units' = units - wt[t] /\ CanGo(t, stand, wt)
    BY DEF Take
  <2> QED BY <2>1, <2>2 DEF CanGo
<1>4. waiters' \in Seq(Threads) /\ Range(waiters') = Range(waiters) \ {t}
  BY <1>1, WithoutItems DEF Take
<1>5. /\ at' \in [Threads -> {"out", "woken", "in"}]
      /\ at'[t] = "in"
      /\ \A s \in Threads \ {t} : (at'[s] = "woken") <=> (at[s] \in {"parked", "woken"})
  BY NobodySleeps DEF SemInv, Take
<1>6. SemTypeOK'
  BY <1>1, <1>3, <1>4, <1>5 DEF SemTypeOK
<1>7. QueuedInv'
  BY <1>4, <1>5 DEF SemInv, QueuedInv
<1>8. NoLostWakeup'
  BY <1>5 DEF NoLostWakeup
<1> QED BY <1>6, <1>7, <1>8 DEF SemInv

\* A thread that parks could not go, and those already parked still cannot.
LEMMA ParkKeeps ==
    ASSUME SemInv, NEW t \in Threads, NEW stand, NEW wt,
           Looking(t, stand, wt), Park(t, stand, wt), want' = wt
    PROVE  SemInv'
<1>1. /\ stand \in Seq(Threads) /\ wt \in [Threads -> Nat]
      /\ Range(stand) = Range(waiters) \cup {t} /\ stand # <<>>
  BY DEF Looking
<1>2. units' = units /\ waiters' = stand /\ at' = [at EXCEPT ![t] = "parked"] /\ ~CanGo(t, stand, wt)
  BY DEF Park
<1>3. SemTypeOK'
  BY <1>1, <1>2 DEF SemInv, SemTypeOK
<1>4. QueuedInv'
  BY <1>1, <1>2 DEF SemInv, SemTypeOK, QueuedInv
<1>5. NoLostWakeup'
  <2> SUFFICES ASSUME NEW s \in Threads, at'[s] = "parked"
               PROVE  ~CanGo(s, waiters, want)'
    BY DEF NoLostWakeup
  <2>1. CASE s = t
    BY <2>1, <1>2 DEF CanGo
  <2>2. CASE s # t
    <3>1. at[s] = "parked"
      BY <2>2, <1>2 DEF SemInv, SemTypeOK
    <3>2. ~CanGo(s, waiters, want)
      BY <3>1 DEF SemInv, NoLostWakeup
    <3>3. s \in Range(waiters)
      BY <3>1 DEF SemInv, QueuedInv
    <3>4. waiters \in Seq(Threads) /\ waiters # <<>>
      BY <3>3 DEF SemInv, SemTypeOK, Range
    <3>5. Head(stand) = Head(waiters) /\ Head(waiters) \in Range(waiters)
      BY <3>4, TailItems DEF Looking
    <3>6. wt[s] = want[s] /\ wt[Head(waiters)] = want[Head(waiters)]
      BY <3>3, <3>5 DEF Looking
    <3> QED BY <3>2, <3>5, <3>6, <1>2 DEF CanGo
  <2> QED BY <2>1, <2>2
<1> QED BY <1>3, <1>4, <1>5 DEF SemInv
----------------------------------------------------------------------------
(* The invariant                                                           *)

\* Before the first call nobody waits, and every unit is there.
LEMMA SemInvInit == SemInit => SemInv
<1> SUFFICES ASSUME SemInit PROVE SemInv
  OBVIOUS
<1>1. SemTypeOK
  BY SemaphoreAssumption DEF SemInit, SemTypeOK
<1>2. QueuedInv
  BY DEF SemInit, QueuedInv, Range
<1>3. NoLostWakeup
  BY DEF SemInit, NoLostWakeup
<1> QED BY <1>1, <1>2, <1>3 DEF SemInv

\* Each step keeps it; a release wakes everybody and leaves the queue alone.
LEMMA SemInvStep == SemInv /\ [SemNext]_semVars => SemInv'
<1> SUFFICES ASSUME SemInv, [SemNext]_semVars PROVE SemInv'
  OBVIOUS
<1>1. ASSUME NEW t \in Threads, NEW w \in Weights, Arrive(t, w) PROVE SemInv'
  <2>1. Looking(t, Append(waiters, t), want')
    BY <1>1, ArrivalLooks DEF SemInv, Arrive
  <2> QED BY <1>1, <2>1, TakeKeeps, ParkKeeps DEF Arrive
<1>2. ASSUME NEW t \in Threads, Recheck(t) PROVE SemInv'
  <2>1. Looking(t, waiters, want)
    BY <1>2, RecheckLooks DEF SemInv, Recheck
  <2> QED BY <1>2, <2>1, TakeKeeps, ParkKeeps DEF Recheck
<1>3. ASSUME NEW t \in Threads, WakeUp(t) PROVE SemInv'
  <2>1. SemTypeOK'
    BY <1>3 DEF SemInv, SemTypeOK, WakeUp
  <2>2. QueuedInv'
    BY <1>3 DEF SemInv, SemTypeOK, QueuedInv, WakeUp
  <2>3. NoLostWakeup'
    BY <1>3 DEF SemInv, SemTypeOK, NoLostWakeup, CanGo, WakeUp
  <2> QED BY <2>1, <2>2, <2>3 DEF SemInv
<1>4. ASSUME NEW t \in Threads, Release(t) PROVE SemInv'
  <2>1. /\ at' \in [Threads -> {"out", "woken", "in"}]
        /\ at'[t] = "out" /\ at[t] = "in"
        /\ \A s \in Threads \ {t} : (at'[s] = "woken") <=> (at[s] \in {"parked", "woken"})
    BY <1>4, NobodySleeps DEF SemInv, Release
  <2>2. SemTypeOK'
    BY <1>4, <2>1 DEF SemInv, SemTypeOK, Release, Returned
  <2>3. QueuedInv'
    BY <1>4, <2>1 DEF SemInv, QueuedInv, Release
  <2>4. NoLostWakeup'
    BY <2>1 DEF NoLostWakeup
  <2> QED BY <2>2, <2>3, <2>4 DEF SemInv
<1>5. CASE UNCHANGED semVars
  BY <1>5 DEF semVars, SemInv, SemTypeOK, QueuedInv, NoLostWakeup, CanGo
<1> QED BY <1>1, <1>2, <1>3, <1>4, <1>5 DEF SemNext

\* Threads that sleep cannot go, and the queue holds exactly those that wait:
\* the inductive invariant of `acquire` and SemaphoreGuard::drop.
THEOREM WaitersAccounted == SemSpec => []SemInv
BY SemInvInit, SemInvStep, PTL DEF SemSpec

\* The semaphore's state is well-typed; units_remaining, a usize, never wraps.
THEOREM UnitsNeverNegative == SemSpec => []SemTypeOK
<1>1. SemInv => SemTypeOK
  BY DEF SemInv
<1> QED BY <1>1, WaitersAccounted, PTL

\* `acquire` and SemaphoreGuard::drop notify whenever a sleeping thread could go.
THEOREM WakeupsKept == SemSpec => []NoLostWakeup
<1>1. SemInv => NoLostWakeup
  BY DEF SemInv
<1> QED BY <1>1, WaitersAccounted, PTL

----------------------------------------------------------------------------
(* Room for the head                                                       *)

HeadIsSafe ==
    (waiters # <<>> /\ waiters' # <<>> /\ Head(waiters') = Head(waiters))
        => (units >= want[Head(waiters)] => units' >= want'[Head(waiters)])

\* A thread that goes and leaves the head where it is leaves its units too.
LEMMA TakeLeavesRoom ==
    ASSUME SemInv, NEW t \in Threads, NEW stand, NEW wt,
           Looking(t, stand, wt), Take(t, stand, wt), want' = wt
    PROVE  HeadIsSafe
<1> SUFFICES ASSUME waiters # <<>>, waiters' # <<>>, Head(waiters') = Head(waiters)
             PROVE  units' >= want'[Head(waiters)]
  BY DEF HeadIsSafe
<1>1. stand \in Seq(Threads) /\ wt \in [Threads -> Nat] /\ Head(stand) = Head(waiters)
  BY DEF Looking
<1>2. waiters' \in Seq(Threads) /\ t \notin Range(waiters')
  BY <1>1, WithoutItems DEF Take
<1>3. Head(waiters) # t /\ Head(waiters) \in Threads
  BY <1>2, TailItems
<1> QED BY <1>1, <1>3 DEF Take, CanGo, SemInv, SemTypeOK

\* Nobody takes the room the head of the queue has (the rule behind "a giant
\* image isn't repeatedly skipped past", worker_process.rs:26).
THEOREM HeadKeepsRoom == SemSpec => RoomForHeadStays
<1>1. ASSUME SemInv, [SemNext]_semVars PROVE [HeadIsSafe]_semVars
  <2>1. ASSUME NEW t \in Threads, NEW w \in Weights, Arrive(t, w) PROVE HeadIsSafe
    <3>1. Looking(t, Append(waiters, t), want')
      BY <1>1, <2>1, ArrivalLooks DEF SemInv, Arrive
    <3>2. CASE Take(t, Append(waiters, t), want')
      BY <1>1, <3>1, <3>2, TakeLeavesRoom
    <3>3. CASE Park(t, Append(waiters, t), want')
      <4>1. waiters # <<>> => want'[Head(waiters)] = want[Head(waiters)]
        BY <1>1, <3>1, TailItems DEF Looking, SemInv, SemTypeOK
      <4> QED BY <4>1, <3>3 DEF Park, HeadIsSafe
    <3> QED BY <2>1, <3>2, <3>3 DEF Arrive
  <2>2. ASSUME NEW t \in Threads, Recheck(t) PROVE HeadIsSafe
    <3>1. Looking(t, waiters, want)
      BY <1>1, <2>2, RecheckLooks DEF SemInv, Recheck
    <3>2. CASE Take(t, waiters, want)
      BY <1>1, <2>2, <3>1, <3>2, TakeLeavesRoom DEF Recheck
    <3>3. CASE Park(t, waiters, want)
      BY <2>2, <3>3 DEF Recheck, Park, HeadIsSafe
    <3> QED BY <2>2, <3>2, <3>3 DEF Recheck
  <2>3. ASSUME NEW t \in Threads, WakeUp(t) PROVE HeadIsSafe
    BY <2>3 DEF WakeUp, HeadIsSafe
  <2>4. ASSUME NEW t \in Threads, Release(t) PROVE HeadIsSafe
    <3>1. waiters # <<>> => Head(waiters) \in Range(waiters) /\ Head(waiters) \in Threads
      BY <1>1, TailItems DEF SemInv, SemTypeOK
    <3>2. t \notin Range(waiters)
      BY <1>1, <2>4 DEF SemInv, QueuedInv, Release
    <3>3. waiters # <<>> => want'[Head(waiters)] = want[Head(waiters)]
      BY <1>1, <2>4, <3>1, <3>2 DEF Release, SemInv, SemTypeOK
    <3>4. units' \in Nat /\ units \in Nat /\ units' >= units
      BY <1>1, <2>4 DEF Release, Returned, SemInv, SemTypeOK
    <3>5. waiters # <<>> => want[Head(waiters)] \in Nat
      BY <1>1, <3>1 DEF SemInv, SemTypeOK
    <3> QED BY <3>3, <3>4, <3>5 DEF HeadIsSafe
  <2> QED BY <1>1, <2>1, <2>2, <2>3, <2>4 DEF SemNext
<1>2. SemSpec => [][HeadIsSafe]_semVars
  BY <1>1, WaitersAccounted, PTL DEF SemSpec
<1> QED BY <1>2 DEF RoomForHeadStays, HeadIsSafe

----------------------------------------------------------------------------
(* The budget                                                              *)

\* Those inside are finitely many, and hold a number of units together.
LEMMA InsideHolds ==
    ASSUME SemTypeOK
    PROVE  /\ IsFiniteSet(Inside) /\ Inside \subseteq Threads
           /\ \A t \in Threads : want[t] \in Nat
           /\ Total(want, Inside) \in Nat
<1>1. IsFiniteSet(Inside) /\ Inside \subseteq Threads
  BY SemaphoreAssumption, FS_Subset DEF Inside
<1>2. \A t \in Threads : want[t] \in Nat
  BY DEF SemTypeOK
<1> QED BY <1>1, <1>2, TokensFinite

\* A thread that goes takes its units with it.
LEMMA TakeCounts ==
    ASSUME SemInv, SemInv', WithinBudget, NEW t \in Threads, at[t] # "in",
           NEW stand, NEW wt, Take(t, stand, wt), want' = wt,
           \A s \in Threads \ {t} : wt[s] = want[s]
    PROVE  WithinBudget'
<1>1. SemTypeOK /\ SemTypeOK'
  BY DEF SemInv
<1>2. Inside' = Inside \cup {t} /\ t \notin Inside
  BY <1>1 DEF Take, Notified, Inside, SemTypeOK
<1>3. /\ IsFiniteSet(Inside) /\ Inside \subseteq Threads /\ Total(want, Inside) \in Nat
  BY <1>1, InsideHolds
<1>4. \A s \in Threads : want'[s] \in Nat
  BY <1>1 DEF SemTypeOK
<1>5. Total(want', Inside) = Total(want, Inside)
  BY <1>2, <1>3, TotalOfMembers
<1>6. Total(want', Inside \cup {t}) = Total(want', Inside) + want'[t]
  BY <1>2, <1>3, <1>4, TotalWith
<1>7. units' = units - want'[t] /\ units \in Nat /\ want'[t] \in Nat
  BY <1>1, <1>4 DEF Take, SemTypeOK
<1> QED BY <1>2, <1>3, <1>5, <1>6, <1>7 DEF WithinBudget

\* A thread that does not get in, or only wakes, changes nobody's share.
LEMMA OthersKeepCount ==
    ASSUME SemInv, SemInv', WithinBudget, NEW t \in Threads, at[t] # "in", at'[t] # "in",
           \A s \in Threads \ {t} : at'[s] = at[s] /\ want'[s] = want[s],
           units' = units
    PROVE  WithinBudget'
<1>1. Inside' = Inside /\ Inside \subseteq Threads /\ t \notin Inside
  BY DEF Inside
<1>2. Total(want', Inside) = Total(want, Inside)
  BY <1>1, TotalOfMembers
<1> QED BY <1>1, <1>2 DEF WithinBudget

\* A guard that is dropped gives back what its thread held.
LEMMA ReleaseCounts ==
    ASSUME SemInv, SemInv', WithinBudget, NEW t \in Threads, Release(t)
    PROVE  WithinBudget'
<1>1. SemTypeOK
  BY DEF SemInv
<1>2. Inside' = Inside \ {t} /\ t \in Inside
  BY <1>1 DEF Release, Notified, Inside, SemTypeOK
<1>3. /\ IsFiniteSet(Inside) /\ Inside \subseteq Threads
      /\ \A s \in Threads : want[s] \in Nat
  BY <1>1, InsideHolds
<1>4. /\ Total(want, Inside \ {t}) \in Nat
      /\ Total(want, Inside) = Total(want, Inside \ {t}) + want[t]
  BY <1>2, <1>3, TotalWithout
<1>5. \A s \in Inside \ {t} : want'[s] = want[s]
  BY <1>1, <1>3 DEF Release, SemTypeOK
<1>6. Total(want', Inside \ {t}) = Total(want, Inside \ {t})
  BY <1>5, TotalOfMembers
<1>7. units' = units + want[t] /\ units \in Nat /\ want[t] \in Nat
  BY <1>1, <1>3 DEF Release, Returned, SemTypeOK
<1> QED BY <1>2, <1>4, <1>6, <1>7 DEF WithinBudget

\* The jobs inside never need more than the budget, and no unit is lost or made,
\* whatever comes and goes (acquire, SemaphoreGuard::drop).
THEOREM BudgetKept == SemSpec => []WithinBudget
<1>1. SemInit => WithinBudget
  <2> SUFFICES ASSUME SemInit PROVE WithinBudget
    OBVIOUS
  <2>1. Inside = {} /\ units = TotalUnits
    BY DEF SemInit, Inside
  <2>2. Total(want, Inside) = 0
    BY <2>1, TotalOfNobody
  <2> QED BY <2>1, <2>2, SemaphoreAssumption DEF WithinBudget
<1>2. ASSUME SemInv, WithinBudget, [SemNext]_semVars PROVE WithinBudget'
  <2>0. SemTypeOK /\ SemInv'
    BY <1>2, SemInvStep DEF SemInv
  <2>1. ASSUME NEW t \in Threads, NEW w \in Weights, Arrive(t, w) PROVE WithinBudget'
    <3>1. at[t] # "in" /\ \A s \in Threads \ {t} : want'[s] = want[s]
      BY <2>0, <2>1 DEF Arrive, SemTypeOK
    <3>2. CASE Take(t, Append(waiters, t), want')
      BY <1>2, <2>0, <3>1, <3>2, TakeCounts
    <3>3. CASE Park(t, Append(waiters, t), want')
      BY <1>2, <2>0, <3>1, <3>3, OthersKeepCount DEF Park, SemTypeOK
    <3> QED BY <2>1, <3>2, <3>3 DEF Arrive
  <2>2. ASSUME NEW t \in Threads, Recheck(t) PROVE WithinBudget'
    <3>1. at[t] # "in" /\ want' = want
      BY <2>2 DEF Recheck
    <3>2. CASE Take(t, waiters, want)
      BY <1>2, <2>0, <3>1, <3>2, TakeCounts
    <3>3. CASE Park(t, waiters, want)
      BY <1>2, <2>0, <3>1, <3>3, OthersKeepCount DEF Park, SemTypeOK
    <3> QED BY <2>2, <3>2, <3>3 DEF Recheck
  <2>3. ASSUME NEW t \in Threads, WakeUp(t) PROVE WithinBudget'
    BY <1>2, <2>0, <2>3, OthersKeepCount DEF WakeUp, SemTypeOK
  <2>4. ASSUME NEW t \in Threads, Release(t) PROVE WithinBudget'
    BY <1>2, <2>0, <2>4, ReleaseCounts
  <2>5. CASE UNCHANGED semVars
    BY <1>2, <2>5 DEF semVars, WithinBudget, Inside
  <2> QED BY <1>2, <2>1, <2>2, <2>3, <2>4, <2>5 DEF SemNext
<1> QED BY <1>1, <1>2, WaitersAccounted, PTL DEF SemSpec

----------------------------------------------------------------------------
(* The parts together                                                      *)

\* A step of the parts is one of each of them, or leaves it alone.
LEMMA EachPartSteps ==
    ASSUME [PartsNext]_partsVars
    PROVE  /\ [SemNext]_semVars /\ [PrevNext]_prevVars /\ [UpNext]_upVars /\ [DlNext]_dlVars
           /\ [BrushNext]_brushVars /\ [RetuneNext]_retuneVars
           /\ UNCHANGED tileVars
BY DEF PartsNext, partsVars, On

----------------------------------------------------------------------------
(* Magic Brush                                                             *)

\* An encode runs, or its result waits to be read; or there is none.
BrushInv ==
    /\ encoding => \/ encoded = {} /\ \E e : encoders = {e}
                   \/ encoders = {} /\ \E r : encoded = {r}
    /\ ~encoding => encoders = {} /\ encoded = {}
    /\ toolOn => brushes

\* Nothing is encoded to begin with.
LEMMA BrushInvInit == BrushInit => BrushInv
BY DEF BrushInit, BrushInv

\* Each step keeps to one encode.
LEMMA BrushInvNext == BrushInv /\ [BrushNext]_brushVars => BrushInv'
<1> SUFFICES ASSUME BrushInv, [BrushNext]_brushVars PROVE BrushInv'
  OBVIOUS
<1>1. CASE UNCHANGED brushVars
  BY <1>1 DEF BrushInv, brushVars
<1>2. CASE Toggle
  BY <1>2 DEF BrushInv, Toggle, EncodingAfterOff
<1>3. CASE SwitchModel
  BY <1>3 DEF BrushInv, SwitchModel, EncodingAfterOff
<1>4. CASE Settle
  BY <1>4 DEF BrushInv, Settle
<1>5. CASE Encode
  <2>1. encoders = {} /\ encoded = {} /\ encoded' = {} /\ brushes' = brushes /\ ~encoding /\ (toolOn' => brushes)
    BY <1>5 DEF BrushInv, Encode, MayEncode, Refuse
  <2>2. (encoding' /\ \E e : encoders' = {e}) \/ (~encoding' /\ encoders' = {})
    BY <1>5, <2>1 DEF Encode
  <2> QED BY <2>1, <2>2 DEF BrushInv
<1>6. ASSUME NEW e \in encoders, EncoderStarts(e) \/ EncoderBuilds(e) \/ \E ok \in BOOLEAN : EncoderEnds(e, ok)
      PROVE  BrushInv'
  <2>1. encoding /\ encoders = {e} /\ encoded = {}
    BY <1>6 DEF BrushInv
  <2>2. encoding' = encoding /\ toolOn' = toolOn /\ brushes' = brushes
    BY <1>6 DEF EncoderStarts, EncoderBuilds, EncoderEnds
  <2>3. \/ encoded' = {} /\ \E f : encoders' = {f}
        \/ encoders' = {} /\ \E r : encoded' = {r}
    <3>1. CASE EncoderStarts(e)
      BY <2>1, <3>1 DEF EncoderStarts
    <3>2. CASE EncoderBuilds(e)
      BY <2>1, <3>2 DEF EncoderBuilds
    <3>3. CASE \E ok \in BOOLEAN : EncoderEnds(e, ok)
      BY <2>1, <3>3 DEF EncoderEnds
    <3> QED BY <1>6, <3>1, <3>2, <3>3
  <2> QED BY <2>1, <2>2, <2>3 DEF BrushInv
<1>7. ASSUME NEW p \in Photos, View(p) PROVE BrushInv'
  BY <1>7 DEF BrushInv, View
<1>8. ASSUME NEW r \in encoded, EncodeLands(r) PROVE BrushInv'
  <2>1. encoding /\ encoded = {r} /\ encoders = {}
    BY <1>8 DEF BrushInv
  <2> QED BY <1>8, <2>1 DEF BrushInv, EncodeLands, EncodingAfter, Refuse
<1>9. ASSUME NEW ok \in BOOLEAN, Warm(ok) PROVE BrushInv'
  BY <1>9 DEF BrushInv, Warm
<1> QED BY <1>1, <1>2, <1>3, <1>4, <1>5, <1>6, <1>7, <1>8, <1>9 DEF BrushNext, Encoder

\* What is counted.
LEMMA BrushInvEnough == BrushInv => OneEncode
<1> SUFFICES ASSUME BrushInv PROVE OneEncode
  OBVIOUS
<1>1. Cardinality({}) = 0 /\ \A e : Cardinality({e}) = 1
  BY FS_EmptySet, FS_Singleton
<1>2. Cardinality(encoders) + Cardinality(encoded) = IF encoding THEN 1 ELSE 0
  <2>1. CASE encoding
    <3>1. \/ encoded = {} /\ \E e : encoders = {e}
          \/ encoders = {} /\ \E r : encoded = {r}
      BY <2>1 DEF BrushInv
    <3>2. \/ Cardinality(encoded) = 0 /\ Cardinality(encoders) = 1
          \/ Cardinality(encoded) = 1 /\ Cardinality(encoders) = 0
      BY <1>1, <3>1
    <3> QED BY <2>1, <3>2
  <2>2. CASE ~encoding
    <3>1. Cardinality(encoded) = 0 /\ Cardinality(encoders) = 0
      BY <1>1, <2>2 DEF BrushInv
    <3> QED BY <2>2, <3>1
  <2> QED BY <2>1, <2>2
<1> QED BY <1>2 DEF BrushInv, OneEncode

----------------------------------------------------------------------------
(* Timelines                                                               *)

\* The timelines whose states are of T.
Books(T) == {t \in [states : Seq(T), at : Nat, version : Nat] :
                t.at \in 1 .. Len(t.states) /\ Len(t.states) <= Depth}

\* A timeline begins with one state.
LEMMA FirstPage == ASSUME NEW T, NEW s \in T PROVE NewTimeline(s) \in Books(T)
<1> DEFINE states == <<s>>
           u == [states |-> states, at |-> 1, version |-> 0]
<1>1. states \in Seq(T) /\ Len(states) = 1
  OBVIOUS
<1> HIDE DEF states
<1>2. u \in [states : Seq(T), at : Nat, version : Nat] /\ u.states = states /\ u.at = 1
  BY <1>1
<1>3. NewTimeline(s) = u
  BY DEF NewTimeline, states
<1> HIDE DEF u
<1>4. 1 \in 1 .. 1 /\ 1 <= Depth
  BY TimelineAssumption
<1>5. u \in Books(T)
  BY <1>1, <1>2, <1>4 DEF Books
<1> QED BY <1>3, <1>5

\* The state that is shown is filled in: the others stay.
LEMMA AmendedBook ==
    ASSUME NEW T, NEW t \in Books(T), NEW s \in T
    PROVE  LET u == Amended(t, s) IN
           /\ u \in Books(T) /\ u.at = t.at /\ u.version = t.version /\ Len(u.states) = Len(t.states)
           /\ u.states[t.at] = s
           /\ \A n \in (1 .. Len(t.states)) \ {t.at} : u.states[n] = t.states[n]
<1> DEFINE states == [t.states EXCEPT ![t.at] = s]
           u == Amended(t, s)
<1>1. /\ t \in [states : Seq(T), at : Nat, version : Nat] /\ t.states \in Seq(T)
      /\ t.at \in 1 .. Len(t.states) /\ Len(t.states) <= Depth
  BY DEF Books
<1>2. states \in Seq(T) /\ Len(states) = Len(t.states)
      /\ \A n \in 1 .. Len(t.states) : states[n] = IF n = t.at THEN s ELSE t.states[n]
  BY <1>1, ExceptSeq
<1>3. u = [t EXCEPT !.states = states]
  BY <1>1 DEF Amended
<1> HIDE DEF states
<1>4. u \in [states : Seq(T), at : Nat, version : Nat] /\ u.states = states /\ u.at = t.at /\ u.version = t.version
  BY <1>1, <1>2, <1>3
<1> HIDE DEF u
<1>5. u \in Books(T)
  BY <1>1, <1>2, <1>4 DEF Books
<1> QED BY <1>1, <1>2, <1>4, <1>5 DEF u

\* Another state is shown, under a new version.
LEMMA WalkedBook ==
    ASSUME NEW T, NEW t \in Books(T)
    PROVE  /\ CanUndo(t) => Undone(t) \in Books(T)
           /\ CanRedo(t) => Redone(t) \in Books(T)
           /\ Undone(t).states = t.states /\ Redone(t).states = t.states
           /\ Undone(t).at = t.at - 1 /\ Redone(t).at = t.at + 1
           /\ Undone(t).version = t.version + 1 /\ Redone(t).version = t.version + 1
<1>1. /\ t \in [states : Seq(T), at : Nat, version : Nat] /\ Len(t.states) \in Nat
      /\ t.at \in 1 .. Len(t.states) /\ Len(t.states) <= Depth
  BY LenProperties DEF Books
<1>2. /\ Undone(t).states = t.states /\ Redone(t).states = t.states
      /\ Undone(t).at = t.at - 1 /\ Redone(t).at = t.at + 1
      /\ Undone(t).version = t.version + 1 /\ Redone(t).version = t.version + 1
  BY <1>1 DEF Undone, Redone
<1>3. ASSUME NEW n \in 1 .. Len(t.states), NEW u, u = [t EXCEPT !.at = n, !.version = t.version + 1]
      PROVE  u \in Books(T)
  <2> DEFINE w == t.version + 1
  <2>1. w \in Nat /\ n \in Nat /\ u = [t EXCEPT !.at = n, !.version = w]
    BY <1>1, <1>3
  <2> HIDE DEF w
  <2>2. u \in [states : Seq(T), at : Nat, version : Nat] /\ u.at = n /\ u.states = t.states
    BY <1>1, <2>1
  <2> QED BY <1>1, <2>2 DEF Books
<1>4. ASSUME CanUndo(t) PROVE Undone(t) \in Books(T)
  <2> DEFINE n == t.at - 1
  <2>1. n \in 1 .. Len(t.states)
    BY <1>1, <1>4 DEF CanUndo
  <2>2. Undone(t) = [t EXCEPT !.at = n, !.version = t.version + 1]
    BY DEF Undone
  <2> HIDE DEF n
  <2> QED BY <1>3, <2>1, <2>2
<1>5. ASSUME CanRedo(t) PROVE Redone(t) \in Books(T)
  <2> DEFINE n == t.at + 1
  <2>1. n \in 1 .. Len(t.states)
    BY <1>1, <1>5 DEF CanRedo
  <2>2. Redone(t) = [t EXCEPT !.at = n, !.version = t.version + 1]
    BY DEF Redone
  <2> HIDE DEF n
  <2> QED BY <1>3, <2>1, <2>2
<1> QED BY <1>2, <1>4, <1>5

\* A further state: those before it were there, the last of them shown.
LEMMA PushedBook ==
    ASSUME NEW T, NEW t \in Books(T), NEW s \in T, NEW soon, ~Joins(t, s, soon)
    PROVE  LET u == Pushed(t, s, soon) IN
           /\ u \in Books(T) /\ u.version = t.version + 1
           /\ u.at = Len(u.states) /\ u.states[u.at] = s
           /\ \A n \in 1 .. u.at - 1 : \E m \in 1 .. t.at : u.states[n] = t.states[m]
           /\ Depth > 1 => u.at > 1 /\ u.states[u.at - 1] = t.states[t.at]
<1> DEFINE past == SubSeq(t.states, 1, t.at)
           all == Append(past, s)
           drop == IF Len(all) > Depth THEN Len(all) - Depth ELSE 0
           states == SubSeq(all, drop + 1, Len(all))
           u == Pushed(t, s, soon)
<1>1. /\ t \in [states : Seq(T), at : Nat, version : Nat] /\ t.states \in Seq(T) /\ Len(t.states) \in Nat
      /\ t.at \in 1 .. Len(t.states) /\ Len(t.states) <= Depth /\ Depth \in Nat \ {0}
  BY LenProperties, TimelineAssumption DEF Books
<1>2. past \in Seq(T) /\ Len(past) = t.at /\ \A n \in 1 .. t.at : past[n] = t.states[n]
  BY <1>1, SubSeqProperties
<1> HIDE DEF past
<1>3. /\ all \in Seq(T) /\ Len(all) = t.at + 1 /\ all[t.at + 1] = s
      /\ \A n \in 1 .. t.at : all[n] = t.states[n]
  BY <1>1, <1>2, AppendProperties
<1>4. Latest(all) = states
  BY <1>1, <1>3 DEF Latest
<1> HIDE DEF all
<1>5. drop \in 0 .. t.at /\ (Depth > 1 => drop < t.at) /\ t.at + 1 - drop <= Depth
  BY <1>1, <1>3
<1> HIDE DEF drop
<1>6. /\ states \in Seq(T) /\ Len(states) = t.at + 1 - drop
      /\ \A n \in 1 .. t.at + 1 - drop : states[n] = all[drop + n]
  BY <1>1, <1>3, <1>5, SubSeqProperties
<1>7. u = [states |-> states, at |-> Len(states), version |-> t.version + 1]
  BY <1>4 DEF Pushed, past, all
<1> HIDE DEF states, u
<1>8. /\ u \in [states : Seq(T), at : Nat, version : Nat]
      /\ u.states = states /\ u.at = t.at + 1 - drop /\ u.version = t.version + 1
  BY <1>1, <1>5, <1>6, <1>7
<1>9. u \in Books(T)
  BY <1>1, <1>5, <1>6, <1>8 DEF Books
<1>10. u.states[u.at] = s
  BY <1>1, <1>3, <1>5, <1>6, <1>8
<1>11. ASSUME NEW n \in 1 .. u.at - 1 PROVE \E m \in 1 .. t.at : u.states[n] = t.states[m]
  <2>1. drop + n \in 1 .. t.at /\ n \in 1 .. t.at + 1 - drop
    BY <1>1, <1>5, <1>8
  <2> QED BY <1>3, <1>6, <1>8, <2>1
<1>12. ASSUME Depth > 1 PROVE u.at > 1 /\ u.states[u.at - 1] = t.states[t.at]
  <2>1. u.at > 1 /\ u.at - 1 \in 1 .. t.at + 1 - drop /\ drop + (u.at - 1) = t.at /\ t.at \in 1 .. t.at
    BY <1>1, <1>5, <1>8, <1>12
  <2> QED BY <1>3, <1>6, <1>8, <2>1
<1> QED BY <1>6, <1>8, <1>9, <1>10, <1>11, <1>12 DEF u

----------------------------------------------------------------------------
(* Retuning a stroke                                                       *)

Sels    == SUBSET (Nat \X Readings)
Entries == [kind : {"Process", "Adjust", "Selection", "Stroke"}, sel : Sels]
Decodes == [stroke : Nat, reading : Readings, owns : Sels]

OneEach(sel)   == \A s, t \in sel : s[1] = t[1] => s = t

\* One state at most has the stroke of l: the newest, which is as l left it and
\* follows the one the stroke was merged onto.
Owned(states, l) ==
    /\ l.stroke \in StrokesIn(l.owns)
    /\ \A n \in 1 .. Len(states) :
           l.stroke \in StrokesIn(states[n].sel) =>
               /\ n = Len(states) /\ n > 1 /\ states[n].sel = l.owns
               /\ StrokesIn(l.owns) = StrokesIn(states[n - 1].sel) \cup {l.stroke}

RetTypes ==
    /\ line \in Books(Entries) /\ last \in Decodes \cup {NoDecode}
    /\ decoders \subseteq [stroke : Nat, reading : Readings]
    /\ retunes \subseteq [sel : Sels, reading : Readings]
    /\ confidence \in Readings /\ edits \in Nat

\* Every stroke of the states has been made, and one that is decoded is in none.
StrokesMade ==
    /\ \A n \in 1 .. Len(line.states) :
           OneEach(line.states[n].sel) /\ \A k \in StrokesIn(line.states[n].sel) : k <= edits
    /\ last # NoDecode => last.stroke <= edits /\ Owned(line.states, last)
    /\ \A d \in decoders :
           /\ d.stroke <= edits
           /\ \A n \in 1 .. Len(line.states) : d.stroke \notin StrokesIn(line.states[n].sel)

\* One thread at a time decodes a stroke or reads one again, and what it reads is the
\* selection of the last stroke.
OneThread ==
    /\ \A d, e \in decoders : d = e
    /\ decoders # {} => ~retuning /\ ~Outdated
    /\ ~retuning => retunes = {}
    /\ \A r, q \in retunes : r = q
    /\ \A r \in retunes : last # NoDecode => OneEach(r.sel) /\ StrokesIn(r.sel) = StrokesIn(last.owns)

RetInv == RetTypes /\ StrokesMade /\ OneThread

\* What is shown.
LEMMA ShownSelection ==
    ASSUME RetTypes
    PROVE  /\ line.states \in Seq(Entries) /\ line.at \in 1 .. Len(line.states) /\ Len(line.states) \in Nat
           /\ Shown(line) = line.states[line.at] /\ Shown(line) \in Entries
           /\ Selected = line.states[line.at].sel /\ Selected \in Sels
           /\ \A n \in 1 .. Len(line.states) : line.states[n] \in Entries /\ line.states[n].sel \in Sels
<1>1. line.states \in Seq(Entries) /\ line.at \in 1 .. Len(line.states)
  BY DEF RetTypes, Books
<1>2. line.states[line.at] \in Entries /\ Len(line.states) \in Nat
  BY <1>1, ElementOfSeq, LenProperties
<1>3. ASSUME NEW n \in 1 .. Len(line.states) PROVE line.states[n] \in Entries /\ line.states[n].sel \in Sels
  <2>1. line.states[n] \in Entries
    BY <1>1, ElementOfSeq
  <2> QED BY <2>1 DEF Entries
<1> QED BY <1>1, <1>2, <1>3 DEF Shown, Selected

\* The stroke of the last decode is selected only where it owns the selection, in the newest
\* state, and then the one before is what it was merged onto.
LEMMA OwnerIsNewest ==
    ASSUME RetTypes, StrokesMade, LastOwner # NoDecode
    PROVE  /\ last # NoDecode /\ LastOwner = last /\ last \in Decodes /\ Selected = last.owns
           /\ line.at = Len(line.states) /\ line.at > 1
           /\ line.at - 1 \in 1 .. Len(line.states)
           /\ Base = line.states[line.at - 1].sel /\ Base \in Sels
           /\ StrokesIn(Selected) = StrokesIn(Base) \cup {last.stroke}
           /\ last.stroke \notin StrokesIn(Base)
           /\ \A n \in 1 .. Len(line.states) : n # line.at => last.stroke \notin StrokesIn(line.states[n].sel)
<1>1. LastOwner = last /\ last # NoDecode /\ Selected = last.owns /\ last \in Decodes
  BY DEF LastOwner, RetTypes
<1>2. Owned(line.states, last)
  BY <1>1 DEF StrokesMade
<1>3. /\ line.at \in 1 .. Len(line.states) /\ Selected = line.states[line.at].sel /\ Len(line.states) \in Nat
      /\ line.states \in Seq(Entries)
  BY ShownSelection
<1>4. last.stroke \in StrokesIn(line.states[line.at].sel)
  BY <1>1, <1>2, <1>3 DEF Owned
<1>5. /\ line.at = Len(line.states) /\ line.at > 1
      /\ StrokesIn(last.owns) = StrokesIn(line.states[line.at - 1].sel) \cup {last.stroke}
  BY <1>2, <1>3, <1>4 DEF Owned
<1>6. line.at - 1 \in 1 .. Len(line.states) /\ line.at - 1 # Len(line.states)
  BY <1>3, <1>5
<1>7. line \in Books(Entries)
  BY DEF RetTypes
<1>8. Undone(line).states = line.states /\ Undone(line).at = line.at - 1
  BY <1>7, WalkedBook
<1>9. Base = line.states[line.at - 1].sel
  BY <1>5, <1>8 DEF Base, CanUndo, Shown
<1>10. line.states[line.at - 1] \in Entries
  BY <1>3, <1>6, ElementOfSeq
<1>11. \A n \in 1 .. Len(line.states) : n # line.at => last.stroke \notin StrokesIn(line.states[n].sel)
  BY <1>2, <1>5 DEF Owned
<1> QED BY <1>1, <1>3, <1>5, <1>6, <1>9, <1>10, <1>11 DEF Entries

\* It begins without a stroke.
LEMMA RetInvInit == RetuneInit => RetInv
<1> SUFFICES ASSUME RetuneInit PROVE RetInv
  OBVIOUS
<1> DEFINE s == [kind |-> "Process", sel |-> {}]
<1>1. s \in Entries /\ s.sel = {}
  BY DEF Entries, Sels
<1>2. line = NewTimeline(s) /\ last = NoDecode /\ decoders = {} /\ retunes = {} /\ retuning = FALSE
      /\ confidence \in Readings /\ edits = 0
  BY DEF RetuneInit
<1> HIDE DEF s
<1>3. line \in Books(Entries)
  BY <1>1, <1>2, FirstPage
<1>4. Len(line.states) = 1 /\ line.states[1] = s
  BY <1>2 DEF NewTimeline
<1>5. RetTypes
  BY <1>2, <1>3 DEF RetTypes
<1>6. StrokesMade
  BY <1>1, <1>2, <1>4 DEF StrokesMade, OneEach, StrokesIn
<1>7. OneThread
  BY <1>2 DEF OneThread
<1> QED BY <1>5, <1>6, <1>7 DEF RetInv

\* Where the selections stay, so does what is said of their strokes.
LEMMA SameSelections ==
    ASSUME RetTypes, StrokesMade,
           Len(line'.states) = Len(line.states),
           \A n \in 1 .. Len(line.states) : line'.states[n].sel = line.states[n].sel,
           last' \in {last, NoDecode}, decoders' \subseteq decoders,
           edits' \in {edits, edits + 1}
    PROVE  StrokesMade'
<1>1. edits \in Nat /\ edits <= edits' /\ edits' \in Nat
  BY DEF RetTypes
<1>2. \A n \in 1 .. Len(line.states) : line.states[n].sel \in Sels
  BY ShownSelection
<1>3. ASSUME NEW n \in 1 .. Len(line'.states)
      PROVE  OneEach(line'.states[n].sel) /\ \A k \in StrokesIn(line'.states[n].sel) : k <= edits'
  <2>1. \A k \in StrokesIn(line.states[n].sel) : k \in Nat /\ k <= edits
    BY <1>2 DEF StrokesMade, StrokesIn, Sels
  <2> QED BY <1>1, <2>1 DEF StrokesMade
<1>4. last' # NoDecode => last'.stroke <= edits' /\ Owned(line'.states, last')
  <2> SUFFICES ASSUME last' # NoDecode PROVE last'.stroke <= edits' /\ Owned(line'.states, last')
    OBVIOUS
  <2>1. last' = last /\ last.stroke \in Nat /\ last.stroke <= edits /\ Owned(line.states, last)
    BY DEF StrokesMade, RetTypes, Decodes
  <2>2. Owned(line'.states, last)
    <3>1. Len(line.states) \in Nat
      BY ShownSelection
    <3>2. last.stroke \in StrokesIn(last.owns)
      BY <2>1 DEF Owned
    <3>3. ASSUME NEW n \in 1 .. Len(line'.states), last.stroke \in StrokesIn(line'.states[n].sel)
          PROVE  /\ n = Len(line'.states) /\ n > 1 /\ line'.states[n].sel = last.owns
                 /\ StrokesIn(last.owns) = StrokesIn(line'.states[n - 1].sel) \cup {last.stroke}
      <4>1. /\ n = Len(line.states) /\ n > 1 /\ line.states[n].sel = last.owns
            /\ StrokesIn(last.owns) = StrokesIn(line.states[n - 1].sel) \cup {last.stroke}
        BY <2>1, <3>3 DEF Owned
      <4>2. n - 1 \in 1 .. Len(line.states)
        BY <3>1, <4>1
      <4> QED BY <4>1, <4>2
    <3> QED BY <3>2, <3>3 DEF Owned
  <2> QED BY <1>1, <2>1, <2>2
<1>5. ASSUME NEW d \in decoders'
      PROVE  d.stroke <= edits' /\ \A n \in 1 .. Len(line'.states) : d.stroke \notin StrokesIn(line'.states[n].sel)
  <2>1. d \in decoders /\ d.stroke \in Nat /\ d.stroke <= edits
    BY DEF StrokesMade, RetTypes
  <2> QED BY <1>1, <2>1 DEF StrokesMade
<1> QED BY <1>3, <1>4, <1>5 DEF StrokesMade

\* A further state selects what the pushed one does, or is one of those before it.
LEMMA PushedSelections ==
    ASSUME RetTypes, StrokesMade, NEW s \in Entries, NEW soon, ~Joins(line, s, soon)
    PROVE  LET u == Pushed(line, s, soon) IN
           /\ u \in Books(Entries) /\ u.at = Len(u.states) /\ u.states[u.at] = s
           /\ Depth > 1 => u.at > 1 /\ u.states[u.at - 1] = line.states[line.at]
           /\ \A n \in 1 .. Len(u.states) :
                  \/ n = Len(u.states) /\ u.states[n] = s
                  \/ \E m \in 1 .. Len(line.states) : m <= line.at /\ u.states[n] = line.states[m]
<1> DEFINE u == Pushed(line, s, soon)
<1>1. line \in Books(Entries)
  BY DEF RetTypes
<1>2. /\ u \in Books(Entries) /\ u.at = Len(u.states) /\ u.states[u.at] = s
      /\ \A n \in 1 .. u.at - 1 : \E m \in 1 .. line.at : u.states[n] = line.states[m]
      /\ Depth > 1 => u.at > 1 /\ u.states[u.at - 1] = line.states[line.at]
  BY <1>1, PushedBook
<1> HIDE DEF u
<1>3. Len(u.states) \in Nat /\ Len(line.states) \in Nat /\ line.at \in 1 .. Len(line.states)
  BY <1>1, <1>2, LenProperties DEF Books
<1>4. ASSUME NEW n \in 1 .. Len(u.states), n # Len(u.states)
      PROVE  \E m \in 1 .. Len(line.states) : m <= line.at /\ u.states[n] = line.states[m]
  <2>1. n \in 1 .. u.at - 1
    BY <1>2, <1>3, <1>4
  <2>2. PICK m \in 1 .. line.at : u.states[n] = line.states[m]
    BY <1>2, <2>1
  <2> QED BY <1>3, <2>2
<1> QED BY <1>2, <1>4 DEF u

\* The user does nothing while a stroke is decoded.
LEMMA HandsOff == ASSUME Careless = {}, UserEdits PROVE decoders = {} /\ edits' = edits + 1
BY DEF UserEdits

\* handle_magic_brush_input: a stroke that nothing else is read next to.
LEMMA StrokeMadeKeeps == ASSUME Careless = {}, RetInv, StrokeMade PROVE RetInv'
<1> DEFINE d == [stroke |-> edits', reading |-> confidence]
<1>1. /\ decoders = {} /\ edits' = edits + 1 /\ ~(retuning \/ Outdated) /\ decoders' = {d}
      /\ UNCHANGED <<line, last, retunes, retuning, confidence, here>>
  <2>1. decoders' = decoders \cup {d} /\ UserEdits /\ ~(retuning \/ Outdated)
    BY DEF StrokeMade
  <2> QED BY <2>1, HandsOff DEF StrokeMade
<1>2. RetTypes /\ StrokesMade /\ OneThread /\ edits \in Nat
  BY DEF RetInv, RetTypes
<1>3. d \in [stroke : Nat, reading : Readings] /\ d.stroke = edits + 1
  BY <1>1, <1>2 DEF RetTypes
<1> HIDE DEF d
<1>4. RetTypes'
  BY <1>1, <1>2, <1>3 DEF RetTypes
<1>5. \A n \in 1 .. Len(line.states) : line.states[n].sel \in Sels
  BY <1>2, ShownSelection
<1>6. StrokesMade'
  <2>1. ASSUME NEW n \in 1 .. Len(line.states)
        PROVE  /\ OneEach(line.states[n].sel)
               /\ \A k \in StrokesIn(line.states[n].sel) : k <= edits + 1 /\ k # edits + 1
    <3>1. \A k \in StrokesIn(line.states[n].sel) : k \in Nat /\ k <= edits
      BY <1>2, <1>5 DEF StrokesMade, StrokesIn, Sels
    <3> QED BY <1>2, <3>1 DEF StrokesMade
  <2>2. last # NoDecode => last.stroke <= edits + 1 /\ Owned(line.states, last)
    <3>1. last # NoDecode => last.stroke \in Nat
      BY <1>2 DEF RetTypes, Decodes
    <3> QED BY <1>2, <3>1 DEF StrokesMade
  <2> QED BY <1>1, <1>3, <2>1, <2>2, <1>2 DEF StrokesMade
<1>7. Outdated' = Outdated
  BY <1>1 DEF Outdated, LastOwner, Selected
<1>8. OneThread'
  BY <1>1, <1>2, <1>7 DEF OneThread
<1> QED BY <1>4, <1>6, <1>8 DEF RetInv

\* Nothing is decoded, and no reading starts.
LEMMA ThreadAlone ==
    ASSUME OneThread, decoders' = {}, UNCHANGED <<retunes, retuning>>, last' \in {last, NoDecode}
    PROVE  OneThread'
<1>1. CASE last' = last
  BY <1>1 DEF OneThread
<1>2. CASE last' = NoDecode
  BY <1>2 DEF OneThread
<1> QED BY <1>1, <1>2

\* The Confidence knob.
LEMMA TurnConfidenceKeeps ==
    ASSUME Careless = {}, RetInv, NEW c \in Readings, TurnConfidence(c) PROVE RetInv'
<1>1. /\ decoders = {} /\ edits' = edits + 1 /\ confidence' = c
      /\ UNCHANGED <<line, last, decoders, retunes, retuning>>
  BY HandsOff DEF TurnConfidence
<1>2. RetTypes /\ StrokesMade /\ OneThread
  BY DEF RetInv
<1>3. RetTypes'
  BY <1>1, <1>2 DEF RetTypes
<1>4. StrokesMade'
  BY <1>1, <1>2, SameSelections
<1> QED BY <1>1, <1>2, <1>3, <1>4, ThreadAlone DEF RetInv

\* apply_toolbar_change: the selection goes along, unless the last stroke owns it.
LEMMA TurnKnobKeeps ==
    ASSUME Careless = {}, RetInv, NEW soon \in BOOLEAN, TurnKnob(soon) PROVE RetInv'
<1> DEFINE s == [kind |-> "Adjust", sel |-> Selected]
<1>1. /\ decoders = {} /\ edits' = edits + 1 /\ LastOwner = NoDecode /\ line' = Pushed(line, s, soon)
      /\ UNCHANGED <<last, decoders, retunes, retuning, confidence>>
  BY HandsOff DEF TurnKnob
<1>2. RetTypes /\ StrokesMade /\ OneThread /\ edits \in Nat
  BY DEF RetInv, RetTypes
<1>3. /\ line.at \in 1 .. Len(line.states) /\ Selected = line.states[line.at].sel /\ Selected \in Sels
      /\ line \in Books(Entries) /\ Len(line.states) \in Nat
  BY <1>2, ShownSelection DEF RetTypes
<1>4. s \in Entries /\ s.sel = Selected
  BY <1>3 DEF Entries
<1> HIDE DEF s
<1>5. OneThread'
  BY <1>1, <1>2, ThreadAlone
<1>6. CASE Joins(line, s, soon)
  <2>1. line' = Amended(line, s)
    BY <1>1, <1>6 DEF Pushed
  <2>2. /\ line' \in Books(Entries) /\ Len(line'.states) = Len(line.states) /\ line'.states[line.at] = s
        /\ \A n \in (1 .. Len(line.states)) \ {line.at} : line'.states[n] = line.states[n]
    BY <1>3, <1>4, <2>1, AmendedBook
  <2>3. \A n \in 1 .. Len(line.states) : line'.states[n].sel = line.states[n].sel
    BY <1>3, <1>4, <2>2
  <2>4. RetTypes'
    BY <1>1, <1>2, <2>2 DEF RetTypes
  <2>5. StrokesMade'
    BY <1>1, <1>2, <2>2, <2>3, SameSelections
  <2> QED BY <1>5, <2>4, <2>5 DEF RetInv
<1>7. CASE ~Joins(line, s, soon)
  <2>1. /\ line' \in Books(Entries)
        /\ \A n \in 1 .. Len(line'.states) :
               \/ n = Len(line'.states) /\ line'.states[n] = s
               \/ \E m \in 1 .. Len(line.states) : m <= line.at /\ line'.states[n] = line.states[m]
    BY <1>1, <1>2, <1>4, <1>7, PushedSelections
  <2>2. \A n \in 1 .. Len(line'.states) :
            \E m \in 1 .. Len(line.states) : m <= line.at /\ line'.states[n].sel = line.states[m].sel
    <3>1. line.at <= line.at
      BY <1>3
    <3> QED BY <1>3, <1>4, <2>1, <3>1
  <2>3. last # NoDecode =>
            \A m \in 1 .. Len(line.states) : m <= line.at => last.stroke \notin StrokesIn(line.states[m].sel)
    <3> SUFFICES ASSUME last # NoDecode, NEW m \in 1 .. Len(line.states), m <= line.at,
                        last.stroke \in StrokesIn(line.states[m].sel)
                 PROVE  FALSE
      OBVIOUS
    <3>1. m = Len(line.states) /\ line.states[m].sel = last.owns
      BY <1>2 DEF StrokesMade, Owned
    <3>2. m = line.at
      BY <1>3, <3>1
    <3> QED BY <1>1, <1>3, <3>1, <3>2 DEF LastOwner
  <2>4. RetTypes'
    BY <1>1, <1>2, <2>1 DEF RetTypes
  <2>5. ASSUME NEW n \in 1 .. Len(line'.states)
        PROVE  OneEach(line'.states[n].sel) /\ \A k \in StrokesIn(line'.states[n].sel) : k <= edits'
    <3>1. PICK m \in 1 .. Len(line.states) : line'.states[n].sel = line.states[m].sel
      BY <2>2
    <3>2. \A k \in StrokesIn(line.states[m].sel) : k \in Nat /\ k <= edits
      BY <1>2, ShownSelection DEF StrokesMade, StrokesIn, Sels
    <3> QED BY <1>1, <1>2, <3>1, <3>2 DEF StrokesMade
  <2>6. last # NoDecode => last.stroke <= edits' /\ Owned(line'.states, last)
    <3>1. last # NoDecode => last.stroke \in Nat /\ last.stroke <= edits /\ last.stroke \in StrokesIn(last.owns)
      BY <1>2 DEF RetTypes, Decodes, StrokesMade, Owned
    <3>2. last # NoDecode => \A n \in 1 .. Len(line'.states) : last.stroke \notin StrokesIn(line'.states[n].sel)
      BY <2>2, <2>3
    <3> QED BY <1>1, <1>2, <3>1, <3>2 DEF Owned
  <2>7. StrokesMade'
    BY <1>1, <2>5, <2>6 DEF StrokesMade
  <2> QED BY <1>5, <2>4, <2>7 DEF RetInv
<1> QED BY <1>6, <1>7

\* invalidate_selection.
LEMMA DeselectKeeps == ASSUME Careless = {}, RetInv, Deselect PROVE RetInv'
<1> DEFINE s == [kind |-> "Selection", sel |-> {}]
           soon == FALSE
<1>1. /\ decoders = {} /\ edits' = edits + 1 /\ last' = NoDecode /\ line' = Pushed(line, s, soon)
      /\ UNCHANGED <<decoders, retunes, retuning, confidence>>
  BY HandsOff DEF Deselect, Selecting
<1>2. RetTypes /\ StrokesMade /\ OneThread /\ edits \in Nat
  BY DEF RetInv, RetTypes
<1>3. s \in Entries /\ s.sel = {} /\ ~Joins(line, s, soon)
  BY DEF Entries, Sels, Joins
<1> HIDE DEF s, soon
<1>4. /\ line' \in Books(Entries)
      /\ \A n \in 1 .. Len(line'.states) :
             \/ n = Len(line'.states) /\ line'.states[n] = s
             \/ \E m \in 1 .. Len(line.states) : m <= line.at /\ line'.states[n] = line.states[m]
  BY <1>1, <1>2, <1>3, PushedSelections
<1>5. RetTypes'
  BY <1>1, <1>2, <1>4 DEF RetTypes
<1>6. ASSUME NEW n \in 1 .. Len(line'.states)
      PROVE  OneEach(line'.states[n].sel) /\ \A k \in StrokesIn(line'.states[n].sel) : k <= edits'
  <2>1. CASE line'.states[n] = s
    BY <1>3, <2>1 DEF OneEach, StrokesIn
  <2>2. ASSUME NEW m \in 1 .. Len(line.states), line'.states[n] = line.states[m]
        PROVE  OneEach(line'.states[n].sel) /\ \A k \in StrokesIn(line'.states[n].sel) : k <= edits'
    <3>1. \A k \in StrokesIn(line.states[m].sel) : k \in Nat /\ k <= edits
      BY <1>2, ShownSelection DEF StrokesMade, StrokesIn, Sels
    <3>2. edits' = edits + 1 /\ edits \in Nat /\ OneEach(line.states[m].sel)
      BY <1>1, <1>2 DEF StrokesMade
    <3> QED BY <2>2, <3>1, <3>2
  <2> QED BY <1>4, <2>1, <2>2
<1>7. StrokesMade'
  BY <1>1, <1>6 DEF StrokesMade
<1>8. OneThread'
  BY <1>1, <1>2, ThreadAlone
<1> QED BY <1>5, <1>7, <1>8 DEF RetInv

\* undo_step, redo_step.
LEMMA BackKeeps == ASSUME Careless = {}, RetInv, Back PROVE RetInv'
<1>1. /\ decoders = {} /\ edits' = edits + 1
      /\ (CanUndo(line) /\ line' = Undone(line)) \/ (CanRedo(line) /\ line' = Redone(line))
      /\ UNCHANGED <<last, decoders, retunes, retuning, confidence>>
  BY HandsOff DEF Back
<1>2. RetTypes /\ StrokesMade /\ OneThread
  BY DEF RetInv
<1>3. line' \in Books(Entries) /\ line'.states = line.states
  BY <1>1, <1>2, WalkedBook DEF RetTypes
<1>4. RetTypes'
  BY <1>1, <1>2, <1>3 DEF RetTypes
<1>5. StrokesMade'
  BY <1>1, <1>2, <1>3, SameSelections
<1> QED BY <1>1, <1>2, <1>4, <1>5, ThreadAlone DEF RetInv

\* drop_hot_tensors.
LEMMA LookKeeps == ASSUME Careless = {}, RetInv, Look PROVE RetInv'
<1>1. /\ decoders = {} /\ edits' = edits + 1 /\ last' \in {last, NoDecode}
      /\ UNCHANGED <<line, decoders, retunes, retuning, confidence>>
  BY HandsOff DEF Look
<1>2. RetTypes /\ StrokesMade /\ OneThread
  BY DEF RetInv
<1>3. RetTypes'
  BY <1>1, <1>2 DEF RetTypes
<1>4. StrokesMade'
  BY <1>1, <1>2, SameSelections
<1> QED BY <1>1, <1>2, <1>3, <1>4, ThreadAlone DEF RetInv

\* pump_sam_results: the stroke is merged onto the selection, in a state of its own.
LEMMA FreshLandsKeeps ==
    ASSUME Depth > 1, RetInv, NEW d \in decoders, FreshLands(d) PROVE RetInv'
<1> DEFINE new == {<<d.stroke, d.reading>>}
           sel == Selected \cup new
           s == [kind |-> "Stroke", sel |-> sel]
           l == [stroke |-> d.stroke, reading |-> d.reading, owns |-> sel]
           soon == FALSE
<1>1. RetTypes /\ StrokesMade /\ OneThread /\ edits \in Nat
  BY DEF RetInv, RetTypes
<1>2. /\ line.at \in 1 .. Len(line.states) /\ Selected = line.states[line.at].sel /\ Selected \in Sels
      /\ line \in Books(Entries) /\ Len(line.states) \in Nat
      /\ d.stroke \in Nat /\ d.reading \in Readings /\ d.stroke <= edits
  BY <1>1, ShownSelection DEF RetTypes, StrokesMade
<1>3. \A n \in 1 .. Len(line.states) : d.stroke \notin StrokesIn(line.states[n].sel)
  BY <1>1 DEF StrokesMade
<1>4. sel \in Sels /\ <<d.stroke, d.reading>> \in sel /\ StrokesIn(sel) = StrokesIn(Selected) \cup {d.stroke}
  <2>1. new \in Sels /\ StrokesIn(new) = {d.stroke}
    BY <1>2 DEF Sels, StrokesIn
  <2>2. StrokesIn(Selected \cup new) = StrokesIn(Selected) \cup StrokesIn(new)
    BY DEF StrokesIn
  <2> QED BY <1>2, <2>1, <2>2 DEF Sels
<1>5. OneEach(sel)
  <2>1. OneEach(Selected) /\ d.stroke \notin StrokesIn(Selected)
    BY <1>1, <1>2, <1>3 DEF StrokesMade
  <2> SUFFICES ASSUME NEW x \in sel, NEW y \in sel, x[1] = y[1] PROVE x = y
    BY DEF OneEach
  <2>2. (x \in Selected \/ x = <<d.stroke, d.reading>>) /\ (y \in Selected \/ y = <<d.stroke, d.reading>>)
    OBVIOUS
  <2>3. x \in Selected => x[1] # d.stroke
    BY <2>1 DEF StrokesIn
  <2>4. y \in Selected => y[1] # d.stroke
    BY <2>1 DEF StrokesIn
  <2>5. <<d.stroke, d.reading>>[1] = d.stroke
    OBVIOUS
  <2> HIDE DEF sel
  <2> QED BY <2>1, <2>2, <2>3, <2>4, <2>5 DEF OneEach
<1>6. sel # Selected
  BY <1>2, <1>3, <1>4 DEF StrokesIn
<1>7. /\ decoders' = decoders \ {d} /\ line' = Pushed(line, s, soon) /\ last' = l
      /\ UNCHANGED <<retunes, retuning, confidence, edits>>
  BY <1>6 DEF FreshLands, Selecting
<1>8. ~Joins(line, s, soon)
  BY DEF Joins
<1> HIDE DEF new, sel, soon
<1>9. s \in Entries /\ s.sel = sel
  BY <1>4 DEF Entries
<1>10. l \in Decodes /\ l.stroke = d.stroke /\ l.owns = sel
  BY <1>2, <1>4 DEF Decodes
<1> HIDE DEF s, l
<1>11. /\ line' \in Books(Entries) /\ line'.at = Len(line'.states) /\ line'.states[line'.at] = s
       /\ line'.at > 1 /\ line'.states[line'.at - 1] = line.states[line.at]
       /\ \A n \in 1 .. Len(line'.states) :
              \/ n = Len(line'.states) /\ line'.states[n] = s
              \/ \E m \in 1 .. Len(line.states) : m <= line.at /\ line'.states[n] = line.states[m]
  BY <1>1, <1>7, <1>8, <1>9, PushedSelections
<1>12. decoders' = {}
  BY <1>1, <1>7 DEF OneThread
<1>13. RetTypes'
  BY <1>1, <1>7, <1>10, <1>11 DEF RetTypes
<1>14. ASSUME NEW n \in 1 .. Len(line'.states)
       PROVE  OneEach(line'.states[n].sel) /\ \A k \in StrokesIn(line'.states[n].sel) : k <= edits
  <2>1. ASSUME NEW m \in 1 .. Len(line.states)
        PROVE  OneEach(line.states[m].sel) /\ \A k \in StrokesIn(line.states[m].sel) : k <= edits
    BY <1>1 DEF StrokesMade
  <2>2. \A k \in StrokesIn(sel) : k <= edits
    BY <1>2, <1>4, <2>1
  <2> QED BY <1>5, <1>9, <1>11, <2>1, <2>2
<1>15. l.stroke <= edits /\ Owned(line'.states, l)
  <2>1. l.stroke \in StrokesIn(l.owns)
    BY <1>4, <1>10
  <2>2. ASSUME NEW n \in 1 .. Len(line'.states), l.stroke \in StrokesIn(line'.states[n].sel)
        PROVE  n = Len(line'.states)
    <3>1. ~\E m \in 1 .. Len(line.states) : line'.states[n] = line.states[m]
      BY <1>3, <1>10, <2>2
    <3> QED BY <1>11, <3>1
  <2>3. /\ Len(line'.states) > 1 /\ line'.states[Len(line'.states)].sel = l.owns
        /\ StrokesIn(l.owns) = StrokesIn(line'.states[Len(line'.states) - 1].sel) \cup {l.stroke}
    BY <1>2, <1>4, <1>9, <1>10, <1>11
  <2> QED BY <1>2, <1>10, <2>1, <2>2, <2>3 DEF Owned
<1>16. StrokesMade'
  BY <1>7, <1>12, <1>14, <1>15 DEF StrokesMade
<1>17. OneThread'
  <2>1. retunes = {} /\ ~retuning
    BY <1>1 DEF OneThread
  <2> QED BY <1>7, <1>12, <2>1 DEF OneThread
<1> QED BY <1>13, <1>16, <1>17 DEF RetInv

\* pump_sam_results: a stroke that selects nothing.
LEMMA DecodeFailsKeeps == ASSUME RetInv, NEW d \in decoders, DecodeFails(d) PROVE RetInv'
<1>1. decoders' = decoders \ {d} /\ UNCHANGED <<line, last, retunes, retuning, confidence, here, edits>>
  BY DEF DecodeFails
<1>2. RetTypes /\ StrokesMade /\ OneThread
  BY DEF RetInv
<1>3. decoders' = {}
  BY <1>1, <1>2 DEF OneThread
<1>4. RetTypes'
  BY <1>1, <1>2 DEF RetTypes
<1>5. StrokesMade'
  BY <1>1, <1>2, SameSelections
<1> QED BY <1>1, <1>2, <1>3, <1>4, <1>5, ThreadAlone DEF RetInv

\* maybe_rethreshold_last_stroke: what is read again selects the same strokes.
LEMMA RethresholdKeeps == ASSUME RetInv, Rethreshold PROVE RetInv'
<1> DEFINE new == {<<last.stroke, confidence>>}
           sel == Base \cup new
           r == [sel |-> sel, reading |-> confidence]
<1>1. /\ ~retuning /\ Outdated /\ retuning' = TRUE /\ retunes' = retunes \cup {r}
      /\ UNCHANGED <<line, last, decoders, confidence, here, edits>>
  BY DEF Rethreshold
<1>2. RetTypes /\ StrokesMade /\ OneThread /\ confidence \in Readings
  BY DEF RetInv, RetTypes
<1>3. /\ last # NoDecode /\ last \in Decodes /\ Selected = last.owns
      /\ line.at - 1 \in 1 .. Len(line.states) /\ Base = line.states[line.at - 1].sel /\ Base \in Sels
      /\ StrokesIn(Selected) = StrokesIn(Base) \cup {last.stroke} /\ last.stroke \notin StrokesIn(Base)
  <2>1. LastOwner # NoDecode
    BY <1>1 DEF Outdated
  <2> QED BY <1>2, <2>1, OwnerIsNewest
<1>4. last.stroke \in Nat
  BY <1>3 DEF Decodes
<1>5. sel \in Sels /\ StrokesIn(sel) = StrokesIn(last.owns)
  <2>1. new \in Sels /\ StrokesIn(new) = {last.stroke}
    BY <1>2, <1>4 DEF Sels, StrokesIn
  <2>2. StrokesIn(Base \cup new) = StrokesIn(Base) \cup StrokesIn(new)
    BY DEF StrokesIn
  <2> QED BY <1>3, <2>1, <2>2 DEF Sels
<1>6. OneEach(sel)
  <2>1. OneEach(Base)
    BY <1>2, <1>3 DEF StrokesMade
  <2> SUFFICES ASSUME NEW x \in sel, NEW y \in sel, x[1] = y[1] PROVE x = y
    BY DEF OneEach
  <2>2. (x \in Base \/ x = <<last.stroke, confidence>>) /\ (y \in Base \/ y = <<last.stroke, confidence>>)
    OBVIOUS
  <2>3. x \in Base => x[1] # last.stroke
    BY <1>3 DEF StrokesIn
  <2>4. y \in Base => y[1] # last.stroke
    BY <1>3 DEF StrokesIn
  <2>5. <<last.stroke, confidence>>[1] = last.stroke
    OBVIOUS
  <2> HIDE DEF sel
  <2> QED BY <2>1, <2>2, <2>3, <2>4, <2>5 DEF OneEach
<1> HIDE DEF new, sel
<1>7. r \in [sel : Sels, reading : Readings] /\ r.sel = sel
  BY <1>2, <1>5
<1> HIDE DEF r
<1>8. decoders = {} /\ retunes = {}
  BY <1>1, <1>2 DEF OneThread
<1>9. RetTypes'
  BY <1>1, <1>2, <1>7 DEF RetTypes
<1>10. StrokesMade'
  BY <1>1, <1>2, SameSelections
<1>11. OneThread'
  <2>1. retunes' = {r} /\ decoders' = {} /\ retuning'
    BY <1>1, <1>8
  <2> QED BY <1>1, <1>5, <1>6, <1>7, <2>1 DEF OneThread
<1> QED BY <1>9, <1>10, <1>11 DEF RetInv

\* apply_rethreshold: it replaces the reading of its own stroke, if that one still owns
\* what is selected.
LEMMA RetuneLandsKeeps ==
    ASSUME RetInv, NEW r \in retunes, RetuneLands(r)
    PROVE  RetInv' /\ StrokesIn(Shown(line').sel) = StrokesIn(Selected)
<1>1. retunes' = retunes \ {r} /\ retuning' = FALSE /\ UNCHANGED <<decoders, confidence, here, edits>>
  BY DEF RetuneLands
<1>2. RetTypes /\ StrokesMade /\ OneThread /\ r \in [sel : Sels, reading : Readings] /\ edits \in Nat
  BY DEF RetInv, RetTypes
<1>3. retunes' = {} /\ decoders = {}
  BY <1>1, <1>2 DEF OneThread
<1>4. OneThread'
  BY <1>1, <1>3 DEF OneThread
<1>5. CASE LastOwner = NoDecode
  <2>1. line' = line /\ last' = NoDecode
    BY <1>5 DEF RetuneLands
  <2>2. RetTypes'
    BY <1>1, <1>2, <1>3, <2>1 DEF RetTypes
  <2>3. StrokesMade'
    BY <1>1, <1>2, <2>1, SameSelections
  <2>4. Shown(line').sel = Selected
    BY <2>1 DEF Selected
  <2> QED BY <1>4, <2>2, <2>3, <2>4 DEF RetInv
<1>6. CASE LastOwner # NoDecode
  <2> DEFINE s == [Shown(line) EXCEPT !.sel = r.sel]
             l == [last EXCEPT !.reading = r.reading, !.owns = r.sel]
  <2>1. line' = Amended(line, s) /\ last' = l
    BY <1>6 DEF RetuneLands
  <2>2. /\ last # NoDecode /\ last \in Decodes /\ Selected = last.owns
        /\ line.at = Len(line.states) /\ line.at > 1 /\ line.at - 1 \in 1 .. Len(line.states)
        /\ Base = line.states[line.at - 1].sel
        /\ StrokesIn(Selected) = StrokesIn(Base) \cup {last.stroke}
        /\ \A n \in 1 .. Len(line.states) : n # line.at => last.stroke \notin StrokesIn(line.states[n].sel)
    BY <1>2, <1>6, OwnerIsNewest
  <2>3. line \in Books(Entries) /\ Shown(line) \in Entries /\ line.at \in 1 .. Len(line.states) /\ Len(line.states) \in Nat
    BY <1>2, ShownSelection DEF RetTypes
  <2>4. s \in Entries /\ s.sel = r.sel
    BY <1>2, <2>3 DEF Entries
  <2>5. l \in Decodes /\ l.stroke = last.stroke /\ l.owns = r.sel
    BY <1>2, <2>2 DEF Decodes
  <2>6. OneEach(r.sel) /\ StrokesIn(r.sel) = StrokesIn(Selected)
    BY <1>2, <2>2 DEF OneThread
  <2> HIDE DEF s, l
  <2>7. /\ line' \in Books(Entries) /\ line'.at = line.at /\ Len(line'.states) = Len(line.states)
        /\ line'.states[line.at] = s
        /\ \A n \in (1 .. Len(line.states)) \ {line.at} : line'.states[n] = line.states[n]
    BY <2>1, <2>3, <2>4, AmendedBook
  <2>8. RetTypes'
    BY <1>1, <1>2, <1>3, <2>1, <2>5, <2>7 DEF RetTypes
  <2>9. ASSUME NEW n \in 1 .. Len(line'.states)
        PROVE  OneEach(line'.states[n].sel) /\ \A k \in StrokesIn(line'.states[n].sel) : k <= edits
    <3>1. ASSUME NEW m \in 1 .. Len(line.states)
          PROVE  OneEach(line.states[m].sel) /\ \A k \in StrokesIn(line.states[m].sel) : k <= edits
      BY <1>2 DEF StrokesMade
    <3>2. StrokesIn(r.sel) = StrokesIn(line.states[line.at].sel)
      BY <1>2, <2>6, ShownSelection
    <3>3. CASE n = line.at
      BY <2>3, <2>4, <2>6, <2>7, <3>1, <3>2, <3>3
    <3>4. CASE n # line.at
      BY <2>7, <3>1, <3>4
    <3> QED BY <3>3, <3>4
  <2>10. l.stroke <= edits /\ Owned(line'.states, l)
    <3>1. last.stroke <= edits
      BY <1>2, <2>2 DEF StrokesMade
    <3>2. line'.states[line.at - 1] = line.states[line.at - 1] /\ line.at - 1 # line.at
      BY <2>2, <2>3, <2>7
    <3>3. \A n \in 1 .. Len(line'.states) : l.stroke \in StrokesIn(line'.states[n].sel) => n = line.at
      BY <2>2, <2>5, <2>7
    <3>4. /\ line'.states[line.at].sel = l.owns
          /\ StrokesIn(l.owns) = StrokesIn(line'.states[line.at - 1].sel) \cup {l.stroke}
      BY <2>2, <2>4, <2>5, <2>6, <2>7, <3>2
    <3>5. l.stroke \in StrokesIn(l.owns)
      BY <3>4
    <3> QED BY <2>2, <2>5, <2>7, <3>1, <3>3, <3>4, <3>5 DEF Owned
  <2>11. StrokesMade'
    BY <1>1, <1>3, <2>1, <2>9, <2>10 DEF StrokesMade
  <2>12. Shown(line').sel = r.sel
    BY <2>4, <2>7 DEF Shown
  <2> QED BY <1>4, <2>6, <2>8, <2>11, <2>12 DEF RetInv
<1> QED BY <1>5, <1>6

\* Each step keeps the strokes apart.
LEMMA RetInvNext == ASSUME Careless = {}, Depth > 1, RetInv, [RetuneNext]_retuneVars PROVE RetInv'
<1>1. CASE UNCHANGED retuneVars
  <2>1. UNCHANGED <<line, last, decoders, retunes, retuning, confidence, here, edits>>
    BY <1>1 DEF retuneVars
  <2>2. RetTypes'
    BY <2>1 DEF RetInv, RetTypes
  <2>3. StrokesMade'
    BY <2>1, SameSelections DEF RetInv
  <2>4. OneThread'
    BY <2>1 DEF RetInv, OneThread, Outdated, LastOwner, Selected
  <2> QED BY <2>2, <2>3, <2>4 DEF RetInv
<1>2. CASE StrokeMade
  BY <1>2, StrokeMadeKeeps
<1>3. CASE Deselect
  BY <1>3, DeselectKeeps
<1>4. CASE Back
  BY <1>4, BackKeeps
<1>5. CASE Look
  BY <1>5, LookKeeps
<1>6. CASE Rethreshold
  BY <1>6, RethresholdKeeps
<1>7. ASSUME NEW c \in Readings, TurnConfidence(c) PROVE RetInv'
  BY <1>7, TurnConfidenceKeeps
<1>8. ASSUME NEW soon \in BOOLEAN, TurnKnob(soon) PROVE RetInv'
  BY <1>8, TurnKnobKeeps
<1>9. ASSUME NEW d \in decoders, FreshLands(d) PROVE RetInv'
  BY <1>9, FreshLandsKeeps
<1>10. ASSUME NEW d \in decoders, DecodeFails(d) PROVE RetInv'
  BY <1>10, DecodeFailsKeeps
<1>11. ASSUME NEW r \in retunes, RetuneLands(r) PROVE RetInv'
  BY <1>11, RetuneLandsKeeps
<1> QED BY <1>1, <1>2, <1>3, <1>4, <1>5, <1>6, <1>7, <1>8, <1>9, <1>10, <1>11 DEF RetuneNext

\* No stroke is read twice.
LEMMA RetInvEnough == RetInv => OneReading
BY DEF RetInv, StrokesMade, OneEach, OneReading

OthersStay ==
    (edits' = edits /\ retunes' # retunes /\ decoders' = decoders)
        => StrokesIn(Shown(line').sel) = StrokesIn(Selected)

\* What lands, and what does not.
LEMMA OthersStayStep == ASSUME RetInv, [RetuneNext]_retuneVars PROVE OthersStay
<1> SUFFICES ASSUME edits' = edits, retunes' # retunes, decoders' = decoders
             PROVE  StrokesIn(Shown(line').sel) = StrokesIn(Selected)
  BY DEF OthersStay
<1>1. edits \in Nat
  BY DEF RetInv, RetTypes
<1>2. ~(StrokeMade \/ Deselect \/ Back \/ Look)
  BY <1>1 DEF StrokeMade, Deselect, Back, Look, UserEdits
<1>3. \A c \in Readings : ~TurnConfidence(c)
  BY <1>1 DEF TurnConfidence, UserEdits
<1>4. \A soon \in BOOLEAN : ~TurnKnob(soon)
  BY <1>1 DEF TurnKnob, UserEdits
<1>5. \A d \in decoders : ~FreshLands(d) /\ ~DecodeFails(d)
  BY DEF FreshLands, DecodeFails
<1>6. CASE Rethreshold
  BY <1>6 DEF Rethreshold, Selected
<1>7. ASSUME NEW r \in retunes, RetuneLands(r) PROVE StrokesIn(Shown(line').sel) = StrokesIn(Selected)
  BY <1>7, RetuneLandsKeeps
<1>8. CASE UNCHANGED retuneVars
  BY <1>8 DEF retuneVars
<1> QED BY <1>2, <1>3, <1>4, <1>5, <1>6, <1>7, <1>8 DEF RetuneNext

\* A retune that lands takes no other stroke with it and brings none back
\* (pre_stroke_selection, apply_rethreshold).
THEOREM RetuneIsItsOwn ==
    ASSUME Careless = {}, Depth > 1 PROVE PartsSpec => RetuneKeepsOthers
<1>1. PartsInit => RetInv
  BY RetInvInit DEF PartsInit
<1>2. RetInv /\ [PartsNext]_partsVars => RetInv'
  BY EachPartSteps, RetInvNext
<1>3. RetInv /\ [PartsNext]_partsVars => [OthersStay]_retuneVars
  BY EachPartSteps, OthersStayStep
<1>4. PartsSpec => []RetInv
  BY <1>1, <1>2, PTL DEF PartsSpec
<1>5. PartsSpec => [][OthersStay]_retuneVars
  BY <1>3, <1>4, PTL DEF PartsSpec
<1> QED BY <1>5 DEF RetuneKeepsOthers, OthersStay

----------------------------------------------------------------------------
(* Folds                                                                   *)

\* h[S] is what the elements at the places S of s make of b, for places up to m.
Folding(h, m, A, F, b, s) ==
    /\ h \in [SUBSET (1 .. m) -> A]
    /\ \A S \in SUBSET (1 .. m) :
           /\ S # {} => Max(S) \in S
           /\ h[S] = IF S = {} THEN b ELSE F[<<h[S \ {Max(S)}], s[Max(S)]>>]

\* The function inside FoldLeft exists.
LEMMA FoldExists ==
    ASSUME NEW A, NEW T, NEW F \in [A \X T -> A], NEW b \in A, NEW s \in Seq(T)
    PROVE  \E h : Folding(h, Len(s), A, F, b, s)
<1> DEFINE P == {m \in Nat : m <= Len(s) => \E h : Folding(h, m, A, F, b, s)}
<1>1. 0 \in P
  <2> DEFINE h == [S \in SUBSET (1 .. 0) |-> b]
  <2>1. SUBSET (1 .. 0) = {{}}
    OBVIOUS
  <2>2. h \in [SUBSET (1 .. 0) -> A] /\ \A S \in SUBSET (1 .. 0) : S = {} /\ h[S] = b
    BY <2>1
  <2> HIDE DEF h
  <2>3. Folding(h, 0, A, F, b, s)
    BY <2>2 DEF Folding
  <2> QED BY <2>3
<1>2. ASSUME NEW m \in Nat, m \in P PROVE m + 1 \in P
  <2> SUFFICES ASSUME m + 1 <= Len(s) PROVE \E h : Folding(h, m + 1, A, F, b, s)
    OBVIOUS
  <2>1. PICK g : Folding(g, m, A, F, b, s)
    BY <1>2, LenProperties
  <2>2. g \in [SUBSET (1 .. m) -> A]
    BY <2>1 DEF Folding
  <2> DEFINE h == [S \in SUBSET (1 .. m + 1) |->
                      IF m + 1 \in S THEN F[<<g[S \ {m + 1}], s[m + 1]>>] ELSE g[S]]
  <2>3. s[m + 1] \in T
    BY ElementOfSeq, LenProperties
  <2>4. ASSUME NEW S \in SUBSET (1 .. m + 1)
        PROVE  /\ h[S] \in A /\ (S # {} => Max(S) \in S)
               /\ h[S] = IF S = {} THEN b ELSE F[<<h[S \ {Max(S)}], s[Max(S)]>>]
    <3>1. CASE m + 1 \in S
      <4>1. S \ {m + 1} \in SUBSET (1 .. m) /\ S \ {m + 1} \in SUBSET (1 .. m + 1)
        OBVIOUS
      <4>2. h[S \ {m + 1}] = g[S \ {m + 1}] /\ g[S \ {m + 1}] \in A
        BY <4>1, <2>2
      <4>3. Max(S) = m + 1
        <5>1. \A x \in S : m + 1 >= x /\ (x >= m + 1 => x = m + 1)
          OBVIOUS
        <5> QED BY <3>1, <5>1 DEF Max
      <4>4. h[S] = F[<<g[S \ {m + 1}], s[m + 1]>>]
        BY <3>1
      <4>5. <<g[S \ {m + 1}], s[m + 1]>> \in A \X T
        BY <2>3, <4>2
      <4> HIDE DEF h
      <4> QED BY <3>1, <4>2, <4>3, <4>4, <4>5
    <3>2. CASE m + 1 \notin S
      <4>0. S \in SUBSET (1 .. m) /\ m + 1 \notin 1 .. m
        <5>1. \A x \in S : x \in 1 .. m
          BY <3>2
        <5> QED BY <5>1
      <4>1. S \in SUBSET (1 .. m) /\ S \ {Max(S)} \in SUBSET (1 .. m) /\ m + 1 \notin S \ {Max(S)}
        BY <4>0
      <4>2. h[S] = g[S] /\ h[S \ {Max(S)}] = g[S \ {Max(S)}] /\ g[S] \in A
        BY <3>2, <4>1, <2>2
      <4>3. (S # {} => Max(S) \in S) /\ g[S] = IF S = {} THEN b ELSE F[<<g[S \ {Max(S)}], s[Max(S)]>>]
        BY <2>1, <4>1 DEF Folding
      <4> HIDE DEF h
      <4> QED BY <4>2, <4>3
    <3> QED BY <3>1, <3>2
  <2>5. h \in [SUBSET (1 .. m + 1) -> A]
    BY <2>4
  <2> HIDE DEF h
  <2> QED BY <2>4, <2>5 DEF Folding
<1> HIDE DEF P
<1>3. Nat \subseteq P
  BY <1>1, <1>2, NatInductionOnSet
<1> QED BY <1>3, LenProperties DEF P

\* g does what such a function does, as far as it is known to stay in A.
Follows(g, A, F, b, s) ==
    \A S \in SUBSET (1 .. Len(s)) :
        IF S = {} THEN g[S] = b
        ELSE g[S \ {Max(S)}] \in A => g[S] = F[<<g[S \ {Max(S)}], s[Max(S)]>>]

InOrder(g, A, F, b, s) ==
    /\ g[1 .. 0] = b
    /\ \A n \in 0 .. Len(s) : g[1 .. n] \in A
    /\ \A n \in 1 .. Len(s) : g[1 .. n] = F[<<g[1 .. n - 1], s[n]>>]

\* What such a function makes of the first n elements is what the n-th makes of
\* what those before it came to.
LEMMA FoldInOrder ==
    ASSUME NEW A, NEW T, NEW F \in [A \X T -> A], NEW b \in A, NEW s \in Seq(T), NEW g,
           Follows(g, A, F, b, s)
    PROVE  InOrder(g, A, F, b, s)
<1>1. Len(s) \in Nat /\ \A n \in 1 .. Len(s) : s[n] \in T
  BY LenProperties, ElementOfSeq
<1>2. g[1 .. 0] = b
  <2>1. 1 .. 0 = {} /\ {} \in SUBSET (1 .. Len(s))
    OBVIOUS
  <2> QED BY <2>1 DEF Follows
<1>3. ASSUME NEW n \in 1 .. Len(s), g[1 .. n - 1] \in A
      PROVE  g[1 .. n] = F[<<g[1 .. n - 1], s[n]>>]
  <2>1. n \in Nat /\ n >= 1 /\ n <= Len(s)
    BY <1>1
  <2>2. 1 .. n \in SUBSET (1 .. Len(s)) /\ n \in 1 .. n /\ 1 .. n # {}
    <3>1. n \in 1 .. n /\ \A x \in 1 .. n : x \in 1 .. Len(s)
      BY <1>1, <2>1
    <3> QED BY <3>1
  <2>3. Max(1 .. n) = n
    <3>1. \A x \in 1 .. n : n >= x /\ (x >= n => x = n)
      BY <2>1
    <3> QED BY <2>2, <3>1 DEF Max
  <2>4. (1 .. n) \ {n} = 1 .. n - 1
    BY <2>1
  <2> QED BY <1>3, <2>2, <2>3, <2>4 DEF Follows
<1> DEFINE P == {n \in Nat : n <= Len(s) => g[1 .. n] \in A}
<1>4. 0 \in P
  BY <1>2
<1>5. ASSUME NEW n \in Nat, n \in P PROVE n + 1 \in P
  <2> SUFFICES ASSUME n + 1 <= Len(s) PROVE g[1 .. n + 1] \in A
    OBVIOUS
  <2>1. n + 1 \in 1 .. Len(s) /\ (n + 1) - 1 = n /\ g[1 .. n] \in A
    BY <1>1, <1>5
  <2>2. g[1 .. n + 1] = F[<<g[1 .. n], s[n + 1]>>]
    BY <1>3, <2>1
  <2> QED BY <1>1, <2>1, <2>2
<1> HIDE DEF P
<1>6. Nat \subseteq P
  BY <1>4, <1>5, NatInductionOnSet
<1>7. \A n \in 0 .. Len(s) : g[1 .. n] \in A
  BY <1>1, <1>6 DEF P
<1>8. \A n \in 1 .. Len(s) : n - 1 \in 0 .. Len(s)
  BY <1>1
<1> QED BY <1>2, <1>3, <1>7, <1>8 DEF InOrder

----------------------------------------------------------------------------
(* Upscaling                                                               *)

Jobs     == [engine : {"none", "upscale", "cutout"}, run : Nat, version : Nat]
Photo    == {it \in [version : Nat, job : Jobs, processing : BOOLEAN] : it.job.version <= it.version}
Shelf    == [Pictures -> Photo]
Outcomes == [item : Pictures, run : Nat, outcome : {"done", "failed", "cancelled"}]
Runs     == [item : Pictures, run : Nat, at : {"decode", "build", "gap", "tile", "sent"}, left : 0 .. Tiles]

\* pump_upscale_results takes the results in order.
LEMMA TakenInOrder ==
    ASSUME item \in Shelf, results \in Seq(Outcomes),
           \A i \in Shelf, r \in Outcomes : Taken(i, r) \in Shelf
    PROVE  \E f \in [0 .. Len(results) -> Shelf] :
               /\ f[0] = item /\ f[Len(results)] = FoldLeft(Taken, item, results)
               /\ \A n \in 1 .. Len(results) : f[n] = Taken(f[n - 1], results[n])
<1> DEFINE F == [x \in Shelf \X Outcomes |-> Taken(x[1], x[2])]
           D(h) == [S \in SUBSET DOMAIN results |->
                       IF S = {} THEN item ELSE Taken(h[S \ {Max(S)}], results[Max(S)])]
           g == CHOOSE h : h = D(h)
           f == [n \in 0 .. Len(results) |-> g[1 .. n]]
<1>1. FoldLeft(Taken, item, results) = g[DOMAIN results]
  BY DEF FoldLeft, MapThenFoldSet
<1>2. DOMAIN results = 1 .. Len(results) /\ Len(results) \in Nat
      /\ \A n \in 1 .. Len(results) : results[n] \in Outcomes
  BY LenProperties, ElementOfSeq
<1>3. F \in [Shelf \X Outcomes -> Shelf] /\ \A i \in Shelf, r \in Outcomes : F[<<i, r>>] = Taken(i, r)
  OBVIOUS
<1> HIDE DEF F
<1>4. PICK h : Folding(h, Len(results), Shelf, F, item, results)
  BY <1>3, FoldExists
<1>5. h \in [SUBSET (1 .. Len(results)) -> Shelf]
  BY <1>4 DEF Folding
<1>6. ASSUME NEW S \in SUBSET (1 .. Len(results)), S # {}
      PROVE  Max(S) \in S /\ results[Max(S)] \in Outcomes
             /\ h[S] = Taken(h[S \ {Max(S)}], results[Max(S)])
  <2>1. Max(S) \in S /\ h[S] = F[<<h[S \ {Max(S)}], results[Max(S)]>>]
    BY <1>4, <1>6 DEF Folding
  <2>2. results[Max(S)] \in Outcomes /\ h[S \ {Max(S)}] \in Shelf
    BY <1>2, <1>5, <2>1
  <2> QED BY <1>3, <2>1, <2>2
<1>7. h = D(h)
  <2>1. \A S \in SUBSET (1 .. Len(results)) :
            h[S] = IF S = {} THEN item ELSE Taken(h[S \ {Max(S)}], results[Max(S)])
    BY <1>4, <1>6 DEF Folding
  <2> QED BY <1>2, <1>5, <2>1
<1>8. g = D(g)
  BY <1>7
<1> HIDE DEF g
<1>9. \A S \in SUBSET (1 .. Len(results)) :
          g[S] = IF S = {} THEN item ELSE Taken(g[S \ {Max(S)}], results[Max(S)])
  <2> TAKE S \in SUBSET (1 .. Len(results))
  <2>1. g[S] = D(g)[S]
    <3> HIDE DEF D
    <3> QED BY <1>8
  <2> QED BY <1>2, <2>1
<1>10. Follows(g, Shelf, F, item, results)
  BY <1>3, <1>6, <1>9 DEF Follows
<1>11. /\ g[1 .. 0] = item /\ \A n \in 0 .. Len(results) : g[1 .. n] \in Shelf
       /\ \A n \in 1 .. Len(results) : g[1 .. n] = F[<<g[1 .. n - 1], results[n]>>]
  <2>1. F \in [Shelf \X Outcomes -> Shelf]
    BY <1>3
  <2>2. InOrder(g, Shelf, F, item, results)
    BY <1>10, <2>1, FoldInOrder
  <2> QED BY <2>2 DEF InOrder
<1>12. f \in [0 .. Len(results) -> Shelf] /\ f[0] = item /\ f[Len(results)] = FoldLeft(Taken, item, results)
  BY <1>1, <1>2, <1>11
<1>13. ASSUME NEW n \in 1 .. Len(results) PROVE f[n] = Taken(f[n - 1], results[n])
  <2>1. n \in 0 .. Len(results) /\ n - 1 \in 0 .. Len(results) /\ results[n] \in Outcomes
    BY <1>2
  <2>2. f[n] = g[1 .. n] /\ f[n - 1] = g[1 .. n - 1] /\ g[1 .. n - 1] \in Shelf
    BY <1>11, <2>1
  <2>3. g[1 .. n] = F[<<g[1 .. n - 1], results[n]>>]
    BY <1>11
  <2> QED BY <1>3, <2>1, <2>2, <2>3
<1> QED BY <1>12, <1>13

UpShape ==
    /\ item \in Shelf /\ results \in Seq(Outcomes) /\ dispatches \in Nat
    /\ cutouts \subseteq [item : Pictures, run : Nat]
    /\ thread \in Runs \cup {NoThread}
    /\ active <=> thread # NoThread
    /\ thread.at \in {"decode", "build", "gap"} => thread.left > 0
    /\ \A c \in cutouts : c.run <= dispatches

\* What becomes of a photo.
LEMMA PhotosStay ==
    ASSUME NEW it \in Photo
    PROVE  /\ Landed(it) \in Photo /\ Abandoned(it) \in Photo
           /\ [it EXCEPT !.job = Unawaited] \in Photo
           /\ Stepped(it) \in Photo
<1>1. Unawaited \in Jobs /\ Unawaited.version = 0
  BY DEF Unawaited, Jobs
<1>2. it \in [version : Nat, job : Jobs, processing : BOOLEAN] /\ it.job.version <= it.version
      /\ it.job.version \in Nat /\ it.version \in Nat
  BY DEF Photo, Jobs
<1>3. Landed(it) \in Photo
  BY <1>1, <1>2 DEF Photo, Landed
<1>4. Abandoned(it) \in Photo
  <2> DEFINE one == [it EXCEPT !.job = Unawaited]
             off == FALSE
  <2>1. one \in [version : Nat, job : Jobs, processing : BOOLEAN] /\ one.job = Unawaited /\ one.version = it.version
    BY <1>1, <1>2
  <2>2. Abandoned(it) = [one EXCEPT !.processing = off] /\ off \in BOOLEAN
    BY DEF Abandoned
  <2> HIDE DEF one, off
  <2>3. Abandoned(it) \in [version : Nat, job : Jobs, processing : BOOLEAN]
        /\ Abandoned(it).job = Unawaited /\ Abandoned(it).version = it.version
    BY <2>1, <2>2
  <2> QED BY <1>1, <1>2, <2>3 DEF Photo
<1>5. [it EXCEPT !.job = Unawaited] \in Photo
  BY <1>1, <1>2 DEF Photo
<1>6. Stepped(it) \in Photo
  BY <1>2 DEF Photo, Stepped
<1> QED BY <1>3, <1>4, <1>5, <1>6

\* A photo that starts to wait.
LEMMA StartedStays ==
    ASSUME NEW it \in Photo, NEW engine \in {"upscale", "cutout"}, dispatches \in Nat
    PROVE  /\ Started(it, engine) \in Photo
           /\ Started(it, engine).job # Unawaited
           /\ Started(it, engine).job.run = dispatches + 1
<1> DEFINE job == [engine |-> engine, run |-> dispatches + 1, version |-> it.version]
           busy == it.processing \/ engine = "cutout"
<1>1. it \in [version : Nat, job : Jobs, processing : BOOLEAN] /\ it.version \in Nat
  BY DEF Photo
<1>2. job \in Jobs /\ job.version = it.version /\ job.run = dispatches + 1 /\ job.engine # "none"
  BY <1>1 DEF Jobs
<1>3. job # Unawaited
  BY <1>2 DEF Unawaited
<1>4. busy \in BOOLEAN
  BY <1>1
<1> DEFINE one == [it EXCEPT !.job = job]
<1>5. one \in [version : Nat, job : Jobs, processing : BOOLEAN] /\ one.job = job /\ one.version = it.version
  BY <1>1, <1>2
<1>6. Started(it, engine) = [one EXCEPT !.processing = busy]
  BY <1>1 DEF Started
<1> HIDE DEF job, busy, one
<1>7. /\ Started(it, engine) \in [version : Nat, job : Jobs, processing : BOOLEAN]
      /\ Started(it, engine).job = job /\ Started(it, engine).version = it.version
  BY <1>4, <1>5, <1>6
<1> QED BY <1>2, <1>3, <1>7 DEF Photo

\* A result changes the photo it names, if any.
LEMMA TakenStays ==
    ASSUME NEW i \in Shelf, NEW r \in Outcomes
    PROVE  /\ Taken(i, r) \in Shelf
           /\ \A p \in Pictures : Taken(i, r)[p] # i[p] => r.item = p /\ i[p].job # Unawaited
           /\ \A p \in Pictures : /\ Taken(i, r)[p] # i[p] => Taken(i, r)[p].job = Unawaited
                                  /\ Taken(i, r)[p].processing => i[p].processing
<1>1. r.item \in Pictures /\ i[r.item] \in Photo
  BY DEF Outcomes, Shelf
<1>2. CASE r.outcome = "done" /\ Awaits(i[r.item])
  <2>1. Taken(i, r) = [i EXCEPT ![r.item] = Landed(i[r.item])]
    BY <1>2 DEF Taken
  <2>2. Landed(i[r.item]) \in Photo /\ Landed(i[r.item]).job = Unawaited /\ ~Landed(i[r.item]).processing
        /\ i[r.item].job # Unawaited
    BY <1>1, <1>2, PhotosStay DEF Awaits, Landed
  <2> QED BY <1>1, <2>1, <2>2 DEF Shelf
<1>3. CASE r.outcome = "cancelled"
  <2> DEFINE it == [i[r.item] EXCEPT !.job = Unawaited]
  <2>1. Taken(i, r) = [i EXCEPT ![r.item] = it]
    BY <1>3 DEF Taken
  <2>2. it \in Photo /\ it.job = Unawaited /\ it.processing = i[r.item].processing
    BY <1>1, PhotosStay DEF Photo
  <2>3. i[r.item].job = Unawaited => it = i[r.item]
    BY <1>1 DEF Photo
  <2> HIDE DEF it
  <2> QED BY <1>1, <2>1, <2>2, <2>3 DEF Shelf
<1>4. CASE ~(r.outcome = "done" /\ Awaits(i[r.item])) /\ r.outcome # "cancelled"
  BY <1>4 DEF Taken
<1> QED BY <1>2, <1>3, <1>4

\* What the results make of the photos: one that changes was waiting, a result names
\* it, and it waits no more.
LEMMA ResultsTaken ==
    ASSUME item \in Shelf, results \in Seq(Outcomes)
    PROVE  /\ FoldLeft(Taken, item, results) \in Shelf
           /\ \A p \in Pictures :
                  LET new == FoldLeft(Taken, item, results)[p]
                  IN  /\ new # item[p] => /\ item[p].job # Unawaited /\ new.job = Unawaited
                                          /\ \E r \in Range(results) : r.item = p
                      /\ new.processing => item[p].processing
<1> DEFINE count == Len(results)
<1>1. PICK f \in [0 .. count -> Shelf] :
           /\ f[0] = item /\ f[count] = FoldLeft(Taken, item, results)
           /\ \A n \in 1 .. count : f[n] = Taken(f[n - 1], results[n])
  BY TakenInOrder, TakenStays
<1>2. count \in Nat /\ \A n \in 1 .. count : results[n] \in Outcomes /\ results[n] \in Range(results)
  BY LenProperties, ElementOfSeq DEF Range
<1> HIDE DEF count
<1> DEFINE Good(n, p) == /\ f[n][p] # item[p] => /\ item[p].job # Unawaited /\ f[n][p].job = Unawaited
                                                 /\ \E r \in Range(results) : r.item = p
                         /\ f[n][p].processing => item[p].processing
           P == {n \in Nat : n <= count => \A p \in Pictures : Good(n, p)}
<1>3. 0 \in P
  BY <1>1
<1>4. ASSUME NEW n \in Nat, n \in P PROVE n + 1 \in P
  <2> SUFFICES ASSUME n + 1 <= count, NEW p \in Pictures PROVE Good(n + 1, p)
    OBVIOUS
  <2>1. Good(n, p)
    BY <1>2, <1>4
  <2>2. n + 1 \in 1 .. count /\ f[n] \in Shelf /\ (n + 1) - 1 = n
    BY <1>1, <1>2
  <2>3. results[n + 1] \in Outcomes /\ results[n + 1] \in Range(results)
        /\ f[n + 1] = Taken(f[n], results[n + 1])
    BY <1>1, <1>2, <2>2
  <2>4. /\ f[n + 1][p] # f[n][p] => /\ results[n + 1].item = p /\ f[n][p].job # Unawaited
                                    /\ f[n + 1][p].job = Unawaited
        /\ f[n + 1][p].processing => f[n][p].processing
    <3> DEFINE i == f[n]
               r == results[n + 1]
    <3>1. i \in Shelf /\ r \in Outcomes /\ f[n + 1] = Taken(i, r)
      BY <2>2, <2>3
    <3> HIDE DEF i, r
    <3>2. /\ Taken(i, r)[p] # i[p] => /\ r.item = p /\ i[p].job # Unawaited
                                      /\ Taken(i, r)[p].job = Unawaited
          /\ Taken(i, r)[p].processing => i[p].processing
      BY <3>1, TakenStays
    <3> QED BY <3>1, <3>2 DEF i, r
  <2> QED BY <2>1, <2>3, <2>4
<1> HIDE DEF P
<1>5. Nat \subseteq P
  BY <1>3, <1>4, NatInductionOnSet
<1>6. \A p \in Pictures : Good(count, p)
  BY <1>2, <1>5 DEF P
<1>7. count \in 0 .. count
  BY <1>2
<1> QED BY <1>1, <1>6, <1>7

\* Nothing is upscaled to begin with.
LEMMA UpShapeInit == UpInit => UpShape
<1> SUFFICES ASSUME UpInit PROVE UpShape
  OBVIOUS
<1>1. Unawaited \in Jobs /\ Unawaited.version = 0
  BY DEF Unawaited, Jobs
<1>2. [version |-> 0, job |-> Unawaited, processing |-> FALSE] \in Photo
  BY <1>1 DEF Photo
<1>3. item \in Shelf
  BY <1>2 DEF UpInit, Shelf
<1>4. results \in Seq(Outcomes)
  BY EmptySeq DEF UpInit
<1>5. NoThread.at = "off"
  BY DEF NoThread
<1> QED BY <1>3, <1>4, <1>5 DEF UpInit, UpShape

\* A run is dispatched on a photo with nothing of its own under way.
LEMMA DispatchKeeps ==
    ASSUME UpShape, NEW p \in Pictures, NEW engine \in {"upscale", "cutout"}, Dispatches(p, engine)
    PROVE  /\ item' \in Shelf /\ dispatches' \in Nat /\ dispatches' = dispatches + 1
           /\ \A q \in Pictures \ {p} : item'[q] = item[q]
           /\ item'[p].job # Unawaited /\ item'[p].job.run = dispatches'
           /\ Hasty \/ Resting(p)
<1>1. dispatches \in Nat /\ item \in Shelf /\ item[p] \in Photo
  BY DEF UpShape, Shelf
<1>2. item' = [item EXCEPT ![p] = Started(item[p], engine)]
  BY DEF Dispatches
<1>3. Started(item[p], engine) \in Photo /\ Started(item[p], engine).job # Unawaited
      /\ Started(item[p], engine).job.run = dispatches + 1
  BY <1>1, StartedStays
<1> QED BY <1>1, <1>2, <1>3 DEF Dispatches, Shelf

\* What the user does to photos, one by one: each stays, is abandoned or takes a step.
LEMMA MoveKeeps ==
    ASSUME UpShape, CancelEverything \/ \E p \in Pictures : StepTo(p) \/ Commit(p)
    PROVE  /\ item' \in Shelf
           /\ \A p \in Pictures : /\ item'[p].job \in {Unawaited, item[p].job}
                                  /\ item'[p].processing =>
                                         item[p].processing /\ item'[p].job = item[p].job
<1>1. item \in Shelf /\ \A p \in Pictures : item[p] \in Photo
  BY DEF UpShape, Shelf
<1>2. ASSUME NEW it \in Photo
      PROVE  /\ Abandoned(it) \in Photo /\ Abandoned(it).job = Unawaited /\ ~Abandoned(it).processing
             /\ Stepped(it) \in Photo /\ Stepped(it).job = it.job
             /\ Stepped(it).processing = it.processing
  <2>1. Abandoned(it) \in Photo /\ Stepped(it) \in Photo
    BY PhotosStay
  <2>2. Abandoned(it).job = Unawaited /\ Abandoned(it).processing = FALSE
    <3> DEFINE one == [it EXCEPT !.job = Unawaited]
               off == FALSE
    <3>1. one \in [version : Nat, job : {Unawaited}, processing : BOOLEAN]
      BY DEF Photo
    <3>2. Abandoned(it) = [one EXCEPT !.processing = off] /\ off = FALSE
      BY DEF Abandoned
    <3> HIDE DEF one, off
    <3>3. Abandoned(it).job = Unawaited /\ Abandoned(it).processing = off
      BY <3>1, <3>2
    <3> QED BY <3>2, <3>3
  <2>3. Stepped(it).job = it.job /\ Stepped(it).processing = it.processing
    BY DEF Stepped, Photo
  <2> QED BY <2>1, <2>2, <2>3
<1>3. CASE CancelEverything
  <2>1. \A p \in Pictures : item'[p] = IF item[p].processing THEN Abandoned(item[p]) ELSE item[p]
    BY <1>3 DEF CancelEverything
  <2>2. DOMAIN item' = Pictures /\ item' = [p \in Pictures |-> item'[p]]
    BY <1>3 DEF CancelEverything
  <2>3. ASSUME NEW p \in Pictures
        PROVE  /\ item'[p] \in Photo /\ item'[p].job \in {Unawaited, item[p].job}
               /\ item'[p].processing => item[p].processing /\ item'[p].job = item[p].job
    BY <1>1, <1>2, <2>1
  <2> QED BY <2>2, <2>3 DEF Shelf
<1>4. ASSUME NEW p \in Pictures, StepTo(p)
      PROVE  /\ item' \in Shelf
             /\ \A q \in Pictures : /\ item'[q].job \in {Unawaited, item[q].job}
                                    /\ item'[q].processing =>
                                           item[q].processing /\ item'[q].job = item[q].job
  <2> DEFINE it == Stepped(item[p])
  <2>1. item' = [item EXCEPT ![p] = Abandoned(it)]
    BY <1>4 DEF StepTo
  <2>2. it \in Photo
    BY <1>1, <1>2
  <2> HIDE DEF it
  <2>3. Abandoned(it) \in Photo /\ Abandoned(it).job = Unawaited /\ ~Abandoned(it).processing
    BY <1>2, <2>2
  <2> QED BY <1>1, <2>1, <2>3 DEF Shelf
<1>5. ASSUME NEW p \in Pictures, Commit(p)
      PROVE  /\ item' \in Shelf
             /\ \A q \in Pictures : /\ item'[q].job \in {Unawaited, item[q].job}
                                    /\ item'[q].processing =>
                                           item[q].processing /\ item'[q].job = item[q].job
  <2> DEFINE it == Stepped(item[p])
  <2>1. item' = [item EXCEPT ![p] = it]
    BY <1>5 DEF Commit
  <2>2. it \in Photo /\ it.job = item[p].job /\ it.processing = item[p].processing
    BY <1>1, <1>2
  <2> HIDE DEF it
  <2> QED BY <1>1, <2>1, <2>2 DEF Shelf
<1> QED BY <1>3, <1>4, <1>5

\* A cut-out that ends changes its own photo, which then waits for nothing, and
\* only if it was being processed.
LEMMA CutOutKeeps ==
    ASSUME UpShape, NEW c \in cutouts, CutOutEnds(c)
    PROVE  /\ item' \in Shelf
           /\ \A p \in Pictures \ {c.item} : item'[p] = item[p]
           /\ item'[c.item] # item[c.item] =>
                  /\ item[c.item].processing
                  /\ item'[c.item].job = Unawaited /\ ~item'[c.item].processing
<1>1. c.item \in Pictures /\ item \in Shelf /\ item[c.item] \in Photo
  BY DEF UpShape, Shelf
<1> DEFINE it == item[c.item]
           due == it.processing /\ Awaits(it)
<1>2. PICK outcome \in {"done", "failed"} \cup (IF c \in asked THEN {"cancelled"} ELSE {}) :
          item' = [item EXCEPT ![c.item] =
                      CASE due /\ outcome = "done"            -> Landed(it)
                        [] due /\ outcome = "failed"          -> Abandoned(it)
                        [] it.processing /\ outcome = "cancelled" -> Abandoned(it)
                        [] OTHER                                  -> it]
  BY DEF CutOutEnds
<1>3. Landed(it) \in Photo /\ Landed(it).job = Unawaited /\ ~Landed(it).processing
  BY <1>1, PhotosStay DEF Landed
<1>4. Abandoned(it) \in Photo /\ Abandoned(it).job = Unawaited /\ ~Abandoned(it).processing
  <2> DEFINE one == [it EXCEPT !.job = Unawaited]
             off == FALSE
  <2>1. one \in [version : Nat, job : {Unawaited}, processing : BOOLEAN]
    BY <1>1 DEF Photo
  <2>2. Abandoned(it) = [one EXCEPT !.processing = off] /\ off = FALSE
    BY DEF Abandoned
  <2> HIDE DEF one, off
  <2>3. Abandoned(it).job = Unawaited /\ Abandoned(it).processing = off
    BY <2>1, <2>2
  <2> QED BY <1>1, <2>2, <2>3, PhotosStay
<1> DEFINE new == CASE due /\ outcome = "done"            -> Landed(it)
                    [] due /\ outcome = "failed"          -> Abandoned(it)
                    [] it.processing /\ outcome = "cancelled" -> Abandoned(it)
                    [] OTHER                                  -> it
<1>5. \/ new = it
      \/ it.processing /\ new \in {Landed(it), Abandoned(it)}
  BY DEF new
<1>6. item' = [item EXCEPT ![c.item] = new]
  BY <1>2
<1> HIDE DEF new, due
<1>7. new \in Photo /\ (new # it => it.processing /\ new.job = Unawaited /\ ~new.processing)
  BY <1>1, <1>3, <1>4, <1>5
<1> QED BY <1>1, <1>6, <1>7 DEF Shelf

\* A result that is sent.
LEMMA AnswerKeeps ==
    ASSUME UpShape, thread # NoThread, NEW outcome \in {"done", "failed", "cancelled"}, Answer(outcome)
    PROVE  /\ results' \in Seq(Outcomes)
           /\ \A r \in Range(results') \ Range(results) : r.item = thread.item /\ r.run = thread.run
           /\ thread' \in Runs /\ thread'.at = "sent" /\ thread'.item = thread.item /\ thread'.run = thread.run
           /\ UNCHANGED <<item, active, cutouts, dispatches>>
<1> DEFINE r == [item |-> thread.item, run |-> thread.run, outcome |-> outcome]
<1>1. thread \in Runs /\ results \in Seq(Outcomes)
  BY DEF UpShape
<1>2. r \in Outcomes /\ r.item = thread.item /\ r.run = thread.run
  BY <1>1 DEF Runs, Outcomes
<1>3. results' = Append(results, r)
  BY DEF Answer
<1> HIDE DEF r
<1>4. results' \in Seq(Outcomes) /\ Range(results') = Range(results) \cup {r}
  BY <1>1, <1>2, <1>3, AppendItems
<1>5. thread' = [thread EXCEPT !.at = "sent"]
  BY DEF Answer
<1>6. thread' \in Runs /\ thread'.at = "sent" /\ thread'.item = thread.item /\ thread'.run = thread.run
  BY <1>1, <1>5 DEF Runs
<1> QED BY <1>2, <1>4, <1>6 DEF Answer

\* What the thread does while it runs: it goes on, or it answers.
LEMMA ThreadRuns ==
    ASSUME UpShape, Decode \/ Build \/ NextTile \/ RunTile
    PROVE  /\ thread # NoThread /\ results' \in Seq(Outcomes)
           /\ \A r \in Range(results') \ Range(results) : r.item = thread.item /\ r.run = thread.run
           /\ thread' \in Runs /\ thread'.item = thread.item /\ thread'.run = thread.run
           /\ thread'.at # "off" /\ (thread'.at \in {"decode", "build", "gap"} => thread'.left > 0)
           /\ UNCHANGED <<item, active, cutouts, dispatches>>
<1>1. thread.at \in {"decode", "build", "gap", "tile"}
  BY DEF Decode, Build, NextTile, RunTile
<1>2. thread # NoThread /\ thread \in Runs
  BY <1>1 DEF UpShape, NoThread
<1>3. thread.left \in Nat /\ thread.left <= Tiles /\ Tiles \in Nat
  BY <1>2, UpscaleAssumption DEF Runs
<1>4. ASSUME NEW stage \in {"build", "gap", "tile"}, NEW left \in 0 .. Tiles, ThreadStep(stage, left),
             stage \in {"build", "gap"} => left > 0
      PROVE  /\ results' = results /\ UNCHANGED <<item, active, cutouts, dispatches>>
             /\ thread' \in Runs /\ thread'.item = thread.item /\ thread'.run = thread.run
             /\ thread'.at # "off" /\ (thread'.at \in {"decode", "build", "gap"} => thread'.left > 0)
  <2> DEFINE one == [thread EXCEPT !.at = stage]
  <2>1. one \in Runs /\ one.at = stage /\ one.item = thread.item /\ one.run = thread.run
    BY <1>2 DEF Runs
  <2>2. thread' = [one EXCEPT !.left = left]
    BY <1>4 DEF ThreadStep
  <2> HIDE DEF one
  <2>3. thread' \in Runs /\ thread'.at = stage /\ thread'.left = left /\ thread'.item = thread.item
        /\ thread'.run = thread.run
    BY <2>1, <2>2 DEF Runs
  <2> QED BY <1>4, <2>3 DEF ThreadStep
<1>5. \/ \E stage \in {"build", "gap", "tile"}, left \in 0 .. Tiles :
            ThreadStep(stage, left) /\ (stage \in {"build", "gap"} => left > 0)
      \/ \E outcome \in {"done", "failed", "cancelled"} : Answer(outcome)
  <2>1. CASE Decode
    <3>1. thread.left > 0
      BY <2>1 DEF Decode, UpShape
    <3> QED BY <1>3, <2>1, <3>1 DEF Decode
  <2>2. CASE Build
    <3>1. thread.left > 0
      BY <2>2 DEF Build, UpShape
    <3> QED BY <1>3, <2>2, <3>1 DEF Build
  <2>3. CASE NextTile
    <3>1. thread.left > 0
      BY <2>3 DEF NextTile, UpShape
    <3>2. thread.left - 1 \in 0 .. Tiles
      BY <1>3, <3>1
    <3> QED BY <2>3, <3>2 DEF NextTile
  <2>4. CASE RunTile
    BY <1>3, <2>4 DEF RunTile
  <2> QED BY <2>1, <2>2, <2>3, <2>4
<1>6. CASE \E outcome \in {"done", "failed", "cancelled"} : Answer(outcome)
  BY <1>2, <1>6, AnswerKeeps
<1>7. CASE \E stage \in {"build", "gap", "tile"}, left \in 0 .. Tiles :
            ThreadStep(stage, left) /\ (stage \in {"build", "gap"} => left > 0)
  <2>1. results \in Seq(Outcomes)
    BY DEF UpShape
  <2> QED BY <1>2, <1>4, <1>7, <2>1
<1> QED BY <1>5, <1>6, <1>7

\* Each step keeps the shape.
LEMMA UpShapeNext == ASSUME UpShape, [UpNext]_upVars PROVE UpShape'
<1>0. /\ item \in Shelf /\ results \in Seq(Outcomes) /\ dispatches \in Nat
      /\ cutouts \subseteq [item : Pictures, run : Nat] /\ thread \in Runs \cup {NoThread}
      /\ \A c \in cutouts : c.run <= dispatches /\ c.run \in Nat
  BY DEF UpShape
<1>1. CASE UNCHANGED upVars
  BY <1>1 DEF UpShape, upVars
<1>2. ASSUME NEW p \in Pictures, Upscale(p) PROVE UpShape'
  <2>1. item' \in Shelf /\ dispatches' \in Nat /\ dispatches' = dispatches + 1
    BY <1>2, DispatchKeeps DEF Upscale
  <2>2. \/ UNCHANGED <<active, thread>>
        \/ active' = TRUE /\ thread' = [item |-> p, run |-> dispatches', at |-> "decode", left |-> Tiles]
    BY <1>2 DEF Upscale
  <2>3. thread' \in Runs \cup {NoThread} /\ (active' <=> thread' # NoThread)
        /\ (thread'.at \in {"decode", "build", "gap"} => thread'.left > 0)
    <3>1. CASE UNCHANGED <<active, thread>>
      BY <3>1 DEF UpShape
    <3>2. CASE active' = TRUE /\ thread' = [item |-> p, run |-> dispatches', at |-> "decode", left |-> Tiles]
      <4>1. thread' \in Runs /\ thread'.at = "decode" /\ thread'.left = Tiles /\ Tiles > 0
        BY <2>1, <3>2, UpscaleAssumption DEF Runs
      <4>2. thread' # NoThread
        BY <4>1 DEF NoThread
      <4> QED BY <3>2, <4>1, <4>2
    <3> QED BY <2>2, <3>1, <3>2
  <2>4. results' = results /\ cutouts' = cutouts
    BY <1>2 DEF Upscale
  <2> QED BY <1>0, <2>1, <2>3, <2>4 DEF UpShape
<1>3. ASSUME NEW p \in Pictures, CutOut(p) PROVE UpShape'
  <2>1. item' \in Shelf /\ dispatches' \in Nat /\ dispatches' = dispatches + 1
    BY <1>3, DispatchKeeps DEF CutOut
  <2> DEFINE one == [item |-> p, run |-> dispatches']
  <2>2. cutouts' = cutouts \cup {one} /\ UNCHANGED <<active, thread, results>>
    BY <1>3 DEF CutOut
  <2>3. one \in [item : Pictures, run : Nat] /\ one.run = dispatches'
    BY <2>1
  <2> HIDE DEF one
  <2> QED BY <1>0, <2>1, <2>2, <2>3 DEF UpShape
<1>4. CASE CancelEverything \/ \E p \in Pictures : StepTo(p) \/ Commit(p)
  <2>1. item' \in Shelf
    BY <1>4, MoveKeeps
  <2>2. UNCHANGED <<active, thread, results, cutouts, dispatches>>
    BY <1>4 DEF CancelEverything, StepTo, Commit, Moves
  <2> QED BY <2>1, <2>2 DEF UpShape
<1>5. CASE Cancel \/ SwitchEngine
  BY <1>5 DEF UpShape, Cancel, SwitchEngine, Moves
<1>6. CASE PumpUpscale
  <2>1. FoldLeft(Taken, item, results) \in Shelf
    BY <1>0, ResultsTaken
  <2>2. results' = <<>> /\ item' = FoldLeft(Taken, item, results) /\ UNCHANGED <<active, thread, cutouts, dispatches>>
    BY <1>6 DEF PumpUpscale
  <2>3. results' \in Seq(Outcomes)
    BY <2>2, EmptySeq
  <2> QED BY <2>1, <2>2, <2>3 DEF UpShape
<1>7. ASSUME NEW c \in cutouts, CutOutEnds(c) PROVE UpShape'
  <2>1. item' \in Shelf
    BY <1>7, CutOutKeeps
  <2>2. cutouts' \subseteq cutouts /\ UNCHANGED <<active, thread, results, dispatches>>
    BY <1>7 DEF CutOutEnds
  <2> QED BY <2>1, <2>2 DEF UpShape
<1>8. CASE Decode \/ Build \/ NextTile \/ RunTile
  <2>1. /\ thread # NoThread /\ results' \in Seq(Outcomes) /\ thread' \in Runs
        /\ thread'.at # "off" /\ (thread'.at \in {"decode", "build", "gap"} => thread'.left > 0)
        /\ UNCHANGED <<item, active, cutouts, dispatches>>
    BY <1>8, ThreadRuns
  <2>2. thread' # NoThread
    BY <2>1 DEF NoThread
  <2> QED BY <2>1, <2>2 DEF UpShape
<1>9. CASE Leave
  <2>1. thread' = NoThread /\ active' = FALSE /\ NoThread.at = "off"
        /\ UNCHANGED <<item, results, cutouts, dispatches>>
    BY <1>9 DEF Leave, NoThread
  <2> QED BY <2>1 DEF UpShape
<1> QED BY <1>1, <1>2, <1>3, <1>4, <1>5, <1>6, <1>7, <1>8, <1>9 DEF UpNext, Thread

\* The shape is what the run checks.
LEMMA UpShapeEnough == UpShape => UpTypeOK
<1> SUFFICES ASSUME UpShape PROVE UpTypeOK
  OBVIOUS
<1>1. \A p \in Pictures : item[p].job.version <= item[p].version
  BY DEF UpShape, Shelf, Photo
<1>2. thread.left \in 0 .. Tiles
  BY UpscaleAssumption DEF UpShape, Runs, NoThread
<1> QED BY <1>1, <1>2 DEF UpShape, UpTypeOK

UpOwn ==
    /\ \A r \in Range(results) \cup cutouts :
           item[r.item].job # Unawaited => item[r.item].job.run = r.run
    /\ thread # NoThread /\ item[thread.item].job # Unawaited => item[thread.item].job.run = thread.run
    /\ \A c \in cutouts :
           /\ item[c.item].processing => item[c.item].job # Unawaited
           /\ thread # NoThread => thread.item # c.item
           /\ \A r \in Range(results) : r.item # c.item

\* Nothing is answered to begin with.
LEMMA UpOwnInit == UpInit => UpOwn
<1> SUFFICES ASSUME UpInit PROVE UpOwn
  OBVIOUS
<1>1. results = <<>> /\ cutouts = {} /\ thread = NoThread
  BY DEF UpInit
<1>2. Range(results) = {}
  BY <1>1 DEF Range
<1> QED BY <1>1, <1>2 DEF UpOwn

\* What names a photo.
LEMMA PhotosNamed ==
    ASSUME UpShape
    PROVE  /\ \A r \in Range(results) \cup cutouts : r.item \in Pictures /\ r.run \in Nat
           /\ thread # NoThread => thread.item \in Pictures
<1>1. \A r \in Range(results) : r \in Outcomes
  <2>1. results \in Seq(Outcomes)
    BY DEF UpShape
  <2> QED BY <2>1, LenProperties, ElementOfSeq DEF Range
<1> QED BY <1>1 DEF UpShape, Outcomes, Runs

\* Nothing new is awaited: what is on the way belongs where it did.
LEMMA OwnStays ==
    ASSUME UpShape, UpOwn, cutouts' \subseteq cutouts,
           \A r \in Range(results') \ Range(results) :
               thread # NoThread /\ r.item = thread.item /\ r.run = thread.run,
           \/ thread' = NoThread
           \/ thread # NoThread /\ thread'.item = thread.item /\ thread'.run = thread.run,
           \A p \in Pictures : item'[p].job \in {Unawaited, item[p].job},
           \A c \in cutouts' : item'[c.item].processing =>
                                   item[c.item].processing /\ item'[c.item].job = item[c.item].job
    PROVE  UpOwn'
<1>1. ASSUME NEW r \in Range(results') \cup cutouts', item'[r.item].job # Unawaited
      PROVE  item'[r.item].job.run = r.run
  <2>1. CASE r \in Range(results) \cup cutouts
    <3>1. r.item \in Pictures
      BY <2>1, PhotosNamed
    <3>2. item'[r.item].job = item[r.item].job
      BY <1>1, <3>1
    <3> QED BY <1>1, <2>1, <3>2 DEF UpOwn
  <2>2. CASE r \notin Range(results) \cup cutouts
    <3>1. thread # NoThread /\ r.item = thread.item /\ r.run = thread.run
      BY <1>1, <2>2
    <3>2. item'[r.item].job = item[r.item].job
      BY <1>1, <3>1, PhotosNamed
    <3> QED BY <1>1, <3>1, <3>2 DEF UpOwn
  <2> QED BY <2>1, <2>2
<1>2. ASSUME thread' # NoThread, item'[thread'.item].job # Unawaited
      PROVE  item'[thread'.item].job.run = thread'.run
  <2>1. thread # NoThread /\ thread'.item = thread.item /\ thread'.run = thread.run
    BY <1>2
  <2>2. item'[thread.item].job = item[thread.item].job
    BY <1>2, <2>1, PhotosNamed
  <2> QED BY <1>2, <2>1, <2>2 DEF UpOwn
<1>3. ASSUME NEW c \in cutouts'
      PROVE  /\ item'[c.item].processing => item'[c.item].job # Unawaited
             /\ thread' # NoThread => thread'.item # c.item
             /\ \A r \in Range(results') : r.item # c.item
  <2>1. c \in cutouts
    BY <1>3
  <2>2. item'[c.item].processing => item'[c.item].job # Unawaited
    BY <1>3, <2>1 DEF UpOwn
  <2>3. thread' # NoThread => thread'.item # c.item
    BY <2>1 DEF UpOwn
  <2>4. \A r \in Range(results') : r.item # c.item
    BY <2>1 DEF UpOwn
  <2> QED BY <2>2, <2>3, <2>4
<1> QED BY <1>1, <1>2, <1>3 DEF UpOwn

\* Each step keeps what is on the way to itself.
LEMMA UpOwnNext == ASSUME Hasty = FALSE, UpShape, UpOwn, [UpNext]_upVars PROVE UpOwn'
<1>1. CASE UNCHANGED upVars
  BY <1>1 DEF UpOwn, upVars
<1>2. ASSUME NEW p \in Pictures, Upscale(p) PROVE UpOwn'
  <2>1. /\ \A q \in Pictures \ {p} : item'[q] = item[q]
        /\ item'[p].job.run = dispatches' /\ Resting(p)
    BY <1>2, DispatchKeeps DEF Upscale
  <2>2. UNCHANGED <<results, cutouts>>
    BY <1>2 DEF Upscale
  <2>3. \A r \in Range(results) \cup cutouts : r.item # p /\ item'[r.item] = item[r.item]
    BY <2>1, PhotosNamed DEF Resting
  <2>4. \/ thread' = thread
        \/ thread'.item = p /\ thread'.run = dispatches'
    BY <1>2 DEF Upscale
  <2>5. ASSUME thread' # NoThread PROVE /\ item'[thread'.item].job # Unawaited =>
                                              item'[thread'.item].job.run = thread'.run
                                        /\ \A c \in cutouts : thread'.item # c.item
    <3>1. CASE thread' = thread
      <4>1. item'[thread.item] = item[thread.item]
        BY <2>1, <2>5, <3>1, PhotosNamed DEF Resting
      <4> QED BY <2>5, <3>1, <4>1 DEF UpOwn
    <3>2. CASE thread'.item = p /\ thread'.run = dispatches'
      BY <2>1, <2>3, <3>2
    <3> QED BY <2>4, <3>1, <3>2
  <2> QED BY <2>2, <2>3, <2>5 DEF UpOwn
<1>3. ASSUME NEW p \in Pictures, CutOut(p) PROVE UpOwn'
  <2>1. /\ \A q \in Pictures \ {p} : item'[q] = item[q]
        /\ item'[p].job # Unawaited /\ item'[p].job.run = dispatches' /\ Resting(p)
    BY <1>3, DispatchKeeps DEF CutOut
  <2> DEFINE one == [item |-> p, run |-> dispatches']
  <2>2. cutouts' = cutouts \cup {one} /\ UNCHANGED <<results, thread>>
    BY <1>3 DEF CutOut
  <2>3. one.item = p /\ one.run = dispatches'
    OBVIOUS
  <2> HIDE DEF one
  <2>4. \A r \in Range(results) \cup cutouts : r.item # p /\ item'[r.item] = item[r.item]
    BY <2>1, PhotosNamed DEF Resting
  <2>5. thread.item # p
    BY <2>1 DEF Resting
  <2>6. thread # NoThread => item'[thread.item] = item[thread.item]
    BY <2>1, <2>5, PhotosNamed
  <2> QED BY <2>1, <2>2, <2>3, <2>4, <2>5, <2>6 DEF UpOwn
<1>4. CASE CancelEverything \/ \E p \in Pictures : StepTo(p) \/ Commit(p)
  <2>1. UNCHANGED <<results, thread, cutouts>>
    BY <1>4 DEF CancelEverything, StepTo, Commit, Moves
  <2>2. \A p \in Pictures : /\ item'[p].job \in {Unawaited, item[p].job}
                            /\ item'[p].processing =>
                                   item[p].processing /\ item'[p].job = item[p].job
    BY <1>4, MoveKeeps
  <2> QED BY <2>1, <2>2, OwnStays, PhotosNamed
<1>5. CASE Cancel \/ SwitchEngine
  BY <1>5 DEF UpOwn, Cancel, SwitchEngine, Moves
<1>6. CASE PumpUpscale
  <2>1. results' = <<>> /\ item' = FoldLeft(Taken, item, results) /\ UNCHANGED <<thread, cutouts>>
    BY <1>6 DEF PumpUpscale
  <2>2. Range(results') = {}
    BY <2>1 DEF Range
  <2>3. \A p \in Pictures :
            /\ item'[p] # item[p] => /\ item'[p].job = Unawaited
                                     /\ \E r \in Range(results) : r.item = p
            /\ item'[p].processing => item[p].processing
    BY <2>1, ResultsTaken DEF UpShape
  <2>4. \A p \in Pictures : item'[p].job \in {Unawaited, item[p].job}
    BY <2>3
  <2>5. \A c \in cutouts : item'[c.item] = item[c.item]
    BY <2>3, PhotosNamed DEF UpOwn
  <2> QED BY <2>1, <2>2, <2>4, <2>5, OwnStays
<1>7. ASSUME NEW c \in cutouts, CutOutEnds(c) PROVE UpOwn'
  <2>1. /\ \A p \in Pictures \ {c.item} : item'[p] = item[p]
        /\ item'[c.item] # item[c.item] => item'[c.item].job = Unawaited /\ ~item'[c.item].processing
    BY <1>7, CutOutKeeps
  <2>2. cutouts' \subseteq cutouts /\ UNCHANGED <<thread, results>>
    BY <1>7 DEF CutOutEnds
  <2>3. \A p \in Pictures : /\ item'[p].job \in {Unawaited, item[p].job}
                            /\ item'[p].processing =>
                                   item[p].processing /\ item'[p].job = item[p].job
    BY <2>1
  <2> QED BY <2>2, <2>3, OwnStays, PhotosNamed
<1>8. CASE Decode \/ Build \/ NextTile \/ RunTile
  <2>1. /\ thread # NoThread
        /\ \A r \in Range(results') \ Range(results) : r.item = thread.item /\ r.run = thread.run
        /\ thread'.item = thread.item /\ thread'.run = thread.run
        /\ UNCHANGED <<item, cutouts>>
    BY <1>8, ThreadRuns
  <2> QED BY <2>1, OwnStays
<1>9. CASE Leave
  BY <1>9, OwnStays DEF Leave
<1> QED BY <1>1, <1>2, <1>3, <1>4, <1>5, <1>6, <1>7, <1>8, <1>9 DEF UpNext, Thread

OwnRunEnds ==
    LET ended == (Range(results) \ Range(results')) \cup (cutouts \ cutouts')
    IN  \A p \in Pictures :
            (ended # {} /\ item'[p] # item[p])
                => \E r \in ended : r.item = p /\ r.run = item[p].job.run

\* What ends, and whose wait.
LEMMA OwnRunEndsStep == ASSUME UpShape, UpOwn, [UpNext]_upVars PROVE OwnRunEnds
<1> DEFINE ended == (Range(results) \ Range(results')) \cup (cutouts \ cutouts')
<1> SUFFICES ASSUME ended # {}, NEW p \in Pictures, item'[p] # item[p]
             PROVE  \E r \in ended : r.item = p /\ r.run = item[p].job.run
  BY DEF OwnRunEnds
<1>1. CASE PumpUpscale
  <2>1. results' = <<>> /\ item' = FoldLeft(Taken, item, results) /\ cutouts' = cutouts
    BY <1>1 DEF PumpUpscale
  <2>2. Range(results') = {}
    BY <2>1 DEF Range
  <2>3. item[p].job # Unawaited /\ \E r \in Range(results) : r.item = p
    BY <2>1, ResultsTaken DEF UpShape
  <2>4. ended = Range(results)
    BY <2>1, <2>2
  <2> QED BY <2>3, <2>4 DEF UpOwn
<1>2. ASSUME NEW c \in cutouts, CutOutEnds(c) PROVE \E r \in ended : r.item = p /\ r.run = item[p].job.run
  <2>1. p = c.item /\ item[p].processing
    BY <1>2, CutOutKeeps
  <2>2. c \in ended
    BY <1>2 DEF CutOutEnds
  <2>3. item[p].job # Unawaited
    BY <2>1 DEF UpOwn
  <2> QED BY <2>1, <2>2, <2>3 DEF UpOwn
<1>3. ASSUME NEW q \in Pictures, Upscale(q) \/ CutOut(q) \/ StepTo(q) \/ Commit(q) PROVE FALSE
  BY <1>3 DEF Upscale, CutOut, StepTo, Commit, Moves
<1>4. CASE Cancel \/ SwitchEngine \/ CancelEverything
  BY <1>4 DEF Cancel, SwitchEngine, CancelEverything, Moves
<1>5. CASE Thread
  <2>1. item' = item
    BY <1>5, ThreadRuns DEF Thread, Leave
  <2> QED BY <2>1
<1>6. CASE UNCHANGED upVars
  BY <1>6 DEF upVars
<1> QED BY <1>1, <1>2, <1>3, <1>4, <1>5, <1>6 DEF UpNext

\* An answer ends the wait for its own run and for no other run of the image,
\* where a run starts once the last one there has ended (on_batch_item_done,
\* pump_upscale_results).
THEOREM AnswersTheirOwn ==
    ASSUME Hasty = FALSE PROVE PartsSpec => EndsItsOwnRun
<1>1. PartsInit => UpShape /\ UpOwn
  BY UpShapeInit, UpOwnInit DEF PartsInit
<1>2. UpShape /\ UpOwn /\ [PartsNext]_partsVars => UpShape' /\ UpOwn'
  BY EachPartSteps, UpShapeNext, UpOwnNext
<1>3. UpShape /\ UpOwn /\ [PartsNext]_partsVars => [OwnRunEnds]_upVars
  BY EachPartSteps, OwnRunEndsStep
<1>4. PartsSpec => [](UpShape /\ UpOwn)
  BY <1>1, <1>2, PTL DEF PartsSpec
<1>5. PartsSpec => [][OwnRunEnds]_upVars
  BY <1>3, <1>4, PTL DEF PartsSpec
<1> QED BY <1>5 DEF EndsItsOwnRun, OwnRunEnds

----------------------------------------------------------------------------
(* Live preview                                                            *)

Makings == [knobs : Knobs, sel : Selections \cup {"none"}, born : Nat]
Pages    == [kind : {"Process", "Adjust", "Stroke"}, knobs : Knobs, sel : Selections \cup {"none"},
             born : Nat, made : Makings]
Previews == [gen : Nat \ {0}, version : Nat, cancelled : BOOLEAN, made : Makings]

PrevTypes ==
    /\ hist \in Books(Pages) /\ waiting \in {"no", "debouncing", "due"}
    /\ generation \in Nat /\ inflight \in 0 .. generation /\ tweaks \in Nat
    /\ workers \cup finished \subseteq Previews

\* What is computed was asked for, for a state there has been: for the one that is
\* shown, where the version is its own; and what is in flight was not called off.
PrevInv ==
    /\ PrevTypes
    /\ \A w \in workers \cup finished :
           /\ w.gen <= generation /\ w.version <= hist.version
           /\ w.version = hist.version => w.made.born = PrevShown.born
           /\ w.cancelled => w.gen # inflight
    /\ inflight # 0 => failed \/ inflight \in {w.gen : w \in workers \cup finished}

\* Nothing is computed to begin with.
LEMMA PrevInvInit == PrevInit => PrevInv
<1> SUFFICES ASSUME PrevInit PROVE PrevInv
  OBVIOUS
<1>1. PICK k \in Knobs :
          hist = NewTimeline([kind |-> "Process", knobs |-> k, sel |-> "none", born |-> 0,
                              made |-> [knobs |-> k, sel |-> "none", born |-> 0]])
  BY DEF PrevInit
<1>2. [kind |-> "Process", knobs |-> k, sel |-> "none", born |-> 0,
       made |-> [knobs |-> k, sel |-> "none", born |-> 0]] \in Pages
  BY DEF Pages, Makings
<1>3. hist \in Books(Pages)
  BY <1>1, <1>2, FirstPage
<1> QED BY <1>3 DEF PrevInit, PrevInv, PrevTypes

\* The state that is shown.
LEMMA PageShown ==
    ASSUME PrevInv
    PROVE  /\ hist \in Books(Pages) /\ hist.version \in Nat
           /\ PrevShown \in Pages /\ Knob \in Knobs /\ PrevShown.made \in Makings
<1>1. hist \in Books(Pages)
  BY DEF PrevInv, PrevTypes
<1>2. hist.version \in Nat /\ hist.states \in Seq(Pages) /\ hist.at \in 1 .. Len(hist.states)
  BY <1>1 DEF Books
<1>3. PrevShown \in Pages
  BY <1>2, ElementOfSeq DEF PrevShown, Shown
<1> QED BY <1>1, <1>2, <1>3 DEF Knob, Pages

\* Where the user has taken the image, the previews are of the states before, or the
\* state they were computed for has only been filled in.
LEMMA UserMoves ==
    ASSUME PrevInv, hist' \in Books(Pages),
           \/ hist'.version = hist.version /\ Shown(hist').born = PrevShown.born
           \/ hist'.version = hist.version + 1,
           waiting' \in {"no", "debouncing", "due"}, tweaks' \in Nat,
           UNCHANGED <<inflight, generation, workers, finished, failed>>
    PROVE  PrevInv'
<1>1. PrevTypes'
  BY DEF PrevInv, PrevTypes
<1>2. hist.version \in Nat /\ \A w \in workers \cup finished : w.version \in Nat
  BY PageShown DEF PrevInv, PrevTypes, Previews
<1>3. ASSUME NEW w \in workers \cup finished
      PROVE  /\ w.gen <= generation /\ w.version <= hist'.version
             /\ w.version = hist'.version => w.made.born = Shown(hist').born
             /\ w.cancelled => w.gen # inflight
  BY <1>2 DEF PrevInv
<1>4. PrevShown' = Shown(hist')
  BY DEF PrevShown
<1> QED BY <1>1, <1>3, <1>4 DEF PrevInv

\* A state that is pushed: a new one under a new version, or the one that is shown.
LEMMA PageTurned ==
    ASSUME PrevInv, NEW s \in Pages, NEW soon \in BOOLEAN, hist' = Pushed(hist, s, soon),
           s.made = PrevShown.made, Joins(hist, s, soon) => s.born = PrevShown.born
    PROVE  /\ hist' \in Books(Pages) /\ Shown(hist').made = PrevShown.made
           /\ \/ hist'.version = hist.version /\ Shown(hist').born = PrevShown.born
              \/ hist'.version = hist.version + 1
<1>1. hist \in Books(Pages)
  BY PageShown
<1>2. CASE Joins(hist, s, soon)
  <2>1. hist' = Amended(hist, s)
    BY <1>2 DEF Pushed
  <2>2. hist' \in Books(Pages) /\ hist'.version = hist.version /\ Shown(hist') = s
    BY <1>1, <2>1, AmendedBook DEF Shown
  <2> QED BY <1>2, <2>2
<1>3. CASE ~Joins(hist, s, soon)
  <2>1. hist' \in Books(Pages) /\ hist'.version = hist.version + 1 /\ Shown(hist') = s
    BY <1>1, <1>3, PushedBook DEF Shown
  <2> QED BY <2>1
<1> QED BY <1>2, <1>3

\* A knob that moves.
LEMMA TweakKeeps ==
    ASSUME PrevInv, NEW k \in Knobs, NEW soon \in BOOLEAN, NEW firm \in BOOLEAN, Tweak(k, soon, firm)
    PROVE  PrevInv' /\ Shown(hist').made = PrevShown.made
<1>1. tweaks \in Nat /\ tweaks' = tweaks + 1 /\ tweaks' \in Nat
  BY DEF Tweak, UserActs, PrevInv, PrevTypes
<1> DEFINE born == IF Joins(hist, [kind |-> "Adjust"], soon) THEN PrevShown.born ELSE tweaks'
           s == [PrevShown EXCEPT !.kind = "Adjust", !.knobs = k, !.born = born]
<1>2. PrevShown \in Pages /\ PrevShown.born \in Nat
  BY PageShown DEF Pages
<1>3. born \in Nat
  BY <1>1, <1>2
<1>4. hist' = Pushed(hist, s, soon)
  BY DEF Tweak
<1>5. Joins(hist, [kind |-> "Adjust"], soon) => born = PrevShown.born
  OBVIOUS
<1> HIDE DEF born
<1>6. s \in Pages /\ s.made = PrevShown.made /\ s.born = born /\ s.kind = "Adjust"
  <2> DEFINE s1 == [PrevShown EXCEPT !.kind = "Adjust"]
             s2 == [s1 EXCEPT !.knobs = k]
  <2>1. s1 \in Pages /\ s1.made = PrevShown.made /\ s1.kind = "Adjust"
    BY <1>2 DEF Pages
  <2> HIDE DEF s1
  <2>2. s2 \in Pages /\ s2.made = PrevShown.made /\ s2.kind = "Adjust"
    BY <2>1 DEF Pages
  <2>3. s = [s2 EXCEPT !.born = born]
    BY <1>2 DEF s1
  <2> HIDE DEF s2, s
  <2> QED BY <1>3, <2>2, <2>3 DEF Pages
<1> HIDE DEF s
<1>7. Joins(hist, s, soon) => s.born = PrevShown.born
  BY <1>5, <1>6 DEF Joins
<1>8. /\ hist' \in Books(Pages) /\ Shown(hist').made = PrevShown.made
      /\ \/ hist'.version = hist.version /\ Shown(hist').born = PrevShown.born
         \/ hist'.version = hist.version + 1
  BY <1>4, <1>6, <1>7, PageTurned
<1>9. waiting' \in {"no", "debouncing", "due"} /\ UNCHANGED <<inflight, generation, workers, finished, failed>>
  BY DEF Tweak, Asked, UserActs
<1> QED BY <1>1, <1>8, <1>9, UserMoves

\* A stroke.
LEMMA BrushKeeps ==
    ASSUME PrevInv, NEW sel \in Selections, Brush(sel)
    PROVE  PrevInv' /\ Shown(hist').made = PrevShown.made
<1>1. tweaks \in Nat /\ tweaks' = tweaks + 1 /\ tweaks' \in Nat
  BY DEF Brush, UserActs, PrevInv, PrevTypes
<1> DEFINE s == [PrevShown EXCEPT !.kind = "Stroke", !.sel = sel, !.born = tweaks']
           never == FALSE
<1>2. PrevShown \in Pages
  BY PageShown
<1>3. hist' = Pushed(hist, s, never) /\ never \in BOOLEAN
  BY DEF Brush
<1>4. s \in Pages /\ s.made = PrevShown.made /\ s.kind = "Stroke"
  <2> DEFINE s1 == [PrevShown EXCEPT !.kind = "Stroke"]
             s2 == [s1 EXCEPT !.sel = sel]
  <2>1. s1 \in Pages /\ s1.made = PrevShown.made /\ s1.kind = "Stroke"
    BY <1>2 DEF Pages
  <2> HIDE DEF s1
  <2>2. s2 \in Pages /\ s2.made = PrevShown.made /\ s2.kind = "Stroke"
    BY <2>1 DEF Pages
  <2>3. s = [s2 EXCEPT !.born = tweaks']
    BY <1>2 DEF s1
  <2> HIDE DEF s2, s
  <2> QED BY <1>1, <2>2, <2>3 DEF Pages
<1> HIDE DEF s, never
<1>5. ~Joins(hist, s, never)
  BY <1>4 DEF Joins
<1>6. /\ hist' \in Books(Pages) /\ Shown(hist').made = PrevShown.made
      /\ \/ hist'.version = hist.version /\ Shown(hist').born = PrevShown.born
         \/ hist'.version = hist.version + 1
  BY <1>3, <1>4, <1>5, PageTurned
<1>7. waiting' = "due" /\ UNCHANGED <<inflight, generation, workers, finished, failed>>
  BY DEF Brush, Asked, UserActs
<1> QED BY <1>1, <1>6, <1>7, UserMoves

\* Undo and redo, which call a preview off.
LEMMA StepTargetsKeeps == ASSUME PrevInv, StepTargets PROVE PrevInv' /\ (hist'.version # hist.version \/ hist' = hist)
<1>1. /\ hist \in Books(Pages) /\ hist.version \in Nat
  BY PageShown
<1>2. hist' \in Books(Pages) /\ (hist' = hist \/ hist'.version = hist.version + 1)
  <2>1. CASE StepBack
    BY <1>1, <2>1, WalkedBook DEF StepBack
  <2>2. CASE StepForward
    BY <1>1, <2>2, WalkedBook DEF StepForward
  <2> QED BY <2>1, <2>2 DEF StepTargets
<1>3. /\ waiting' = "no" /\ inflight' = 0 /\ tweaks' = tweaks + 1
      /\ UNCHANGED <<generation, finished, failed>>
      /\ workers' = {IF w.gen = inflight THEN [w EXCEPT !.cancelled = TRUE] ELSE w : w \in workers}
  BY DEF StepTargets, Cancelled, UserActs
<1>4. ASSUME NEW w \in workers'
      PROVE  /\ w \in Previews
             /\ \E v \in workers : w.gen = v.gen /\ w.version = v.version /\ w.made = v.made
  <2>1. PICK v \in workers : w = IF v.gen = inflight THEN [v EXCEPT !.cancelled = TRUE] ELSE v
    BY <1>3
  <2>2. v \in Previews
    BY DEF PrevInv, PrevTypes
  <2> DEFINE off == TRUE
             one == [v EXCEPT !.cancelled = off]
  <2>3. one \in Previews /\ one.gen = v.gen /\ one.version = v.version /\ one.made = v.made
    <3> HIDE DEF off
    <3>1. off \in BOOLEAN
      BY DEF off
    <3> QED BY <2>2, <3>1 DEF Previews
  <2>4. w \in {one, v}
    BY <2>1
  <2> HIDE DEF one
  <2> QED BY <2>2, <2>3, <2>4
<1>5. \A w \in workers' \cup finished' :
          /\ w \in Previews /\ w.gen # 0
          /\ \E v \in workers \cup finished : w.gen = v.gen /\ w.version = v.version /\ w.made = v.made
  BY <1>3, <1>4 DEF PrevInv, PrevTypes, Previews
<1>6. PrevTypes'
  BY <1>2, <1>3, <1>5 DEF PrevInv, PrevTypes
<1>7. PrevShown' = Shown(hist')
  BY DEF PrevShown
<1>8. ASSUME NEW w \in workers' \cup finished'
      PROVE  /\ w.gen <= generation' /\ w.version <= hist'.version
             /\ w.version = hist'.version => w.made.born = PrevShown'.born
             /\ w.cancelled => w.gen # inflight'
  <2>1. PICK v \in workers \cup finished : w.gen = v.gen /\ w.version = v.version /\ w.made = v.made
    BY <1>5
  <2>2. v.version \in Nat /\ v.version <= hist.version /\ v.gen <= generation
        /\ (v.version = hist.version => v.made.born = PrevShown.born)
    BY DEF PrevInv, PrevTypes, Previews
  <2>3. hist' = hist => PrevShown' = PrevShown
    BY <1>7 DEF PrevShown
  <2>4. w.gen # inflight'
    BY <1>3, <1>5
  <2> QED BY <1>1, <1>2, <1>3, <2>1, <2>2, <2>3, <2>4
<1>9. PrevInv'
  BY <1>3, <1>6, <1>8 DEF PrevInv
<1> QED BY <1>1, <1>2, <1>9

\* A frame: what lands was computed for the state that is shown.
LEMMA FrameKeeps ==
    ASSUME PrevInv, NEW ready \in BOOLEAN, Frame(ready)
    PROVE  /\ PrevInv' /\ hist'.version = hist.version
           /\ Shown(hist').made = PrevShown.made \/ Shown(hist').made.born = Shown(hist').born
<1>1. /\ hist \in Books(Pages) /\ hist.version \in Nat /\ PrevShown \in Pages /\ Knob \in Knobs
      /\ PrevShown.sel \in Selections \cup {"none"} /\ PrevShown.born \in Nat
  BY PageShown DEF Pages
<1>2. /\ generation \in Nat /\ inflight \in 0 .. generation /\ workers \cup finished \subseteq Previews
      /\ waiting \in {"no", "debouncing", "due"} /\ tweaks \in Nat
  BY DEF PrevInv, PrevTypes
<1>3. generation' = Newest(ready) /\ finished' = {} /\ UNCHANGED <<tweaks, failed>>
      /\ workers' = workers \cup (IF Due(ready) THEN {Dispatched} ELSE {})
      /\ waiting' \in {"no", "debouncing", "due"}
      /\ inflight' = (IF Drained(ready) # {} THEN 0 ELSE IF Due(ready) THEN Newest(ready) ELSE inflight)
      /\ hist' = Applied(Drained(ready))
  BY <1>2 DEF Frame
<1>4. Newest(ready) = IF Due(ready) THEN generation + 1 ELSE generation
  BY <1>2 DEF Newest
<1>5. /\ hist' \in Books(Pages) /\ hist'.version = hist.version /\ Shown(hist').born = PrevShown.born
      /\ Shown(hist').made = PrevShown.made \/ Shown(hist').made.born = Shown(hist').born
  <2> DEFINE fit == {r \in Drained(ready) : r.version = hist.version}
  <2>1. CASE fit = {}
    BY <1>1, <1>3, <2>1 DEF Applied, PrevShown
  <2>2. CASE fit # {}
    <3> DEFINE r == CHOOSE r \in fit : TRUE
               s == [PrevShown EXCEPT !.made = r.made]
    <3>1. r \in fit /\ hist' = Amended(hist, s)
      BY <1>3, <2>2 DEF Applied
    <3>2. r \in finished /\ r.version = hist.version
      BY <3>1 DEF Drained
    <3> HIDE DEF r
    <3>3. r \in Previews /\ r.made \in Makings /\ r.made.born = PrevShown.born
      BY <3>2 DEF PrevInv, PrevTypes, Previews
    <3>4. s \in Pages /\ s.made = r.made /\ s.born = PrevShown.born
      BY <1>1, <3>3 DEF Pages
    <3> HIDE DEF s
    <3>5. hist' \in Books(Pages) /\ hist'.version = hist.version /\ Shown(hist') = s
      <4>1. hist \in Books(Pages) /\ s \in Pages /\ hist' = Amended(hist, s)
        BY <1>1, <3>1, <3>4
      <4> QED BY <4>1, AmendedBook DEF Shown
    <3> QED BY <3>3, <3>4, <3>5
  <2> QED BY <2>1, <2>2
<1>6. /\ Dispatched \in Previews /\ Dispatched.gen = generation + 1 /\ Dispatched.version = hist.version
      /\ Dispatched.made.born = PrevShown.born
  <2> DEFINE making == [knobs |-> Knob, sel |-> PrevShown.sel, born |-> PrevShown.born]
             off == FALSE
  <2>1. making \in Makings /\ making.born = PrevShown.born
    BY <1>1 DEF Makings
  <2>2. Dispatched = [gen |-> generation + 1, version |-> hist.version, cancelled |-> off, made |-> making]
        /\ off \in BOOLEAN
    BY DEF Dispatched
  <2> HIDE DEF making, off
  <2> QED BY <1>1, <1>2, <2>1, <2>2 DEF Previews
<1>7. PrevTypes'
  <2>1. workers' \cup finished' \subseteq Previews
    BY <1>2, <1>3, <1>6
  <2>2. generation' \in Nat /\ inflight' \in 0 .. generation'
    BY <1>2, <1>3, <1>4
  <2> QED BY <1>2, <1>3, <1>5, <2>1, <2>2 DEF PrevTypes
<1>8. ASSUME NEW w \in workers' \cup finished'
      PROVE  /\ w.gen <= generation' /\ w.version <= hist'.version
             /\ w.version = hist'.version => w.made.born = Shown(hist').born
             /\ w.cancelled => w.gen # inflight'
  <2>1. CASE w \in workers
    <3>1. w.gen \in Nat \ {0} /\ w.gen <= generation /\ w.version \in Nat /\ w.version <= hist.version
          /\ (w.version = hist.version => w.made.born = PrevShown.born) /\ (w.cancelled => w.gen # inflight)
      BY <1>2, <2>1 DEF PrevInv, Previews
    <3> QED BY <1>2, <1>3, <1>4, <1>5, <3>1
  <2>2. CASE w = Dispatched /\ Due(ready)
    <3>1. ~w.cancelled
      BY <2>2 DEF Dispatched
    <3> QED BY <1>1, <1>2, <1>3, <1>4, <1>5, <1>6, <2>2, <3>1
  <2> QED BY <1>3, <2>1, <2>2
<1>9. inflight' # 0 => failed' \/ inflight' \in {w.gen : w \in workers' \cup finished'}
  <2> SUFFICES ASSUME inflight' # 0, ~failed PROVE \E w \in workers' : inflight' = w.gen
    BY <1>3
  <2>1. CASE Due(ready)
    BY <1>3, <1>4, <1>6, <2>1
  <2>2. CASE ~Due(ready)
    <3>1. Drained(ready) = {} /\ inflight' = inflight
      BY <1>3, <2>2
    <3>2. PICK w \in workers \cup finished : inflight = w.gen
      BY <3>1 DEF PrevInv
    <3>3. w \notin finished
      BY <2>2, <3>1, <3>2 DEF Drained
    <3> QED BY <1>3, <3>1, <3>2, <3>3
  <2> QED BY <2>1, <2>2
<1>10. PrevShown' = Shown(hist')
  BY DEF PrevShown
<1> QED BY <1>5, <1>7, <1>8, <1>9, <1>10 DEF PrevInv

\* A worker ends.
LEMMA WorkerKeeps == ASSUME PrevInv, NEW w \in workers, WorkerEnds(w) PROVE PrevInv' /\ hist' = hist
<1>1. /\ workers' = workers \ {w} /\ UNCHANGED <<hist, waiting, inflight, generation, checked, tweaks>>
      /\ \/ finished' = (IF w.cancelled THEN finished ELSE finished \cup {w}) /\ failed' = failed
         \/ failed' = TRUE /\ finished' = finished
  BY DEF WorkerEnds
<1>2. workers' \cup finished' \subseteq workers \cup finished
  BY <1>1
<1>3. PrevTypes'
  BY <1>1, <1>2 DEF PrevInv, PrevTypes
<1>4. PrevShown' = PrevShown
  BY <1>1 DEF PrevShown
<1>5. inflight' # 0 => failed' \/ inflight' \in {v.gen : v \in workers' \cup finished'}
  <2> SUFFICES ASSUME inflight # 0, ~failed' PROVE \E v \in workers' \cup finished' : inflight = v.gen
    BY <1>1
  <2>1. failed' = failed /\ finished' = (IF w.cancelled THEN finished ELSE finished \cup {w})
    BY <1>1
  <2>2. PICK v \in workers \cup finished : inflight = v.gen
    BY <2>1 DEF PrevInv
  <2>3. ~v.cancelled
    BY <2>2 DEF PrevInv
  <2> QED BY <1>1, <2>1, <2>2, <2>3
<1>6. \A v \in workers' \cup finished' :
          /\ v.gen <= generation' /\ v.version <= hist'.version
          /\ v.version = hist'.version => v.made.born = PrevShown'.born
          /\ v.cancelled => v.gen # inflight'
  BY <1>1, <1>2, <1>4 DEF PrevInv
<1> QED BY <1>1, <1>3, <1>5, <1>6 DEF PrevInv

LandsInItsState ==
    (hist'.version = hist.version /\ Shown(hist').made # PrevShown.made)
        => Shown(hist').made.born = Shown(hist').born

\* Each step keeps the previews to their states.
LEMMA PrevInvNext == ASSUME PrevInv, [PrevNext]_prevVars PROVE PrevInv' /\ LandsInItsState
<1>1. CASE UNCHANGED prevVars
  BY <1>1 DEF PrevInv, PrevTypes, LandsInItsState, PrevShown, prevVars
<1>2. ASSUME NEW k \in Knobs, NEW soon \in BOOLEAN, NEW firm \in BOOLEAN, Tweak(k, soon, firm)
      PROVE  PrevInv' /\ LandsInItsState
  BY <1>2, TweakKeeps DEF LandsInItsState
<1>3. ASSUME NEW s \in Selections, Brush(s) PROVE PrevInv' /\ LandsInItsState
  BY <1>3, BrushKeeps DEF LandsInItsState
<1>4. CASE StepTargets
  BY <1>4, StepTargetsKeeps DEF LandsInItsState, PrevShown
<1>5. ASSUME NEW ready \in BOOLEAN, Frame(ready) PROVE PrevInv' /\ LandsInItsState
  BY <1>5, FrameKeeps DEF LandsInItsState
<1>6. CASE Debounced
  BY <1>6 DEF PrevInv, PrevTypes, LandsInItsState, PrevShown, Debounced
<1>7. ASSUME NEW w \in workers, WorkerEnds(w) PROVE PrevInv' /\ LandsInItsState
  BY <1>7, WorkerKeeps DEF LandsInItsState, PrevShown
<1> QED BY <1>1, <1>2, <1>3, <1>4, <1>5, <1>6, <1>7 DEF PrevNext

\* This is what the run checks.
LEMMA PrevInvEnough == PrevInv => PrevTypeOK
<1> SUFFICES ASSUME PrevInv PROVE PrevTypeOK
  OBVIOUS
<1>1. hist \in Books(Pages)
  BY PageShown
<1>2. Len(hist.states) \in 1 .. Depth /\ hist.at \in DOMAIN hist.states
  <2>1. hist.states \in Seq(Pages) /\ hist.at \in 1 .. Len(hist.states) /\ Len(hist.states) <= Depth
    BY <1>1 DEF Books
  <2>2. DOMAIN hist.states = 1 .. Len(hist.states) /\ Len(hist.states) \in Nat /\ Depth \in Nat
    BY <2>1, LenProperties, TimelineAssumption
  <2> QED BY <2>1, <2>2
<1> QED BY <1>2 DEF PrevInv, PrevTypes, PrevTypeOK

\* While an image stays in one state, its result is only ever replaced by one that was
\* computed for this state (apply_completed_previews).
THEOREM PreviewsLandRight == PartsSpec => PreviewLands
<1>1. PartsInit => PrevInv
  BY PrevInvInit DEF PartsInit
<1>2. PrevInv /\ [PartsNext]_partsVars => PrevInv'
  BY EachPartSteps, PrevInvNext
<1>3. PrevInv /\ [PartsNext]_partsVars => [LandsInItsState]_prevVars
  BY EachPartSteps, PrevInvNext
<1>4. PartsSpec => []PrevInv
  BY <1>1, <1>2, PTL DEF PartsSpec
<1>5. PartsSpec => [][LandsInItsState]_prevVars
  BY <1>3, <1>4, PTL DEF PartsSpec
<1> QED BY <1>5 DEF PreviewLands, LandsInItsState

----------------------------------------------------------------------------
(* Downloads                                                               *)

Says     == {"idle", "queued", "in progress", "verifying", "done", "failed", "refused"}
Endings  == {"done", "failed", "refused"}
Tells    == [id : Models, kind : {"in progress", "verifying"} \cup Endings]
Fetches  == [id : Models, file : 1 .. 2, try : 1 .. MaxAttempts, at : {"fetch", "verify", "pause"}, stop : BOOLEAN]
Managers == [shown : [Models -> Says], queue : Seq(Models), fetching : Models \cup {"none"},
             fetchers : SUBSET Fetches, events : Seq(Tells)]

\* One thread at the most, and it fetches what is active, which says so; the queue holds
\* what says it is queued; and after the answer of what is active there is no thread.
Served(d) ==
    /\ \A t \in d.fetchers : t.id = d.fetching
    /\ \A t, u \in d.fetchers : t = u
    /\ Range(d.queue) = {id \in Models : d.shown[id] = "queued"} /\ Distinct(d.queue)
    /\ d.fetching # "none" => d.fetching \notin Broken /\ d.shown[d.fetching] \in {"in progress", "verifying"}
    /\ \A e \in Range(d.events) :
           /\ d.shown[e.id] # "queued"
           /\ e.kind \in Endings /\ e.id = d.fetching => d.fetchers = {}

DlInv == Manager \in Managers /\ Served(Manager)

\* What there is when the events have been applied: only a model that cannot be had
\* may have something to say.
Settled(d) ==
    /\ d \in Managers /\ Served(d)
    /\ d.fetching # "none" => d.events = <<>>
    /\ \A e \in Range(d.events) : e.id \in Broken

\* What the manager becomes is what there is.
LEMMA ManagerBecomes ==
    /\ \A d : Becomes(d) => /\ Manager'.shown = d.shown /\ Manager'.queue = d.queue
                            /\ Manager'.fetching = d.fetching /\ Manager'.fetchers = d.fetchers
                            /\ Manager'.events = d.events
    /\ \A d \in Managers : Becomes(d) /\ Served(d) => DlInv'
    /\ Manager.shown = shown /\ Manager.queue = queue /\ Manager.fetching = fetching
    /\ Manager.fetchers = fetchers /\ Manager.events = events
<1>1. ASSUME NEW d, Becomes(d)
      PROVE  /\ Manager'.shown = d.shown /\ Manager'.queue = d.queue
             /\ Manager'.fetching = d.fetching /\ Manager'.fetchers = d.fetchers
             /\ Manager'.events = d.events
  BY <1>1 DEF Becomes, Manager
<1>2. ASSUME NEW d \in Managers, Becomes(d), Served(d) PROVE DlInv'
  <2>1. Manager' = [shown |-> d.shown, queue |-> d.queue, fetching |-> d.fetching,
                    fetchers |-> d.fetchers, events |-> d.events]
    BY <1>2 DEF Becomes, Manager
  <2>2. Manager' \in Managers
    BY <1>2, <2>1 DEF Managers
  <2>3. Served(Manager')
    BY <1>1, <1>2 DEF Served
  <2> QED BY <2>2, <2>3 DEF DlInv
<1> QED BY <1>1, <1>2 DEF Manager

\* Nothing is downloaded to begin with.
LEMMA DlInvInit == DlInit => DlInv
<1> SUFFICES ASSUME DlInit PROVE DlInv
  OBVIOUS
<1>1. /\ Manager.shown = [id \in Models |-> "idle"] /\ Manager.queue = <<>> /\ Manager.fetching = "none"
      /\ Manager.fetchers = {} /\ Manager.events = <<>>
  BY ManagerBecomes DEF DlInit
<1>2. Range(<<>>) = {} /\ Distinct(<<>>)
  BY DEF Range, Distinct
<1>3. Manager \in Managers
  <2>1. shown \in [Models -> Says] /\ queue \in Seq(Models) /\ events \in Seq(Tells)
    BY EmptySeq DEF DlInit, Says
  <2>2. fetching \in Models \cup {"none"} /\ fetchers \in SUBSET Fetches
    BY DEF DlInit
  <2> QED BY <2>1, <2>2 DEF Manager, Managers
<1> QED BY <1>1, <1>2, <1>3 DEF DlInv, Served

\* An event that is applied.
LEMMA EventApplied ==
    ASSUME NEW d \in Managers, NEW e \in Tells, Served(d), d.shown[e.id] # "queued",
           e.kind \in Endings /\ e.id = d.fetching => d.fetchers = {}
    PROVE  LET u == ApplyEvent(d, e) IN
           /\ u \in Managers /\ Served(u)
           /\ u.queue = d.queue /\ u.fetchers = d.fetchers /\ u.events = d.events
           /\ u.fetching \in {d.fetching, "none"}
           /\ \A id \in Models : u.shown[id] = "queued" <=> d.shown[id] = "queued"
<1> DEFINE sh == [d.shown EXCEPT ![e.id] = e.kind]
           fe == IF e.kind \in Endings /\ d.fetching = e.id THEN "none" ELSE d.fetching
           v  == [d EXCEPT !.shown = sh]
           u  == ApplyEvent(d, e)
<1>1. /\ d.shown \in [Models -> Says] /\ d.queue \in Seq(Models) /\ d.fetching \in Models \cup {"none"}
      /\ d.fetchers \in SUBSET Fetches /\ d.events \in Seq(Tells)
      /\ e.id \in Models /\ e.kind \in {"in progress", "verifying"} \cup Endings
  BY DEF Managers, Tells
<1>2. /\ sh \in [Models -> Says] /\ fe \in Models \cup {"none"} /\ fe \in {d.fetching, "none"}
      /\ \A id \in Models : sh[id] = IF id = e.id THEN e.kind ELSE d.shown[id]
  BY <1>1 DEF Says, Endings
<1>3. u = [v EXCEPT !.fetching = fe]
  BY DEF ApplyEvent, Managers, Endings
<1>4. fe = IF e.kind \in Endings /\ d.fetching = e.id THEN "none" ELSE d.fetching
  OBVIOUS
<1> HIDE DEF sh, fe
<1>5. v \in Managers /\ v.shown = sh /\ v.queue = d.queue /\ v.fetching = d.fetching
      /\ v.fetchers = d.fetchers /\ v.events = d.events
  BY <1>2 DEF Managers
<1> HIDE DEF v
<1>6. u \in Managers /\ u.shown = sh /\ u.queue = d.queue /\ u.fetching = fe
      /\ u.fetchers = d.fetchers /\ u.events = d.events
  BY <1>2, <1>3, <1>5 DEF Managers
<1> HIDE DEF u
<1>7. \A id \in Models : sh[id] = "queued" <=> d.shown[id] = "queued"
  BY <1>1, <1>2 DEF Endings
<1>8. Served(u)
  <2>1. \A t \in d.fetchers : t.id = fe
    <3>1. d.fetchers # {} => fe = d.fetching
      BY <1>4
    <3> QED BY <3>1 DEF Served
  <2>2. Range(d.queue) = {id \in Models : sh[id] = "queued"}
    BY <1>7 DEF Served
  <2>3. fe # "none" => fe \notin Broken /\ sh[fe] \in {"in progress", "verifying"}
    BY <1>1, <1>2, <1>4 DEF Served
  <2>4. ASSUME NEW x \in Range(d.events)
        PROVE  sh[x.id] # "queued" /\ (x.kind \in Endings /\ x.id = fe => d.fetchers = {})
    <3>1. x \in Tells /\ x.id \in Models
      <4>1. x \in Tells
        <5>1. PICK n \in DOMAIN d.events : x = d.events[n]
          BY <2>4 DEF Range
        <5>2. d.events \in Seq(Tells) /\ DOMAIN d.events = 1 .. Len(d.events)
          BY <1>1, LenProperties
        <5> QED BY <5>1, <5>2, ElementOfSeq
      <4> QED BY <4>1 DEF Tells
    <3>2. x.id # "none"
      BY <3>1, DownloadsAssumption
    <3> QED BY <1>2, <1>7, <2>4, <3>1, <3>2 DEF Served
  <2> QED BY <1>6, <2>1, <2>2, <2>3, <2>4 DEF Served
<1> QED BY <1>2, <1>6, <1>7, <1>8 DEF u

\* Pending events are applied in order.
LEMMA EventsApplied ==
    ASSUME DlInv
    PROVE  LET d == FoldLeft(ApplyEvent, [Manager EXCEPT !.events = <<>>], events) IN
           d \in Managers /\ Served(d) /\ d.events = <<>>
<1> DEFINE start == [Manager EXCEPT !.events = <<>>]
           T == {e \in Tells : /\ shown[e.id] # "queued"
                               /\ e.kind \in Endings /\ e.id = fetching => fetchers = {}}
           A == {d \in Managers : /\ Served(d) /\ d.events = <<>> /\ d.fetchers = fetchers
                                  /\ d.fetching \in {fetching, "none"}
                                  /\ \A id \in Models : d.shown[id] = "queued" <=> shown[id] = "queued"}
           F == [x \in A \X T |-> ApplyEvent(x[1], x[2])]
           D(h) == [S \in SUBSET DOMAIN events |->
                       IF S = {} THEN start ELSE ApplyEvent(h[S \ {Max(S)}], events[Max(S)])]
           g == CHOOSE h : h = D(h)
<1>1. FoldLeft(ApplyEvent, start, events) = g[DOMAIN events]
  BY DEF FoldLeft, MapThenFoldSet
<1>2. Manager \in Managers /\ Served(Manager) /\ events \in Seq(Tells)
      /\ Manager.shown = shown /\ Manager.fetching = fetching /\ Manager.fetchers = fetchers
      /\ Manager.events = events /\ Manager.queue = queue
  <2>1. Manager \in Managers /\ Served(Manager)
    BY DEF DlInv
  <2>2. Manager.events \in Seq(Tells)
    BY <2>1 DEF Managers
  <2> QED BY <2>1, <2>2, ManagerBecomes
<1>3. start \in A
  <2> DEFINE none == <<>>
  <2>1. none \in Seq(Tells) /\ Range(none) = {}
    BY EmptySeq DEF Range
  <2>2. start = [Manager EXCEPT !.events = none]
    OBVIOUS
  <2>3. none = <<>>
    OBVIOUS
  <2> HIDE DEF none, start
  <2>4. start \in Managers /\ start.shown = shown /\ start.queue = queue /\ start.fetching = fetching
        /\ start.fetchers = fetchers /\ start.events = none
    BY <1>2, <2>1, <2>2 DEF Managers
  <2>5. Served(start)
    <3>1. /\ \A t \in fetchers : t.id = fetching
          /\ \A t, u \in fetchers : t = u
          /\ Range(queue) = {id \in Models : shown[id] = "queued"} /\ Distinct(queue)
          /\ fetching # "none" => fetching \notin Broken /\ shown[fetching] \in {"in progress", "verifying"}
      BY <1>2 DEF Served
    <3>2. Range(start.events) = {}
      BY <2>1, <2>4
    <3> QED BY <2>4, <3>1, <3>2 DEF Served
  <2> QED BY <2>3, <2>4, <2>5
<1>4. events \in Seq(T) /\ DOMAIN events = 1 .. Len(events) /\ Len(events) \in Nat
      /\ \A n \in 1 .. Len(events) : events[n] \in T
  <2>1. DOMAIN events = 1 .. Len(events) /\ Len(events) \in Nat
    BY <1>2, LenProperties
  <2>2. ASSUME NEW n \in 1 .. Len(events) PROVE events[n] \in T
    <3>1. events[n] \in Tells /\ events[n] \in Range(events)
      BY <1>2, <2>1, ElementOfSeq DEF Range
    <3> QED BY <1>2, <3>1 DEF Served
  <2> HIDE DEF T
  <2>3. events \in [1 .. Len(events) -> T]
    BY <1>2, <2>1, <2>2
  <2> QED BY <2>1, <2>2, <2>3, SeqDef
<1>5. ASSUME NEW d \in A, NEW e \in T PROVE ApplyEvent(d, e) \in A
  <2> DEFINE u == ApplyEvent(d, e)
  <2>1. d \in Managers /\ e \in Tells /\ e.id \in Models /\ Served(d) /\ d.shown[e.id] # "queued"
        /\ (e.kind \in Endings /\ e.id = d.fetching => d.fetchers = {})
    <3>1. e.id \in Models /\ e.id # "none"
      BY DownloadsAssumption DEF Tells
    <3> QED BY <3>1
  <2>2. /\ u \in Managers /\ Served(u)
        /\ u.fetchers = d.fetchers /\ u.events = d.events /\ u.fetching \in {d.fetching, "none"}
        /\ \A id \in Models : u.shown[id] = "queued" <=> d.shown[id] = "queued"
    BY <2>1, EventApplied
  <2> HIDE DEF u
  <2>3. u \in A
    BY <2>2
  <2> QED BY <2>3 DEF u
<1> HIDE DEF T, A, start
<1>6. F \in [A \X T -> A] /\ \A d \in A, e \in T : F[<<d, e>>] = ApplyEvent(d, e)
  BY <1>5
<1> HIDE DEF F
<1>7. PICK h : Folding(h, Len(events), A, F, start, events)
  <2>1. F \in [A \X T -> A]
    BY <1>6
  <2> QED BY <1>3, <1>4, <2>1, FoldExists
<1>8. h \in [SUBSET (1 .. Len(events)) -> A]
  BY <1>7 DEF Folding
<1>9. ASSUME NEW S \in SUBSET (1 .. Len(events)), S # {}
      PROVE  Max(S) \in S /\ events[Max(S)] \in T
             /\ h[S] = ApplyEvent(h[S \ {Max(S)}], events[Max(S)])
  <2>1. Max(S) \in S /\ h[S] = F[<<h[S \ {Max(S)}], events[Max(S)]>>]
    BY <1>7, <1>9 DEF Folding
  <2>2. events[Max(S)] \in T /\ h[S \ {Max(S)}] \in A
    BY <1>4, <1>8, <2>1
  <2> QED BY <1>6, <2>1, <2>2
<1>10. h = D(h)
  <2>1. \A S \in SUBSET (1 .. Len(events)) :
            h[S] = IF S = {} THEN start ELSE ApplyEvent(h[S \ {Max(S)}], events[Max(S)])
    BY <1>7, <1>9 DEF Folding
  <2> QED BY <1>4, <1>8, <2>1
<1>11. g = D(g)
  BY <1>10
<1> HIDE DEF g
<1>12. \A S \in SUBSET (1 .. Len(events)) :
           g[S] = IF S = {} THEN start ELSE ApplyEvent(g[S \ {Max(S)}], events[Max(S)])
  <2> TAKE S \in SUBSET (1 .. Len(events))
  <2>1. g[S] = D(g)[S]
    <3> HIDE DEF D
    <3> QED BY <1>11
  <2> QED BY <1>4, <2>1
<1>13. Follows(g, A, F, start, events)
  BY <1>6, <1>9, <1>12 DEF Follows
<1>14. InOrder(g, A, F, start, events)
  <2>1. F \in [A \X T -> A]
    BY <1>6
  <2>2. events \in Seq(T)
    BY <1>4
  <2> QED BY <1>3, <1>13, <2>1, <2>2, FoldInOrder
<1>15. Len(events) \in 0 .. Len(events)
  BY <1>4
<1>16. g[1 .. Len(events)] \in A
  BY <1>14, <1>15 DEF InOrder
<1> QED BY <1>1, <1>4, <1>16 DEF A, start

\* A download that is begun, by the user or out of the queue: `d` is what there is
\* without it.
LEMMA Begun ==
    ASSUME NEW d \in Managers, NEW id \in Models, d.fetching = "none", d.fetchers = {},
           Range(d.queue) = {i \in Models : d.shown[i] = "queued"} \ {id}, Distinct(d.queue),
           \A e \in Range(d.events) : e.id \in Broken /\ d.shown[e.id] # "queued"
    PROVE  /\ KickOff(d, id) \in Managers /\ Served(KickOff(d, id))
           /\ \A e \in Range(KickOff(d, id).events) : e.id \in Broken
           /\ d.events = <<>> => Settled(KickOff(d, id))
<1> DEFINE u == KickOff(d, id)
<1>1. /\ d.shown \in [Models -> Says] /\ d.queue \in Seq(Models) /\ d.events \in Seq(Tells)
      /\ d.fetchers \in SUBSET Fetches /\ d.fetching \in Models \cup {"none"}
  BY DEF Managers
<1>2. \A e \in Range(d.events) : e \in Tells /\ e.id \in Models
  <2>1. \A e \in Range(d.events) : e \in Tells
    BY <1>1, LenProperties, ElementOfSeq DEF Range
  <2> QED BY <2>1 DEF Tells
<1>3. CASE id \in Broken
  <2> DEFINE sh == [d.shown EXCEPT ![id] = "failed"]
             x  == [id |-> id, kind |-> "failed"]
             ev == Append(d.events, x)
             v  == [d EXCEPT !.shown = sh]
  <2>1. sh \in [Models -> Says] /\ \A i \in Models : sh[i] = IF i = id THEN "failed" ELSE d.shown[i]
    BY <1>1 DEF Says
  <2>2. x \in Tells /\ x.id = id
    BY DEF Tells, Endings
  <2>3. u = [v EXCEPT !.events = ev]
    BY <1>3 DEF KickOff, Managers
  <2> HIDE DEF x
  <2>4. ev \in Seq(Tells) /\ Range(ev) = Range(d.events) \cup {x}
    BY <1>1, <2>2, AppendItems
  <2> HIDE DEF sh, ev
  <2>5. v \in Managers /\ v.shown = sh /\ v.queue = d.queue /\ v.fetching = d.fetching
        /\ v.fetchers = d.fetchers /\ v.events = d.events
    BY <2>1 DEF Managers
  <2> HIDE DEF v
  <2>6. u \in Managers /\ u.shown = sh /\ u.queue = d.queue /\ u.fetching = d.fetching
        /\ u.fetchers = d.fetchers /\ u.events = ev
    BY <2>3, <2>4, <2>5 DEF Managers
  <2> HIDE DEF u
  <2>7. Range(d.queue) = {i \in Models : sh[i] = "queued"}
    BY <2>1
  <2>8. \A e \in Range(ev) : e.id \in Broken /\ sh[e.id] # "queued"
    BY <1>2, <1>3, <2>1, <2>2, <2>4
  <2>9. Served(u)
    BY <2>6, <2>7, <2>8 DEF Served
  <2> QED BY <2>6, <2>8, <2>9 DEF Settled, u
<1>4. CASE id \notin Broken
  <2> DEFINE sh == [d.shown EXCEPT ![id] = "in progress"]
             off == FALSE
             t  == [id |-> id, file |-> 1, try |-> 1, at |-> "fetch", stop |-> off]
             fs == d.fetchers \cup {t}
             v  == [d EXCEPT !.shown = sh]
             w  == [v EXCEPT !.fetching = id]
  <2>1. sh \in [Models -> Says] /\ \A i \in Models : sh[i] = IF i = id THEN "in progress" ELSE d.shown[i]
    BY <1>1 DEF Says
  <2>2. t \in Fetches /\ t.id = id
    <3>1. off \in BOOLEAN
      OBVIOUS
    <3> HIDE DEF off
    <3> QED BY <3>1 DEF Fetches, MaxAttempts
  <2>3. u = [w EXCEPT !.fetchers = fs]
    BY <1>4 DEF KickOff, Managers
  <2> HIDE DEF t
  <2>4. fs = {t}
    OBVIOUS
  <2> HIDE DEF sh, fs
  <2>5. v \in Managers /\ v.shown = sh /\ v.queue = d.queue /\ v.fetching = d.fetching
        /\ v.fetchers = d.fetchers /\ v.events = d.events
    BY <2>1 DEF Managers
  <2> HIDE DEF v
  <2>6. w \in Managers /\ w.shown = sh /\ w.queue = d.queue /\ w.fetching = id
        /\ w.fetchers = d.fetchers /\ w.events = d.events
    BY <2>5 DEF Managers
  <2> HIDE DEF w
  <2>7. u \in Managers /\ u.shown = sh /\ u.queue = d.queue /\ u.fetching = id
        /\ u.fetchers = fs /\ u.events = d.events
    BY <2>2, <2>3, <2>4, <2>6 DEF Managers
  <2> HIDE DEF u
  <2>8. Range(d.queue) = {i \in Models : sh[i] = "queued"}
    BY <2>1
  <2>9. \A e \in Range(d.events) : e.id \in Broken /\ sh[e.id] # "queued" /\ e.id # id
    BY <1>2, <1>4, <2>1
  <2>10. Served(u)
    <3>1. \A x \in u.fetchers : x.id = u.fetching /\ \A y \in u.fetchers : x = y
      BY <2>2, <2>4, <2>7
    <3>2. u.fetching \notin Broken /\ u.shown[u.fetching] \in {"in progress", "verifying"}
      BY <1>4, <2>1, <2>7
    <3>3. \A e \in Range(u.events) : u.shown[e.id] # "queued" /\ e.id # u.fetching
      BY <2>7, <2>9
    <3>4. Range(u.queue) = {i \in Models : u.shown[i] = "queued"} /\ Distinct(u.queue)
      BY <2>7, <2>8
    <3> QED BY <3>1, <3>2, <3>3, <3>4 DEF Served
  <2> QED BY <2>7, <2>9, <2>10 DEF Settled, u
<1> QED BY <1>3, <1>4

\* Where nothing is active there is no thread.
LEMMA NoThreadIdle == ASSUME NEW d \in Managers, Served(d), d.fetching = "none" PROVE d.fetchers = {}
<1>1. ASSUME NEW t \in d.fetchers PROVE FALSE
  <2>1. t \in Fetches /\ t.id = "none"
    BY DEF Managers, Served
  <2> QED BY <2>1, DownloadsAssumption DEF Fetches
<1> QED BY <1>1

\* A frame applies the events and begins the download that waits, if none is active.
LEMMA PumpedSettles == ASSUME DlInv PROVE Settled(Pumped)
<1> DEFINE d == FoldLeft(ApplyEvent, [Manager EXCEPT !.events = <<>>], events)
           q == Tail(d.queue)
           v == [d EXCEPT !.queue = q]
           id == Head(d.queue)
<1>1. d \in Managers /\ Served(d) /\ d.events = <<>>
  BY EventsApplied
<1>2. Pumped = IF d.fetching = "none" /\ d.queue # <<>> THEN KickOff(v, id) ELSE d
  BY DEF Pumped
<1>3. Range(<<>>) = {}
  BY DEF Range
<1> HIDE DEF d
<1>4. CASE d.fetching = "none" /\ d.queue # <<>>
  <2>1. d.queue \in Seq(Models) /\ d.fetchers = {}
    BY <1>1, <1>4, NoThreadIdle DEF Managers
  <2>2. /\ id \in Range(d.queue) /\ id \in Models /\ q \in Seq(Models)
        /\ Range(d.queue) = {id} \cup Range(q)
        /\ Distinct(d.queue) => Distinct(q) /\ id \notin Range(q)
    BY <1>4, <2>1, TailItems
  <2> HIDE DEF q, id
  <2>3. /\ v \in Managers /\ v.shown = d.shown /\ v.queue = q /\ v.fetching = d.fetching
        /\ v.fetchers = d.fetchers /\ v.events = d.events
    BY <1>1, <2>2 DEF Managers
  <2> HIDE DEF v
  <2>4. Range(v.queue) = {i \in Models : v.shown[i] = "queued"} \ {id} /\ Distinct(v.queue)
    BY <1>1, <2>2, <2>3 DEF Served
  <2>5. v.fetching = "none" /\ v.fetchers = {} /\ v.events = <<>>
    BY <1>1, <1>4, <2>1, <2>3
  <2>6. Settled(KickOff(v, id))
    BY <1>3, <2>2, <2>3, <2>4, <2>5, Begun
  <2> QED BY <1>2, <1>4, <2>6
<1>5. CASE ~(d.fetching = "none" /\ d.queue # <<>>)
  BY <1>1, <1>2, <1>3, <1>5 DEF Settled
<1> QED BY <1>4, <1>5

\* A click on Download.
LEMMA DownloadKeeps == ASSUME NEW d, Settled(d), NEW id \in Models, ClickDownload(d, id) PROVE DlInv'
<1> DEFINE u == StartDownload(d, id)
<1>1. d \in Managers /\ Served(d) /\ (d.fetching # "none" => d.events = <<>>)
      /\ \A e \in Range(d.events) : e.id \in Broken
  BY DEF Settled
<1>2. d.shown[id] \notin {"in progress", "queued", "verifying"} /\ ~IsAvailable(id)
      /\ Becomes(u)
  BY DEF ClickDownload, Card
<1>3. d.shown \in [Models -> Says] /\ d.queue \in Seq(Models)
  BY <1>1 DEF Managers
<1>4. CASE d.fetching # "none"
  <2> DEFINE sh == [d.shown EXCEPT ![id] = "queued"]
             q  == Append(d.queue, id)
             v  == [d EXCEPT !.shown = sh]
  <2>1. sh \in [Models -> Says] /\ \A i \in Models : sh[i] = IF i = id THEN "queued" ELSE d.shown[i]
    BY <1>3 DEF Says
  <2>2. q \in Seq(Models) /\ Range(q) = Range(d.queue) \cup {id} /\ (id \notin Range(d.queue) => Distinct(q))
    <3>1. Distinct(d.queue)
      BY <1>1 DEF Served
    <3> QED BY <1>3, <3>1, AppendItems
  <2>3. u = [v EXCEPT !.queue = q]
    BY <1>1, <1>2, <1>4 DEF StartDownload, Managers
  <2> HIDE DEF sh, q
  <2>4. v \in Managers /\ v.shown = sh /\ v.queue = d.queue /\ v.fetching = d.fetching
        /\ v.fetchers = d.fetchers /\ v.events = d.events
    BY <1>1, <2>1 DEF Managers
  <2> HIDE DEF v
  <2>5. u \in Managers /\ u.shown = sh /\ u.queue = q /\ u.fetching = d.fetching
        /\ u.fetchers = d.fetchers /\ u.events = d.events
    BY <2>2, <2>3, <2>4 DEF Managers
  <2> HIDE DEF u
  <2>6. Range(u.queue) = {i \in Models : u.shown[i] = "queued"} /\ Distinct(u.queue)
    BY <1>1, <1>2, <2>1, <2>2, <2>5 DEF Served
  <2>7. Range(u.events) = {}
    BY <1>1, <1>4, <2>5 DEF Range
  <2>8. u.fetching \notin Broken /\ u.shown[u.fetching] \in {"in progress", "verifying"}
    <3>1. d.fetching \in Models /\ d.fetching \notin Broken /\ d.shown[d.fetching] \in {"in progress", "verifying"}
      BY <1>1, <1>4 DEF Served, Managers
    <3> QED BY <1>2, <2>1, <2>5, <3>1
  <2>9. \A x \in u.fetchers : x.id = u.fetching /\ \A y \in u.fetchers : x = y
    BY <1>1, <2>5 DEF Served
  <2>10. Served(u)
    BY <2>6, <2>7, <2>8, <2>9 DEF Served
  <2> QED BY <1>2, <2>5, <2>10, ManagerBecomes DEF u
<1>5. CASE d.fetching = "none"
  <2>1. u = KickOff(d, id)
    BY <1>2, <1>5 DEF StartDownload
  <2>2. d.fetchers = {}
    BY <1>1, <1>5, NoThreadIdle
  <2>3. Range(d.queue) = {i \in Models : d.shown[i] = "queued"} \ {id} /\ Distinct(d.queue)
    BY <1>1, <1>2 DEF Served
  <2>4. \A e \in Range(d.events) : e.id \in Broken /\ d.shown[e.id] # "queued"
    BY <1>1 DEF Served
  <2>5. KickOff(d, id) \in Managers /\ Served(KickOff(d, id))
    BY <1>1, <1>5, <2>2, <2>3, <2>4, Begun
  <2> QED BY <1>2, <2>1, <2>5, ManagerBecomes
<1> QED BY <1>4, <1>5

\* A click on Cancel.
LEMMA CancelKeeps == ASSUME NEW d, Settled(d), NEW id \in Models, ClickCancel(d, id) PROVE DlInv'
<1> DEFINE u  == CancelDownload(d, id)
           on == TRUE
           fs == {IF t.id = id THEN [t EXCEPT !.stop = on] ELSE t : t \in d.fetchers}
           q  == Without(d.queue, {id})
           sh == [d.shown EXCEPT ![id] = IF d.fetching = id THEN d.shown[id] ELSE "idle"]
           v  == [d EXCEPT !.fetchers = fs]
           w  == [v EXCEPT !.queue = q]
<1>1. d \in Managers /\ Served(d)
  BY DEF Settled
<1>2. Becomes(u)
  BY DEF ClickCancel
<1>3. /\ d.shown \in [Models -> Says] /\ d.queue \in Seq(Models) /\ d.events \in Seq(Tells)
      /\ d.fetchers \subseteq Fetches /\ d.fetching \in Models \cup {"none"}
  BY <1>1 DEF Managers
<1>4. u = [w EXCEPT !.shown = sh]
  BY <1>1 DEF CancelDownload, Managers
<1>5. ASSUME NEW x \in fs
      PROVE  x \in Fetches /\ \E t \in d.fetchers : x = (IF t.id = id THEN [t EXCEPT !.stop = on] ELSE t) /\ x.id = t.id
  <2>1. PICK t \in d.fetchers : x = IF t.id = id THEN [t EXCEPT !.stop = on] ELSE t
    OBVIOUS
  <2>2. on \in BOOLEAN
    OBVIOUS
  <2> HIDE DEF on
  <2>3. t \in Fetches /\ [t EXCEPT !.stop = on] \in Fetches /\ [t EXCEPT !.stop = on].id = t.id
    BY <1>3, <2>2 DEF Fetches
  <2> QED BY <2>1, <2>3
<1>6. \A x, y \in fs : x = y
  <2>1. \A t, s \in d.fetchers : t = s
    BY <1>1 DEF Served
  <2> HIDE DEF on, fs
  <2> QED BY <1>5, <2>1
<1>7. \A x \in fs : x.id = d.fetching
  BY <1>1, <1>5 DEF Served
<1>8. fs \subseteq Fetches /\ (d.fetchers = {} => fs = {})
  BY <1>5
<1>9. q \in Seq(Models) /\ Range(q) = Range(d.queue) \ {id} /\ Distinct(q)
  <2>1. Distinct(d.queue)
    BY <1>1 DEF Served
  <2> QED BY <1>3, <2>1, WithoutItems
<1>10. sh \in [Models -> Says]
       /\ \A i \in Models : sh[i] = IF i = id /\ d.fetching # id THEN "idle" ELSE d.shown[i]
  BY <1>3 DEF Says
<1> HIDE DEF fs, q, sh
<1>11. v \in Managers /\ v.shown = d.shown /\ v.queue = d.queue /\ v.fetching = d.fetching
       /\ v.fetchers = fs /\ v.events = d.events
  BY <1>1, <1>8 DEF Managers
<1> HIDE DEF v
<1>12. w \in Managers /\ w.shown = d.shown /\ w.queue = q /\ w.fetching = d.fetching
       /\ w.fetchers = fs /\ w.events = d.events
  BY <1>9, <1>11 DEF Managers
<1> HIDE DEF w
<1>13. u \in Managers /\ u.shown = sh /\ u.queue = q /\ u.fetching = d.fetching
       /\ u.fetchers = fs /\ u.events = d.events
  BY <1>4, <1>10, <1>12 DEF Managers
<1> HIDE DEF u
<1>14. Range(q) = {i \in Models : sh[i] = "queued"}
  <2>1. CASE d.fetching = id
    <3>1. d.shown[id] # "queued" /\ id \notin Range(d.queue)
      BY <1>1, <2>1, DownloadsAssumption DEF Served
    <3> QED BY <1>1, <1>9, <1>10, <2>1, <3>1 DEF Served
  <2>2. CASE d.fetching # id
    BY <1>1, <1>9, <1>10, <2>2 DEF Served
  <2> QED BY <2>1, <2>2
<1>15. d.fetching # "none" => d.fetching \notin Broken /\ sh[d.fetching] \in {"in progress", "verifying"}
  BY <1>1, <1>3, <1>10 DEF Served
<1>16. ASSUME NEW e \in Range(d.events)
       PROVE  sh[e.id] # "queued" /\ (e.kind \in Endings /\ e.id = d.fetching => fs = {})
  <2>1. e \in Tells
    BY <1>3, <1>16, LenProperties, ElementOfSeq DEF Range
  <2>2. e.id \in Models
    BY <2>1 DEF Tells
  <2>3. d.shown[e.id] # "queued" /\ (e.kind \in Endings /\ e.id = d.fetching => d.fetchers = {})
    BY <1>1 DEF Served
  <2> QED BY <1>8, <1>10, <2>2, <2>3
<1>17. Served(u)
  BY <1>6, <1>7, <1>9, <1>13, <1>14, <1>15, <1>16 DEF Served
<1> QED BY <1>2, <1>13, <1>17, ManagerBecomes DEF u

\* A frame of the model store.
LEMMA StoreFrameKeeps == ASSUME DlInv, StoreFrame PROVE DlInv'
<1> DEFINE d == Pumped
<1>1. Settled(d) /\ d \in Managers /\ Served(d)
  BY PumpedSettles DEF Settled
<1>2. \/ Becomes(d)
      \/ \E id \in Models : ClickDownload(d, id) \/ ClickCancel(d, id) \/ ClickDelete(d, id)
  BY DEF StoreFrame
<1> HIDE DEF d
<1>3. CASE Becomes(d) \/ \E id \in Models : ClickDelete(d, id)
  BY <1>1, <1>3, ManagerBecomes DEF ClickDelete
<1>4. CASE \E id \in Models : ClickDownload(d, id)
  BY <1>1, <1>4, DownloadKeeps
<1>5. CASE \E id \in Models : ClickCancel(d, id)
  BY <1>1, <1>5, CancelKeeps
<1> QED BY <1>2, <1>3, <1>4, <1>5

Kinds == {"in progress", "verifying"}

\* What a step of the thread comes to: it goes on and says how far it is, or it ends and
\* answers.
GoesOn(t) ==
    \E kinds \in Seq(Kinds), next \in Fetches : next.id = t.id /\ Goes(t, next) /\ Sends(t, kinds)
EndsNow(t) == \E kinds \in Seq(Kinds \cup Endings) : Ends(t) /\ Sends(t, kinds)

\* A file that is done.
LEMMA FileDoneGoes ==
    ASSUME NEW t \in Fetches, NEW kinds \in Seq(Kinds), FileDone(t, kinds)
    PROVE  GoesOn(t) \/ EndsNow(t)
<1>1. CASE t.file = Files(t.id)
  <2>1. kinds \in Seq(Kinds \cup Endings)
    OBVIOUS
  <2>2. Append(kinds, "done") \in Seq(Kinds \cup Endings)
    <3>1. "done" \in Kinds \cup Endings
      BY DEF Endings
    <3> QED BY <2>1, <3>1
  <2>3. Ends(t) /\ Sends(t, Append(kinds, "done"))
    BY <1>1 DEF FileDone
  <2> QED BY <2>2, <2>3 DEF EndsNow
<1>2. CASE t.file # Files(t.id)
  <2> DEFINE n1 == [t EXCEPT !.file = 2]
             n2 == [n1 EXCEPT !.try = 1]
             n  == [t EXCEPT !.file = 2, !.try = 1, !.at = "fetch"]
  <2>1. n1 \in Fetches /\ n1.id = t.id
    BY DEF Fetches
  <2> HIDE DEF n1
  <2>2. n2 \in Fetches /\ n2.id = t.id
    BY <2>1 DEF Fetches, MaxAttempts
  <2>3. n = [n2 EXCEPT !.at = "fetch"]
    BY DEF n1
  <2> HIDE DEF n2
  <2>4. n \in Fetches /\ n.id = t.id
    <3> HIDE DEF n
    <3> QED BY <2>2, <2>3 DEF Fetches
  <2>5. Goes(t, n) /\ Sends(t, kinds)
    BY <1>2 DEF FileDone
  <2> QED BY <2>4, <2>5 DEF GoesOn
<1> QED BY <1>1, <1>2

\* A file that fails.
LEMMA FileFailsGoes ==
    ASSUME NEW t \in Fetches, NEW kind \in Endings, FileFails(t, kind)
    PROVE  GoesOn(t) \/ EndsNow(t)
<1>1. CASE t.id \in Twins /\ t.file = 2
  <2>1. <<>> \in Seq(Kinds) /\ FileDone(t, <<>>)
    BY <1>1 DEF FileFails
  <2> QED BY <2>1, FileDoneGoes
<1>2. CASE ~(t.id \in Twins /\ t.file = 2)
  <2> DEFINE kinds == <<kind>>
  <2>1. kinds \in Seq(Kinds \cup Endings)
    OBVIOUS
  <2>2. Ends(t) /\ Sends(t, kinds)
    BY <1>2 DEF FileFails
  <2> HIDE DEF kinds
  <2> QED BY <2>1, <2>2 DEF EndsNow
<1> QED BY <1>1, <1>2

\* Each step of the thread.
LEMMA FetcherGoes ==
    ASSUME NEW t \in Fetches, SkipPart(t) \/ FetchFile(t) \/ VerifyFile(t) \/ Retry(t)
    PROVE  GoesOn(t) \/ EndsNow(t)
<1> DEFINE none == <<>>
           one  == <<"in progress">>
           two  == <<"in progress", "verifying">>
<1>1. none \in Seq(Kinds) /\ one \in Seq(Kinds) /\ two \in Seq(Kinds)
  BY DEF Kinds
<1>2. "failed" \in Endings /\ "refused" \in Endings
  BY DEF Endings
<1>3. ASSUME NEW p \in {"fetch", "verify", "pause"}
      PROVE  [t EXCEPT !.at = p] \in Fetches /\ [t EXCEPT !.at = p].id = t.id
  BY DEF Fetches
<1>4. CASE SkipPart(t)
  <2>1. FileDone(t, one)
    BY <1>4 DEF SkipPart
  <2> HIDE DEF one
  <2> QED BY <1>1, <2>1, FileDoneGoes
<1>5. CASE Fails(t)
  <2>1. CASE t.try < MaxAttempts
    <3> DEFINE up == t.try + 1
               n1 == [t EXCEPT !.try = up]
               n  == [t EXCEPT !.try = @ + 1, !.at = "pause"]
    <3>1. up \in 1 .. MaxAttempts
      BY <2>1 DEF Fetches, MaxAttempts
    <3>2. n = [n1 EXCEPT !.at = "pause"]
      BY DEF Fetches
    <3> HIDE DEF up
    <3>3. n1 \in Fetches /\ n1.id = t.id
      BY <3>1 DEF Fetches
    <3> HIDE DEF n1
    <3>4. n \in Fetches /\ n.id = t.id
      <4> HIDE DEF n
      <4> QED BY <3>2, <3>3 DEF Fetches
    <3>5. Goes(t, n) /\ Sends(t, none)
      BY <1>5, <2>1 DEF Fails
    <3> HIDE DEF none, n
    <3> QED BY <1>1, <3>4, <3>5 DEF GoesOn
  <2>2. CASE ~(t.try < MaxAttempts)
    BY <1>2, <1>5, <2>2, FileFailsGoes DEF Fails
  <2> QED BY <2>1, <2>2
<1>6. CASE FetchFile(t)
  <2>1. \/ Goes(t, [t EXCEPT !.at = "verify"]) /\ Sends(t, two)
        \/ Fails(t) \/ FileFails(t, "refused")
    BY <1>6 DEF FetchFile
  <2>2. CASE Goes(t, [t EXCEPT !.at = "verify"]) /\ Sends(t, two)
    <3> HIDE DEF two
    <3> QED BY <1>1, <1>3, <2>2 DEF GoesOn
  <2> QED BY <1>2, <1>5, <2>1, <2>2, FileFailsGoes
<1>7. CASE VerifyFile(t)
  <2>1. FileDone(t, none) \/ FileFails(t, "refused")
    BY <1>7 DEF VerifyFile
  <2> HIDE DEF none
  <2> QED BY <1>1, <1>2, <2>1, FileDoneGoes, FileFailsGoes
<1>8. CASE Retry(t)
  <2>1. FileFails(t, "refused") \/ (Goes(t, [t EXCEPT !.at = "fetch"]) /\ Sends(t, none))
    BY <1>8 DEF Retry
  <2> HIDE DEF none
  <2> QED BY <1>1, <1>2, <1>3, <2>1, FileFailsGoes DEF GoesOn
<1> QED BY <1>4, <1>6, <1>7, <1>8

\* What is sent is of the thread's own model.
LEMMA SendsItsOwn ==
    ASSUME events \in Seq(Tells), NEW t \in Fetches, NEW K \in SUBSET (Kinds \cup Endings),
           NEW kinds \in Seq(K), Sends(t, kinds)
    PROVE  /\ events' \in Seq(Tells)
           /\ \A e \in Range(events') : e \in Range(events) \/ (e.id = t.id /\ e.kind \in K)
<1> DEFINE new == [n \in DOMAIN kinds |-> [id |-> t.id, kind |-> kinds[n]]]
<1>1. DOMAIN kinds = 1 .. Len(kinds) /\ Len(kinds) \in Nat /\ \A n \in 1 .. Len(kinds) : kinds[n] \in K
  BY LenProperties, ElementOfSeq
<1>2. ASSUME NEW n \in 1 .. Len(kinds)
      PROVE  LET e == [id |-> t.id, kind |-> kinds[n]] IN e \in Tells /\ e.id = t.id /\ e.kind \in K
  BY <1>1 DEF Tells, Fetches, Kinds
<1>3. new \in Seq(Tells) /\ \A e \in Range(new) : e.id = t.id /\ e.kind \in K
  <2>1. new \in [1 .. Len(kinds) -> Tells]
    BY <1>1, <1>2
  <2>2. \A e \in Range(new) : e.id = t.id /\ e.kind \in K
    BY <1>1, <1>2 DEF Range
  <2> HIDE DEF new
  <2> QED BY <1>1, <2>1, <2>2, SeqDef
<1>4. events' = events \o new
  BY DEF Sends
<1> HIDE DEF new
<1>5. events' \in Seq(Tells) /\ Range(events') = Range(events) \cup Range(new)
  BY <1>3, <1>4, ConcatItems
<1> QED BY <1>3, <1>5

\* A step of the thread keeps to what is active.
LEMMA FetcherKeeps == ASSUME DlInv, Fetcher PROVE DlInv'
<1>1. PICK t \in fetchers : SkipPart(t) \/ FetchFile(t) \/ VerifyFile(t) \/ Retry(t)
  BY DEF Fetcher
<1>2. UNCHANGED <<shown, queue, fetching>>
  BY DEF Fetcher
<1>3. /\ shown \in [Models -> Says] /\ queue \in Seq(Models) /\ fetching \in Models \cup {"none"}
      /\ fetchers \subseteq Fetches /\ events \in Seq(Tells)
  <2>1. Manager \in Managers
    BY DEF DlInv
  <2> QED BY <2>1, ManagerBecomes DEF Managers
<1>4. /\ fetchers = {t} /\ t \in Fetches /\ t.id = fetching /\ t.id \in Models /\ fetching # "none"
      /\ Range(queue) = {id \in Models : shown[id] = "queued"} /\ Distinct(queue)
      /\ fetching \notin Broken /\ shown[fetching] \in {"in progress", "verifying"}
      /\ \A e \in Range(events) : shown[e.id] # "queued" /\ ~(e.kind \in Endings /\ e.id = fetching)
  <2>1. t \in Fetches /\ t.id \in Models /\ t.id # "none"
    BY <1>3, DownloadsAssumption DEF Fetches
  <2>2. /\ \A s \in fetchers : s.id = fetching
        /\ \A s, u \in fetchers : s = u
        /\ Range(queue) = {id \in Models : shown[id] = "queued"} /\ Distinct(queue)
        /\ fetching # "none" => fetching \notin Broken /\ shown[fetching] \in {"in progress", "verifying"}
        /\ \A e \in Range(events) :
               shown[e.id] # "queued" /\ (e.kind \in Endings /\ e.id = fetching => fetchers = {})
    BY ManagerBecomes DEF DlInv, Served
  <2> QED BY <2>1, <2>2
<1>5. \/ /\ \E next \in Fetches : next.id = t.id /\ fetchers' = {next}
         /\ events' \in Seq(Tells)
         /\ \A e \in Range(events') : e \in Range(events) \/ (e.id = t.id /\ e.kind \in Kinds)
      \/ /\ fetchers' = {} /\ events' \in Seq(Tells)
         /\ \A e \in Range(events') : e \in Range(events) \/ e.id = t.id
  <2>1. CASE GoesOn(t)
    <3>1. PICK kinds \in Seq(Kinds), next \in Fetches : next.id = t.id /\ Goes(t, next) /\ Sends(t, kinds)
      BY <2>1 DEF GoesOn
    <3>2. fetchers' = {next}
      BY <1>4, <3>1 DEF Goes
    <3>3. /\ events' \in Seq(Tells)
          /\ \A e \in Range(events') : e \in Range(events) \/ (e.id = t.id /\ e.kind \in Kinds)
      BY <1>3, <1>4, <3>1, SendsItsOwn
    <3> QED BY <3>1, <3>2, <3>3
  <2>2. CASE EndsNow(t)
    <3>1. PICK kinds \in Seq(Kinds \cup Endings) : Ends(t) /\ Sends(t, kinds)
      BY <2>2 DEF EndsNow
    <3>2. fetchers' = {}
      BY <1>4, <3>1 DEF Ends
    <3>3. events' \in Seq(Tells) /\ \A e \in Range(events') : e \in Range(events) \/ e.id = t.id
      BY <1>3, <1>4, <3>1, SendsItsOwn
    <3> QED BY <3>2, <3>3
  <2> QED BY <1>1, <1>4, <2>1, <2>2, FetcherGoes
<1>6. \A k \in Kinds : k \notin Endings
  BY DEF Kinds, Endings
<1>7. Manager' \in Managers
  <2>1. fetchers' \in SUBSET Fetches /\ events' \in Seq(Tells)
    BY <1>5
  <2> QED BY <1>2, <1>3, <2>1 DEF Manager, Managers
<1>8. \A e \in Range(events') : shown[e.id] # "queued" /\ (e.kind \in Endings /\ e.id = fetching => fetchers' = {})
  BY <1>4, <1>5, <1>6
<1>9. \A s \in fetchers' : s.id = fetching /\ \A u \in fetchers' : s = u
  BY <1>4, <1>5
<1>10. /\ Manager'.shown = shown /\ Manager'.queue = queue /\ Manager'.fetching = fetching
       /\ Manager'.fetchers = fetchers' /\ Manager'.events = events'
  BY <1>2 DEF Manager
<1>11. Served(Manager')
  BY <1>4, <1>8, <1>9, <1>10 DEF Served
<1> QED BY <1>7, <1>11 DEF DlInv

\* Each step keeps to one download.
LEMMA DlInvNext == DlInv /\ [DlNext]_dlVars => DlInv'
<1> SUFFICES ASSUME DlInv, [DlNext]_dlVars PROVE DlInv'
  OBVIOUS
<1>1. CASE UNCHANGED dlVars
  BY <1>1 DEF DlInv, Manager, dlVars
<1> QED BY <1>1, StoreFrameKeeps, FetcherKeeps DEF DlNext

\* This is what the run checks.
LEMMA DlInvEnough == DlInv => DlTypeOK
<1> SUFFICES ASSUME DlInv PROVE DlTypeOK
  OBVIOUS
<1>1. /\ fetchers \subseteq Fetches
      /\ \A t \in fetchers : t.id = fetching
      /\ \A t, u \in fetchers : t = u
      /\ Range(queue) = {id \in Models : shown[id] = "queued"} /\ Distinct(queue)
  BY ManagerBecomes DEF DlInv, Served, Managers
<1>2. fetchers = {} \/ \E t : fetchers = {t}
  BY <1>1
<1>3. Cardinality({}) = 0 /\ \A t : Cardinality({t}) = 1
  BY FS_EmptySet, FS_Singleton
<1>4. Cardinality(fetchers) = 0 \/ Cardinality(fetchers) = 1
  BY <1>2, <1>3
<1>5. \A t \in fetchers : t.try <= MaxAttempts
  BY <1>1 DEF Fetches, MaxAttempts
<1>6. IsInjective(queue)
  BY <1>1 DEF Distinct, IsInjective
<1> QED BY <1>1, <1>4, <1>5, <1>6 DEF DlTypeOK

----------------------------------------------------------------------------
(* All parts                                                               *)

\* The parts agree with themselves: for any number of threads, images, models, tiles and
\* steps. A timeline holds more than one state (timeline.rs:25, TIMELINE_DEPTH), and no
\* retune is careless of a stroke that is being decoded.
THEOREM PartsKept == ASSUME Careless = {}, Depth > 1 PROVE PartsSpec => []PartsOK
<1> DEFINE Inv == SemInv /\ PrevInv /\ UpShape /\ DlInv /\ BrushInv /\ RetInv
<1>1. PartsInit => Inv
  BY SemInvInit, PrevInvInit, UpShapeInit, DlInvInit, BrushInvInit, RetInvInit DEF PartsInit
<1>2. Inv /\ [PartsNext]_partsVars => Inv'
  BY EachPartSteps, SemInvStep, PrevInvNext, UpShapeNext, DlInvNext, BrushInvNext, RetInvNext
<1>3. Inv => PartsOK
  BY PrevInvEnough, UpShapeEnough, DlInvEnough, BrushInvEnough, RetInvEnough DEF SemInv, PartsOK
<1> HIDE DEF Inv
<1> QED BY <1>1, <1>2, <1>3, PTL DEF PartsSpec
=============================================================================
