------------------------- MODULE WeightedSemaphore -------------------------
(***************************************************************************)
(* The worker child's memory semaphore (worker_process.rs): a mutex, a     *)
(* condition variable and a queue of waiters.  A job asks for as many      *)
(* units as its image has megapixels; a waiter behind the head of the      *)
(* queue may go first only where its units leave room for the head.        *)
(*                                                                         *)
(* The mutex is held from the entry of `acquire` to the wait or the        *)
(* return, so each such stretch is one step.  A ticket names one call of   *)
(* `acquire`; a thread has at most one, so the thread stands for it.       *)
(***************************************************************************)
EXTENDS Integers, Sequences, FiniteSets, Queues, Tally

CONSTANTS
    Threads,    \* the callers
    Weights,    \* the units they ask for: pixel_weight is at least one
    TotalUnits  \* total_units

ASSUME SemaphoreAssumption ==
    /\ IsFiniteSet(Threads)
    /\ Weights \subseteq Nat \ {0}
    /\ TotalUnits \in Nat \ {0}

VARIABLES
    units,      \* SemState.units_remaining
    waiters,    \* SemState.waiters: the threads, oldest ticket first
    want,       \* the units a thread waits for or holds
    at          \* "out"; "parked" on the condition variable; "woken"; "in"

semVars == <<units, waiters, want, at>>

SemInit ==
    /\ units = TotalUnits
    /\ waiters = <<>>
    /\ want = [t \in Threads |-> 0]
    /\ at = [t \in Threads |-> "out"]

\* No request can exceed what there is.
Capped(w) == Lesser(w, TotalUnits)

\* The head of the queue needs its own units, any other waiter those of the
\* head as well.
WrongCanGoAhead(t, line, wt) == units >= wt[t]   \* any waiter that fits may go
CanGo(t, line, wt) == units >= wt[t] + (IF t = Head(line) THEN 0 ELSE wt[Head(line)])

\* Condvar::notify_all.
WrongNotified == at   \* nobody is woken
Notified == [t \in Threads |-> IF at[t] = "parked" THEN "woken" ELSE at[t]]

Take(t, line, wt) ==
    /\ CanGo(t, line, wt)
    /\ waiters' = Without(line, {t})
    /\ units' = units - wt[t]
    /\ at' = [Notified EXCEPT ![t] = "in"]

Park(t, line, wt) ==
    /\ ~CanGo(t, line, wt)
    /\ waiters' = line
    /\ at' = [at EXCEPT ![t] = "parked"]
    /\ UNCHANGED units

\* acquire, up to its first wait.
Arrive(t, w) ==
    /\ at[t] = "out"
    /\ want' = [want EXCEPT ![t] = Capped(w)]
    /\ LET line == Append(waiters, t)
       IN  Take(t, line, want') \/ Park(t, line, want')

\* acquire, once around its loop.
Recheck(t) ==
    /\ at[t] = "woken"
    /\ Take(t, waiters, want) \/ Park(t, waiters, want)
    /\ UNCHANGED want

\* A condition variable may wake a waiter for no reason.
WakeUp(t) ==
    /\ at[t] = "parked"
    /\ at' = [at EXCEPT ![t] = "woken"]
    /\ UNCHANGED <<units, waiters, want>>

\* SemaphoreGuard::drop.
WrongReturned(t) == 2 * want[t]   \* released by hand and by the guard
Returned(t) == want[t]
Release(t) ==
    /\ at[t] = "in"
    /\ units' = units + Returned(t)
    /\ want' = [want EXCEPT ![t] = 0]
    /\ at' = [Notified EXCEPT ![t] = "out"]
    /\ UNCHANGED waiters

SemNext ==
    \E t \in Threads :
        \/ \E w \in Weights : Arrive(t, w)
        \/ Recheck(t) \/ WakeUp(t) \/ Release(t)

SemSpec == SemInit /\ [][SemNext]_semVars

\* A woken thread gets the mutex in the end, and a job ends.
SemFairness == \A t \in Threads : WF_semVars(Recheck(t)) /\ WF_semVars(Release(t))
FairSemSpec == SemSpec /\ SemFairness

----------------------------------------------------------------------------
(* Properties                                                              *)

SemTypeOK ==
    /\ units \in Nat
    /\ waiters \in Seq(Threads)
    /\ want \in [Threads -> Nat]
    /\ at \in [Threads -> {"out", "parked", "woken", "in"}]

\* The jobs inside, together, never need more than the budget, and no unit is
\* lost or made (acquire, SemaphoreGuard::drop).
Inside == {t \in Threads : at[t] = "in"}
WithinBudget == units + Total(want, Inside) = TotalUnits

\* No wakeup is lost: a thread that sleeps on the condition variable could not
\* go if it were awake.
NoLostWakeup == \A t \in Threads : at[t] = "parked" => ~CanGo(t, waiters, want)

\* Once there is room for the head of the queue, nobody takes it away
\* (worker_process.rs:26, "so a giant image isn't repeatedly skipped past by a
\* stream of arriving small ones").
RoomForHeadStays ==
    [][(waiters # <<>> /\ waiters' # <<>> /\ Head(waiters') = Head(waiters))
           => (units >= want[Head(waiters)] => units' >= want'[Head(waiters)])]_semVars

\* Every waiter gets in, however many others keep coming, and whatever it
\* asks for (ARCHITECTURE.md:128, "FIFO order keeps small arrivals from
\* starving it").
EveryWaiterServed == \A t \in Threads : (at[t] \in {"parked", "woken"}) ~> (at[t] = "in")
=============================================================================
