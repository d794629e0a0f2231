------------------------------ MODULE Sessions ------------------------------
(***************************************************************************)
(* The cache of built inpaint models in one process (inpaint_sd.rs and     *)
(* inpaint.rs): a stroke's thread gets the entry of its model, the first   *)
(* to come builds, the others wait for it, and whoever got the model holds *)
(* it while it paints.  A Stable Diffusion bundle goes with the end of a   *)
(* stroke unless it is pinned, a LaMa session when it was idle for long or *)
(* the model is switched, and so does a failure to build.                  *)
(***************************************************************************)
EXTENDS Integers, FiniteSets

CONSTANTS
    Threads,     \* the strokes' threads, and LaMa's prewarming
    Backends,    \* "sd", "lama"
    IdleLimit    \* ticks after which an entry is idle

ASSUME SessionsAssumption == IsFiniteSet(Threads) /\ IdleLimit \in Nat \ {0}

Slots == 1 .. Cardinality(Threads) + 1   \* one each, and the cache's

VARIABLES
    backend,
    keep,     \* keep_loaded of the next stroke's request
    entry,    \* [slot, age, pinned] of the model in the cache
    model,    \* what a slot's OnceLock holds: "new", "building", "ok", "err"
    held,     \* the slot each thread has, 0 for none
    stage     \* "rest", "waiting" at the OnceLock, "building", "painting"

sessVars == <<backend, keep, entry, model, held, stage>>

NoEntry == [slot |-> 0, age |-> 0, pinned |-> FALSE]

SessInit ==
    /\ backend \in Backends /\ keep \in BOOLEAN
    /\ entry = NoEntry /\ model = [n \in Slots |-> "new"]
    /\ held = [t \in Threads |-> 0] /\ stage = [t \in Threads |-> "rest"]

Swept(e) == IF e.age >= IdleLimit /\ ~e.pinned THEN NoEntry ELSE e
Unused == {n \in Slots : n # entry.slot /\ \A t \in Threads : held[t] # n}
Failed(e) == e.slot # 0 /\ model[e.slot] = "err"

\* get, under the cache's lock: a failure's age is not refreshed, or a stroke
\* after the other would keep it.
WrongAgeAfterGet(e) == 0
AgeAfterGet(e) == IF Failed(e) THEN e.age ELSE 0
Get(t) ==
    /\ stage[t] = "rest" /\ stage' = [stage EXCEPT ![t] = "waiting"]
    /\ LET e == Swept(entry)
           slot == IF e.slot = 0 THEN CHOOSE n \in Unused : TRUE ELSE e.slot
       IN  /\ entry' = [slot |-> slot, age |-> AgeAfterGet(e), pinned |-> backend = "sd" /\ keep]
           /\ held' = [held EXCEPT ![t] = slot]
           /\ model' = IF e.slot = 0 THEN [model EXCEPT ![slot] = "new"] ELSE model
    /\ UNCHANGED <<backend, keep>>

\* The OnceLock: one builds, without the cache's lock.
StartBuilding(t) ==
    /\ stage[t] = "waiting" /\ model[held[t]] = "new"
    /\ stage' = [stage EXCEPT ![t] = "building"] /\ model' = [model EXCEPT ![held[t]] = "building"]
    /\ UNCHANGED <<backend, keep, entry, held>>

EndBuilding(t) ==
    /\ stage[t] = "building" /\ stage' = [stage EXCEPT ![t] = "waiting"]
    /\ \E res \in {"ok", "err"} : model' = [model EXCEPT ![held[t]] = res]
    /\ UNCHANGED <<backend, keep, entry, held>>

Obtain(t) ==
    /\ stage[t] = "waiting"
    /\ \/ model[held[t]] = "ok" /\ stage' = [stage EXCEPT ![t] = "painting"] /\ UNCHANGED held
       \/ /\ model[held[t]] = "err"
          /\ stage' = [stage EXCEPT ![t] = "rest"] /\ held' = [held EXCEPT ![t] = 0]
    /\ UNCHANGED <<backend, keep, entry, model>>

\* ReleaseOnDrop: a Stable Diffusion stroke that had a bundle takes the entry
\* with it, however it ends, and whatever has been put there since.
Releases(how) == backend = "sd"
Finish(t, how) ==
    /\ stage[t] = "painting" /\ stage' = [stage EXCEPT ![t] = "rest"]
    /\ held' = [held EXCEPT ![t] = 0]
    /\ entry' = IF Releases(how) /\ ~entry.pinned THEN NoEntry ELSE entry
    /\ UNCHANGED <<backend, keep, model>>

\* Another model is chosen: release_all_lama_sessions.
ReleaseAll ==
    /\ backend = "lama" /\ entry # NoEntry /\ entry' = NoEntry
    /\ UNCHANGED <<backend, keep, model, held, stage>>

SwitchKeep ==
    /\ keep' = ~keep
    /\ UNCHANGED <<backend, entry, model, held, stage>>

TimePasses ==
    /\ entry # NoEntry /\ entry.age < IdleLimit /\ entry' = [entry EXCEPT !.age = @ + 1]
    /\ UNCHANGED <<backend, keep, model, held, stage>>

SweepIdle ==
    /\ Swept(entry) # entry /\ entry' = NoEntry
    /\ UNCHANGED <<backend, keep, model, held, stage>>

Paints(t) == StartBuilding(t) \/ EndBuilding(t) \/ Obtain(t) \/ Finish(t, "done") \/ Finish(t, "cancelled")

SessNext ==
    \/ ReleaseAll \/ SwitchKeep \/ TimePasses \/ SweepIdle
    \/ \E t \in Threads : Get(t) \/ Paints(t)

\* Time passes, the sweeper looks every minute, and strokes end.
SessFairness ==
    /\ WF_sessVars(TimePasses) /\ WF_sessVars(SweepIdle)
    /\ \A t \in Threads : WF_sessVars(Paints(t))

----------------------------------------------------------------------------
(* Properties                                                              *)

AtRest == \A t \in Threads : stage[t] = "rest"
Kept == entry.slot # 0 /\ model[entry.slot] = "ok"

\* Whoever paints has a model that was built, also after the cache let go of it,
\* and a bundle of some gigabytes that is not pinned is not left behind by the
\* last stroke, however it ended (inpaint_sd.rs, "the moment a stroke completes").
SessionsOK ==
    /\ \A t \in Threads : stage[t] = "painting" => model[held[t]] = "ok"
    /\ \A n \in Slots : Cardinality({t \in Threads : held[t] = n /\ stage[t] = "building"}) <= 1
    /\ backend = "sd" /\ AtRest /\ ~entry.pinned => ~Kept

\* A failure to build is forgotten however often strokes try again, so that a later
\* one may succeed (inpaint_sd.rs, "eviction lets the next try refresh"), and a model
\* nobody uses is let go: unless they are pinned.
LetGoInTime ==
    (entry # NoEntry /\ (Failed(entry) \/ AtRest)) ~> (entry = NoEntry \/ entry.pinned \/ ~(Failed(entry) \/ AtRest))
=============================================================================
