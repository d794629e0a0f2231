------------------------------- MODULE Erase -------------------------------
(***************************************************************************)
(* Erasing (gui/inpaint_bridge.rs and the inpaint half of processor.rs and *)
(* app.rs).  A stroke runs in the GUI process ("lama"), or is encoded by a *)
(* helper and sent to the bridge thread ("sd"), which keeps one child      *)
(* process, starts it off-thread, and kills it to cancel.                  *)
(*                                                                         *)
(* A stroke is a record [item, gen, engine].  What the code forgets about  *)
(* it on the way (the child's events name only the item) is kept in its    *)
(* answers for the properties alone, as `stroke`.                          *)
(***************************************************************************)
EXTENDS Integers, Sequences, FiniteSets, Functions, Queues

CONSTANTS
    Items,
    Engines,      \* those the user erases with: "lama", "sd"
    Overlapping,  \* those of them a further stroke may use while one is in flight
    UserSteps,    \* what else the user does: "cancel", "cancelAll", "release", "edit", "undo"
    Faults,       \* what may go wrong: "write", "paint", "decode", "spawn", "crash", "memory"
    MaxStrokes, MaxTroubles   \* bounds on dispatches, and on what else the user does or goes wrong

ASSUME EraseAssumption ==
    IsFiniteSet(Items) /\ Overlapping \subseteq Engines /\ {MaxStrokes, MaxTroubles} \subseteq Nat

VARIABLES
    \* the processor
    latest,     \* inpaint_latest_gen
    pending,    \* inpaint_pending
    flagOf,     \* inpaint_cancels: the generation whose flag it holds; 0 for no entry
    flagged,    \* strokes whose flag is set
    inbox,      \* inpaint_rx
    \* the items
    version, job, shown,   \* timeline version; [gen, version] of the run; generation shown
    \* helpers, and the bridge's channels
    helpers,    \* strokes on the thread pool: encoded, or painted
    mail, replies,
    \* the bridge
    sub,        \* SubState
    queued,     \* the dispatches a Spawning holds
    doomed,     \* its `cancelled`
    spawned,    \* what the helper thread reports: "none", "ok", "err"
    gens,       \* inflight_gens; 0 for no entry
    \* the child
    alive, given, said,   \* strokes it was given, oldest first; its events
    counted,    \* the items the manager counts as in flight
    \* bounds
    strokes, troubles

guiVars    == <<latest, pending, flagOf, flagged, inbox, version, job, shown>>
bridgeVars == <<sub, queued, doomed, spawned, gens>>
childVars  == <<alive, given, said, counted>>
countVars  == <<strokes, troubles>>
eraseVars  == <<guiVars, helpers, mail, replies, bridgeVars, childVars, countVars>>

NoRun == [gen |-> 0, version |-> 0]
Stroke == [item : Items, gen : 1 .. MaxStrokes, engine : Engines]
ItemsIn(line) == {line[n].item : n \in DOMAIN line}

EraseInit ==
    /\ latest = [i \in Items |-> 0] /\ pending = [i \in Items |-> 0]
    /\ flagOf = [i \in Items |-> 0] /\ flagged = {} /\ inbox = <<>>
    /\ version = [i \in Items |-> 0] /\ job = [i \in Items |-> NoRun] /\ shown = [i \in Items |-> 0]
    /\ helpers = {} /\ mail = <<>> /\ replies = <<>>
    /\ sub = "Idle" /\ queued = <<>> /\ doomed = FALSE /\ spawned = "none"
    /\ gens = [i \in Items |-> 0]
    /\ alive = FALSE /\ given = <<>> /\ said = <<>> /\ counted = {}
    /\ strokes = 0 /\ troubles = 0

InFlight(i) == pending[i] > 0
Trouble     == troubles < MaxTroubles /\ troubles' = troubles + 1
Fault(kind) == kind \in Faults /\ Trouble
NoFault     == UNCHANGED troubles

Reply(s, res) == [stroke |-> s, gen |-> s.gen, res |-> res]
Failure(s, res) == [stroke |-> s, gen |-> 0, res |-> res]

----------------------------------------------------------------------------
(* The user                                                                *)

\* dispatch_inpaint, then start_job.
EraseItem(i, e) ==
    /\ strokes < MaxStrokes /\ strokes' = strokes + 1
    /\ InFlight(i) => e \in Overlapping
    /\ LET gen == latest[i] + 1
       IN  /\ latest' = [latest EXCEPT ![i] = gen]
           /\ flagOf' = [flagOf EXCEPT ![i] = gen]
           /\ helpers' = helpers \cup {[item |-> i, gen |-> gen, engine |-> e]}
           /\ job' = [job EXCEPT ![i] = [gen |-> gen, version |-> version[i]]]
    /\ pending' = [pending EXCEPT ![i] = @ + 1]
    /\ UNCHANGED <<flagged, inbox, version, shown, mail, replies, bridgeVars, childVars, troubles>>

UserStep(kind) ==
    /\ kind \in UserSteps /\ Trouble
    /\ UNCHANGED <<latest, pending, flagOf, inbox, shown, helpers, replies, bridgeVars, childVars, strokes>>

Cancel  == [type |-> "Cancel"]
Flag(S) == flagged' = flagged \cup {<<i, flagOf[i]>> : i \in {j \in S : flagOf[j] # 0}}

\* cancel_inpaint_for.
CancelItem(i) ==
    /\ UserStep("cancel") /\ InFlight(i)
    /\ Flag({i}) /\ mail' = Append(mail, Cancel)
    /\ UNCHANGED <<version, job>>

\* cancel_all_inpaints: a message for each entry of the map.
CancelAllItems ==
    /\ UserStep("cancelAll") /\ \E i \in Items : InFlight(i)
    /\ Flag(Items)
    /\ mail' = mail \o [n \in 1 .. Cardinality({i \in Items : flagOf[i] # 0}) |-> Cancel]
    /\ UNCHANGED <<version, job>>

\* release_inpaint_subprocess, on a model switch.
SwitchModel ==
    /\ UserStep("release") /\ mail' = Append(mail, [type |-> "Release"])
    /\ UNCHANGED <<version, job, flagged>>

\* commit: the item's state moves on under the run.
EditItem(i) ==
    /\ UserStep("edit") /\ version' = [version EXCEPT ![i] = @ + 1]
    /\ UNCHANGED <<job, flagged, mail>>

\* step_targets: a run that is still awaited is cancelled first.
UndoItem(i) ==
    /\ UserStep("undo")
    /\ IF job[i] # NoRun /\ InFlight(i) THEN Flag({i}) /\ mail' = Append(mail, Cancel)
       ELSE UNCHANGED <<flagged, mail>>
    /\ version' = [version EXCEPT ![i] = @ + 1] /\ job' = [job EXCEPT ![i] = NoRun]

----------------------------------------------------------------------------
(* The helper of a stroke                                                  *)

IsFlagged(s) == <<s.item, s.gen>> \in flagged
Helps(s) ==
    /\ s \in helpers /\ helpers' = helpers \ {s}
    /\ UNCHANGED <<latest, pending, flagOf, flagged, version, job, shown, replies, bridgeVars, childVars, strokes>>

\* dispatch_inpaint_sd: the flag is looked at again once the files are written.
Encode(s) ==
    /\ Helps(s) /\ s.engine = "sd"
    /\ \/ ~IsFlagged(s) /\ NoFault /\ mail' = Append(mail, [type |-> "Dispatch", stroke |-> s]) /\ UNCHANGED inbox
       \/ IsFlagged(s) /\ NoFault /\ inbox' = Append(inbox, Failure(s, "cancelled")) /\ UNCHANGED mail
       \/ Fault("write") /\ inbox' = Append(inbox, Failure(s, "err")) /\ UNCHANGED mail

\* dispatch_inpaint: a tile may see the flag, or the last one is past it.
Paint(s) ==
    /\ Helps(s) /\ s.engine = "lama" /\ UNCHANGED mail
    /\ \/ NoFault /\ inbox' = Append(inbox, Reply(s, "ok"))
       \/ IsFlagged(s) /\ NoFault /\ inbox' = Append(inbox, Failure(s, "cancelled"))
       \/ Fault("paint") /\ inbox' = Append(inbox, Failure(s, "err"))

----------------------------------------------------------------------------
(* The bridge thread.  A Done carries the generation that inflight_gens    *)
(* has for its item, whichever stroke it is of.                            *)

Owed == {i \in Items : gens[i] # 0}
OwedStroke(i) == [item |-> i, gen |-> gens[i], engine |-> "sd"]

\* One answer for each entry of inflight_gens, in the map's order.
WrongDrain(res) == /\ replies' = replies /\ gens' = [i \in Items |-> 0]   \* nobody is told
Drain(res) ==
    /\ \E line \in {f \in [1 .. Cardinality(Owed) -> Owed] : Distinct(f)} :
        replies' = replies \o [n \in DOMAIN line |-> Failure(OwedStroke(line[n]), res)]
    /\ gens' = [i \in Items |-> 0]

\* s.kill(): the child's events go with it.
Kill == alive' = FALSE /\ given' = <<>> /\ said' = <<>> /\ counted' = {}

Receive(type) ==
    /\ mail # <<>> /\ Head(mail).type = type /\ mail' = Tail(mail)
    /\ UNCHANGED <<guiVars, helpers, countVars>>

\* handle_dispatch.  A child that is gone does not take the stroke.
TakeDispatch ==
    /\ Receive("Dispatch") /\ UNCHANGED <<alive, said>>
    /\ LET s == Head(mail).stroke
           noted == [gens EXCEPT ![s.item] = s.gen]
       IN  \/ /\ sub = "Ready" /\ alive
              /\ gens' = noted /\ given' = Append(given, s) /\ counted' = counted \cup {s.item}
              /\ UNCHANGED <<replies, sub, queued, doomed, spawned>>
           \/ /\ sub = "Ready" /\ ~alive
              /\ gens' = [gens EXCEPT ![s.item] = 0] /\ replies' = Append(replies, Failure(s, "err"))
              /\ UNCHANGED <<given, counted, sub, queued, doomed, spawned>>
           \/ /\ sub = "Spawning"
              /\ gens' = noted /\ queued' = Append(queued, s)
              /\ UNCHANGED <<replies, given, counted, sub, doomed, spawned>>
           \/ /\ sub = "Idle"
              /\ gens' = noted /\ sub' = "Spawning" /\ queued' = <<s>> /\ doomed' = FALSE
              /\ UNCHANGED <<replies, given, counted, spawned>>

\* handle_cancel.
TakeCancel ==
    /\ Receive("Cancel")
    /\ \/ /\ sub = "Idle" \/ Owed = {}
          /\ UNCHANGED <<replies, bridgeVars, childVars>>
       \/ /\ sub = "Spawning" /\ Owed # {}
          /\ doomed' = TRUE /\ Drain("cancelled")
          /\ UNCHANGED <<sub, queued, spawned, childVars>>
       \/ /\ sub = "Ready" /\ Owed # {}
          /\ sub' = "Idle" /\ Kill /\ Drain("cancelled")
          /\ UNCHANGED <<queued, doomed, spawned>>

\* handle_release.
TakeRelease ==
    /\ Receive("Release")
    /\ \/ sub = "Idle" /\ UNCHANGED <<replies, bridgeVars, childVars>>
       \/ /\ sub = "Spawning"
          /\ queued' = <<>> /\ doomed' = TRUE /\ Drain("cancelled")
          /\ UNCHANGED <<sub, spawned, childVars>>
       \/ /\ sub = "Ready"
          /\ sub' = "Idle" /\ Kill /\ Drain("cancelled")
          /\ UNCHANGED <<queued, doomed, spawned>>

\* poll_spawn_result.
TakeChild ==
    /\ sub = "Spawning" /\ spawned # "none"
    /\ spawned' = "none" /\ queued' = <<>> /\ doomed' = FALSE
    /\ \/ /\ ~doomed /\ spawned = "ok"
          /\ sub' = "Ready" /\ alive' = TRUE /\ given' = queued /\ counted' = ItemsIn(queued)
          /\ UNCHANGED <<replies, gens>>
       \/ /\ ~doomed /\ spawned = "err"
          /\ sub' = "Idle" /\ UNCHANGED <<alive, given, counted>>
          /\ replies' = replies \o [n \in DOMAIN queued |-> Failure(queued[n], "err")]
          /\ gens' = [i \in Items |-> IF i \in ItemsIn(queued) THEN 0 ELSE gens[i]]
       \/ /\ doomed
          /\ sub' = "Idle" /\ UNCHANGED <<alive, given, counted, replies, gens>>
    /\ UNCHANGED <<guiVars, helpers, mail, said, countVars>>

\* The memory watchdog.
MemoryShort ==
    /\ sub = "Ready" /\ Owed # {} /\ Fault("memory")
    /\ sub' = "Idle" /\ Kill /\ Drain("err")
    /\ UNCHANGED <<guiVars, helpers, mail, queued, doomed, spawned, strokes>>

\* poll_events: InpaintDone, InpaintError.
WrongForget(i) == gens   \* the entry stays
Forget(i) == [gens EXCEPT ![i] = 0]
TakeEvent ==
    /\ sub = "Ready" /\ said # <<>> /\ said' = Tail(said)
    /\ LET e == Head(said)
           i == e.stroke.item
       IN  /\ replies' = Append(replies, IF e.res = "ok" THEN [e EXCEPT !.gen = gens[i]] ELSE e)
           /\ gens' = Forget(i) /\ counted' = counted \ {i}
    /\ UNCHANGED <<guiVars, helpers, mail, sub, queued, doomed, spawned, alive, given, countVars>>

\* Idle eviction: the manager counts nothing as in flight.
Evict ==
    /\ sub = "Ready" /\ counted = {}
    /\ sub' = "Idle" /\ Kill
    /\ UNCHANGED <<guiVars, helpers, mail, replies, queued, doomed, spawned, gens, countVars>>

Bridge == TakeDispatch \/ TakeCancel \/ TakeRelease \/ TakeChild \/ TakeEvent

----------------------------------------------------------------------------
(* The spawn helper and the child                                          *)

ChildStep == UNCHANGED <<guiVars, helpers, mail, replies, sub, queued, doomed, gens, strokes>>

SpawnEnds ==
    /\ sub = "Spawning" /\ spawned = "none"
    /\ (NoFault /\ spawned' = "ok") \/ (Fault("spawn") /\ spawned' = "err")
    /\ ChildStep /\ UNCHANGED childVars

ChildErases ==
    /\ alive /\ given # <<>> /\ given' = Tail(given)
    /\ \/ NoFault /\ said' = Append(said, Reply(Head(given), "ok"))
       \/ Fault("paint") /\ said' = Append(said, Failure(Head(given), "err"))
    /\ ChildStep /\ UNCHANGED <<alive, counted, spawned>>

\* The child dies.  What it was given stays counted as in flight.
Crash ==
    /\ alive /\ Fault("crash") /\ alive' = FALSE
    /\ ChildStep /\ UNCHANGED <<given, said, counted, spawned>>

Child == SpawnEnds \/ ChildErases

----------------------------------------------------------------------------
(* pump_inpaint_results                                                    *)

\* pump_inpaint_subprocess: a result whose file cannot be read is an error.
Decoded(bad) == inbox \o [n \in DOMAIN replies |-> IF n \in bad THEN Failure(replies[n].stroke, "err") ELSE replies[n]]
OkReplies == {n \in DOMAIN replies : replies[n].res = "ok"}

\* drain_inpaint_results: the newest dispatch's results.
WrongFresh(r) == r.res = "ok"   \* the generation is not looked at
Fresh(r) == r.res = "ok" /\ r.gen = latest[r.stroke.item] /\ r.gen > 0
Less(m, n) == IF m < n THEN 0 ELSE m - n

\* A run lands on the state it started from.
IsCurrent(i) == job[i] # NoRun /\ job[i].version = version[i]

\* Every answer counts down; with the last one the item's flag goes.  Items of
\* cancelled strokes lose their run before any result lands.
Drained(bad) ==
    LET line == Decoded(bad)
        of(i) == {n \in DOMAIN line : line[n].stroke.item = i}
        stopped == {i \in Items : \E n \in of(i) : line[n].res = "cancelled"}
        fresh(i) == {n \in of(i) : Fresh(line[n])}
        lands == {i \in Items \ stopped : fresh(i) # {} /\ IsCurrent(i)}
        first(i) == line[CHOOSE n \in fresh(i) : \A m \in fresh(i) : n <= m]
    IN  /\ pending' = [i \in Items |-> Less(pending[i], Cardinality(of(i)))]
        /\ flagOf' = [i \in Items |-> IF of(i) # {} /\ pending'[i] = 0 THEN 0 ELSE flagOf[i]]
        /\ job' = [i \in Items |-> IF i \in stopped \cup lands THEN NoRun ELSE job[i]]
        /\ shown' = [i \in Items |-> IF i \in lands THEN first(i).stroke.gen ELSE shown[i]]
        /\ version' = [i \in Items |-> IF i \in lands THEN version[i] + 1 ELSE version[i]]

Pump ==
    /\ inbox # <<>> \/ replies # <<>>
    /\ \/ NoFault /\ Drained({})
       \/ \E bad \in SUBSET OkReplies : bad # {} /\ Fault("decode") /\ Drained(bad)
    /\ inbox' = <<>> /\ replies' = <<>>
    /\ UNCHANGED <<latest, flagged, helpers, mail, bridgeVars, childVars, strokes>>

----------------------------------------------------------------------------

User ==
    \/ CancelAllItems \/ SwitchModel
    \/ \E i \in Items : CancelItem(i) \/ EditItem(i) \/ UndoItem(i) \/ \E e \in Engines : EraseItem(i, e)
Helper(s) == Encode(s) \/ Paint(s)

EraseNext ==
    \/ User \/ Bridge \/ Child \/ Pump
    \/ MemoryShort \/ Evict \/ Crash
    \/ \E s \in helpers : Helper(s)

EraseSpec == EraseInit /\ [][EraseNext]_eraseVars

\* Frames are drawn, the bridge's loop turns, helpers and a living child end
\* what they work on.
FairEraseSpec ==
    /\ EraseSpec
    /\ WF_eraseVars(Pump) /\ WF_eraseVars(Bridge) /\ WF_eraseVars(Child)
    /\ WF_eraseVars(\E s \in helpers : Helper(s))

----------------------------------------------------------------------------
(* Properties                                                              *)

Answers == [stroke : Stroke, gen : 0 .. MaxStrokes, res : {"ok", "err", "cancelled"}]

EraseTypeOK ==
    /\ {latest, pending, flagOf, gens, shown} \subseteq [Items -> 0 .. MaxStrokes]
    /\ version \in [Items -> Nat] /\ job \in [Items -> [gen : 0 .. MaxStrokes, version : Nat]]
    /\ flagged \subseteq Items \X (1 .. MaxStrokes)
    /\ helpers \subseteq Stroke /\ {inbox, replies, said} \subseteq Seq(Answers)
    /\ sub \in {"Idle", "Spawning", "Ready"} /\ spawned \in {"none", "ok", "err"}
    /\ {queued, given} \subseteq Seq(Stroke) /\ counted \subseteq Items /\ {doomed, alive} \subseteq BOOLEAN
    /\ sub # "Spawning" => queued = <<>> /\ spawned = "none"
    /\ sub # "Ready" => ~alive /\ given = <<>> /\ said = <<>> /\ counted = {}

\* The brush of an item is locked, and its cancel flag kept, for exactly as long
\* as an answer is to come: no stroke is answered twice, by the child and by the
\* kill that cancelled it, and what the child works on is not given up on.
In(line, i) == Cardinality({n \in DOMAIN line : line[n].stroke.item = i})
Posted(i) == Cardinality({n \in DOMAIN mail : mail[n].type = "Dispatch" /\ mail[n].stroke.item = i})
Accounted ==
    /\ \A i \in Items :
          pending[i] = Cardinality({s \in helpers : s.item = i}) + Posted(i)
                       + In(replies, i) + In(inbox, i) + (IF i \in Owed THEN 1 ELSE 0)
    /\ \A s \in Range(given) \cup {e.stroke : e \in Range(said)} : gens[s.item] = s.gen
    /\ \A i \in Items : InFlight(i) => flagOf[i] = latest[i]

EraseOK == EraseTypeOK /\ Accounted

\* The result that lands on an item is that of the stroke it waits for
\* (processor.rs:903, "drain drops it as stale if a fresher stroke bumped
\* `inpaint_latest_gen`"), and the item has not changed since.
LandsOwnStroke ==
    [][\A i \in Items : shown'[i] # shown[i] =>
          shown'[i] = job[i].gen /\ job[i].version = version[i]]_eraseVars

\* A stroke is answered in the end, unless the bridge has an entry for it and
\* nobody who works on it.
Held == Range(queued) \cup Range(given) \cup {e.stroke : e \in Range(said)}
Stranded(i) == i \in Owed /\ (OwedStroke(i) \in Held => sub = "Ready" /\ ~alive)
EveryStrokeEnds == \A i \in Items : InFlight(i) ~> (~InFlight(i) \/ Stranded(i))

\* Once its cancel is asked for, an item's brush is free again in the end
\* (canvas.rs:38, "The capsule's Cancel is the way out").
CancelFreesTheBrush ==
    \A i \in Items : (InFlight(i) /\ <<i, flagOf[i]>> \in flagged) ~> ~InFlight(i)
=============================================================================
