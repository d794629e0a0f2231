----------------------------- MODULE SegBridge -----------------------------
(***************************************************************************)
(* The background-removal bridge: the `prunr-bridge` thread of             *)
(* gui/worker.rs, the SubprocessManager it drives (subprocess/manager.rs)  *)
(* and the `prunr --worker` child as the bridge sees it.  The bridge takes *)
(* BatchProcess messages from the GUI, hands images to the child, answers  *)
(* every image with a BatchItemDone, restarts a child that died or hung    *)
(* with half the jobs, and ends a batch with BatchComplete or Cancelled.   *)
(*                                                                         *)
(* The GUI thread is left to the module that extends this one: SegBatch    *)
(* puts a most general GUI around one batch.                               *)
(*                                                                         *)
(* Tier-2 and add-edge work ("cached" work: it starts from a cached        *)
(* tensor) runs through two queues served one after the other by the same  *)
(* code; the model keeps one queue for both.  Images, tensors and progress *)
(* reports are not represented.                                            *)
(*                                                                         *)
(* A definition named Wrong... is a variant of the one after it with a     *)
(* plausible bug; nothing uses it but the mutants in PROJECT.json, which   *)
(* show that a property notices the difference.                            *)
(***************************************************************************)
EXTENDS Integers, Sequences, FiniteSets, Functions, Queues

CONSTANTS
    Items,      \* the item ids
    Batches,    \* numbers of the batches the GUI may send
    Outcomes,   \* how the child may finish a job, a subset of AllOutcomes
    RssLevels,  \* resident sizes the child may report, a subset of AllRssLevels;
                \* empty where memory_stats() has no answer
    Faults,     \* what may go wrong, a subset of AllFaults
    MaxFaults   \* bound: how many faults one behaviour may have

AllOutcomes  == {"done", "error", "silent"}
AllRssLevels == {"below", "band", "above"}
AllFaults    == {"crash", "hang", "ipc", "spawn"}

ASSUME SegBridgeAssumption ==
    /\ Batches \subseteq Nat
    /\ Outcomes \subseteq AllOutcomes
    /\ RssLevels \subseteq AllRssLevels
    /\ Faults \subseteq AllFaults
    /\ MaxFaults \in Nat

VARIABLES
    \* shared with the GUI thread
    inbox,      \* WorkerMessage channel
    chan,       \* per batch, the additional_items channel: queue, sender and receiver alive
    cancelled,  \* CancelRegistry.per_item
    cancelAll,  \* CancelRegistry.global
    results,    \* WorkerResult channel
    \* the bridge thread
    pc,         \* where it is
    batch,      \* the BatchProcess message being served
    pending,    \* BatchRunState.pending and .pending_tier2/.pending_add_edge
    sent,       \* sent_tier1 and sent_tier2_ids/sent_add_edge_ids
    completed,  \* BatchRunState.completed
    maxJobs,    \* BatchRunState.max_jobs
    doomed,     \* ids drop_cancelled_pending has listed and not removed yet
    notified,   \* cancel_notified
    evs,        \* events returned by poll_events_blocking and not handled yet
    paused,     \* SubprocessManager.rss_paused
    \* the child process
    child,      \* "none", "up", "hung" or "dead"
    warm,       \* the child sits in the pre-warm slot
    work,       \* items the child has accepted and not answered
    rssDue,     \* RssUpdates the child still has to send
    evq,        \* events on their way to the bridge
    quiet,      \* HANG_TIMEOUT has passed since the last event
    faults      \* faults so far

guiVars    == <<inbox, cancelled, cancelAll>>
stateVars  == <<batch, pending, sent, completed, maxJobs>>
loopVars   == <<doomed, notified, evs, paused>>
bridgeVars == <<pc, stateVars, loopVars>>
childVars  == <<child, warm, work, rssDue, evq, quiet, faults>>
segVars    == <<guiVars, chan, results, bridgeVars, childVars>>

----------------------------------------------------------------------------
(* Messages                                                                *)

NoBatch == [id |-> 0, cached |-> <<>>, tier1 |-> <<>>, jobs |-> 1, streams |-> FALSE]
Message == [id : Batches, cached : Seq(Items), tier1 : Seq(Items), jobs : Nat \ {0}, streams : BOOLEAN]

Answer(i, r)    == [type |-> "ItemDone", batch |-> batch.id, item |-> i, res |-> r]
AnswerAll(s, r) == [n \in DOMAIN s |-> Answer(s[n], r)]
Signal(t)       == [type |-> t, batch |-> batch.id]

\* CancelRegistry::is_cancelled, as the set of items it holds for.
Stopped == IF cancelAll THEN Items ELSE cancelled

InFlight     == ItemsOf(sent)
Drained      == InFlight = {} /\ SizeOf(pending) = 0
Feed         == IF batch.streams THEN chan[batch.id].q ELSE <<>>
NoMoreToCome == ~batch.streams \/ (~chan[batch.id].tx /\ Feed = <<>>)

CanFault(f) == f \in Faults /\ faults < MaxFaults
Alive       == child \in {"up", "hung"}

\* poll_additional_items and the end of the event loop: one streamed item
\* joins the queue.
TakeStreamed ==
    /\ Feed # <<>>
    /\ pending' = [pending EXCEPT !.tier1 = Append(@, Head(Feed))]
    /\ chan' = [chan EXCEPT ![batch.id].q = Tail(@)]

\* drop_cancelled_pending lists the cancelled items, removes what is cancelled
\* by then (nothing, if the list is empty), and answers what it listed.  The
\* GUI may cancel between the two looks at the registry.
Listed == Without(pending.tier1 \o pending.cached, Items \ Stopped)
WrongSwept == pending   \* answers what is cancelled and keeps it queued
Swept  == IF doomed = <<>> THEN pending ELSE Drop(pending, Stopped)
Told   == results \o AnswerAll(doomed, "cancelled")

\* emit_pending_errors.
WrongFailed(q) == AnswerAll(Without(q.tier1, completed), "err")   \* forgets cached work
Failed(q) == AnswerAll(Without(q.tier1, completed) \o q.cached, "err")

\* Work handed to the child: it sits in `sent` here and in `work` there.
WrongHandOver(s, q) ==   \* cached work is not noted as sent
    /\ sent' = [s EXCEPT !.tier1 = @ \o q.tier1]
    /\ work' = work \cup ItemsOf(q)
HandOver(s, q) ==
    /\ sent' = Join(s, q)
    /\ work' = work \cup ItemsOf(q)

\* The SubprocessManager is gone, and with it everything the child had.
ForgetChild ==
    /\ work' = {} /\ rssDue' = 0 /\ evq' = <<>> /\ quiet' = FALSE
    /\ doomed' = <<>> /\ notified' = {} /\ evs' = <<>> /\ paused' = FALSE

----------------------------------------------------------------------------
(* spawn_worker: the thread's message loop                                 *)

\* BatchProcess: the warm child is reused when its configuration matches
\* (`match`) and it is alive; any other warm child is dropped.
TakeBatch(match) ==
    /\ pc = "idle" /\ inbox # <<>> /\ Head(inbox).type = "Batch"
    /\ LET m == Head(inbox).batch IN
       /\ batch' = m
       /\ pending' = [cached |-> m.cached, tier1 |-> m.tier1]
       /\ maxJobs' = m.jobs
    /\ inbox' = Tail(inbox)
    /\ warm' = FALSE
    /\ child' = IF warm /\ match /\ Alive THEN child ELSE "none"
    /\ pc' = "top"
    /\ UNCHANGED <<chan, cancelled, cancelAll, results, sent, completed, loopVars,
                   work, rssDue, evq, quiet, faults>>

\* ReleaseWarm: shut the warm child down.
ReleaseWarm ==
    /\ pc = "idle" /\ inbox # <<>> /\ Head(inbox).type = "ReleaseWarm"
    /\ inbox' = Tail(inbox)
    /\ warm' = FALSE
    /\ child' = "none"
    /\ UNCHANGED <<chan, cancelled, cancelAll, results, bridgeVars, work, rssDue, evq, quiet, faults>>

\* run_batch_with_retry returns: the manager is dropped (which shuts the
\* child down) and the receiver of the additional items with it.
EndBatch ==
    /\ pc = "return"
    /\ pc' = "idle"
    /\ chan' = IF batch.streams THEN [chan EXCEPT ![batch.id].rx = FALSE] ELSE chan
    /\ batch' = NoBatch /\ pending' = NoWork /\ sent' = NoWork
    /\ completed' = {} /\ maxJobs' = 1
    /\ child' = "none"
    /\ ForgetChild
    /\ UNCHANGED <<guiVars, results, warm, faults>>

----------------------------------------------------------------------------
(* run_batch_with_retry: before a child is running                         *)

\* A global cancel found at the head of the loop ends the batch.
TopCancelled ==
    /\ pc = "top" /\ cancelAll
    /\ results' = Append(results, Signal("Cancelled"))
    /\ pc' = "return"
    /\ UNCHANGED <<guiVars, chan, stateVars, loopVars, childVars>>

\* poll_additional_items.  With nothing queued and the GUI still connected it
\* sleeps and polls again, which is not a step.
TopPoll ==
    /\ pc = "top" /\ ~cancelAll
    /\ \/ /\ SizeOf(pending) > 0
          /\ pc' = "list"
          /\ UNCHANGED <<chan, results, pending>>
       \/ /\ SizeOf(pending) = 0 /\ TakeStreamed
          /\ pc' = "list"
          /\ UNCHANGED results
       \/ /\ SizeOf(pending) = 0 /\ NoMoreToCome
          /\ results' = Append(results, Signal("Complete"))
          /\ pc' = "return"
          /\ UNCHANGED <<chan, pending>>
    /\ UNCHANGED <<guiVars, batch, sent, completed, maxJobs, loopVars, childVars>>

\* spawn_and_initial_burst: drop_cancelled_pending's first pass ...
ListCancelled ==
    /\ pc = "list"
    /\ doomed' = Listed
    /\ pc' = "spawn"
    /\ UNCHANGED <<guiVars, chan, results, stateVars, notified, evs, paused, childVars>>

\* ... and its second; the batch ends if nothing is left, else a child is
\* started unless a warm one was handed over.  A failed start answers
\* everything queued with the error.
Spawn ==
    /\ pc = "spawn"
    /\ pending' = Swept
    /\ completed' = completed \cup Range(doomed)
    /\ doomed' = <<>>
    /\ \/ /\ SizeOf(Swept) = 0
          /\ results' = Append(Told, Signal("Complete"))
          /\ pc' = "return"
          /\ UNCHANGED <<child, faults>>
       \/ /\ SizeOf(Swept) > 0
          /\ results' = Told
          /\ child' = IF child = "none" THEN "up" ELSE child
          /\ pc' = "burst"
          /\ UNCHANGED faults
       \/ /\ SizeOf(Swept) > 0 /\ child = "none" /\ CanFault("spawn")
          /\ results' = Append(Told \o Failed(Swept), Signal("Complete"))
          /\ pc' = "return"
          /\ faults' = faults + 1
          /\ UNCHANGED child
    /\ UNCHANGED <<guiVars, chan, batch, sent, maxJobs, notified, evs, paused, warm, work, rssDue, evq, quiet>>

BurstSize == Lesser(maxJobs, SizeOf(pending))

\* Then up to max_jobs pieces of work are sent, cached work first.  A cached
\* piece that cannot be sent is passed over for a whole image; a whole image
\* that cannot be sent ends the burst.  Nothing can be sent to a dead child.
Burst ==
    /\ pc = "burst"
    /\ LET full == Lesser(BurstSize, Len(pending.cached)) IN
       \E c \in 0 .. full, t \in 0 .. Len(pending.tier1) :
          /\ c + t <= BurstSize
          /\ \/ Alive /\ c = full /\ c + t = BurstSize /\ UNCHANGED faults
             \/ ~Alive /\ c + t = 0 /\ UNCHANGED faults
             \/ Alive /\ c + t < BurstSize /\ CanFault("ipc") /\ faults' = faults + 1
             \/ Alive /\ c < full /\ c + t = BurstSize /\ CanFault("ipc") /\ faults' = faults + 1
          /\ HandOver(sent, FirstOf(pending, c, t))
          /\ pending' = RestOf(pending, c, t)
    /\ pc' = "head"
    /\ UNCHANGED <<guiVars, chan, results, batch, completed, maxJobs, loopVars,
                   child, warm, rssDue, evq, quiet>>

----------------------------------------------------------------------------
(* run_event_loop: one child's life                                        *)

\* cancel_subprocess: a global cancel kills the child and ends the batch.
WrongLoopCancelled ==   \* waits for the work in flight first
    /\ pc = "head" /\ cancelAll /\ InFlight = {}
    /\ child' = "dead"
    /\ results' = Append(results, Signal("Cancelled"))
    /\ pc' = "return"
    /\ UNCHANGED <<guiVars, chan, stateVars, loopVars, warm, work, rssDue, evq, quiet, faults>>
LoopCancelled ==
    /\ pc = "head" /\ cancelAll
    /\ child' = "dead"
    /\ results' = Append(results, Signal("Cancelled"))
    /\ pc' = "return"
    /\ UNCHANGED <<guiVars, chan, stateVars, loopVars, warm, work, rssDue, evq, quiet, faults>>

\* The child is gone, or silent for HANG_TIMEOUT with work in flight (is_stalled).
WrongChildLostSilent == child = "dead"   \* misses a child that hangs
ChildLost == child = "dead" \/ (Alive /\ quiet /\ InFlight # {})

\* next_event_with_state, over all events taken: an RSS above the pause
\* threshold pauses admission, one below the resume threshold resumes it.
PausedAfter(events) ==
    LET marks == {n \in DOMAIN events : events[n].type = "Rss" /\ events[n].level # "band"}
    IN  IF marks = {} THEN paused
        ELSE \E n \in marks : events[n].level = "above" /\ \A m \in marks : m <= n

\* forward_item_cancels, the liveness checks passed, then poll_events_blocking:
\* every event that has arrived is taken, and the RSS pause they imply is in
\* force before the first of them is handled.
LoopPoll ==
    /\ pc = "head" /\ ~cancelAll /\ Alive /\ ~ChildLost
    /\ notified' = notified \cup (InFlight \cap cancelled)
    /\ evs' = evq
    /\ evq' = <<>>
    /\ quiet' = (quiet /\ evq = <<>>)
    /\ paused' = PausedAfter(evq)
    /\ pc' = "handle"
    /\ UNCHANGED <<guiVars, chan, results, stateVars, doomed, child, warm, work, rssDue, faults>>

\* handle_subprocess_event.  An ImageDone settles its item and goes on to
\* admit_next_item, whose first step is drop_cancelled_pending's first pass.
HandleDone ==
    /\ pc = "handle" /\ evs # <<>> /\ Head(evs).type = "Done"
    /\ LET i == Head(evs).item IN
       /\ completed' = completed \cup {i}
       /\ sent' = Drop(sent, {i})
       /\ results' = Append(results, Answer(i, "ok"))
    /\ doomed' = Listed
    /\ evs' = Tail(evs)
    /\ pc' = "admit"
    /\ UNCHANGED <<guiVars, chan, batch, pending, maxJobs, notified, paused, childVars>>

\* An ImageError answers its item and admits nothing.
HandleError ==
    /\ pc = "handle" /\ evs # <<>> /\ Head(evs).type = "Error"
    /\ LET i == Head(evs).item IN
       /\ completed' = completed \cup {i}
       /\ sent' = Drop(sent, {i})
       /\ results' = Append(results, Answer(i, Head(evs).res))
    /\ evs' = Tail(evs)
    /\ UNCHANGED <<guiVars, chan, pc, batch, pending, maxJobs, doomed, notified, paused, childVars>>

\* An RssUpdate was absorbed by the manager when it was taken.
HandleRss ==
    /\ pc = "handle" /\ evs # <<>> /\ Head(evs).type = "Rss"
    /\ evs' = Tail(evs)
    /\ UNCHANGED <<guiVars, chan, results, pc, stateVars, doomed, notified, paused, childVars>>

\* Which sends fail: all of them once the child is gone.
Failures == {F \in SUBSET {"cached", "whole"} :
                 \/ ~Alive /\ F = {"cached", "whole"}
                 \/ Alive /\ (F # {} => CanFault("ipc"))}

\* should_pause_admission.
WrongMayAdmit == TRUE   \* ignores the child's memory
MayAdmit == ~paused

\* admit_next_item, its second part: what was cancelled goes, then one more
\* piece of work is handed over unless the child's memory is high: cached work,
\* else a queued whole image, else one the GUI streamed.
Admit ==
    /\ pc = "admit"
    /\ \E F \in Failures :
       LET cachedGoes == MayAdmit /\ Swept.cached # <<>> /\ "cached" \notin F
           wholeTried == MayAdmit /\ ~cachedGoes /\ Swept.tier1 # <<>>
           feedTried  == MayAdmit /\ ~cachedGoes /\ Swept.tier1 = <<>> /\ Feed # <<>>
           next       == Head(Feed)
       IN
       /\ \/ /\ cachedGoes
             /\ HandOver(sent, FirstOf(Swept, 1, 0))
             /\ pending' = RestOf(Swept, 1, 0)
             /\ completed' = completed \cup Range(doomed) /\ results' = Told
             /\ UNCHANGED chan
          \/ /\ wholeTried
             /\ IF "whole" \in F
                THEN pending' = Swept /\ UNCHANGED <<sent, work>>
                ELSE HandOver(sent, FirstOf(Swept, 0, 1)) /\ pending' = RestOf(Swept, 0, 1)
             /\ completed' = completed \cup Range(doomed) /\ results' = Told
             /\ UNCHANGED chan
          \/ /\ feedTried
             /\ chan' = [chan EXCEPT ![batch.id].q = Tail(@)]
             /\ \/ /\ next \in Stopped
                   /\ pending' = Swept /\ UNCHANGED <<sent, work>>
                   /\ completed' = completed \cup Range(doomed) \cup {next}
                   /\ results' = Append(Told, Answer(next, "cancelled"))
                \/ /\ next \notin Stopped
                   /\ IF "whole" \in F
                      THEN pending' = [Swept EXCEPT !.tier1 = Append(@, next)] /\ UNCHANGED <<sent, work>>
                      ELSE HandOver(sent, [NoWork EXCEPT !.tier1 = <<next>>]) /\ pending' = Swept
                   /\ completed' = completed \cup Range(doomed) /\ results' = Told
          \/ /\ ~cachedGoes /\ ~wholeTried /\ ~feedTried
             /\ pending' = Swept
             /\ completed' = completed \cup Range(doomed) /\ results' = Told
             /\ UNCHANGED <<chan, sent, work>>
       /\ faults' = IF Alive /\ F # {} THEN faults + 1 ELSE faults
    /\ doomed' = <<>>
    /\ pc' = "handle"
    /\ UNCHANGED <<guiVars, batch, maxJobs, notified, evs, paused, child, warm, rssDue, evq, quiet>>

\* The end of an iteration.  With nothing queued and nothing in flight, a
\* streamed item is queued, and the batch ends once no more can come
\* (finalize_or_continue finds the same and sends BatchComplete).
LoopEnd ==
    /\ pc = "handle" /\ evs = <<>>
    /\ \/ /\ Drained /\ NoMoreToCome
          /\ results' = Append(results, Signal("Complete"))
          /\ pc' = "return"
          /\ UNCHANGED <<chan, pending>>
       \/ /\ Drained /\ TakeStreamed
          /\ pc' = "head"
          /\ UNCHANGED results
       \/ /\ ~Drained \/ (~NoMoreToCome /\ Feed = <<>>)
          /\ pc' = "head"
          /\ UNCHANGED <<chan, results, pending>>
    /\ UNCHANGED <<guiVars, batch, sent, completed, maxJobs, loopVars, childVars>>

----------------------------------------------------------------------------
(* handle_crash_and_retry                                                  *)

\* (max_jobs / 2).max(1)
WrongHalved(n) == n \div 2   \* without the floor of one job
Halved(n) == IF n = 1 THEN 1 ELSE n \div 2

\* What was in flight goes back in front of what was queued; what the GUI
\* streamed meanwhile goes behind it.
WrongRequeuedBehind(again, late) == pending.tier1 \o again \o late   \* push_back instead of push_front
WrongRequeuedLate(again, late) == again \o pending.tier1          \* drops late additions
Requeued(again, late) == again \o pending.tier1 \o late

\* Cached work in flight is answered with an error; whole images are queued
\* again.  At one job the batch gives up: all that is queued is answered with
\* an error.  Otherwise a new child gets half the jobs.
Recover ==
    /\ pc = "head" /\ ~cancelAll /\ ChildLost
    /\ LET lost  == Without(sent.cached, completed)
           queue == [pending EXCEPT !.tier1 = Requeued(Without(sent.tier1, completed), Feed)]
           told  == results \o AnswerAll(lost, "err")
       IN  /\ pending' = queue
           /\ chan' = IF batch.streams THEN [chan EXCEPT ![batch.id].q = <<>>] ELSE chan
           /\ \/ /\ maxJobs = 1
                 /\ results' = Append(told \o Failed(queue), Signal("Complete"))
                 /\ pc' = "return"
              \/ /\ maxJobs > 1
                 /\ results' = Append(told, Signal("Retry"))
                 /\ pc' = "top"
    /\ maxJobs' = Halved(maxJobs)
    /\ sent' = NoWork
    /\ child' = "none"
    /\ ForgetChild
    /\ UNCHANGED <<guiVars, batch, completed, warm, faults>>

BridgeNext ==
    \/ \E match \in BOOLEAN : TakeBatch(match)
    \/ ReleaseWarm \/ EndBatch
    \/ TopCancelled \/ TopPoll \/ ListCancelled \/ Spawn \/ Burst
    \/ LoopCancelled \/ LoopPoll
    \/ HandleDone \/ Admit \/ HandleError \/ HandleRss \/ LoopEnd
    \/ Recover

----------------------------------------------------------------------------
(* The child (worker_process.rs), as far as the bridge can tell            *)

ChildOnly == UNCHANGED <<guiVars, chan, results, bridgeVars, warm>>

\* A job ends.  "done" sends an ImageDone and "error" an ImageError; "silent"
\* is cached work whose result file cannot be written, which sends neither.
\* An RssUpdate follows where memory_stats() has an answer, except after the
\* early returns.  (ChildContract states the same of WorkerChild.)
ChildFinish(i) ==
    /\ child = "up" /\ i \in work
    /\ \E o \in Outcomes :
          \/ o = "done"   /\ evq' = Append(evq, [type |-> "Done", item |-> i])
          \/ o = "error"  /\ evq' = Append(evq, [type |-> "Error", item |-> i, res |-> "err"])
          \/ o = "silent" /\ i \in Range(sent.cached) /\ UNCHANGED evq
    /\ work' = work \ {i}
    /\ rssDue' \in IF RssLevels = {} THEN {rssDue} ELSE {rssDue, rssDue + 1}
    /\ UNCHANGED <<child, quiet, faults>> /\ ChildOnly

\* A job that finds itself cancelled when it starts says so and stops; no
\* RssUpdate follows.  (A cancel noticed later is an "error" outcome.)
ChildCancel(i) ==
    /\ child = "up" /\ i \in work /\ i \in notified
    /\ evq' = Append(evq, [type |-> "Error", item |-> i, res |-> "cancelled"])
    /\ work' = work \ {i}
    /\ UNCHANGED <<child, rssDue, quiet, faults>> /\ ChildOnly

ChildRss ==
    /\ child = "up" /\ rssDue > 0
    /\ \E l \in RssLevels : evq' = Append(evq, [type |-> "Rss", level |-> l])
    /\ rssDue' = rssDue - 1
    /\ UNCHANGED <<child, work, quiet, faults>> /\ ChildOnly

ChildCrash ==
    /\ Alive /\ CanFault("crash")
    /\ child' = "dead"
    /\ faults' = faults + 1
    /\ UNCHANGED <<work, rssDue, evq, quiet>> /\ ChildOnly

\* A child that stops working, for good or until ChildWake.
ChildHang ==
    /\ child = "up" /\ CanFault("hang")
    /\ child' = "hung"
    /\ faults' = faults + 1
    /\ UNCHANGED <<work, rssDue, evq, quiet>> /\ ChildOnly

ChildWake ==
    /\ child = "hung"
    /\ child' = "up"
    /\ UNCHANGED <<work, rssDue, evq, quiet, faults>> /\ ChildOnly

\* HANG_TIMEOUT passes without an event: the child hangs, or has nothing left
\* to say about the work the bridge believes in flight.
Silence ==
    /\ ~quiet /\ pc \in {"head", "handle"} /\ InFlight # {} /\ evq = <<>> /\ evs = <<>>
    /\ child = "hung" \/ (child = "up" /\ work = {} /\ rssDue = 0)
    /\ quiet' = TRUE
    /\ UNCHANGED <<child, work, rssDue, evq, faults>> /\ ChildOnly

ChildNext ==
    \/ \E i \in Items : ChildFinish(i) \/ ChildCancel(i)
    \/ ChildRss \/ ChildCrash \/ ChildHang \/ ChildWake \/ Silence
============================================================================
