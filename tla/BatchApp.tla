------------------------------ MODULE BatchApp ------------------------------
(***************************************************************************)
(* The GUI thread's side of background removal (gui/app.rs, processor.rs,  *)
(* item.rs): it dispatches batches, lets whole images in as memory allows, *)
(* lands answers on the images that still wait for them, and lets the user *)
(* cancel, undo, redo, edit and remove images at any moment in between.    *)
(*                                                                         *)
(* Every handler runs to its end on the GUI thread, so it is one action.   *)
(* The bridge thread is reduced to what BatchService promises of it: it    *)
(* takes the batches in the order they were sent and answers each image it *)
(* was given at most once.                                                 *)
(***************************************************************************)
EXTENDS Admission, SequencesExt, FiniteSetsExt

CONSTANTS
    Depth,       \* TIMELINE_DEPTH
    MaxRuns,     \* bound on dispatches
    MaxSteps,    \* bound on what else the user does
    UserSteps,   \* what that may be: "cancel", "cancelAll", "edit", "undo", "remove", "vanish"
    MayVanish,   \* images whose file may be gone, or go meanwhile
    Impatient,   \* the user may process again before a batch has ended
    GivesUp      \* the bridge may give up on a batch after a crash

TL == INSTANCE Timeline

Runs  == 1 .. MaxRuns
NoRun == 0
NoJob == [version |-> 0, run |-> NoRun, step |-> "none"]

ASSUME BatchAppAssumption ==
    /\ IsFiniteSet(Images) /\ Images # {} /\ MayVanish \subseteq Images
    /\ Depth \in Nat \ {0} /\ MaxRuns \in Nat /\ MaxSteps \in Nat

VARIABLES
    \* the images
    present,    \* those still in the list
    gone,       \* those whose bytes cannot be loaded
    status,     \* BatchStatus
    doc,        \* the timeline; a state's result is the run it came from
    job,        \* item.job, with the number of the run it stands for
    \* the processor
    window,     \* the run that the admission controller and its channel belong to
    tracked,    \* InFlightBatch.pending; empty when there is no in-flight slot
    cancelled, cancelAll,   \* the cancel registry, shared with the bridge
    \* between the threads
    mail,       \* batches sent to the bridge
    feed,       \* images streamed to a run
    results,    \* the bridge's results channel
    \* the bridge
    serving,    \* the batch it runs: [run, todo, cached], or Idle
    over,       \* runs the bridge has finished with
    \* history
    runs, steps,
    adrift      \* images that changed under their run (edited, stepped through, taken
                \* back, removed) or that the bridge lost with its batch

imageVars  == <<present, gone, status, doc, job>>
procVars   == <<ctrl, window, tracked, cancelled, cancelAll>>
bridgeVars == <<serving, over>>
ghostVars  == <<runs, steps, adrift>>
vars == <<imageVars, procVars, mail, feed, results, bridgeVars, ghostVars>>

Idle == [run |-> NoRun, todo |-> {}, cached |-> {}]

\* The images there are, and how much of the bounds is used up.
Begin(images, runs0, steps0) ==
    /\ present = images /\ gone \in SUBSET MayVanish
    /\ status = [i \in Images |-> "pending"]
    /\ doc = [i \in Images |-> TL!NewTimeline([kind |-> "Original", result |-> NoRun])]
    /\ job = [i \in Images |-> NoJob]
    /\ ctrl = EmptyController /\ window = NoRun /\ tracked = {}
    /\ cancelled = {} /\ cancelAll = FALSE
    /\ mail = <<>> /\ feed = [r \in Runs |-> <<>>] /\ results = <<>>
    /\ serving = Idle /\ over = {}
    /\ runs = runs0 /\ steps = steps0 /\ adrift = {}

Init == Begin(Images, 0, 0)

----------------------------------------------------------------------------
(* One image                                                               *)

ShownResult(i) == TL!Shown(doc[i]).result
AtRest(i) == IF ShownResult(i) # NoRun THEN "done" ELSE "pending"

WrongIsCurrent(i) == job[i] # NoJob   \* the version is not compared
IsCurrent(i) == job[i] # NoJob /\ job[i].version = doc[i].version
Awaited(i)   == i \in present /\ status[i] = "processing" /\ IsCurrent(i)

\* finish_job: the result is a new step, or fills in the shown one.
Finished(i, r) ==
    IF job[i].step = "cutout"
    THEN TL!Pushed(doc[i], [kind |-> "CutOut", result |-> r], FALSE)
    ELSE TL!Amended(doc[i], [TL!Shown(doc[i]) EXCEPT !.result = r])

----------------------------------------------------------------------------
(* Dispatch                                                                *)

\* process_items: images the user asked for, minus those under way; what is
\* left may be up to date, or need only its cached tensor, once it has a result.
Candidates == {i \in present : status[i] # "processing"}
HasResult(i) == status[i] = "done" /\ ShownResult(i) # NoRun

Ready == (Impatient \/ (serving = Idle /\ mail = <<>> /\ results = <<>>)) /\ runs < MaxRuns

\* Statuses after the images of `sent` went off, those of `failed` did not load,
\* and those of `left` wait.
WrongMarked(sent, failed, left) ==   \* one that did not load is left processing
    [i \in Images |-> IF i \in sent \cup failed THEN "processing" ELSE IF i \in left THEN "pending" ELSE status[i]]
Marked(sent, failed, left) ==
    [i \in Images |-> CASE i \in sent   -> "processing"
                        [] i \in failed -> "error"
                        [] i \in left   -> "pending"
                        [] OTHER        -> status[i]]

\* dispatch_batch: the registry is reset, the run tracked, the message sent.
Send(r, request, cached) ==
    /\ cancelled' = {} /\ cancelAll' = FALSE
    /\ tracked' = request
    /\ mail' = Append(mail, [run |-> r, request |-> request, cached |-> cached])

SendNothing == UNCHANGED <<cancelled, cancelAll, tracked, mail>>

\* dispatch_small_batch: at most one whole image.  One that does not load is
\* left as it was, with a job.
DispatchSmall(r, whole, cached) ==
    LET request == (whole \cup cached) \ gone
    IN  /\ Cardinality(whole) <= 1
        /\ status' = Marked(request, cached \cap gone, {})
        /\ IF request = {} THEN SendNothing ELSE Send(r, request, cached \ gone)
        /\ UNCHANGED <<ctrl, window>>

\* dispatch_with_admission: a controller of its own, and what it lets in at
\* once.  An image that is let in and does not load keeps its place in flight.
DispatchAdmitted(r, whole, cached) ==
    /\ Cardinality(whole) > 1
    /\ \E line \in Lines(whole) :
        LET c == AdmitAll([EmptyController EXCEPT !.waiting = line])
            request == (c.held \cup cached) \ gone
        IN  /\ status' = Marked(request, cached \cap gone, whole \ request)
            /\ IF request = {} THEN SendNothing /\ UNCHANGED <<ctrl, window>>
               ELSE Send(r, request, cached \ gone) /\ ctrl' = c /\ window' = r

Dispatch(whole, cached, timelines, step) ==
    /\ runs' = runs + 1
    /\ job' = [i \in Images |->
                 IF i \in whole \cup cached
                 THEN [version |-> timelines[i].version, run |-> runs + 1, step |-> step] ELSE job[i]]
    /\ doc' = timelines
    /\ adrift' = adrift \ (whole \cup cached)
    /\ DispatchSmall(runs + 1, whole, cached) \/ DispatchAdmitted(runs + 1, whole, cached)
    /\ UNCHANGED <<present, gone, feed, results, bridgeVars, steps>>

\* process_items: images the user asked for that are not under way.  One with a
\* result may be up to date, or need only what is cached.
Process ==
    /\ Ready
    /\ \E whole \in SUBSET Candidates : \E cached \in SUBSET {i \in Candidates \ whole : HasResult(i)} :
        /\ whole \cup cached # {}
        /\ Dispatch(whole, cached, doc, "cutout")

\* apply_toolbar_change on a knob that needs the model again: the change is a
\* step, and the run that follows fills it in.
Rerun(i) ==
    /\ Ready /\ "edit" \in UserSteps /\ i \in Candidates /\ HasResult(i)
    /\ \E soon \in BOOLEAN, whole \in {{}, {i}} :
        LET adjusted == [doc EXCEPT ![i] = TL!Pushed(@, [kind |-> "Adjust", result |-> ShownResult(i)], soon)]
        IN  Dispatch(whole, {i} \ whole, adjusted, "fill")

----------------------------------------------------------------------------
(* What the user does meanwhile                                            *)

UserStep(name) == name \in UserSteps /\ steps < MaxSteps /\ steps' = steps + 1

\* handle_cancel_selected: the run is not awaited any more, the job stays.
CancelSelected(S) ==
    /\ UserStep("cancel") /\ S # {}
    /\ cancelled' = cancelled \cup S
    /\ status' = [i \in Images |-> IF i \in S THEN "pending" ELSE status[i]]
    /\ adrift' = adrift \cup S
    /\ UNCHANGED <<present, gone, doc, job, ctrl, window, tracked, cancelAll, mail, feed, results, bridgeVars, runs>>

\* abandon_job for the images of S.
Abandoned(S) == [i \in Images |-> IF i \in S THEN AtRest(i) ELSE status[i]]
WithoutJobs(S) == [i \in Images |-> IF i \in S THEN NoJob ELSE job[i]]
Processing == {i \in present : status[i] = "processing"}

\* handle_cancel_all_and_reset.
CancelAll ==
    /\ UserStep("cancelAll")
    /\ cancelAll' = TRUE
    /\ ctrl' = EmptyController /\ window' = NoRun
    /\ status' = Abandoned(Processing) /\ job' = WithoutJobs(Processing)
    /\ adrift' = adrift \cup Processing
    /\ UNCHANGED <<present, gone, doc, tracked, cancelled, mail, feed, results, bridgeVars, runs>>

\* A knob or the selection of an image is changed: a step of its timeline,
\* whatever run is under way.
Edit(i) ==
    /\ UserStep("edit")
    /\ \E kind \in {"Adjust", "Select"}, soon \in BOOLEAN :
        LET after == TL!Pushed(doc[i], [kind |-> kind, result |-> ShownResult(i)], soon)
        IN  /\ doc' = [doc EXCEPT ![i] = after]
            /\ adrift' = IF after.version = doc[i].version THEN adrift ELSE adrift \cup {i}
    /\ UNCHANGED <<present, gone, status, job, procVars, mail, feed, results, bridgeVars, runs>>

\* step_targets: the run is cancelled first, then the step is taken, if there
\* is one to take.
Stepped(i, t) ==
    /\ doc' = [doc EXCEPT ![i] = t]
    /\ status' = [status EXCEPT ![i] = IF TL!Shown(t).result # NoRun THEN "done" ELSE "pending"]
    /\ job' = [job EXCEPT ![i] = NoJob]
    /\ adrift' = adrift \cup {i}

UndoOrRedo(i) ==
    /\ UserStep("undo")
    /\ cancelled' = IF status[i] = "processing" \/ job[i] # NoJob THEN cancelled \cup {i} ELSE cancelled
    /\ \/ TL!CanUndo(doc[i]) /\ Stepped(i, TL!Undone(doc[i]))
       \/ TL!CanRedo(doc[i]) /\ Stepped(i, TL!Redone(doc[i]))
       \/ (~TL!CanUndo(doc[i]) \/ ~TL!CanRedo(doc[i])) /\ UNCHANGED <<doc, status, job, adrift>>
    /\ UNCHANGED <<present, gone, ctrl, window, tracked, cancelAll, mail, feed, results, bridgeVars, runs>>

\* remove_batch_item.
RemoveImage(i) ==
    /\ UserStep("remove")
    /\ present' = present \ {i}
    /\ adrift' = adrift \cup {i}
    /\ UNCHANGED <<gone, status, doc, job, procVars, mail, feed, results, bridgeVars, runs>>

\* The file of an image is deleted or moved under the program.
Vanish(i) ==
    /\ UserStep("vanish") /\ i \in MayVanish \ gone
    /\ gone' = gone \cup {i}
    /\ UNCHANGED <<present, status, doc, job, procVars, mail, feed, results, bridgeVars, runs, adrift>>

----------------------------------------------------------------------------
(* Answers                                                                 *)

\* admission_release_and_admit.  One that is let in and is not there or does not
\* load is skipped and keeps its place in flight; the others are sent in the order
\* of the line, and the first send that fails ends the loop.
WrongLetGo(c, i) == c   \* the reservation is kept
LetGo(c, i) == Released(c, i)

ReleaseAndAdmit(i, left, atRest) ==
    LET freed == LetGo(ctrl, i)
        dead  == window \in over
        after == AdmitLoop(freed, IF dead THEN present \ gone ELSE {})
        begun == Range(freed.waiting) \cap after.held \cap (present \ gone)
        told  == IF dead THEN <<>> ELSE Without(freed.waiting, Images \ begun)
    IN  /\ status' = [j \in Images |-> IF j \in begun THEN "processing" ELSE atRest[j]]
        /\ feed' = [feed EXCEPT ![window] = @ \o told]
        /\ tracked' = IF left = {} THEN {} ELSE left \cup Range(told)
        /\ adrift' = IF dead THEN adrift \cup begun ELSE adrift
        /\ IF IsComplete(after) THEN ctrl' = EmptyController /\ window' = NoRun
           ELSE ctrl' = after /\ UNCHANGED window

\* Without a controller there is nothing to release.
Settle(i, left, atRest) ==
    IF window # NoRun THEN ReleaseAndAdmit(i, left, atRest)
    ELSE status' = atRest /\ tracked' = left /\ UNCHANGED <<ctrl, window, feed, adrift>>

Answer == Head(results)
HasAnswer(type) == results # <<>> /\ Answer.type = type
Read == results' = Tail(results) /\ UNCHANGED <<present, gone, cancelled, cancelAll, mail, bridgeVars, runs, steps>>

\* on_batch_item_done: a cancelled run leaves the image on what it shows.
ItemCancelled ==
    /\ HasAnswer("ItemDone") /\ Answer.res = "cancelled" /\ Read
    /\ LET i == Answer.item
           known == i \in tracked \cup present
           hit == IF i \in Processing THEN {i} ELSE {}
       IN  IF known
           THEN Settle(i, tracked \ {i}, Abandoned(hit)) /\ job' = WithoutJobs(hit)
           ELSE UNCHANGED <<status, job, ctrl, window, tracked, feed, adrift>>
    /\ UNCHANGED doc

\* An answer the image does not wait for any more is dropped.
ItemDropped ==
    /\ HasAnswer("ItemDone") /\ Answer.res # "cancelled" /\ ~Awaited(Answer.item) /\ Read
    /\ tracked' = tracked \ {Answer.item}
    /\ UNCHANGED <<status, doc, job, ctrl, window, feed, adrift>>

\* apply_tier_result, finish_job, admission_release_and_admit.
ItemLanded ==
    /\ HasAnswer("ItemDone") /\ Answer.res # "cancelled" /\ Awaited(Answer.item) /\ Read
    /\ LET i == Answer.item
           ok == Answer.res = "ok"
       IN  /\ doc' = IF ok THEN [doc EXCEPT ![i] = Finished(i, Answer.run)] ELSE doc
           /\ job' = WithoutJobs({i})
           /\ Settle(i, tracked \ {i}, [status EXCEPT ![i] = IF ok THEN "done" ELSE "error"])

\* on_batch_complete.
BatchComplete ==
    /\ HasAnswer("Complete") /\ Read
    /\ tracked' = {}
    /\ UNCHANGED <<status, doc, job, ctrl, window, feed, adrift>>

\* on_cancelled.
BatchCancelled ==
    /\ HasAnswer("Cancelled") /\ Read
    /\ tracked' = {} /\ ctrl' = EmptyController /\ window' = NoRun
    /\ UNCHANGED <<status, doc, job, feed, adrift>>

Poll == ItemCancelled \/ ItemDropped \/ ItemLanded \/ BatchComplete \/ BatchCancelled

----------------------------------------------------------------------------
(* The bridge, as BatchService has it                                      *)

GuiUnchanged == UNCHANGED <<imageVars, ctrl, window, tracked, cancelled, cancelAll, runs, steps>>

ItemAnswer(i, res) == [type |-> "ItemDone", run |-> serving.run, item |-> i, res |-> res]
BatchEnd(type)     == [type |-> type, run |-> serving.run, item |-> CHOOSE i \in Images : TRUE, res |-> "ok"]

TakeBatch ==
    /\ serving = Idle /\ mail # <<>>
    /\ serving' = [run |-> Head(mail).run, todo |-> Head(mail).request, cached |-> Head(mail).cached]
    /\ mail' = Tail(mail)
    /\ UNCHANGED <<feed, results, over>> /\ UNCHANGED adrift /\ GuiUnchanged

TakeStreamed ==
    /\ serving # Idle /\ feed[serving.run] # <<>>
    /\ serving' = [serving EXCEPT !.todo = @ \cup {Head(feed[serving.run])}]
    /\ feed' = [feed EXCEPT ![serving.run] = Tail(@)]
    /\ UNCHANGED <<mail, results, over>> /\ UNCHANGED adrift /\ GuiUnchanged

\* An image is answered; one that the registry names may be answered as cancelled.
AnswerItem(i) ==
    /\ i \in serving.todo
    /\ \E res \in {"ok", "err"} \cup (IF cancelAll \/ i \in cancelled THEN {"cancelled"} ELSE {}) :
        results' = Append(results, ItemAnswer(i, res))
    /\ serving' = [serving EXCEPT !.todo = @ \ {i}]
    /\ UNCHANGED <<mail, feed, over>> /\ UNCHANGED adrift /\ GuiUnchanged

\* The batch ends: its receiver is dropped, with what is in the channel.
EndBatch(told) ==
    /\ results' = results \o told
    /\ serving' = Idle /\ over' = over \cup {serving.run}
    /\ feed' = [feed EXCEPT ![serving.run] = <<>>]
    /\ adrift' = adrift \cup Range(feed[serving.run])
    /\ UNCHANGED mail /\ GuiUnchanged

\* All is answered, and the GUI has dropped its end of the channel if it had one.
Complete ==
    /\ serving # Idle /\ serving.todo = {} /\ feed[serving.run] = <<>> /\ window # serving.run
    /\ EndBatch(<<BatchEnd("Complete")>>)

\* After a crash at one job, or if no child can be started, what is left fails.
GiveUp ==
    /\ GivesUp /\ serving # Idle
    /\ \E line \in SetToSeqs(serving.todo) :
        EndBatch([n \in DOMAIN line |-> ItemAnswer(line[n], "err")] \o <<BatchEnd("Complete")>>)

\* cancel_subprocess.
Abort ==
    /\ serving # Idle /\ cancelAll
    /\ EndBatch(<<BatchEnd("Cancelled")>>)

Serve == TakeBatch \/ TakeStreamed \/ (\E i \in Images : AnswerItem(i)) \/ Complete \/ Abort

User ==
    \/ Process \/ CancelAll
    \/ \E S \in SUBSET Processing : CancelSelected(S)
    \/ \E i \in present : Rerun(i) \/ Edit(i) \/ UndoOrRedo(i) \/ RemoveImage(i) \/ Vanish(i)

Next == Poll \/ Serve \/ GiveUp \/ User

Spec == Init /\ [][Next]_vars

\* The frame loop and the bridge thread keep running; the user need not do anything,
\* and no child need crash.
FairSpec == Spec /\ WF_vars(Poll) /\ WF_vars(Serve)

----------------------------------------------------------------------------
(* Properties                                                              *)

Answers == [type : {"ItemDone", "Complete", "Cancelled"}, run : Runs, item : Images, res : {"ok", "err", "cancelled"}]

TypeOK ==
    /\ present \subseteq Images /\ gone \subseteq Images
    /\ status \in [Images -> {"pending", "processing", "done", "error"}]
    /\ \A i \in Images : doc[i].at \in DOMAIN doc[i].states /\ Len(doc[i].states) <= Depth
    /\ job \in [Images -> [version : Nat, run : 0 .. MaxRuns, step : {"none", "cutout", "fill"}]]
    /\ window \in 0 .. MaxRuns /\ (window = NoRun => ctrl = EmptyController)
    /\ tracked \subseteq Images /\ cancelled \subseteq Images /\ cancelAll \in BOOLEAN
    /\ mail \in Seq([run : Runs, request : SUBSET Images, cached : SUBSET Images])
    /\ feed \in [Runs -> Seq(Images)]
    /\ results \in Seq(Answers)
    /\ serving \in [run : 0 .. MaxRuns, todo : SUBSET Images, cached : SUBSET Images] /\ over \subseteq Runs

\* What is on its way between the two threads for run r; what of it needs the
\* memory of a whole image.
Mailed(r) == {n \in DOMAIN mail : mail[n].run = r}
SentFor(r) ==
    (UNION {mail[n].request : n \in Mailed(r)}) \cup Range(feed[r]) \cup (IF serving.run = r THEN serving.todo ELSE {})
CachedFor(r) == (UNION {mail[n].cached : n \in Mailed(r)}) \cup (IF serving.run = r THEN serving.cached ELSE {})
AnsweredFor(r) == {a.item : a \in {b \in Range(results) : b.type = "ItemDone" /\ b.run = r}}
Outstanding(r) == SentFor(r) \cup AnsweredFor(r)

\* The controller's batch is still running.
Open == window # NoRun /\ window \notin over

\* Every whole image the bridge has not answered is paid for: with
\* ControllerOK, the batch stays within the memory it was given.
InFlightIsReserved == Open => SentFor(window) \ CachedFor(window) \subseteq ctrl.held

\* A reservation that outlives its image's run belongs to an image the user
\* changed, or whose file is gone.
OnlyStraysStayReserved == Open => ctrl.held \subseteq Outstanding(window) \cup adrift \cup gone

\* Both, in states of the right types.
AppOK == TypeOK /\ InFlightIsReserved /\ OnlyStraysStayReserved

\* No image is with the bridge twice, however the loop lets images in.
PlacesOf(i) ==
    Cardinality({n \in DOMAIN mail : i \in mail[n].request})
    + Cardinality({n \in DOMAIN results : results[n].type = "ItemDone" /\ results[n].item = i})
    + Cardinality({p \in Runs \X (1 .. Cardinality(Images)) : p[2] \in DOMAIN feed[p[1]] /\ feed[p[1]][p[2]] = i})
    + (IF i \in serving.todo THEN 1 ELSE 0)
SentOnce == \A i \in Images : PlacesOf(i) <= 1

\* A result never lands on an image that was edited, stepped through, taken
\* back or removed since its run was dispatched (app.rs:2873), unless the
\* controller of a batch that the bridge gave up on is still there: it goes on
\* letting in, and marking, images that a later run works on.
LandsOnItsState == [][ItemLanded /\ window \notin over => Answer.item \notin adrift]_vars

\* An image that is shown as processing gets out of it, unless it went adrift.
EveryRunEnds == \A i \in Images : (i \in Processing) ~> (i \notin Processing \/ i \in adrift)

\* An image waiting for memory gets it, unless another went adrift and kept
\* its own, or the batch is over.
Waits(i) == i \in Range(ctrl.waiting)
QueueServed == \A i \in Images : Waits(i) ~> (~Waits(i) \/ adrift # {} \/ gone # {} \/ window \in over)

\* The same without exception (memory.rs:95, "force-admit the smallest to
\* guarantee forward progress (avoids deadlock)").
QueueAlwaysServed == \A i \in Images : Waits(i) ~> ~Waits(i)
=============================================================================
