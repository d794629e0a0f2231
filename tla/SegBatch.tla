------------------------------ MODULE SegBatch ------------------------------
(***************************************************************************)
(* One batch as the bridge serves it, with the most general GUI the bridge *)
(* can meet: the GUI sends one BatchProcess message, streams further       *)
(* images once it has seen an answer, cancels images or everything, and    *)
(* drops its end of the admission channel.  The results channel is not     *)
(* emptied, so `results` is the record of everything the bridge said.      *)
(***************************************************************************)
EXTENDS SegBridge

CONSTANTS
    CachedWork,      \* tier-2/add-edge items of the batch, in order
    WholeImages,     \* tier-1 items of the batch, in order
    StreamedImages,  \* tier-1 items admitted later, in order
    JobChoices,      \* the job counts to try
    Cancels,         \* items the user may cancel
    MayCancelAll     \* whether the user may cancel everything

ASSUME SegBatchAssumption ==
    /\ CachedWork \in Seq(Items) /\ WholeImages \in Seq(Items) /\ StreamedImages \in Seq(Items)
    \* no image twice: classify_candidates sorts the candidates into disjoint sets
    /\ IsInjective(CachedWork \o WholeImages \o StreamedImages)
    /\ JobChoices \subseteq Nat \ {0}
    /\ Batches = {1}
    /\ Cancels \subseteq Items
    /\ MayCancelAll \in BOOLEAN

VARIABLE fed        \* how many of StreamedImages the GUI has sent

vars == <<segVars, fed>>

Streams == StreamedImages # <<>>

\* What the GUI sends: run_batch_with_retry's arguments.
BatchMessage(jobs) ==
    [type |-> "Batch",
     batch |-> [id |-> 1, cached |-> CachedWork, tier1 |-> WholeImages, jobs |-> jobs, streams |-> Streams]]

Init ==
    /\ \E jobs \in JobChoices : inbox \in {<<BatchMessage(jobs)>>, <<[type |-> "ReleaseWarm"], BatchMessage(jobs)>>}
    /\ chan = [b \in Batches |-> [q |-> <<>>, tx |-> Streams, rx |-> Streams]]
    /\ cancelled = {} /\ cancelAll = FALSE
    /\ results = <<>>
    /\ pc = "idle" /\ batch = NoBatch
    /\ pending = NoWork /\ sent = NoWork /\ completed = {} /\ maxJobs = 1
    /\ doomed = <<>> /\ notified = {} /\ evs = <<>> /\ paused = FALSE
    /\ warm \in BOOLEAN
    /\ child = IF warm THEN "up" ELSE "none"
    /\ work = {} /\ rssDue = 0 /\ evq = <<>> /\ quiet = FALSE
    /\ faults = 0
    /\ fed = 0

----------------------------------------------------------------------------
(* What has been said and asked so far                                     *)

AnswersTo(i)  == {n \in DOMAIN results : results[n].type = "ItemDone" /\ results[n].item = i}
Answered      == {i \in Items : AnswersTo(i) # {}}
Ended         == \E n \in DOMAIN results : results[n].type \in {"Complete", "Cancelled"}
Asked         == Range(CachedWork) \cup Range(WholeImages) \cup {StreamedImages[n] : n \in 1 .. fed}

----------------------------------------------------------------------------
(* The GUI                                                                 *)

GuiOnly == UNCHANGED <<bridgeVars, childVars, results, inbox>>

\* admission_release_and_admit: an answer frees memory and the next image is
\* streamed.  The bridge may be gone by then; the send fails silently.
GuiStream ==
    /\ chan[1].tx /\ fed < Len(StreamedImages) /\ Answered # {}
    /\ chan' = IF chan[1].rx THEN [chan EXCEPT ![1].q = Append(@, StreamedImages[fed + 1])] ELSE chan
    /\ fed' = fed + 1
    /\ UNCHANGED <<cancelled, cancelAll>> /\ GuiOnly

\* Everything admitted is answered: the GUI drops its sender.
GuiClose ==
    /\ chan[1].tx /\ fed = Len(StreamedImages) /\ Asked \subseteq Answered
    /\ chan' = [chan EXCEPT ![1].tx = FALSE]
    /\ UNCHANGED <<cancelled, cancelAll, fed>> /\ GuiOnly

\* handle_cancel_selected, on an image that is being processed.
GuiCancelItem(i) ==
    /\ i \in Asked \ (Answered \cup cancelled)
    /\ cancelled' = cancelled \cup {i}
    /\ UNCHANGED <<chan, cancelAll, fed>> /\ GuiOnly

\* handle_cancel_all_and_reset: the flag, and clear_admission.
GuiCancelAll ==
    /\ MayCancelAll /\ ~cancelAll
    /\ cancelAll' = TRUE
    /\ chan' = [chan EXCEPT ![1].tx = FALSE]
    /\ UNCHANGED <<cancelled, fed>> /\ GuiOnly

GuiNext ==
    \/ GuiStream \/ GuiClose \/ GuiCancelAll
    \/ \E i \in Cancels : GuiCancelItem(i)

Serve == BridgeNext /\ UNCHANGED fed
Child == ChildNext /\ UNCHANGED fed

Next == Serve \/ Child \/ GuiNext

Spec == Init /\ [][Next]_vars

\* The bridge thread and the GUI's frame loop keep running; a child that is up
\* gets on with its jobs; HANG_TIMEOUT passes.  Faults and cancels need not happen.
Fairness ==
    /\ WF_vars(Serve)
    /\ \A i \in Items : WF_vars(ChildFinish(i) /\ UNCHANGED fed)
    /\ WF_vars(ChildRss /\ UNCHANGED fed)
    /\ WF_vars(Silence /\ UNCHANGED fed)
    /\ WF_vars(GuiStream) /\ WF_vars(GuiClose)

FairSpec == Spec /\ Fairness
----------------------------------------------------------------------------
(* Type invariant                                                          *)

WorkPair == [cached : Seq(Items), tier1 : Seq(Items)]
Results  == [type : {"ItemDone"}, batch : Batches, item : Items, res : {"ok", "err", "cancelled"}]
           \cup [type : {"Complete", "Cancelled", "Retry"}, batch : Batches]
Events   == [type : {"Done"}, item : Items]
           \cup [type : {"Error"}, item : Items, res : {"err", "cancelled"}]
           \cup [type : {"Rss"}, level : AllRssLevels]

TypeOK ==
    /\ inbox \in Seq([type : {"Batch"}, batch : Message] \cup [type : {"ReleaseWarm"}])
    /\ chan \in [Batches -> [q : Seq(Items), tx : BOOLEAN, rx : BOOLEAN]]
    /\ cancelled \subseteq Items /\ cancelAll \in BOOLEAN
    /\ results \in Seq(Results)
    /\ pc \in {"idle", "top", "list", "spawn", "burst", "head", "handle", "admit", "return"}
    /\ batch \in Message \cup {NoBatch}
    /\ pc # "idle" => batch \in Message
    /\ pending \in WorkPair /\ sent \in WorkPair
    /\ completed \subseteq Items
    /\ maxJobs \in Nat \ {0}
    /\ doomed \in Seq(Items) /\ notified \subseteq Items
    /\ evs \in Seq(Events) /\ evq \in Seq(Events)
    /\ paused \in BOOLEAN /\ quiet \in BOOLEAN /\ warm \in BOOLEAN
    /\ child \in {"none", "up", "hung", "dead"}
    /\ work \subseteq Items
    /\ rssDue \in Nat /\ faults \in Nat
    /\ fed \in 0 .. Len(StreamedImages)

----------------------------------------------------------------------------
(* Safety                                                                  *)

\* No image is answered twice, whatever crashes, hangs, retries and cancels
\* fall between its dispatch and its answer (worker.rs: `completed`, the
\* retains after each event, the crash handler's filters).
AnsweredOnce == \A i \in Items : Cardinality(AnswersTo(i)) <= 1

\* While a batch runs, an image that was asked for, not answered and not
\* cancelled is somewhere the bridge will look again: queued, streamed, or in
\* flight.
NothingMislaid ==
    (batch # NoBatch /\ ~Ended) =>
        Asked \ (Answered \cup Stopped) \subseteq ItemsOf(pending) \cup InFlight \cup Range(chan[1].q)

\* Work in flight never exceeds the current job limit, which bounds the
\* child's memory: the first burst and the admissions after it together, for
\* each child of the batch.
WithinJobs == pc \in {"head", "handle", "admit"} => Len(AllOf(sent)) <= maxJobs

\* Whole images are started in the order the GUI asked for them, also across
\* a crash: what was in flight goes back in front of what was still queued.
Order == WholeImages \o StreamedImages
PlaceOf(i) == CHOOSE n \in DOMAIN Order : Order[n] = i
InOrder ==
    LET line == sent.tier1 \o pending.tier1 \o chan[1].q
    IN  \A m, n \in DOMAIN line : m < n => PlaceOf(line[m]) < PlaceOf(line[n])

\* The two together: the limit and the order of the line.
LineOK == WithinJobs /\ InOrder

\* Work the child is doing, and work it has reported, is work the bridge is
\* waiting for: no late report of an image that was already settled.
WorkIsAwaited ==
    pc \in {"head", "handle", "admit"} =>
        work \cup {e.item : e \in {f \in Range(evs \o evq) : f.type # "Rss"}} \subseteq InFlight

----------------------------------------------------------------------------
(* Action properties and refinement                                        *)

\* No new work goes to a child while its reported memory keeps it paused.
NoAdmissionWhilePaused ==
    [][paused /\ paused' => ItemsOf(sent') \subseteq InFlight]_vars

\* The bridge with all its retries keeps the promise of BatchService: asked
\* for, at most once, complete when it says so, silent afterwards.
Promise == INSTANCE BatchService WITH
    Request   <- Range(CachedWork) \cup Range(WholeImages),
    asked     <- Asked,
    withdrawn <- Stopped,
    answers   <- [i \in Items |-> Cardinality(AnswersTo(i))],
    over      <- Ended
KeepsPromise == Promise!Spec

----------------------------------------------------------------------------
(* Liveness                                                                *)

\* Cancel All always ends the batch.
CancelAllEnds == (cancelAll /\ batch # NoBatch) ~> (pc = "idle")

\* Every image asked for is answered in the end, unless all is cancelled.
EveryImageAnswered ==
    \A i \in Items : (i \in Asked) ~> (i \in Answered \/ cancelAll)
============================================================================
