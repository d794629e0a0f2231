----------------------------- MODULE Downloads -----------------------------
(***************************************************************************)
(* The model store's downloads (gui/download_manager.rs): one at a time, a *)
(* queue of those that wait, and a thread that fetches the files of a      *)
(* model, verifies each and renames it into place.  The GUI learns of the  *)
(* thread through events, once per frame, and acts on the store after it   *)
(* has applied them.                                                       *)
(***************************************************************************)
EXTENDS Queues, SequencesExt, FiniteSets

CONSTANTS
    Models,     \* what can be downloaded
    Bundles,    \* models in two parts
    Twins,      \* models of one file, with an optional fp16 companion
    Broken      \* models whose directory cannot be made

ASSUME DownloadsAssumption == Bundles \cup Twins \cup Broken \subseteq Models /\ "none" \notin Models

VARIABLES
    shown,      \* states: what the card of a model says
    queue,
    fetching,   \* active; "none" for None
    fetchers,   \* the threads: [id, file, try, at, stop]
    events,     \* progress_rx
    disk        \* the files there are, <<id, file>>

dlVars == <<shown, queue, fetching, fetchers, events, disk>>

Files(id) == IF id \in Bundles \cup Twins THEN 2 ELSE 1
Required(id) == IF id \in Bundles THEN 1 .. 2 ELSE {1}
IsAvailable(id) == \A f \in Required(id) : <<id, f>> \in disk
MaxAttempts == 3

DlInit ==
    /\ shown = [id \in Models |-> "idle"] /\ queue = <<>> /\ fetching = "none"
    /\ fetchers = {} /\ events = <<>> /\ disk = {}

----------------------------------------------------------------------------
(* The manager, as functions of its state `d`                              *)

Manager == [shown |-> shown, queue |-> queue, fetching |-> fetching,
            fetchers |-> fetchers, events |-> events]

\* kick_off: the event of a failure is sent although nothing was active.
KickOff(d, id) ==
    IF id \in Broken
    THEN [d EXCEPT !.shown[id] = "failed", !.events = Append(@, [id |-> id, kind |-> "failed"])]
    ELSE [d EXCEPT !.shown[id] = "in progress", !.fetching = id,
                   !.fetchers = @ \cup {[id |-> id, file |-> 1, try |-> 1, at |-> "fetch", stop |-> FALSE]}]

StartDownload(d, id) ==
    IF IsAvailable(id) THEN [d EXCEPT !.shown[id] = "done"]
    ELSE IF d.shown[id] \in {"in progress", "queued", "verifying"} THEN d
    ELSE IF d.fetching # "none" THEN [d EXCEPT !.shown[id] = "queued", !.queue = Append(@, id)]
    ELSE KickOff(d, id)

CancelDownload(d, id) ==
    [d EXCEPT !.fetchers = {IF t.id = id THEN [t EXCEPT !.stop = TRUE] ELSE t : t \in @},
              !.queue = Without(@, {id}),
              !.shown[id] = IF d.fetching = id THEN @ ELSE "idle"]

WrongApplyEvent(d, e) ==   \* a failure leaves the download active
    [d EXCEPT !.shown[e.id] = e.kind,
              !.fetching = IF e.kind = "done" /\ @ = e.id THEN "none" ELSE @]
ApplyEvent(d, e) ==
    [d EXCEPT !.shown[e.id] = e.kind,
              !.fetching = IF e.kind \in {"done", "failed", "refused"} /\ @ = e.id THEN "none" ELSE @]

\* pump: every event, and then the head of the queue.
Pumped ==
    LET d == FoldLeft(ApplyEvent, [Manager EXCEPT !.events = <<>>], events)
    IN  IF d.fetching = "none" /\ d.queue # <<>>
        THEN KickOff([d EXCEPT !.queue = Tail(@)], Head(d.queue)) ELSE d

Becomes(d) ==
    /\ shown' = d.shown /\ queue' = d.queue /\ fetching' = d.fetching
    /\ fetchers' = d.fetchers /\ events' = d.events

----------------------------------------------------------------------------
(* The GUI thread                                                          *)

\* card_action: a fatal failure disables the button of a model that is not there.
Card(d, id) ==
    LET says == d.shown[id]
    IN  IF says \in {"in progress", "queued"} THEN "cancel"
        ELSE IF says = "verifying" THEN "verifying"
        ELSE IF IsAvailable(id) THEN "delete"
        ELSE IF says = "refused" THEN "disabled" ELSE "download"

ClickDownload(d, id) ==
    /\ Card(d, id) = "download" /\ Becomes(StartDownload(d, id)) /\ UNCHANGED disk
ClickCancel(d, id) ==
    /\ Card(d, id) = "cancel" /\ Becomes(CancelDownload(d, id)) /\ UNCHANGED disk

\* delete_installed_model: of a model with a companion, the main file.
ClickDelete(d, id) ==
    /\ Card(d, id) = "delete"
    /\ disk' = disk \ ({id} \X Required(id)) /\ Becomes(d)

\* pump_download_manager, and then at most one button of the store.
StoreFrame ==
    \E d \in {Pumped} :
        \/ Becomes(d) /\ UNCHANGED disk
        \/ \E id \in Models : ClickDownload(d, id) \/ ClickCancel(d, id) \/ ClickDelete(d, id)

----------------------------------------------------------------------------
(* The thread                                                              *)

Sends(t, kinds) == events' = events \o [n \in DOMAIN kinds |-> [id |-> t.id, kind |-> kinds[n]]]
Goes(t, next) == fetchers' = (fetchers \ {t}) \cup {next}
Ends(t) == fetchers' = fetchers \ {t}

\* After a file comes the next one; after the last, the answer.
FileDone(t, kinds) ==
    IF t.file = Files(t.id)
    THEN Ends(t) /\ Sends(t, Append(kinds, "done"))
    ELSE Goes(t, [t EXCEPT !.file = 2, !.try = 1, !.at = "fetch"]) /\ Sends(t, kinds)

\* A companion that fails is done without.
FileFails(t, kind) ==
    IF t.id \in Twins /\ t.file = 2 THEN FileDone(t, <<>>)
    ELSE Ends(t) /\ Sends(t, <<kind>>)

\* retry_with_backoff, for an error worth another try.
Fails(t) ==
    IF t.try < MaxAttempts THEN Goes(t, [t EXCEPT !.try = @ + 1, !.at = "pause"]) /\ Sends(t, <<>>)
    ELSE FileFails(t, "failed")

\* A bundle's part that is there already.
IsThere(t) == t.id \in Bundles /\ <<t.id, t.file>> \in disk
SkipPart(t) ==
    /\ t.at = "fetch" /\ IsThere(t)
    /\ FileDone(t, <<"in progress">>) /\ UNCHANGED disk

\* download_attempt: the request and the chunks of its answer.
FetchFile(t) ==
    /\ t.at = "fetch" /\ ~IsThere(t)
    /\ \/ ~t.stop /\ Goes(t, [t EXCEPT !.at = "verify"]) /\ Sends(t, <<"in progress", "verifying">>)
       \/ Fails(t)
       \/ FileFails(t, "refused")
    /\ UNCHANGED disk

\* The checksum, and the rename into place.
VerifyFile(t) ==
    /\ t.at = "verify"
    /\ \/ FileDone(t, <<>>) /\ disk' = disk \cup {<<t.id, t.file>>}
       \/ FileFails(t, "refused") /\ UNCHANGED disk

\* The pause before another try listens to the cancel flag.
Retry(t) ==
    /\ t.at = "pause"
    /\ IF t.stop THEN FileFails(t, "refused") ELSE Goes(t, [t EXCEPT !.at = "fetch"]) /\ Sends(t, <<>>)
    /\ UNCHANGED disk

Fetcher ==
    /\ \E t \in fetchers : SkipPart(t) \/ FetchFile(t) \/ VerifyFile(t) \/ Retry(t)
    /\ UNCHANGED <<shown, queue, fetching>>

DlNext == StoreFrame \/ Fetcher

\* Frames keep coming, and every step of the thread has a time limit.
DlFairness == WF_dlVars(StoreFrame) /\ WF_dlVars(Fetcher)

----------------------------------------------------------------------------
(* Properties                                                              *)

\* One download at a time, whatever the store's buttons do in between
\* (download_manager.rs:3, "1 active download at a time"), and the queue holds
\* exactly the models that say they are queued, once each.
DlTypeOK ==
    /\ Cardinality(fetchers) <= 1
    /\ \A t \in fetchers : t.id = fetching /\ t.try <= MaxAttempts
    /\ Range(queue) = {id \in Models : shown[id] = "queued"}
    /\ IsInjective(queue)

\* A download that was queued starts, fails or is called off: neither a failure
\* nor a cancel of those before it leaves the queue without anyone to serve it.
DownloadsServed == \A id \in Models : shown[id] = "queued" ~> shown[id] # "queued"
=============================================================================
