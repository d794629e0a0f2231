---------------------------- MODULE SegBatchInv ----------------------------
(***************************************************************************)
(* The inductive invariants behind SegBatch's AnsweredOnce, WorkIsAwaited, *)
(* NothingMislaid and LineOK: every image that is not answered yet is in   *)
(* one place at most, and every event on its way to the bridge is the only *)
(* one of an image the bridge waits for and the child has finished with;   *)
(* every image asked for is somewhere; and the line of whole images is in  *)
(* order wherever it is cut.                                               *)
(***************************************************************************)
EXTENDS SegBatch

\* What a log of results says.
Answers(log)    == {n \in DOMAIN log : log[n].type = "ItemDone"}
AnsweredIn(log) == {log[n].item : n \in Answers(log)}
OnceIn(log)     == \A m, n \in Answers(log) : log[m].item = log[n].item => m = n

\* Where the images of the batch are: queued in p, in flight in s, streamed
\* in q or answered (A), each in one place and asked for (K).
Places(p, s, q, A, K) ==
    /\ Distinct(p.cached) /\ Distinct(s.cached)
    /\ Distinct(p.tier1) /\ Distinct(s.tier1) /\ Distinct(q)
    /\ Range(p.cached) \cap Range(s.cached) = {}
    /\ Range(p.tier1) \cap Range(s.tier1) = {}
    /\ (Range(p.tier1) \cup Range(s.tier1)) \cap Range(q) = {}
    /\ Range(p.cached) \cup Range(s.cached) \subseteq Range(CachedWork)
    /\ (Range(p.tier1) \cup Range(s.tier1) \cup Range(q)) \cap Range(CachedWork) = {}
    /\ (ItemsOf(p) \cup ItemsOf(s) \cup Range(q)) \cap A = {}
    /\ ItemsOf(p) \cup ItemsOf(s) \cup Range(q) \cup A \subseteq K

\* The events es: at most one of each image, of images that are in flight (S)
\* and that the child no longer works on (w).
About(es) == {n \in DOMAIN es : es[n].type # "Rss"}
Reported(es, S, w) ==
    /\ w \subseteq S
    /\ \A n \in About(es) : es[n].item \in S \ w
    /\ \A m, n \in About(es) : es[m].item = es[n].item => m = n

\* The message of the batch waits, and nothing has happened, or it was taken.
NotTaken ==
    \E jobs \in JobChoices :
        inbox \in {<<BatchMessage(jobs)>>, <<[type |-> "ReleaseWarm"], BatchMessage(jobs)>>}
InboxInv == inbox = <<>> \/ (NotTaken /\ pc = "idle" /\ results = <<>> /\ chan[1].q = <<>>)

PlacesInv == pc \notin {"idle", "return"} => Places(pending, sent, chan[1].q, AnsweredIn(results), Asked)

\* No child has work before a burst.
StartInv ==
    /\ pc \in {"idle", "top", "list", "spawn", "burst"} => sent = NoWork
    /\ pc \in {"idle", "top", "list", "spawn", "burst", "head"} => evs = <<>>

DoomedInv ==
    pc \in {"spawn", "admit"} => Distinct(doomed) /\ Range(doomed) \subseteq ItemsOf(pending) \cap Stopped

ReportedInv == pc # "return" => Reported(evs \o evq, InFlight, work)

\* The parts together.
OneAnswerInv ==
    /\ OnceIn(results)
    /\ InboxInv /\ PlacesInv /\ StartInv /\ DoomedInv /\ ReportedInv

----------------------------------------------------------------------------
(* Nothing is mislaid                                                      *)

\* What the bridge still has, has answered or was told to stop.
Somewhere == ItemsOf(pending) \cup ItemsOf(sent) \cup Range(chan[1].q) \cup AnsweredIn(results) \cup Stopped

KeptInv ==
    /\ pc \notin {"idle", "return"} => /\ Asked \subseteq Somewhere
                                       /\ completed \subseteq AnsweredIn(results)
                                       /\ Streams => chan[1].rx
    /\ pc = "idle" => batch = NoBatch /\ completed = {}
    /\ pc = "return" => Ended
    /\ inbox # <<>> => fed = 0 /\ (Streams => chan[1].rx)

----------------------------------------------------------------------------
(* The job limit and the order of the line                                 *)

\* An answer makes room before the next piece of work is admitted.
LimitInv ==
    /\ pc \in {"head", "handle"} => SizeOf(sent) <= maxJobs
    /\ pc = "admit" => SizeOf(sent) < maxJobs

Earlier == {p \in Items \X Items : PlaceOf(p[1]) < PlaceOf(p[2])}
Begun   == {Order[n] : n \in 1 .. Len(WholeImages) + fed}   \* the line so far

\* What is in flight (s), queued (p) and in the channel (q) are each in order,
\* one before the other, and of the images B.
Line(s, p, q, B) ==
    /\ Rising(s, Earlier) /\ Rising(p, Earlier) /\ Rising(q, Earlier)
    /\ Range(s) \X Range(p) \subseteq Earlier
    /\ (Range(s) \cup Range(p)) \X Range(q) \subseteq Earlier
    /\ Range(s) \cup Range(p) \cup Range(q) \subseteq B

OrderInv ==
    /\ Line(sent.tier1, pending.tier1, chan[1].q, Begun)
    /\ Range(chan[1].q) \subseteq Range(StreamedImages)

\* A pause is forgotten with the child it was about.
PausedInv == pc \in {"idle", "top", "list", "spawn", "burst"} => ~paused

\* The batch is over only when run_batch_with_retry returns.
Over(log)  == \E n \in DOMAIN log : log[n].type \in {"Complete", "Cancelled"}
RunningInv == pc \notin {"idle", "return"} => ~Over(results)

\* The log answers an image once or not at all.
SaidInv == \A i \in Items : Cardinality(AnswersTo(i)) = IF i \in AnsweredIn(results) THEN 1 ELSE 0
============================================================================
