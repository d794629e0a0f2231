--------------------------- MODULE ChildContract ---------------------------
(***************************************************************************)
(* What the bridge may expect of its worker child, without threads, flags  *)
(* or the semaphore: every piece of work it has been given is reported at  *)
(* most once, as finished, failed or cancelled; cancelled only if it was   *)
(* asked to; a memory report follows a finished piece of work; and only    *)
(* cached work may end without a word.  These are the child actions of     *)
(* SegBridge.                                                              *)
(***************************************************************************)
EXTENDS Integers, Sequences

CONSTANT Jobs   \* the pieces of work

VARIABLES
    given,      \* work the child has ever been given
    cached,     \* what of it is cached work
    work,       \* what of it is not reported yet
    notified,   \* work it has been asked to cancel
    rssDue,     \* memory reports still to come
    said        \* what it has said about each piece of work, in order

vars == <<given, cached, work, notified, rssDue, said>>

Init == given = {} /\ cached = {} /\ work = {} /\ notified = {} /\ rssDue = 0 /\ said = [j \in Jobs |-> <<>>]

Say(what, j) == said' = [said EXCEPT ![j] = Append(@, what)]

Give(j) ==
    /\ j \notin given
    /\ given' = given \cup {j} /\ work' = work \cup {j}
    /\ cached' \in {cached, cached \cup {j}}
    /\ UNCHANGED <<notified, rssDue, said>>

Notify(j) ==
    /\ notified' = notified \cup {j}
    /\ UNCHANGED <<given, cached, work, rssDue, said>>

Finish(j) ==
    /\ j \in work /\ work' = work \ {j}
    /\ Say("Done", j) \/ Say("Error", j) \/ (j \in cached /\ UNCHANGED said)
    /\ rssDue' \in {rssDue, rssDue + 1}
    /\ UNCHANGED <<given, cached, notified>>

Cancel(j) ==
    /\ j \in work \cap notified /\ work' = work \ {j}
    /\ Say("Cancelled", j)
    /\ UNCHANGED <<given, cached, notified, rssDue>>

Rss(j) ==
    /\ rssDue > 0 /\ rssDue' = rssDue - 1
    /\ Say("Rss", j)
    /\ UNCHANGED <<given, cached, work, notified>>

Next == \E j \in Jobs : Give(j) \/ Notify(j) \/ Finish(j) \/ Cancel(j) \/ Rss(j)

Spec == Init /\ [][Next]_vars
=============================================================================
