------------------------------- MODULE Queues -------------------------------
(***************************************************************************)
(* The bridge's work queues: BatchRunState's VecDeques and the lists of    *)
(* work sent to the child, as sequences of item ids, with the operations   *)
(* gui/worker.rs does on them.  Cached work (tier-2 and add-edge items) and *)
(* whole images (tier-1 items) are kept apart; a pair of both is a record. *)
(***************************************************************************)
EXTENDS Integers, Sequences, Functions

Lesser(m, n) == IF m < n THEN m ELSE n

\* `retain`: the elements of s outside S, in order.
Without(s, S) ==
    LET kept[n \in 0 .. Len(s)] ==
            IF n = 0 THEN <<>>
            ELSE IF s[n] \in S THEN kept[n-1] ELSE Append(kept[n-1], s[n])
    IN  kept[Len(s)]

\* No item occurs twice in s.
Distinct(s) == \A m, n \in DOMAIN s : s[m] = s[n] => m = n

\* Every item of s is related by R to all that come after it.
Rising(s, R) == \A m, n \in DOMAIN s : m < n => <<s[m], s[n]>> \in R

NoWork      == [cached |-> <<>>, tier1 |-> <<>>]
AllOf(q)    == q.cached \o q.tier1
ItemsOf(q)  == Range(q.cached) \cup Range(q.tier1)
SizeOf(q)   == Len(q.cached) + Len(q.tier1)
Drop(q, S)  == [cached |-> Without(q.cached, S), tier1 |-> Without(q.tier1, S)]
Join(q, r)  == [cached |-> q.cached \o r.cached, tier1 |-> q.tier1 \o r.tier1]

\* The first c pieces of cached work and t whole images of q (`pop_front`);
\* what follows them.
FirstOf(q, c, t) == [cached |-> SubSeq(q.cached, 1, c), tier1 |-> SubSeq(q.tier1, 1, t)]
WrongRestOf(q, c, t) == q   \* the head is sent but not taken off
RestOf(q, c, t)  == [cached |-> SubSeq(q.cached, c + 1, Len(q.cached)),
                     tier1  |-> SubSeq(q.tier1, t + 1, Len(q.tier1))]
=============================================================================
