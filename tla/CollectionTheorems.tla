------------------------- MODULE CollectionTheorems -------------------------
(***************************************************************************)
(* What the operations of module Queues return, for sequences of every     *)
(* length: their type, the items they keep and the order they keep them    *)
(* in, and that they never put one item in a queue twice.  And what the    *)
(* sums of module Tally become when one member of a set changes.           *)
(***************************************************************************)
EXTENDS Queues, Tally, SequenceTheorems, FiniteSetTheorems, WellFoundedInduction, TLAPS

----------------------------------------------------------------------------
(* Induction over the natural numbers, for a set                           *)

\* A set that contains 0 and is closed under successor contains every natural
\* number (a first-order form of induction, for what Without computes).
LEMMA NatInductionOnSet ==
    ASSUME NEW T, 0 \in T, \A n \in Nat : n \in T => n + 1 \in T
    PROVE  Nat \subseteq T
<1>1. SUFFICES ASSUME Nat \ T # {} PROVE FALSE
  OBVIOUS
<1>2. PICK m \in Nat \ T : \A y \in Nat \ T : ~ (<<y, m>> \in OpToRel(<, Nat))
  <2>1. Nat \ T \subseteq Nat
    OBVIOUS
  <2> QED BY <1>1, <2>1, WFMin, NatLessThanWellFounded
<1>3. m - 1 \in Nat /\ m - 1 < m
  OBVIOUS
<1>4. <<m - 1, m>> \in OpToRel(<, Nat)
  BY <1>3 DEF OpToRel
<1>5. m - 1 \in T
  BY <1>2, <1>3, <1>4
<1>6. (m - 1) + 1 \in T
  BY <1>3, <1>5
<1> QED BY <1>6

----------------------------------------------------------------------------
(* Without                                                                 *)

\* f[k], for k in 0 .. n, is what Without keeps of the first k elements of s.
Keeps(s, S, T, f, n) ==
    /\ f \in [0 .. n -> Seq(T)]
    /\ f[0] = <<>>
    /\ \A k \in 1 .. n : f[k] = IF s[k] \in S THEN f[k-1] ELSE Append(f[k-1], s[k])

\* The recursive function inside Without exists, and its values are sequences.
LEMMA KeepsExists ==
    ASSUME NEW T, NEW s \in Seq(T), NEW S
    PROVE  \A n \in 0 .. Len(s) : \E f : Keeps(s, S, T, f, n)
<1> DEFINE P == {n \in Nat : n <= Len(s) => \E f : Keeps(s, S, T, f, n)}
<1>1. 0 \in P
  <2>1. Keeps(s, S, T, [k \in 0 .. 0 |-> <<>>], 0)
    BY EmptySeq DEF Keeps
  <2> QED BY <2>1
<1>2. ASSUME NEW n \in Nat, n \in P PROVE n + 1 \in P
  <2>1. SUFFICES ASSUME n + 1 <= Len(s) PROVE \E f : Keeps(s, S, T, f, n + 1)
    OBVIOUS
  <2>2. PICK f : Keeps(s, S, T, f, n)
    BY <1>2, <2>1, LenProperties
  <2> DEFINE last == IF s[n + 1] \in S THEN f[n] ELSE Append(f[n], s[n + 1])
  <2> DEFINE g == [k \in 0 .. n + 1 |-> IF k = n + 1 THEN last ELSE f[k]]
  <2>3. s[n + 1] \in T
    BY <2>1, ElementOfSeq, LenProperties
  <2>4. last \in Seq(T)
    BY <2>2, <2>3, AppendProperties DEF Keeps
  <2> HIDE DEF last
  <2>5. g \in [0 .. n + 1 -> Seq(T)]
    BY <2>2, <2>4 DEF Keeps
  <2>6. g[0] = <<>>
    BY <2>2 DEF Keeps
  <2>7. ASSUME NEW k \in 1 .. n + 1
        PROVE  g[k] = IF s[k] \in S THEN g[k-1] ELSE Append(g[k-1], s[k])
    <3>1. CASE k = n + 1
      BY <3>1 DEF last
    <3>2. CASE k # n + 1
      <4>1. k \in 1 .. n /\ k - 1 \in 0 .. n
        BY <3>2
      <4>2. g[k] = f[k] /\ g[k-1] = f[k-1]
        BY <4>1, <3>2
      <4> QED BY <2>2, <4>1, <4>2 DEF Keeps
    <3> QED BY <3>1, <3>2
  <2> HIDE DEF g
  <2>8. Keeps(s, S, T, g, n + 1)
    BY <2>5, <2>6, <2>7 DEF Keeps
  <2> QED BY <2>8
<1> HIDE DEF P
<1>3. Nat \subseteq P
  BY <1>1, <1>2, NatInductionOnSet
<1> QED BY <1>3, LenProperties DEF P

\* Without returns the last value of that function.
LEMMA WithoutKeeps ==
    ASSUME NEW T, NEW s \in Seq(T), NEW S
    PROVE  \E f : Keeps(s, S, T, f, Len(s)) /\ Without(s, S) = f[Len(s)]
<1> DEFINE D(f) == [n \in 0 .. Len(s) |->
            IF n = 0 THEN <<>>
            ELSE IF s[n] \in S THEN f[n-1] ELSE Append(f[n-1], s[n])]
<1>1. Len(s) \in Nat /\ Len(s) \in 0 .. Len(s)
  BY LenProperties
<1>2. PICK f : Keeps(s, S, T, f, Len(s))
  BY KeepsExists, <1>1, Zenon
<1>3. f \in [0 .. Len(s) -> Seq(T)] /\ f[0] = <<>>
  BY <1>2 DEF Keeps
<1>4. \A n \in 1 .. Len(s) : f[n] = IF s[n] \in S THEN f[n-1] ELSE Append(f[n-1], s[n])
  BY <1>2 DEF Keeps
<1>5. f = D(f)
  <2>1. ASSUME NEW n \in 0 .. Len(s) PROVE f[n] = D(f)[n]
    <3>1. CASE n = 0
      BY <3>1, <1>3
    <3>2. CASE n # 0
      BY <3>2, <1>4, <1>1
    <3> QED BY <3>1, <3>2
  <2> QED BY <2>1, <1>3
<1> DEFINE g == CHOOSE h : h = D(h)
<1>6. g = D(g)
  BY <1>5
<1>7. Without(s, S) = g[Len(s)]
  BY DEF Without
<1> HIDE DEF g
<1>8. g[0] = <<>>
  BY <1>6, <1>1
<1>9. ASSUME NEW n \in 1 .. Len(s)
      PROVE  g[n] = IF s[n] \in S THEN g[n-1] ELSE Append(g[n-1], s[n])
  <2>1. n \in 0 .. Len(s) /\ n # 0
    BY <1>1
  <2>2. g[n] = D(g)[n]
    <3> HIDE DEF D
    <3> QED BY <1>6
  <2> QED BY <2>1, <2>2
<1>10. \A n \in 0 .. Len(s) : g[n] = f[n]
  <2> DEFINE P == {n \in Nat : n <= Len(s) => g[n] = f[n]}
  <2>1. 0 \in P
    BY <1>3, <1>8
  <2>2. ASSUME NEW n \in Nat, n \in P PROVE n + 1 \in P
    BY <1>4, <1>9, <1>1, <2>2
  <2> HIDE DEF P
  <2>3. Nat \subseteq P
    BY <2>1, <2>2, NatInductionOnSet
  <2> QED BY <2>3, <1>1 DEF P
<1> QED BY <1>2, <1>7, <1>10, <1>1

----------------------------------------------------------------------------
(* Items of a queue                                                        *)

\* push_back adds one item, and keeps a queue without repetitions so if the
\* item is new.
LEMMA AppendItems ==
    ASSUME NEW T, NEW s \in Seq(T), NEW e \in T
    PROVE  /\ Append(s, e) \in Seq(T)
           /\ Range(Append(s, e)) = Range(s) \cup {e}
           /\ Distinct(s) /\ e \notin Range(s) => Distinct(Append(s, e))
<1>1. Append(s, e) \in Seq(T) /\ DOMAIN Append(s, e) = 1 .. Len(s) + 1 /\ DOMAIN s = 1 .. Len(s)
      /\ Len(s) \in Nat
  BY AppendProperties, LenProperties
<1>2. \A n \in 1 .. Len(s) : Append(s, e)[n] = s[n]
  BY AppendProperties, <1>1
<1>3. Append(s, e)[Len(s) + 1] = e
  BY AppendProperties, <1>1
<1>4. Range(Append(s, e)) = Range(s) \cup {e}
  <2>1. ASSUME NEW x \in Range(Append(s, e)) PROVE x \in Range(s) \cup {e}
    BY <1>1, <1>2, <1>3 DEF Range
  <2>2. ASSUME NEW x \in Range(s) PROVE x \in Range(Append(s, e))
    BY <1>1, <1>2 DEF Range
  <2>3. e \in Range(Append(s, e))
    BY <1>1, <1>3 DEF Range
  <2> QED BY <2>1, <2>2, <2>3
<1>5. ASSUME Distinct(s), e \notin Range(s) PROVE Distinct(Append(s, e))
  BY <1>1, <1>2, <1>3, <1>5 DEF Distinct, Range
<1> QED BY <1>1, <1>4, <1>5

\* Joining two queues joins their items; the result has no repetition if the
\* parts have none and share nothing.
LEMMA ConcatItems ==
    ASSUME NEW T, NEW s \in Seq(T), NEW t \in Seq(T)
    PROVE  /\ s \o t \in Seq(T)
           /\ Range(s \o t) = Range(s) \cup Range(t)
           /\ Distinct(s) /\ Distinct(t) /\ Range(s) \cap Range(t) = {} => Distinct(s \o t)
<1>1. s \o t \in Seq(T) /\ DOMAIN (s \o t) = 1 .. Len(s) + Len(t)
      /\ DOMAIN s = 1 .. Len(s) /\ DOMAIN t = 1 .. Len(t) /\ Len(s) \in Nat /\ Len(t) \in Nat
  BY ConcatProperties, LenProperties
<1>2. \A n \in 1 .. Len(s) + Len(t) : (s \o t)[n] = IF n <= Len(s) THEN s[n] ELSE t[n - Len(s)]
  BY ConcatProperties
<1>3. Range(s \o t) = Range(s) \cup Range(t)
  <2>1. ASSUME NEW x \in Range(s \o t) PROVE x \in Range(s) \cup Range(t)
    <3>1. PICK n \in 1 .. Len(s) + Len(t) : x = (s \o t)[n]
      BY <1>1 DEF Range
    <3>2. CASE n <= Len(s)
      BY <3>1, <3>2, <1>1, <1>2 DEF Range
    <3>3. CASE ~ (n <= Len(s))
      <4>1. n - Len(s) \in 1 .. Len(t) /\ x = t[n - Len(s)]
        BY <3>1, <3>3, <1>1, <1>2
      <4> QED BY <4>1, <1>1 DEF Range
    <3> QED BY <3>2, <3>3
  <2>2. ASSUME NEW x \in Range(s) PROVE x \in Range(s \o t)
    BY <1>1, <1>2 DEF Range
  <2>3. ASSUME NEW x \in Range(t) PROVE x \in Range(s \o t)
    <3>1. PICK n \in 1 .. Len(t) : x = t[n]
      BY <1>1 DEF Range
    <3>2. n + Len(s) \in 1 .. Len(s) + Len(t) /\ x = (s \o t)[n + Len(s)]
      BY <3>1, <1>1, <1>2
    <3> QED BY <3>2, <1>1 DEF Range
  <2> QED BY <2>1, <2>2, <2>3
<1>4. ASSUME Distinct(s), Distinct(t), Range(s) \cap Range(t) = {} PROVE Distinct(s \o t)
  <2> SUFFICES ASSUME NEW m \in 1 .. Len(s) + Len(t), NEW n \in 1 .. Len(s) + Len(t),
                      (s \o t)[m] = (s \o t)[n]
               PROVE  m = n
    BY <1>1 DEF Distinct
  <2>1. CASE m <= Len(s) /\ n <= Len(s)
    BY <2>1, <1>1, <1>2, <1>4 DEF Distinct
  <2>2. CASE ~ (m <= Len(s)) /\ ~ (n <= Len(s))
    <3>1. m - Len(s) \in 1 .. Len(t) /\ n - Len(s) \in 1 .. Len(t) /\ t[m - Len(s)] = t[n - Len(s)]
      BY <2>2, <1>1, <1>2
    <3>2. m - Len(s) = n - Len(s)
      BY <3>1, <1>1, <1>4 DEF Distinct
    <3> QED BY <3>2, <1>1
  <2>3. CASE m <= Len(s) /\ ~ (n <= Len(s))
    <3>1. n - Len(s) \in 1 .. Len(t) /\ m \in 1 .. Len(s) /\ s[m] = t[n - Len(s)]
      BY <2>3, <1>1, <1>2
    <3> QED BY <3>1, <1>1, <1>4 DEF Range
  <2>4. CASE ~ (m <= Len(s)) /\ n <= Len(s)
    <3>1. m - Len(s) \in 1 .. Len(t) /\ n \in 1 .. Len(s) /\ s[n] = t[m - Len(s)]
      BY <2>4, <1>1, <1>2
    <3> QED BY <3>1, <1>1, <1>4 DEF Range
  <2> QED BY <2>1, <2>2, <2>3, <2>4
<1> QED BY <1>1, <1>3, <1>4

\* Where the elements of a concatenation come from.
LEMMA ConcatAt ==
    ASSUME NEW T, NEW s \in Seq(T), NEW t \in Seq(T)
    PROVE  /\ Len(s) \in Nat /\ Len(t) \in Nat
           /\ DOMAIN s = 1 .. Len(s) /\ DOMAIN t = 1 .. Len(t)
           /\ DOMAIN (s \o t) = 1 .. Len(s) + Len(t)
           /\ \A n \in 1 .. Len(s) : n \in DOMAIN (s \o t) /\ (s \o t)[n] = s[n]
           /\ \A n \in 1 .. Len(t) : Len(s) + n \in DOMAIN (s \o t) /\ (s \o t)[Len(s) + n] = t[n]
           /\ \A n \in DOMAIN (s \o t) :
                  n \in 1 .. Len(s) \/ \E k \in 1 .. Len(t) : n = Len(s) + k
<1> DEFINE u == s \o t
<1>1. u \in Seq(T) /\ Len(u) = Len(s) + Len(t)
      /\ \A n \in 1 .. Len(s) + Len(t) : u[n] = IF n <= Len(s) THEN s[n] ELSE t[n - Len(s)]
  BY ConcatProperties
<1> HIDE DEF u
<1>2. /\ Len(s) \in Nat /\ Len(t) \in Nat
      /\ DOMAIN s = 1 .. Len(s) /\ DOMAIN t = 1 .. Len(t) /\ DOMAIN u = 1 .. Len(s) + Len(t)
  BY <1>1, LenProperties
<1>3. ASSUME NEW n \in 1 .. Len(s) PROVE n \in DOMAIN u /\ u[n] = s[n]
  <2>1. n \in 1 .. Len(s) + Len(t) /\ n <= Len(s)
    BY <1>2
  <2> QED BY <1>1, <1>2, <2>1
<1>4. ASSUME NEW n \in 1 .. Len(t) PROVE Len(s) + n \in DOMAIN u /\ u[Len(s) + n] = t[n]
  <2>1. Len(s) + n \in 1 .. Len(s) + Len(t) /\ ~(Len(s) + n <= Len(s)) /\ (Len(s) + n) - Len(s) = n
    BY <1>2
  <2> QED BY <1>1, <1>2, <2>1
<1>5. ASSUME NEW n \in DOMAIN u PROVE n \in 1 .. Len(s) \/ \E k \in 1 .. Len(t) : n = Len(s) + k
  <2>1. n \in 1 .. Len(s) \/ (n - Len(s) \in 1 .. Len(t) /\ n = Len(s) + (n - Len(s)))
    BY <1>2
  <2> QED BY <2>1
<1> QED BY <1>2, <1>3, <1>4, <1>5 DEF u

\* Cutting a queue in two loses nothing, and no item is in both parts of a
\* queue without repetitions.
LEMMA SplitItems ==
    ASSUME NEW T, NEW s \in Seq(T), NEW c \in 0 .. Len(s)
    PROVE  LET first == SubSeq(s, 1, c)
               rest  == SubSeq(s, c + 1, Len(s))
           IN  /\ first \in Seq(T) /\ rest \in Seq(T)
               /\ Len(first) = c /\ Len(rest) = Len(s) - c
               /\ Range(s) = Range(first) \cup Range(rest)
               /\ Distinct(s) => /\ Distinct(first) /\ Distinct(rest)
                                 /\ Range(first) \cap Range(rest) = {}
<1> DEFINE first == SubSeq(s, 1, c)
           rest  == SubSeq(s, c + 1, Len(s))
<1>1. Len(s) \in Nat /\ DOMAIN s = 1 .. Len(s) /\ c \in Nat /\ \A n \in 1 .. Len(s) : s[n] \in T
  BY LenProperties, ElementOfSeq
<1>2. first \in Seq(T) /\ Len(first) = c /\ \A n \in 1 .. c : first[n] = s[n]
  <2>1. \A n \in 1 .. c : s[n] \in T
    BY <1>1
  <2> QED BY <1>1, <2>1, SubSeqProperties
<1>3. rest \in Seq(T) /\ Len(rest) = Len(s) - c /\ \A n \in 1 .. Len(s) - c : rest[n] = s[c + n]
  <2>1. \A n \in c + 1 .. Len(s) : s[n] \in T
    BY <1>1
  <2>2. rest \in Seq(T) /\ Len(rest) = (IF c + 1 <= Len(s) THEN Len(s) - (c + 1) + 1 ELSE 0)
        /\ \A n \in 1 .. Len(s) - (c + 1) + 1 : rest[n] = s[(c + 1) + n - 1]
    BY <1>1, <2>1, SubSeqProperties
  <2> QED BY <1>1, <2>2
<1>4. DOMAIN first = 1 .. c /\ DOMAIN rest = 1 .. Len(s) - c
  BY <1>2, <1>3, LenProperties
<1> HIDE DEF first, rest
<1>5. Range(s) = Range(first) \cup Range(rest)
  <2>1. ASSUME NEW x \in Range(s) PROVE x \in Range(first) \cup Range(rest)
    <3>1. PICK n \in 1 .. Len(s) : x = s[n]
      BY <1>1 DEF Range
    <3>2. CASE n <= c
      BY <3>1, <3>2, <1>1, <1>2, <1>4 DEF Range
    <3>3. CASE ~ (n <= c)
      <4>1. n - c \in 1 .. Len(s) - c /\ x = rest[n - c]
        BY <3>1, <3>3, <1>1, <1>3
      <4> QED BY <4>1, <1>4 DEF Range
    <3> QED BY <3>2, <3>3
  <2>2. ASSUME NEW x \in Range(first) PROVE x \in Range(s)
    BY <1>1, <1>2, <1>4 DEF Range
  <2>3. ASSUME NEW x \in Range(rest) PROVE x \in Range(s)
    <3>1. PICK n \in 1 .. Len(s) - c : x = rest[n]
      BY <1>4 DEF Range
    <3>2. c + n \in 1 .. Len(s) /\ x = s[c + n]
      BY <3>1, <1>1, <1>3
    <3> QED BY <3>2, <1>1 DEF Range
  <2> QED BY <2>1, <2>2, <2>3
<1>6. ASSUME Distinct(s)
      PROVE  Distinct(first) /\ Distinct(rest) /\ Range(first) \cap Range(rest) = {}
  <2>1. Distinct(first)
    BY <1>1, <1>2, <1>4, <1>6 DEF Distinct
  <2>2. ASSUME NEW m \in 1 .. Len(s) - c, NEW n \in 1 .. Len(s) - c, rest[m] = rest[n] PROVE m = n
    <3>1. c + m \in 1 .. Len(s) /\ c + n \in 1 .. Len(s) /\ s[c + m] = s[c + n]
      BY <2>2, <1>1, <1>3
    <3>2. c + m = c + n
      BY <3>1, <1>1, <1>6 DEF Distinct
    <3> QED BY <3>2, <1>1
  <2>3. ASSUME NEW x \in Range(first), x \in Range(rest) PROVE FALSE
    <3>1. PICK m \in 1 .. c : x = s[m]
      BY <1>2, <1>4 DEF Range
    <3>2. PICK n \in 1 .. Len(s) - c : x = s[c + n]
      BY <2>3, <1>3, <1>4 DEF Range
    <3>3. m \in 1 .. Len(s) /\ c + n \in 1 .. Len(s) /\ m # c + n
      BY <1>1
    <3> QED BY <3>1, <3>2, <3>3, <1>1, <1>6 DEF Distinct
  <2> QED BY <2>1, <2>2, <2>3, <1>4 DEF Distinct
<1> QED BY <1>2, <1>3, <1>5, <1>6 DEF first, rest

\* pop_front takes the head off, and only the head if no item repeats.
LEMMA TailItems ==
    ASSUME NEW T, NEW s \in Seq(T), s # <<>>
    PROVE  /\ Head(s) \in Range(s) /\ Head(s) \in T
           /\ Tail(s) \in Seq(T)
           /\ Range(s) = {Head(s)} \cup Range(Tail(s))
           /\ Distinct(s) => Distinct(Tail(s)) /\ Head(s) \notin Range(Tail(s))
<1>1. Len(s) \in Nat /\ 1 \in 0 .. Len(s) /\ 1 \in DOMAIN s
  BY EmptySeq, LenProperties
<1> DEFINE first == SubSeq(s, 1, 1)
           rest  == SubSeq(s, 1 + 1, Len(s))
<1>2. /\ first \in Seq(T) /\ rest \in Seq(T)
      /\ Len(first) = 1
      /\ Range(s) = Range(first) \cup Range(rest)
      /\ Distinct(s) => Distinct(rest) /\ Range(first) \cap Range(rest) = {}
  BY <1>1, SplitItems
<1>3. Tail(s) = rest
  BY TailIsSubSeq
<1>4. first[1] = s[1]
  BY <1>1, SubSeqProperties, ElementOfSeq
<1>5. Range(first) = {s[1]}
  <2>1. DOMAIN first = {1}
    BY <1>2, LenProperties
  <2> HIDE DEF first
  <2> QED BY <2>1, <1>4 DEF Range
<1>6. Head(s) = s[1] /\ Head(s) \in T
  BY HeadTailProperties
<1> HIDE DEF first, rest
<1> QED BY <1>2, <1>3, <1>5, <1>6

\* `retain` returns a queue, keeps exactly the items outside S, does not
\* lengthen the queue and does not repeat anything.
LEMMA WithoutItems ==
    ASSUME NEW T, NEW s \in Seq(T), NEW S
    PROVE  /\ Without(s, S) \in Seq(T)
           /\ Range(Without(s, S)) = Range(s) \ S
           /\ Len(Without(s, S)) <= Len(s)
           /\ Distinct(s) => Distinct(Without(s, S))
<1>1. PICK f : Keeps(s, S, T, f, Len(s)) /\ Without(s, S) = f[Len(s)]
  BY WithoutKeeps
<1>2. Len(s) \in Nat /\ DOMAIN s = 1 .. Len(s) /\ \A n \in 1 .. Len(s) : s[n] \in T
  BY LenProperties, ElementOfSeq
<1> DEFINE Kept(n) == {s[k] : k \in 1 .. n} \ S
<1> DEFINE P == {n \in Nat : n <= Len(s) => /\ Range(f[n]) = Kept(n)
                                            /\ Len(f[n]) <= n
                                            /\ Distinct(s) => Distinct(f[n])}
<1>3. 0 \in P
  <2>1. f[0] = <<>>
    BY <1>1 DEF Keeps
  <2>2. Range(<<>>) = {} /\ Kept(0) = {}
    BY DEF Range
  <2>3. Distinct(<<>>)
    BY DEF Distinct
  <2>4. Len(<<>>) = 0
    BY EmptySeq
  <2> QED BY <2>1, <2>2, <2>3, <2>4
<1>4. ASSUME NEW n \in Nat, n \in P PROVE n + 1 \in P
  <2> SUFFICES ASSUME n + 1 <= Len(s)
               PROVE  /\ Range(f[n + 1]) = Kept(n + 1)
                      /\ Len(f[n + 1]) <= n + 1
                      /\ Distinct(s) => Distinct(f[n + 1])
    OBVIOUS
  <2>1. n + 1 \in 1 .. Len(s) /\ n \in 0 .. Len(s) /\ n <= Len(s)
    BY <1>2
  <2>2. /\ Range(f[n]) = Kept(n) /\ Len(f[n]) <= n
        /\ Distinct(s) => Distinct(f[n])
    BY <1>4, <2>1
  <2>3. f[n] \in Seq(T) /\ f[n + 1] = IF s[n + 1] \in S THEN f[n] ELSE Append(f[n], s[n + 1])
    <3>1. (n + 1) - 1 = n
      OBVIOUS
    <3> QED BY <1>1, <2>1, <3>1 DEF Keeps
  <2>4. Len(f[n]) \in Nat
    BY <2>3, LenProperties
  <2>5. Kept(n + 1) = Kept(n) \cup ({s[n + 1]} \ S)
    <3>1. 1 .. n + 1 = (1 .. n) \cup {n + 1}
      OBVIOUS
    <3> QED BY <3>1
  <2>6. CASE s[n + 1] \in S
    BY <2>2, <2>3, <2>4, <2>5, <2>6
  <2>7. CASE s[n + 1] \notin S
    <3>1. s[n + 1] \in T
      BY <1>2, <2>1
    <3>2. Range(f[n + 1]) = Range(f[n]) \cup {s[n + 1]}
      BY <2>3, <2>7, <3>1, AppendItems
    <3>3. Len(f[n + 1]) = Len(f[n]) + 1
      BY <2>3, <2>7, <3>1, AppendProperties
    <3>4. ASSUME Distinct(s) PROVE Distinct(f[n + 1])
      <4>1. s[n + 1] \notin {s[k] : k \in 1 .. n}
        BY <3>4, <1>2, <2>1 DEF Distinct
      <4>2. s[n + 1] \notin Range(f[n])
        BY <4>1, <2>2
      <4> QED BY <3>4, <4>2, <2>2, <2>3, <2>7, <3>1, AppendItems
    <3> QED BY <2>2, <2>4, <2>5, <2>7, <3>2, <3>3, <3>4
  <2> QED BY <2>6, <2>7
<1> HIDE DEF P
<1>5. Nat \subseteq P
  BY <1>3, <1>4, NatInductionOnSet
<1>6. /\ Range(f[Len(s)]) = Kept(Len(s)) /\ Len(f[Len(s)]) <= Len(s)
      /\ Distinct(s) => Distinct(f[Len(s)])
  <2>1. Len(s) \in P /\ Len(s) <= Len(s)
    BY <1>2, <1>5
  <2> HIDE DEF Kept
  <2> QED BY <2>1 DEF P
<1>7. Kept(Len(s)) = Range(s) \ S
  BY <1>2 DEF Range
<1>8. f[Len(s)] \in Seq(T)
  BY <1>1, <1>2 DEF Keeps
<1> QED BY <1>1, <1>6, <1>7, <1>8

----------------------------------------------------------------------------
(* The order of a queue                                                    *)

\* A joined queue is in order if its parts are, and all of the first part comes
\* before all of the second; and only then.
LEMMA ConcatRising ==
    ASSUME NEW T, NEW s \in Seq(T), NEW t \in Seq(T), NEW R
    PROVE  Rising(s \o t, R) <=> /\ Rising(s, R) /\ Rising(t, R)
                                 /\ Range(s) \X Range(t) \subseteq R
<1> DEFINE u == s \o t
<1>1. /\ Len(s) \in Nat /\ Len(t) \in Nat
      /\ DOMAIN s = 1 .. Len(s) /\ DOMAIN t = 1 .. Len(t) /\ DOMAIN u = 1 .. Len(s) + Len(t)
      /\ \A n \in 1 .. Len(s) : n \in DOMAIN u /\ u[n] = s[n]
      /\ \A n \in 1 .. Len(t) : Len(s) + n \in DOMAIN u /\ u[Len(s) + n] = t[n]
      /\ \A n \in DOMAIN u : n \in 1 .. Len(s) \/ \E k \in 1 .. Len(t) : n = Len(s) + k
  BY ConcatAt
<1> HIDE DEF u
<1>2. ASSUME Rising(u, R) PROVE Rising(s, R) /\ Rising(t, R) /\ Range(s) \X Range(t) \subseteq R
  <2>1. Rising(s, R)
    BY <1>1, <1>2 DEF Rising
  <2>2. ASSUME NEW m \in 1 .. Len(t), NEW n \in 1 .. Len(t), m < n PROVE <<t[m], t[n]>> \in R
    <3>1. Len(s) + m < Len(s) + n
      BY <1>1, <2>2
    <3> QED BY <1>1, <1>2, <3>1 DEF Rising
  <2>3. ASSUME NEW x \in Range(s), NEW y \in Range(t) PROVE <<x, y>> \in R
    <3>1. PICK m \in 1 .. Len(s) : x = s[m]
      BY <1>1 DEF Range
    <3>2. PICK n \in 1 .. Len(t) : y = t[n]
      BY <1>1 DEF Range
    <3>3. m < Len(s) + n
      BY <1>1
    <3> QED BY <1>1, <1>2, <3>1, <3>2, <3>3 DEF Rising
  <2> QED BY <1>1, <2>1, <2>2, <2>3 DEF Rising
<1>3. ASSUME Rising(s, R), Rising(t, R), Range(s) \X Range(t) \subseteq R PROVE Rising(u, R)
  <2> SUFFICES ASSUME NEW m \in DOMAIN u, NEW n \in DOMAIN u, m < n PROVE <<u[m], u[n]>> \in R
    BY DEF Rising
  <2>1. CASE m \in 1 .. Len(s) /\ n \in 1 .. Len(s)
    BY <1>1, <1>3, <2>1 DEF Rising
  <2>2. ASSUME m \in 1 .. Len(s), NEW k \in 1 .. Len(t), n = Len(s) + k PROVE <<u[m], u[n]>> \in R
    <3>1. u[m] \in Range(s) /\ u[n] \in Range(t)
      BY <1>1, <2>2 DEF Range
    <3> QED BY <1>3, <3>1
  <2>3. ASSUME NEW j \in 1 .. Len(t), m = Len(s) + j, n \in 1 .. Len(s) PROVE FALSE
    BY <1>1, <2>3
  <2>4. ASSUME NEW j \in 1 .. Len(t), m = Len(s) + j, NEW k \in 1 .. Len(t), n = Len(s) + k
        PROVE  <<u[m], u[n]>> \in R
    <3>1. j < k
      BY <1>1, <2>4
    <3> QED BY <1>1, <1>3, <2>4, <3>1 DEF Rising
  <2> QED BY <1>1, <2>1, <2>2, <2>3, <2>4
<1> QED BY <1>2, <1>3 DEF u

\* push_back keeps the order if all there is comes before the new item.
LEMMA AppendRising ==
    ASSUME NEW T, NEW s \in Seq(T), NEW e \in T, NEW R, Rising(s, R), Range(s) \X {e} \subseteq R
    PROVE  Rising(Append(s, e), R)
<1> DEFINE one == <<e>>
<1>1. one \in Seq(T) /\ Range(one) = {e} /\ Rising(one, R) /\ Append(s, e) = s \o one
  BY DEF Range, Rising
<1> HIDE DEF one
<1>2. Rising(s \o one, R)
  BY <1>1, ConcatRising
<1> QED BY <1>1, <1>2

\* Both parts of a queue that is cut in two are in order, the first before the second.
LEMMA SplitRising ==
    ASSUME NEW T, NEW s \in Seq(T), NEW c \in 0 .. Len(s), NEW R, Rising(s, R)
    PROVE  LET first == SubSeq(s, 1, c)
               rest  == SubSeq(s, c + 1, Len(s))
           IN  /\ Rising(first, R) /\ Rising(rest, R)
               /\ Range(first) \X Range(rest) \subseteq R
<1> DEFINE first == SubSeq(s, 1, c)
           rest  == SubSeq(s, c + 1, Len(s))
<1>1. /\ first \in Seq(T) /\ rest \in Seq(T) /\ Len(first) = c /\ Len(rest) = Len(s) - c
      /\ Len(s) \in Nat /\ c \in Nat
  BY SplitItems, LenProperties
<1>2. first \o rest = s
  <2>1. \A n \in 1 .. Len(s) : s[n] \in T
    BY ElementOfSeq
  <2>2. \A n \in 1 .. c : first[n] = s[n]
    BY <1>1, <2>1, SubSeqProperties
  <2>3. \A n \in 1 .. Len(s) - c : rest[n] = s[c + n]
    BY <1>1, <2>1, SubSeqProperties
  <2> HIDE DEF first, rest
  <2>4. /\ first \o rest \in Seq(T) /\ Len(first \o rest) = c + (Len(s) - c)
        /\ \A n \in 1 .. c + (Len(s) - c) : (first \o rest)[n] = IF n <= c THEN first[n] ELSE rest[n - c]
    BY <1>1, ConcatProperties
  <2>5. ASSUME NEW n \in 1 .. Len(s) PROVE (first \o rest)[n] = s[n]
    <3>1. CASE n <= c
      BY <1>1, <2>2, <2>4, <3>1
    <3>2. CASE ~(n <= c)
      <4>1. n - c \in 1 .. Len(s) - c /\ c + (n - c) = n
        BY <1>1, <3>2
      <4> QED BY <1>1, <2>3, <2>4, <3>2, <4>1
    <3> QED BY <3>1, <3>2
  <2>6. Len(first \o rest) = Len(s)
    BY <1>1, <2>4
  <2> QED BY <2>4, <2>5, <2>6, SeqEqual
<1> HIDE DEF first, rest
<1>3. Rising(first, R) /\ Rising(rest, R) /\ Range(first) \X Range(rest) \subseteq R
  BY <1>1, <1>2, ConcatRising
<1> QED BY <1>3 DEF first, rest

\* pop_front keeps the order, and the head came before everything left.
LEMMA TailRising ==
    ASSUME NEW T, NEW s \in Seq(T), s # <<>>, NEW R, Rising(s, R)
    PROVE  Rising(Tail(s), R) /\ {Head(s)} \X Range(Tail(s)) \subseteq R
<1>1. /\ Len(s) \in Nat \ {0} /\ DOMAIN s = 1 .. Len(s) /\ Head(s) = s[1]
      /\ Tail(s) \in Seq(T) /\ Len(Tail(s)) = Len(s) - 1
      /\ \A n \in 1 .. Len(Tail(s)) : Tail(s)[n] = s[n + 1]
  BY HeadTailProperties, LenProperties, EmptySeq
<1>2. DOMAIN Tail(s) = 1 .. Len(s) - 1
  BY <1>1, LenProperties
<1>3. ASSUME NEW m \in 1 .. Len(s) - 1, NEW n \in 1 .. Len(s) - 1, m < n
      PROVE  <<Tail(s)[m], Tail(s)[n]>> \in R
  <2>1. m + 1 \in DOMAIN s /\ n + 1 \in DOMAIN s /\ m + 1 < n + 1
    BY <1>1, <1>3
  <2> QED BY <1>1, <2>1 DEF Rising
<1>4. ASSUME NEW y \in Range(Tail(s)) PROVE <<Head(s), y>> \in R
  <2>1. PICK n \in 1 .. Len(s) - 1 : y = Tail(s)[n]
    BY <1>2 DEF Range
  <2>2. 1 \in DOMAIN s /\ n + 1 \in DOMAIN s /\ 1 < n + 1
    BY <1>1
  <2> QED BY <1>1, <2>1, <2>2 DEF Rising
<1> QED BY <1>2, <1>3, <1>4 DEF Rising

\* `retain` keeps the order, and a queue from which it takes anything gets shorter.
LEMMA WithoutOrder ==
    ASSUME NEW T, NEW s \in Seq(T), NEW S, NEW R
    PROVE  /\ Rising(s, R) => Rising(Without(s, S), R)
           /\ Range(s) \cap S # {} => Len(Without(s, S)) < Len(s)
<1>1. PICK f : Keeps(s, S, T, f, Len(s)) /\ Without(s, S) = f[Len(s)]
  BY WithoutKeeps
<1>2. Len(s) \in Nat /\ DOMAIN s = 1 .. Len(s) /\ \A n \in 1 .. Len(s) : s[n] \in T
  BY LenProperties, ElementOfSeq
<1> DEFINE P == {n \in Nat : n <= Len(s) =>
                     /\ \A x \in Range(f[n]) : \E k \in 1 .. n : x = s[k]
                     /\ Len(f[n]) <= n
                     /\ (\E k \in 1 .. n : s[k] \in S) => Len(f[n]) < n
                     /\ Rising(s, R) => Rising(f[n], R)}
<1>3. 0 \in P
  <2>1. f[0] = <<>>
    BY <1>1 DEF Keeps
  <2>2. Range(<<>>) = {} /\ Rising(<<>>, R) /\ Len(<<>>) = 0
    BY EmptySeq DEF Range, Rising
  <2> QED BY <2>1, <2>2
<1>4. ASSUME NEW n \in Nat, n \in P PROVE n + 1 \in P
  <2> SUFFICES ASSUME n + 1 <= Len(s)
               PROVE  /\ \A x \in Range(f[n + 1]) : \E k \in 1 .. n + 1 : x = s[k]
                      /\ Len(f[n + 1]) <= n + 1
                      /\ (\E k \in 1 .. n + 1 : s[k] \in S) => Len(f[n + 1]) < n + 1
                      /\ Rising(s, R) => Rising(f[n + 1], R)
    OBVIOUS
  <2>1. n + 1 \in 1 .. Len(s) /\ n \in 0 .. Len(s) /\ n <= Len(s)
    BY <1>2
  <2>2. /\ \A x \in Range(f[n]) : \E k \in 1 .. n : x = s[k]
        /\ Len(f[n]) <= n
        /\ (\E k \in 1 .. n : s[k] \in S) => Len(f[n]) < n
        /\ Rising(s, R) => Rising(f[n], R)
    BY <1>4, <2>1
  <2>3. f[n] \in Seq(T) /\ f[n + 1] = IF s[n + 1] \in S THEN f[n] ELSE Append(f[n], s[n + 1])
    <3>1. (n + 1) - 1 = n
      OBVIOUS
    <3> QED BY <1>1, <2>1, <3>1 DEF Keeps
  <2>4. Len(f[n]) \in Nat
    BY <2>3, LenProperties
  <2>5. CASE s[n + 1] \in S
    BY <2>2, <2>3, <2>4, <2>5
  <2>6. CASE s[n + 1] \notin S
    <3>1. s[n + 1] \in T /\ f[n + 1] = Append(f[n], s[n + 1])
      BY <1>2, <2>1, <2>3, <2>6
    <3>2. Range(f[n + 1]) = Range(f[n]) \cup {s[n + 1]}
      BY <2>3, <3>1, AppendItems
    <3>3. Len(f[n + 1]) = Len(f[n]) + 1
      BY <2>3, <3>1, AppendProperties
    <3>4. ASSUME Rising(s, R) PROVE Rising(f[n + 1], R)
      <4>1. Range(f[n]) \X {s[n + 1]} \subseteq R
        <5>1. ASSUME NEW x \in Range(f[n]) PROVE <<x, s[n + 1]>> \in R
          <6>1. PICK k \in 1 .. n : x = s[k]
            BY <2>2
          <6>2. k \in DOMAIN s /\ n + 1 \in DOMAIN s /\ k < n + 1
            BY <1>2, <2>1
          <6> QED BY <3>4, <6>1, <6>2 DEF Rising
        <5> QED BY <5>1
      <4> QED BY <2>2, <2>3, <3>1, <3>4, <4>1, AppendRising
    <3>5. \A x \in Range(f[n + 1]) : \E k \in 1 .. n + 1 : x = s[k]
      BY <2>2, <3>2
    <3>6. (\E k \in 1 .. n + 1 : s[k] \in S) => Len(f[n + 1]) < n + 1
      <4>1. ASSUME NEW k \in 1 .. n + 1, s[k] \in S PROVE k \in 1 .. n
        BY <2>6, <4>1
      <4> QED BY <2>2, <2>4, <3>3, <4>1
    <3> QED BY <2>2, <2>4, <3>3, <3>4, <3>5, <3>6
  <2> QED BY <2>5, <2>6
<1> HIDE DEF P
<1>5. Nat \subseteq P
  BY <1>3, <1>4, NatInductionOnSet
<1>6. Len(s) \in P /\ Len(s) <= Len(s)
  BY <1>2, <1>5
<1>7. /\ (\E k \in 1 .. Len(s) : s[k] \in S) => Len(f[Len(s)]) < Len(s)
      /\ Rising(s, R) => Rising(f[Len(s)], R)
  BY <1>6 DEF P
<1> QED BY <1>1, <1>2, <1>7 DEF Range

----------------------------------------------------------------------------
(* Sums                                                                    *)

TokensOf(f, x) == {x} \X (1 .. f[x])   \* the tokens of one member

\* A member holds as many tokens as it has.
LEMMA OwnTokens ==
    ASSUME NEW f, NEW x, f[x] \in Nat
    PROVE  IsFiniteSet(TokensOf(f, x)) /\ Cardinality(TokensOf(f, x)) = f[x]
<1>1. IsFiniteSet({x}) /\ Cardinality({x}) = 1
  BY FS_Singleton
<1>2. IsFiniteSet(1 .. f[x]) /\ Cardinality(1 .. f[x]) = f[x]
  BY FS_Interval
<1>3. IsFiniteSet(TokensOf(f, x)) /\ Cardinality(TokensOf(f, x)) = 1 * f[x]
  BY <1>1, <1>2, FS_Product DEF TokensOf
<1> QED BY <1>3

\* The members of a finite set hold finitely many tokens together.
LEMMA TokensFinite ==
    ASSUME NEW S, IsFiniteSet(S), NEW f, \A x \in S : f[x] \in Nat
    PROVE  IsFiniteSet(Tokens(f, S)) /\ Total(f, S) \in Nat
<1> DEFINE parts == {TokensOf(f, x) : x \in S}
           part  == [x \in S |-> TokensOf(f, x)]
<1>1. part \in Surjection(S, parts)
  BY DEF Surjection
<1>2. IsFiniteSet(parts)
  BY <1>1, FS_Surjection
<1>3. \A T \in parts : IsFiniteSet(T)
  BY OwnTokens
<1>4. IsFiniteSet(UNION parts)
  BY <1>2, <1>3, FS_UNION
<1>5. Tokens(f, S) = UNION parts
  BY DEF Tokens, TokensOf
<1> QED BY <1>4, <1>5, FS_CardinalityType DEF Total

\* Nobody holds nothing.
LEMMA TotalOfNobody == \A f : Total(f, {}) = 0
BY FS_EmptySet DEF Total, Tokens

\* A member that joins adds what it has.
LEMMA TotalWith ==
    ASSUME NEW S, IsFiniteSet(S), NEW x, x \notin S, NEW f, \A y \in S \cup {x} : f[y] \in Nat
    PROVE  Total(f, S \cup {x}) = Total(f, S) + f[x]
<1>1. Tokens(f, S \cup {x}) = Tokens(f, S) \cup TokensOf(f, x)
  BY DEF Tokens, TokensOf
<1>2. Tokens(f, S) \cap TokensOf(f, x) = {}
  BY DEF Tokens, TokensOf
<1>3. IsFiniteSet(Tokens(f, S)) /\ Total(f, S) \in Nat
  BY TokensFinite
<1>4. IsFiniteSet(TokensOf(f, x)) /\ Cardinality(TokensOf(f, x)) = f[x]
  BY OwnTokens
<1>5. Cardinality(Tokens(f, S) \cup TokensOf(f, x))
          = Cardinality(Tokens(f, S)) + Cardinality(TokensOf(f, x)) - Cardinality(Tokens(f, S) \cap TokensOf(f, x))
  BY <1>3, <1>4, FS_Union
<1>6. Cardinality(Tokens(f, S) \cap TokensOf(f, x)) = 0
  BY <1>2, FS_EmptySet
<1>7. Total(f, S \cup {x}) = Cardinality(Tokens(f, S) \cup TokensOf(f, x)) /\ Total(f, S) = Cardinality(Tokens(f, S))
  BY <1>1 DEF Total
<1>8. f[x] \in Nat
  OBVIOUS
<1>9. Total(f, S \cup {x}) = Total(f, S) + f[x] - 0
  BY <1>4, <1>5, <1>6, <1>7
<1> QED BY <1>3, <1>8, <1>9

\* A member that leaves takes what it has, which was there.
LEMMA TotalWithout ==
    ASSUME NEW S, IsFiniteSet(S), NEW x \in S, NEW f, \A y \in S : f[y] \in Nat
    PROVE  /\ Total(f, S \ {x}) \in Nat
           /\ Total(f, S) = Total(f, S \ {x}) + f[x]
<1>1. IsFiniteSet(S \ {x})
  BY FS_RemoveElement
<1>2. (S \ {x}) \cup {x} = S
  OBVIOUS
<1>3. Total(f, (S \ {x}) \cup {x}) = Total(f, S \ {x}) + f[x]
  BY <1>1, <1>2, TotalWith
<1> QED BY <1>1, <1>2, <1>3, TokensFinite

\* Only what the members have matters.
LEMMA TotalOfMembers ==
    ASSUME NEW S, NEW f, NEW g, \A x \in S : f[x] = g[x]
    PROVE  Total(f, S) = Total(g, S)
<1>1. Tokens(f, S) = Tokens(g, S)
  BY DEF Tokens
<1> QED BY <1>1 DEF Total

----------------------------------------------------------------------------
(* Counting the elements of a sequence                                     *)

\* Some number of a set of numbers is the least.
LEMMA LeastOfSome == ASSUME NEW S, S \subseteq Nat, S # {} PROVE \E m \in S : \A n \in S : m <= n
<1>1. PICK m \in S : \A y \in S : ~ (<<y, m>> \in OpToRel(<, Nat))
  BY WFMin, NatLessThanWellFounded
<1>2. ASSUME NEW n \in S PROVE m <= n
  <2>1. n \in Nat /\ m \in Nat
    OBVIOUS
  <2>2. ~(n < m)
    BY <1>1, <2>1 DEF OpToRel
  <2> QED BY <2>1, <2>2
<1> QED BY <1>2

\* How many elements of q are in P.
PlacesIn(q, P) == {n \in DOMAIN q : q[n] \in P}
CountIn(q, P) == Cardinality(PlacesIn(q, P))

\* A count is a number, and zero of a sequence that has none.
LEMMA CountIsNumber ==
    ASSUME NEW T, NEW q \in Seq(T), NEW P
    PROVE  CountIn(q, P) \in Nat /\ IsFiniteSet(PlacesIn(q, P)) /\ (CountIn(q, P) = 0 <=> Range(q) \cap P = {})
<1> DEFINE n == Len(q)
           places == PlacesIn(q, P)
<1>1. n \in Nat /\ DOMAIN q = 1 .. n
  BY LenProperties
<1> HIDE DEF n
<1>2. IsFiniteSet(1 .. n)
  BY <1>1, FS_Interval
<1>3. places \subseteq 1 .. n
  BY <1>1 DEF PlacesIn
<1> HIDE DEF places
<1>4. IsFiniteSet(places) /\ Cardinality(places) \in Nat
  BY <1>2, <1>3, FS_Subset, FS_CardinalityType
<1>5. Cardinality(places) = 0 <=> places = {}
  BY <1>4, FS_EmptySet
<1>6. places = {} <=> Range(q) \cap P = {}
  BY DEF places, PlacesIn, Range
<1> QED BY <1>4, <1>5, <1>6 DEF CountIn, places

\* The count of two sequences is the sum of theirs.
LEMMA CountConcat ==
    ASSUME NEW T, NEW q \in Seq(T), NEW r \in Seq(T), NEW P
    PROVE  CountIn(q \o r, P) = CountIn(q, P) + CountIn(r, P)
<1> DEFINE both == q \o r
           first == PlacesIn(q, P)
           second == PlacesIn(r, P)
           moved == {Len(q) + n : n \in second}
<1>1. /\ Len(q) \in Nat /\ Len(r) \in Nat
      /\ DOMAIN q = 1 .. Len(q) /\ DOMAIN r = 1 .. Len(r)
      /\ DOMAIN both = 1 .. Len(q) + Len(r)
      /\ \A n \in 1 .. Len(q) : n \in DOMAIN both /\ both[n] = q[n]
      /\ \A n \in 1 .. Len(r) : Len(q) + n \in DOMAIN both /\ both[Len(q) + n] = r[n]
      /\ \A n \in DOMAIN both : n \in 1 .. Len(q) \/ \E k \in 1 .. Len(r) : n = Len(q) + k
  BY ConcatAt
<1> HIDE DEF both
<1>2. PlacesIn(both, P) = first \cup moved
  <2>1. ASSUME NEW n \in PlacesIn(both, P) PROVE n \in first \cup moved
    BY <1>1, <2>1 DEF PlacesIn
  <2>2. ASSUME NEW n \in first \cup moved PROVE n \in PlacesIn(both, P)
    BY <1>1, <2>2 DEF PlacesIn
  <2> QED BY <2>1, <2>2
<1>3. first \cap moved = {}
  BY <1>1 DEF PlacesIn
<1>4. IsFiniteSet(first) /\ IsFiniteSet(second) /\ Cardinality(first) \in Nat /\ Cardinality(second) \in Nat
  BY CountIsNumber, FS_CardinalityType
<1>5. [n \in second |-> Len(q) + n] \in Bijection(second, moved)
  <2>1. \A n \in second : n \in Nat
    BY <1>1 DEF PlacesIn
  <2>2. \A m, n \in second : Len(q) + m = Len(q) + n => m = n
    BY <1>1, <2>1
  <2> HIDE DEF second
  <2> QED BY <2>2 DEF Bijection, Injection, Surjection, IsInjective
<1> HIDE DEF first, second, moved
<1>6. IsFiniteSet(moved) /\ Cardinality(moved) = Cardinality(second)
  BY <1>4, <1>5, FS_Bijection DEF ExistsBijection
<1>7. Cardinality(first \cup moved) = Cardinality(first) + Cardinality(moved) - Cardinality(first \cap moved)
  BY <1>4, <1>6, FS_Union
<1>8. Cardinality(first \cap moved) = 0
  BY <1>3, FS_EmptySet
<1>9. Cardinality(first \cup moved) = Cardinality(first) + Cardinality(second)
  BY <1>4, <1>6, <1>7, <1>8
<1> QED BY <1>2, <1>9 DEF CountIn, both, first, second

\* A single element counts, or does not.
LEMMA CountOne == ASSUME NEW e, NEW P PROVE CountIn(<<e>>, P) = IF e \in P THEN 1 ELSE 0
<1> DEFINE places == PlacesIn(<<e>>, P)
<1>1. places = IF e \in P THEN {1} ELSE {}
  BY DEF PlacesIn
<1> HIDE DEF places
<1>2. Cardinality(places) = IF e \in P THEN 1 ELSE 0
  BY <1>1, FS_Singleton, FS_EmptySet
<1> QED BY <1>2 DEF CountIn, places

\* What is appended counts one more, or none.
LEMMA CountAppend ==
    ASSUME NEW T, NEW q \in Seq(T), NEW e \in T, NEW P
    PROVE  CountIn(Append(q, e), P) = CountIn(q, P) + (IF e \in P THEN 1 ELSE 0)
<1>1. <<e>> \in Seq(T)
  OBVIOUS
<1>2. Append(q, e) = q \o <<e>>
  BY AppendIsConcat
<1> DEFINE t == <<e>>
<1> HIDE DEF t
<1>3. CountIn(q \o t, P) = CountIn(q, P) + CountIn(t, P)
  BY <1>1, CountConcat DEF t
<1>4. CountIn(t, P) = IF e \in P THEN 1 ELSE 0
  BY CountOne DEF t
<1> QED BY <1>2, <1>3, <1>4 DEF t

\* The empty sequence has none.
LEMMA CountOfNone == ASSUME NEW P PROVE CountIn(<<>>, P) = 0
<1>1. PlacesIn(<<>>, P) = {}
  BY DEF PlacesIn
<1> QED BY <1>1, FS_EmptySet DEF CountIn

\* What is taken off the head counts one less, or none.
LEMMA CountTail ==
    ASSUME NEW T, NEW q \in Seq(T), q # <<>>, NEW P
    PROVE  CountIn(q, P) = CountIn(Tail(q), P) + (IF Head(q) \in P THEN 1 ELSE 0)
<1> DEFINE t == <<Head(q)>>
           rest == Tail(q)
<1>1. t \in Seq(T) /\ rest \in Seq(T)
  BY HeadTailProperties
<1>2. q = t \o rest
  <2>1. rest \in Seq(T) /\ Len(rest) = Len(q) - 1 /\ \A i \in 1 .. Len(rest) : rest[i] = q[i+1]
    BY HeadTailProperties
  <2>2. Len(q) \in Nat \ {0} /\ t \in Seq(T) /\ Len(t) = 1 /\ t[1] = q[1]
    BY EmptySeq, <1>1
  <2> HIDE DEF t, rest
  <2>3. t \o rest \in Seq(T) /\ Len(t \o rest) = Len(t) + Len(rest)
    BY <1>1, ConcatProperties
  <2>4. /\ \A n \in 1 .. Len(t) : (t \o rest)[n] = t[n]
        /\ \A n \in 1 .. Len(rest) : (t \o rest)[Len(t) + n] = rest[n]
    BY <1>1, ConcatAt
  <2>5. Len(t) + Len(rest) = Len(q)
    BY <2>1, <2>2
  <2>6. ASSUME NEW n \in 1 .. Len(q) PROVE q[n] = (t \o rest)[n]
    <3>1. CASE n = 1
      <4>1. 1 \in 1 .. Len(t)
        BY <2>2
      <4>2. (t \o rest)[1] = t[1]
        BY <2>4, <4>1
      <4> QED BY <2>2, <3>1, <4>2
    <3>2. CASE n # 1
      <4> DEFINE k == n - 1
      <4>1. k \in 1 .. Len(rest) /\ 1 + k = n /\ k + 1 = n
        BY <2>1, <2>2, <3>2
      <4> HIDE DEF k
      <4>2. (t \o rest)[1 + k] = rest[k] /\ rest[k] = q[k + 1]
        BY <2>1, <2>2, <2>4, <4>1
      <4> QED BY <4>1, <4>2
    <3> QED BY <3>1, <3>2
  <2> QED BY <2>3, <2>5, <2>6, SeqEqual
<1> HIDE DEF rest
<1>3. CountIn(t, P) = IF Head(q) \in P THEN 1 ELSE 0
  BY CountOne
<1> HIDE DEF t
<1>4. CountIn(t \o rest, P) = CountIn(t, P) + CountIn(rest, P)
  BY <1>1, CountConcat
<1>5. CountIn(rest, P) \in Nat
  BY <1>1, CountIsNumber
<1>6. CountIn(q, P) = CountIn(t, P) + CountIn(rest, P)
  BY <1>2, <1>4
<1> QED BY <1>3, <1>5, <1>6 DEF rest
=============================================================================
