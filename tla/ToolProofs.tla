----------------------------- MODULE ToolProofs -----------------------------
(***************************************************************************)
(* What MCTools checks on small instances, for any number of items,        *)
(* strokes, inputs, readers, processes, threads and images: every stroke   *)
(* and its count, every input of the command line, the making of engines,  *)
(* the cache of built models, the store behind the timelines and the       *)
(* recipes of cut-outs.  Each part has its invariant and one lemma for     *)
(* each of its steps; the theorems come last.                              *)
(***************************************************************************)
EXTENDS MCTools, CollectionTheorems, TLAPS

----------------------------------------------------------------------------
(* Erasing                                                                 *)

SdStroke == [item : Items, gen : 1 .. MaxStrokes, engine : Engines \cap {"sd"}]
Letters == [type : {"Cancel", "Release"}] \cup [type : {"Dispatch"}, stroke : SdStroke]

\* What is of item i: its helpers, its strokes, the answers on them, the letters
\* that dispatch them.
HelpsOn(i) == {s \in helpers : s.item = i}
Of(i)   == {s \in Stroke : s.item = i}
Told(i) == {e \in Answers : e.stroke.item = i}
Sent(i) == {m \in Letters : m.type = "Dispatch" /\ m.stroke.item = i}
Entry(i) == IF i \in Owed THEN 1 ELSE 0

EraseTypes ==
    /\ EraseTypeOK
    /\ mail \in Seq(Letters) /\ IsFiniteSet(helpers) /\ strokes \in 0 .. MaxStrokes
    /\ {queued, given} \subseteq Seq(SdStroke)
    /\ Owed # {} => "sd" \in Engines

\* Strokes are numbered per item, and an item has no more of them than were dispatched.
Numbered ==
    /\ \A i \in Items : latest[i] <= strokes /\ pending[i] <= latest[i]
    /\ \A s \in helpers : s.gen <= latest[s.item]

\* One answer is to come for each stroke that is counted.
Answered ==
    \A i \in Items : pending[i] = Cardinality(HelpsOn(i)) + CountIn(mail, Sent(i))
                                  + CountIn(replies, Told(i)) + CountIn(inbox, Told(i)) + Entry(i)

\* An item has one "sd" stroke at a time on its way to the bridge, or with it.
SdHelpsOn(i) == {s \in helpers : s.item = i /\ s.engine = "sd"}
OneAtATime == \A i \in Items : Cardinality(SdHelpsOn(i)) + CountIn(mail, Sent(i)) + Entry(i) <= 1

\* What the child holds is what the bridge has an entry for.
InHands ==
    /\ \A i \in Items : CountIn(given, Of(i)) + CountIn(said, Told(i)) <= Entry(i)
    /\ \A s \in Range(given) \cup {e.stroke : e \in Range(said)} : gens[s.item] = s.gen
    /\ sub = "Spawning" /\ ~doomed =>
          /\ \A i \in Items : CountIn(queued, Of(i)) <= Entry(i)
          /\ \A s \in Range(queued) : gens[s.item] = s.gen

\* An item in flight has the flag of its latest stroke.
FlagsFresh == \A i \in Items : InFlight(i) => flagOf[i] = latest[i]

\* An answer that brings a result names its stroke's generation, and a run is of
\* the latest one.
Truthful(e) == e.res = "ok" => e.gen = e.stroke.gen
Named ==
    /\ \A e \in Range(inbox) \cup Range(replies) \cup Range(said) : Truthful(e)
    /\ \A i \in Items : job[i] # NoRun => job[i].gen = latest[i] /\ latest[i] > 0

EraseInv == EraseTypes /\ Numbered /\ Answered /\ OneAtATime /\ InHands /\ FlagsFresh /\ Named

\* No other letter than a dispatch is of an item.
LEMMA SentIs == \A i \in Items : Cancel \notin Sent(i) /\ [type |-> "Release"] \notin Sent(i)
BY DEF Sent, Cancel

\* What the user does besides erasing.
LEMMA UserKeeps ==
    ASSUME EraseInv, NEW row \in Seq({Cancel, [type |-> "Release"]}), mail' = mail \o row,
           flagged' \subseteq Items \X (1 .. MaxStrokes), version' \in [Items -> Nat],
           job' \in [Items -> [gen : 0 .. MaxStrokes, version : Nat]], \A i \in Items : job'[i] \in {NoRun, job[i]},
           UNCHANGED <<latest, pending, flagOf, inbox, shown, helpers, replies, bridgeVars, childVars, strokes>>
    PROVE  EraseInv'
<1>1. EraseTypes'
  <2>1. row \in Seq(Letters)
    <3>1. {Cancel, [type |-> "Release"]} \subseteq Letters
      BY DEF Letters, Cancel
    <3> QED BY <3>1
  <2>2. mail' \in Seq(Letters)
    BY <2>1, ConcatProperties DEF EraseInv, EraseTypes
  <2>4. EraseTypeOK'
    BY DEF EraseInv, EraseTypes, EraseTypeOK, bridgeVars, childVars
  <2> QED BY <2>2, <2>4 DEF EraseInv, EraseTypes, Owed, bridgeVars, childVars
<1>2. \A i \in Items : CountIn(mail', Sent(i)) = CountIn(mail, Sent(i))
  <2> SUFFICES ASSUME NEW i \in Items PROVE CountIn(mail', Sent(i)) = CountIn(mail, Sent(i))
    OBVIOUS
  <2>1. row \in Seq(Letters) /\ mail \in Seq(Letters)
    <3>1. {Cancel, [type |-> "Release"]} \subseteq Letters
      BY DEF Letters, Cancel
    <3>2. row \in Seq(Letters)
      BY <3>1
    <3> QED BY <3>2 DEF EraseInv, EraseTypes
  <2>2. CountIn(mail \o row, Sent(i)) = CountIn(mail, Sent(i)) + CountIn(row, Sent(i))
    BY <2>1, CountConcat
  <2>3. Range(row) \cap Sent(i) = {}
    <3>1. \A n \in DOMAIN row : row[n] \in {Cancel, [type |-> "Release"]}
      BY ElementOfSeq, LenProperties
    <3> QED BY <3>1, SentIs DEF Range
  <2>4. CountIn(row, Sent(i)) = 0 /\ CountIn(mail, Sent(i)) \in Nat
    BY <2>1, <2>3, CountIsNumber
  <2> QED BY <2>2, <2>4
<1>3. Answered' /\ OneAtATime'
  BY <1>2 DEF EraseInv, Answered, OneAtATime, HelpsOn, SdHelpsOn, Entry, Owed, bridgeVars
<1>4. Numbered' /\ InHands' /\ FlagsFresh'
  BY DEF EraseInv, Numbered, InHands, FlagsFresh, InFlight, Entry, Owed, bridgeVars, childVars
<1>5. Named'
  BY DEF EraseInv, Named, childVars
<1> QED BY <1>1, <1>3, <1>4, <1>5 DEF EraseInv

\* The flags that a cancel sets are of strokes (cancel_inpaint_for).
LEMMA FlagTyped ==
    ASSUME EraseInv, NEW S \in SUBSET Items, Flag(S) PROVE flagged' \subseteq Items \X (1 .. MaxStrokes)
<1>1. flagOf \in [Items -> 0 .. MaxStrokes] /\ flagged \subseteq Items \X (1 .. MaxStrokes)
  BY DEF EraseInv, EraseTypes, EraseTypeOK
<1>2. MaxStrokes \in Nat
  BY EraseAssumption
<1>3. \A i \in Items : flagOf[i] # 0 => <<i, flagOf[i]>> \in Items \X (1 .. MaxStrokes)
  BY <1>1, <1>2
<1> QED BY <1>1, <1>3 DEF Flag

\* What the user's steps need of the invariant's types.
LEMMA ErasePresent ==
    ASSUME EraseInv
    PROVE  /\ mail \in Seq(Letters) /\ flagged \subseteq Items \X (1 .. MaxStrokes) /\ version \in [Items -> Nat]
           /\ job \in [Items -> [gen : 0 .. MaxStrokes, version : Nat]]
           /\ NoRun \in [gen : 0 .. MaxStrokes, version : Nat]
BY EraseAssumption DEF EraseInv, EraseTypes, EraseTypeOK, NoRun

\* A step of the user that sends nothing.
LEMMA NoLetter == ASSUME EraseInv PROVE <<>> \in Seq({Cancel, [type |-> "Release"]}) /\ mail = mail \o <<>>
<1>1. <<>> \in Seq({Cancel, [type |-> "Release"]})
  BY EmptySeq
<1>2. mail \in Seq(Letters)
  BY ErasePresent
<1> QED BY <1>1, <1>2, ConcatEmptySeq

\* A step of the user that sends one letter.
LEMMA OneLetter ==
    ASSUME EraseInv, NEW m \in {Cancel, [type |-> "Release"]}
    PROVE  <<m>> \in Seq({Cancel, [type |-> "Release"]}) /\ Append(mail, m) = mail \o <<m>>
<1>1. mail \in Seq(Letters) /\ m \in Letters
  BY ErasePresent DEF Letters, Cancel
<1>2. Append(mail, m) = mail \o <<m>>
  BY <1>1, AppendIsConcat
<1> QED BY <1>2

\* cancel_inpaint_for.
LEMMA CancelItemKeeps == ASSUME EraseInv, NEW i \in Items, CancelItem(i) PROVE EraseInv'
<1>1. flagged' \subseteq Items \X (1 .. MaxStrokes)
  BY FlagTyped DEF CancelItem
<1>2. mail' = mail \o <<Cancel>> /\ <<Cancel>> \in Seq({Cancel, [type |-> "Release"]})
  BY OneLetter DEF CancelItem
<1> QED BY <1>1, <1>2, ErasePresent, UserKeeps DEF CancelItem, UserStep

\* release_inpaint_subprocess.
LEMMA SwitchModelKeeps == ASSUME EraseInv, SwitchModel PROVE EraseInv'
<1> DEFINE m == [type |-> "Release"]
<1>2. mail' = mail \o <<m>> /\ <<m>> \in Seq({Cancel, [type |-> "Release"]})
  BY OneLetter DEF SwitchModel
<1> QED BY <1>2, ErasePresent, UserKeeps DEF SwitchModel, UserStep

\* commit, under a run.
LEMMA EditItemKeeps == ASSUME EraseInv, NEW i \in Items, EditItem(i) PROVE EraseInv'
<1>1. version' \in [Items -> Nat]
  BY ErasePresent DEF EditItem
<1>2. mail' = mail \o <<>>
  BY NoLetter DEF EditItem
<1> QED BY <1>1, <1>2, NoLetter, ErasePresent, UserKeeps DEF EditItem, UserStep

\* step_targets.
LEMMA UndoItemKeeps == ASSUME EraseInv, NEW i \in Items, UndoItem(i) PROVE EraseInv'
<1>1. version' \in [Items -> Nat] /\ job' \in [Items -> [gen : 0 .. MaxStrokes, version : Nat]]
      /\ \A j \in Items : job'[j] \in {NoRun, job[j]}
  BY ErasePresent DEF UndoItem
<1>2. flagged' \subseteq Items \X (1 .. MaxStrokes)
  BY FlagTyped, ErasePresent DEF UndoItem
<1>3. \E row \in Seq({Cancel, [type |-> "Release"]}) : mail' = mail \o row
  BY OneLetter, NoLetter DEF UndoItem
<1> QED BY <1>1, <1>2, <1>3, UserKeeps DEF UndoItem, UserStep

\* cancel_all_inpaints.
LEMMA CancelAllItemsKeeps == ASSUME EraseInv, CancelAllItems PROVE EraseInv'
<1> DEFINE noted == {i \in Items : flagOf[i] # 0}
           row == [n \in 1 .. Cardinality(noted) |-> Cancel]
<1>1. flagged' \subseteq Items \X (1 .. MaxStrokes)
  BY FlagTyped DEF CancelAllItems
<1>2. Cardinality(noted) \in Nat
  BY EraseAssumption, FS_Subset, FS_CardinalityType
<1>3. mail' = mail \o row
  BY DEF CancelAllItems
<1> HIDE DEF noted
<1>4. row \in Seq({Cancel, [type |-> "Release"]})
  BY <1>2
<1> HIDE DEF row
<1> QED BY <1>1, <1>3, <1>4, ErasePresent, UserKeeps DEF CancelAllItems, UserStep

\* The helpers on an item are counted.
LEMMA HelpersCounted ==
    ASSUME EraseInv, NEW i \in Items
    PROVE  /\ IsFiniteSet(HelpsOn(i)) /\ Cardinality(HelpsOn(i)) \in Nat
           /\ IsFiniteSet(SdHelpsOn(i)) /\ Cardinality(SdHelpsOn(i)) \in Nat
           /\ Cardinality(SdHelpsOn(i)) <= Cardinality(HelpsOn(i))
           /\ SdHelpsOn(i) = {} <=> Cardinality(SdHelpsOn(i)) = 0
<1>1. IsFiniteSet(helpers)
  BY DEF EraseInv, EraseTypes
<1>2. IsFiniteSet(HelpsOn(i))
  BY <1>1, FS_Subset DEF HelpsOn
<1>3. SdHelpsOn(i) \subseteq HelpsOn(i)
  BY DEF HelpsOn, SdHelpsOn
<1> QED BY <1>2, <1>3, FS_Subset, FS_CardinalityType, FS_EmptySet

\* The strokes and answers of an item are counted.
LEMMA LettersCounted ==
    ASSUME EraseInv, NEW i \in Items
    PROVE  /\ CountIn(mail, Sent(i)) \in Nat /\ CountIn(replies, Told(i)) \in Nat
           /\ CountIn(inbox, Told(i)) \in Nat /\ Entry(i) \in {0, 1}
           /\ CountIn(given, Of(i)) \in Nat /\ CountIn(said, Told(i)) \in Nat /\ CountIn(queued, Of(i)) \in Nat
<1>1. mail \in Seq(Letters) /\ {inbox, replies, said} \subseteq Seq(Answers) /\ {queued, given} \subseteq Seq(SdStroke)
  BY DEF EraseInv, EraseTypes, EraseTypeOK
<1>2. CountIn(mail, Sent(i)) \in Nat
  BY <1>1, CountIsNumber
<1>3. CountIn(replies, Told(i)) \in Nat
  BY <1>1, CountIsNumber
<1>4. CountIn(inbox, Told(i)) \in Nat
  BY <1>1, CountIsNumber
<1>5. CountIn(said, Told(i)) \in Nat
  BY <1>1, CountIsNumber
<1>6. CountIn(given, Of(i)) \in Nat
  BY <1>1, CountIsNumber
<1>7. CountIn(queued, Of(i)) \in Nat
  BY <1>1, CountIsNumber
<1> QED BY <1>2, <1>3, <1>4, <1>5, <1>6, <1>7 DEF Entry

\* dispatch_inpaint: the stroke is new, and the only "sd" one of its item.
LEMMA EraseItemKeeps ==
    ASSUME "sd" \notin Overlapping, EraseInv, NEW i \in Items, NEW e \in Engines, EraseItem(i, e)
    PROVE  EraseInv'
<1> DEFINE gen == latest[i] + 1
           h == [item |-> i, gen |-> gen, engine |-> e]
<1>1. /\ latest \in [Items -> 0 .. MaxStrokes] /\ pending \in [Items -> 0 .. MaxStrokes]
      /\ flagOf \in [Items -> 0 .. MaxStrokes] /\ version \in [Items -> Nat]
      /\ job \in [Items -> [gen : 0 .. MaxStrokes, version : Nat]]
      /\ helpers \subseteq Stroke /\ IsFiniteSet(helpers) /\ strokes \in 0 .. MaxStrokes /\ MaxStrokes \in Nat
  BY EraseAssumption DEF EraseInv, EraseTypes, EraseTypeOK
<1>2. latest[i] <= strokes /\ pending[i] <= latest[i] /\ strokes < MaxStrokes
      /\ \A s \in helpers : s.gen <= latest[s.item]
  BY DEF EraseInv, Numbered, EraseItem
<1>3. gen \in 1 .. MaxStrokes /\ gen > latest[i] /\ gen <= strokes + 1
  BY <1>1, <1>2
<1>4. h \in Stroke /\ h \notin helpers
  BY <1>1, <1>2, <1>3 DEF Stroke
<1>5. /\ helpers' = helpers \cup {h} /\ strokes' = strokes + 1
      /\ latest' = [latest EXCEPT ![i] = gen] /\ flagOf' = [flagOf EXCEPT ![i] = gen]
      /\ job' = [job EXCEPT ![i] = [gen |-> gen, version |-> version[i]]]
      /\ pending' = [pending EXCEPT ![i] = pending[i] + 1]
      /\ UNCHANGED <<flagged, inbox, version, shown, mail, replies, bridgeVars, childVars>>
  BY DEF EraseItem
<1> HIDE DEF gen
<1>6. EraseTypes'
  <2>1. /\ latest' \in [Items -> 0 .. MaxStrokes] /\ pending' \in [Items -> 0 .. MaxStrokes]
        /\ flagOf' \in [Items -> 0 .. MaxStrokes] /\ job' \in [Items -> [gen : 0 .. MaxStrokes, version : Nat]]
    BY <1>1, <1>2, <1>3, <1>5
  <2>2. helpers' \subseteq Stroke /\ IsFiniteSet(helpers') /\ strokes' \in 0 .. MaxStrokes
    <3>1. IsFiniteSet(helpers \cup {h})
      BY <1>1, FS_AddElement
    <3> HIDE DEF h
    <3> QED BY <3>1, <1>1, <1>2, <1>4, <1>5
  <2>3. EraseTypeOK'
    <3>1. UNCHANGED <<flagged, inbox, version, shown, replies, sub, queued, doomed, spawned, gens, alive, given, said, counted>>
      BY <1>5 DEF bridgeVars, childVars
    <3> QED BY <3>1, <2>1, <2>2 DEF EraseInv, EraseTypes, EraseTypeOK
  <2> QED BY <1>5, <2>2, <2>3 DEF EraseInv, EraseTypes, Owed, bridgeVars, childVars
<1>7. Numbered'
  <2>1. \A s \in helpers : s.item \in Items /\ latest[s.item] \in Nat /\ s.gen \in Nat
    BY <1>1 DEF Stroke
  <2>2. \A j \in Items : latest'[j] <= strokes' /\ pending'[j] <= latest'[j]
    BY <1>1, <1>2, <1>3, <1>5 DEF EraseInv, Numbered, gen
  <2>3. \A s \in helpers' : s.gen <= latest'[s.item]
    BY <1>1, <1>2, <1>3, <1>5, <2>1
  <2> QED BY <2>2, <2>3 DEF Numbered
<1>8. \A j \in Items : Cardinality(HelpsOn(j)') = Cardinality(HelpsOn(j)) + (IF j = i THEN 1 ELSE 0)
  <2> SUFFICES ASSUME NEW j \in Items PROVE Cardinality(HelpsOn(j)') = Cardinality(HelpsOn(j)) + (IF j = i THEN 1 ELSE 0)
    OBVIOUS
  <2>1. HelpsOn(j)' = IF j = i THEN HelpsOn(j) \cup {h} ELSE HelpsOn(j)
    BY <1>5 DEF HelpsOn
  <2>2. h \notin HelpsOn(j)
    BY <1>4 DEF HelpsOn
  <2> HIDE DEF h
  <2>3. Cardinality(HelpsOn(j) \cup {h}) = Cardinality(HelpsOn(j)) + 1
    BY <2>2, HelpersCounted, FS_AddElement
  <2> QED BY <2>1, <2>3, HelpersCounted
<1>9. \A j \in Items : Cardinality(SdHelpsOn(j)') = Cardinality(SdHelpsOn(j)) + (IF j = i /\ e = "sd" THEN 1 ELSE 0)
  <2> SUFFICES ASSUME NEW j \in Items
               PROVE  Cardinality(SdHelpsOn(j)') = Cardinality(SdHelpsOn(j)) + (IF j = i /\ e = "sd" THEN 1 ELSE 0)
    OBVIOUS
  <2>1. SdHelpsOn(j)' = IF j = i /\ e = "sd" THEN SdHelpsOn(j) \cup {h} ELSE SdHelpsOn(j)
    BY <1>5 DEF SdHelpsOn
  <2>2. h \notin SdHelpsOn(j)
    BY <1>4 DEF SdHelpsOn
  <2> HIDE DEF h
  <2>3. Cardinality(SdHelpsOn(j) \cup {h}) = Cardinality(SdHelpsOn(j)) + 1
    BY <2>2, HelpersCounted, FS_AddElement
  <2> QED BY <2>1, <2>3, HelpersCounted
<1>10. \A j \in Items : Entry(j)' = Entry(j)
  BY <1>5 DEF Entry, Owed, bridgeVars
<1>11. Answered'
  <2> SUFFICES ASSUME NEW j \in Items
               PROVE  pending'[j] = Cardinality(HelpsOn(j)') + CountIn(mail, Sent(j))
                                    + CountIn(replies, Told(j)) + CountIn(inbox, Told(j)) + Entry(j)
    BY <1>5, <1>10 DEF Answered
  <2>1. pending'[j] = pending[j] + (IF j = i THEN 1 ELSE 0)
    BY <1>1, <1>5
  <2> QED BY <2>1, <1>8, HelpersCounted, LettersCounted DEF EraseInv, Answered
<1>12. OneAtATime'
  <2> SUFFICES ASSUME NEW j \in Items
               PROVE  Cardinality(SdHelpsOn(j)') + CountIn(mail, Sent(j)) + Entry(j) <= 1
    BY <1>5, <1>10 DEF OneAtATime
  <2>1. CASE j = i /\ e = "sd"
    <3>1. pending[j] = 0
      BY <1>1, <2>1 DEF EraseItem, InFlight
    <3>2. pending[j] = Cardinality(HelpsOn(j)) + CountIn(mail, Sent(j))
                       + CountIn(replies, Told(j)) + CountIn(inbox, Told(j)) + Entry(j)
      BY DEF EraseInv, Answered
    <3>3. Cardinality(HelpsOn(j)) \in Nat /\ Cardinality(SdHelpsOn(j)) \in Nat
          /\ Cardinality(SdHelpsOn(j)) <= Cardinality(HelpsOn(j))
      BY HelpersCounted
    <3>4. Cardinality(SdHelpsOn(j)) = 0 /\ CountIn(mail, Sent(j)) = 0 /\ Entry(j) = 0
      <4>1. /\ CountIn(mail, Sent(j)) \in Nat /\ CountIn(replies, Told(j)) \in Nat
            /\ CountIn(inbox, Told(j)) \in Nat /\ Entry(j) \in Nat
        BY LettersCounted
      <4>2. Cardinality(HelpsOn(j)) = 0
        BY <3>1, <3>2, <3>3, <4>1
      <4>3. CountIn(mail, Sent(j)) = 0
        BY <3>1, <3>2, <3>3, <4>1
      <4>4. Entry(j) <= 0
        BY <3>1, <3>2, <3>3, <4>1
      <4> QED BY <3>3, <4>1, <4>2, <4>3, <4>4
    <3> QED BY <3>4, <2>1, <1>9
  <2>2. CASE ~(j = i /\ e = "sd")
    BY <2>2, <1>9, HelpersCounted, LettersCounted DEF EraseInv, OneAtATime
  <2> QED BY <2>1, <2>2
<1>13. InHands'
  BY <1>5 DEF EraseInv, InHands, Entry, Owed, bridgeVars, childVars
<1>14. FlagsFresh' /\ Named'
  <2>1. FlagsFresh'
    BY <1>1, <1>5 DEF EraseInv, FlagsFresh, InFlight
  <2>2. \A j \in Items : job'[j] # NoRun => job'[j].gen = latest'[j] /\ latest'[j] > 0
    BY <1>1, <1>3, <1>5 DEF EraseInv, Named
  <2>3. \A x \in Range(inbox') \cup Range(replies') \cup Range(said') : Truthful(x)
    BY <1>5 DEF EraseInv, Named, childVars
  <2> QED BY <2>1, <2>2, <2>3 DEF Named
<1> QED BY <1>6, <1>7, <1>11, <1>12, <1>13, <1>14 DEF EraseInv

\* A helper that ends is one less on its item.
LEMMA HelperLeaves ==
    ASSUME EraseInv, NEW s \in helpers, helpers' = helpers \ {s}, NEW i \in Items
    PROVE  /\ IsFiniteSet(helpers')
           /\ Cardinality(HelpsOn(i)') = Cardinality(HelpsOn(i)) - (IF i = s.item THEN 1 ELSE 0)
           /\ Cardinality(SdHelpsOn(i)') = Cardinality(SdHelpsOn(i)) - (IF i = s.item /\ s.engine = "sd" THEN 1 ELSE 0)
<1>1. IsFiniteSet(helpers')
  BY FS_Subset DEF EraseInv, EraseTypes
<1>2. HelpsOn(i)' = IF i = s.item THEN HelpsOn(i) \ {s} ELSE HelpsOn(i)
  BY DEF HelpsOn
<1>3. SdHelpsOn(i)' = IF i = s.item /\ s.engine = "sd" THEN SdHelpsOn(i) \ {s} ELSE SdHelpsOn(i)
  BY DEF SdHelpsOn
<1>4. i = s.item => Cardinality(HelpsOn(i) \ {s}) = Cardinality(HelpsOn(i)) - 1
  <2>1. i = s.item => s \in HelpsOn(i)
    BY DEF HelpsOn
  <2> QED BY <2>1, HelpersCounted, FS_RemoveElement
<1>5. i = s.item /\ s.engine = "sd" => Cardinality(SdHelpsOn(i) \ {s}) = Cardinality(SdHelpsOn(i)) - 1
  <2>1. i = s.item /\ s.engine = "sd" => s \in SdHelpsOn(i)
    BY DEF SdHelpsOn
  <2> QED BY <2>1, HelpersCounted, FS_RemoveElement
<1>6. Cardinality(HelpsOn(i)) \in Nat /\ Cardinality(SdHelpsOn(i)) \in Nat
  BY HelpersCounted
<1> QED BY <1>1, <1>2, <1>3, <1>4, <1>5, <1>6

\* A helper that ends: its stroke goes to the bridge, or its answer to the GUI.
LEMMA HelperKeeps ==
    ASSUME EraseInv, NEW s \in helpers, Helps(s),
           \/ /\ s.engine = "sd" /\ mail' = Append(mail, [type |-> "Dispatch", stroke |-> s]) /\ inbox' = inbox
           \/ /\ \E a \in Answers : a.stroke = s /\ Truthful(a) /\ inbox' = Append(inbox, a)
              /\ mail' = mail
    PROVE  EraseInv'
<1> DEFINE letter == [type |-> "Dispatch", stroke |-> s]
<1>1. /\ helpers' = helpers \ {s}
      /\ UNCHANGED <<latest, pending, flagOf, flagged, version, job, shown, replies, bridgeVars, childVars, strokes>>
  BY DEF Helps
<1>2. s \in Stroke /\ s.item \in Items /\ mail \in Seq(Letters) /\ inbox \in Seq(Answers)
  BY DEF EraseInv, EraseTypes, EraseTypeOK, Stroke
<1>3. \A i \in Items : Entry(i)' = Entry(i)
  BY <1>1 DEF Entry, Owed, bridgeVars
<1>4. s.engine = "sd" => letter \in Letters
  BY <1>2 DEF Letters, SdStroke, Stroke
<1>5. mail' \in Seq(Letters) /\ inbox' \in Seq(Answers)
  <2> HIDE DEF letter
  <2>1. CASE s.engine = "sd" /\ mail' = Append(mail, letter) /\ inbox' = inbox
    BY <1>2, <1>4, <2>1, AppendProperties
  <2>2. CASE /\ \E a \in Answers : a.stroke = s /\ Truthful(a) /\ inbox' = Append(inbox, a)
             /\ mail' = mail
    BY <1>2, <2>2, AppendProperties
  <2> QED BY <2>1, <2>2 DEF letter
<1>6. EraseTypes'
  <2>1. EraseTypeOK'
    BY <1>1, <1>5 DEF EraseInv, EraseTypes, EraseTypeOK, bridgeVars, childVars
  <2>2. IsFiniteSet(helpers')
    BY <1>1, <1>2, HelperLeaves
  <2> QED BY <1>1, <1>5, <2>1, <2>2 DEF EraseInv, EraseTypes, Owed, bridgeVars, childVars
<1>7. Numbered' /\ InHands' /\ FlagsFresh'
  BY <1>1 DEF EraseInv, Numbered, InHands, FlagsFresh, InFlight, Entry, Owed, bridgeVars, childVars
<1>8. Named'
  <2>1. CASE inbox' = inbox
    BY <1>1, <2>1 DEF EraseInv, Named, childVars
  <2>2. ASSUME NEW a \in Answers, Truthful(a), inbox' = Append(inbox, a) PROVE Named'
    <3>1. Range(inbox') = Range(inbox) \cup {a}
      BY <1>2, <2>2, AppendItems
    <3> QED BY <1>1, <2>2, <3>1 DEF EraseInv, Named, childVars
  <2> QED BY <2>1, <2>2
<1>9. ASSUME NEW i \in Items
      PROVE  \/ /\ s.engine = "sd" /\ CountIn(mail', Sent(i)) = CountIn(mail, Sent(i)) + (IF i = s.item THEN 1 ELSE 0)
                /\ CountIn(inbox', Told(i)) = CountIn(inbox, Told(i))
             \/ /\ CountIn(inbox', Told(i)) = CountIn(inbox, Told(i)) + (IF i = s.item THEN 1 ELSE 0)
                /\ CountIn(mail', Sent(i)) = CountIn(mail, Sent(i))
  <2>1. CASE s.engine = "sd" /\ mail' = Append(mail, letter) /\ inbox' = inbox
    <3>1. letter \in Sent(i) <=> i = s.item
      BY <1>4, <2>1 DEF Sent
    <3> HIDE DEF letter
    <3>2. CountIn(Append(mail, letter), Sent(i)) = CountIn(mail, Sent(i)) + (IF letter \in Sent(i) THEN 1 ELSE 0)
      BY <1>2, <1>4, <2>1, CountAppend
    <3> QED BY <2>1, <3>1, <3>2
  <2>2. ASSUME NEW a \in Answers, a.stroke = s, inbox' = Append(inbox, a), mail' = mail
        PROVE  /\ CountIn(inbox', Told(i)) = CountIn(inbox, Told(i)) + (IF i = s.item THEN 1 ELSE 0)
               /\ CountIn(mail', Sent(i)) = CountIn(mail, Sent(i))
    <3>1. a \in Told(i) <=> i = s.item
      BY <2>2 DEF Told
    <3>2. CountIn(Append(inbox, a), Told(i)) = CountIn(inbox, Told(i)) + (IF a \in Told(i) THEN 1 ELSE 0)
      BY <1>2, CountAppend
    <3> QED BY <2>2, <3>1, <3>2
  <2> QED BY <2>1, <2>2
<1>10. Answered' /\ OneAtATime'
  <2> SUFFICES ASSUME NEW i \in Items
               PROVE  /\ pending[i] = Cardinality(HelpsOn(i)') + CountIn(mail', Sent(i))
                                    + CountIn(replies, Told(i)) + CountIn(inbox', Told(i)) + Entry(i)
                      /\ Cardinality(SdHelpsOn(i)') + CountIn(mail', Sent(i)) + Entry(i) <= 1
    BY <1>1, <1>3 DEF Answered, OneAtATime
  <2> DEFINE one == IF i = s.item THEN 1 ELSE 0
  <2>1. /\ Cardinality(HelpsOn(i)') = Cardinality(HelpsOn(i)) - one
        /\ Cardinality(SdHelpsOn(i)') = Cardinality(SdHelpsOn(i)) - (IF s.engine = "sd" THEN one ELSE 0)
    BY <1>1, HelperLeaves
  <2>2. Cardinality(HelpsOn(i)) \in Nat /\ Cardinality(SdHelpsOn(i)) \in Nat
    BY HelpersCounted
  <2>3. /\ CountIn(mail, Sent(i)) \in Nat /\ CountIn(replies, Told(i)) \in Nat
        /\ CountIn(inbox, Told(i)) \in Nat /\ Entry(i) \in Nat
    BY LettersCounted
  <2>4. /\ pending[i] = Cardinality(HelpsOn(i)) + CountIn(mail, Sent(i))
                        + CountIn(replies, Told(i)) + CountIn(inbox, Told(i)) + Entry(i)
        /\ Cardinality(SdHelpsOn(i)) + CountIn(mail, Sent(i)) + Entry(i) <= 1
    BY DEF EraseInv, Answered, OneAtATime
  <2>5. one \in {0, 1}
    OBVIOUS
  <2> HIDE DEF one
  <2>6. \/ /\ s.engine = "sd" /\ CountIn(mail', Sent(i)) = CountIn(mail, Sent(i)) + one
           /\ CountIn(inbox', Told(i)) = CountIn(inbox, Told(i))
        \/ /\ CountIn(inbox', Told(i)) = CountIn(inbox, Told(i)) + one
           /\ CountIn(mail', Sent(i)) = CountIn(mail, Sent(i))
    BY <1>9 DEF one
  <2>7. CASE /\ s.engine = "sd" /\ CountIn(mail', Sent(i)) = CountIn(mail, Sent(i)) + one
             /\ CountIn(inbox', Told(i)) = CountIn(inbox, Told(i))
    <3>1. Cardinality(SdHelpsOn(i)') = Cardinality(SdHelpsOn(i)) - one /\ Cardinality(SdHelpsOn(i)') \in Int
      BY <2>1, <2>2, <2>5, <2>7
    <3>2. Cardinality(SdHelpsOn(i)') + CountIn(mail', Sent(i)) + Entry(i) <= 1
      BY <2>2, <2>3, <2>4, <2>5, <2>7, <3>1
    <3>3. pending[i] = Cardinality(HelpsOn(i)') + CountIn(mail', Sent(i))
                       + CountIn(replies, Told(i)) + CountIn(inbox', Told(i)) + Entry(i)
      BY <2>1, <2>2, <2>3, <2>4, <2>5, <2>7
    <3> QED BY <3>2, <3>3
  <2>8. CASE /\ CountIn(inbox', Told(i)) = CountIn(inbox, Told(i)) + one
             /\ CountIn(mail', Sent(i)) = CountIn(mail, Sent(i))
    <3>1. Cardinality(SdHelpsOn(i)') <= Cardinality(SdHelpsOn(i)) /\ Cardinality(SdHelpsOn(i)') \in Int
      BY <2>1, <2>2, <2>5
    <3>2. Cardinality(SdHelpsOn(i)') + CountIn(mail', Sent(i)) + Entry(i) <= 1
      BY <2>2, <2>3, <2>4, <2>8, <3>1
    <3>3. pending[i] = Cardinality(HelpsOn(i)') + CountIn(mail', Sent(i))
                       + CountIn(replies, Told(i)) + CountIn(inbox', Told(i)) + Entry(i)
      BY <2>1, <2>2, <2>3, <2>4, <2>5, <2>8
    <3> QED BY <3>2, <3>3
  <2> QED BY <2>6, <2>7, <2>8
<1> QED BY <1>6, <1>7, <1>8, <1>10 DEF EraseInv

\* An answer without a result.
LEMMA FailureIs ==
    ASSUME NEW s \in Stroke, NEW res \in {"err", "cancelled"}
    PROVE  Failure(s, res) \in Answers /\ Failure(s, res).stroke = s /\ Truthful(Failure(s, res))
BY EraseAssumption DEF Failure, Answers, Truthful

\* An answer with a result names its stroke's generation.
LEMMA ReplyIs ==
    ASSUME NEW s \in Stroke
    PROVE  Reply(s, "ok") \in Answers /\ Reply(s, "ok").stroke = s /\ Truthful(Reply(s, "ok"))
BY EraseAssumption DEF Reply, Answers, Truthful, Stroke

\* dispatch_inpaint_sd.
LEMMA EncodeKeeps == ASSUME EraseInv, NEW s \in helpers, Encode(s) PROVE EraseInv'
<1>1. s \in Stroke
  BY DEF EraseInv, EraseTypes, EraseTypeOK
<1> QED BY <1>1, FailureIs, HelperKeeps DEF Encode

\* dispatch_inpaint.
LEMMA PaintKeeps == ASSUME EraseInv, NEW s \in helpers, Paint(s) PROVE EraseInv'
<1>1. s \in Stroke
  BY DEF EraseInv, EraseTypes, EraseTypeOK
<1>2. \E a \in Answers : a.stroke = s /\ Truthful(a) /\ inbox' = Append(inbox, a)
  BY <1>1, FailureIs, ReplyIs DEF Paint
<1> QED BY <1>2, HelperKeeps DEF Paint

\* What the bridge, its mail and its child have.
BridgeTypes ==
    /\ mail \in Seq(Letters) /\ gens \in [Items -> 0 .. MaxStrokes]
    /\ replies \in Seq(Answers) /\ said \in Seq(Answers)
    /\ sub \in {"Idle", "Spawning", "Ready"} /\ spawned \in {"none", "ok", "err"}
    /\ queued \in Seq(SdStroke) /\ given \in Seq(SdStroke)
    /\ counted \subseteq Items /\ doomed \in BOOLEAN /\ alive \in BOOLEAN
    /\ sub # "Spawning" => queued = <<>> /\ spawned = "none"
    /\ sub # "Ready" => ~alive /\ given = <<>> /\ said = <<>> /\ counted = {}
    /\ Owed # {} => "sd" \in Engines

\* The invariant gives the types of what the bridge has.
LEMMA BridgeTyped == EraseInv => BridgeTypes
BY DEF EraseInv, EraseTypes, EraseTypeOK, BridgeTypes

\* What the bridge has of an item is counted.
LEMMA BridgeCounted ==
    ASSUME BridgeTypes, NEW i \in Items
    PROVE  CountIn(mail, Sent(i)) \in Nat /\ CountIn(replies, Told(i)) \in Nat /\ Entry(i) \in Nat
<1>1. CountIn(mail, Sent(i)) \in Nat
  BY CountIsNumber DEF BridgeTypes
<1>2. CountIn(replies, Told(i)) \in Nat
  BY CountIsNumber DEF BridgeTypes
<1> QED BY <1>1, <1>2 DEF Entry

\* What is owed is what was.
SameDebt(i) ==
    /\ CountIn(mail', Sent(i)) + CountIn(replies', Told(i)) + Entry(i)'
           = CountIn(mail, Sent(i)) + CountIn(replies, Told(i)) + Entry(i)
    /\ CountIn(mail', Sent(i)) + Entry(i)' <= CountIn(mail, Sent(i)) + Entry(i)

\* A step of the bridge keeps the invariant if what is owed stays what it was.
LEMMA BridgeKeeps ==
    ASSUME EraseInv, UNCHANGED <<guiVars, helpers, strokes>>, BridgeTypes', InHands',
           \A e \in Range(replies') \cup Range(said') : Truthful(e),
           \A i \in Items : SameDebt(i)
    PROVE  EraseInv'
<1>1. UNCHANGED <<latest, pending, flagOf, flagged, inbox, version, job, shown, helpers, strokes>>
  BY DEF guiVars
<1>2. EraseTypes'
  <2>1. {queued', given'} \subseteq Seq(Stroke)
    <3>1. SdStroke \subseteq Stroke
      BY DEF SdStroke, Stroke
    <3>2. Seq(SdStroke) \subseteq Seq(Stroke)
      BY <3>1
    <3> QED BY <3>2 DEF BridgeTypes
  <2>2. EraseTypeOK'
    BY <1>1, <2>1 DEF EraseInv, EraseTypes, EraseTypeOK, BridgeTypes
  <2> QED BY <1>1, <2>2 DEF EraseInv, EraseTypes, BridgeTypes
<1>3. Numbered' /\ FlagsFresh' /\ Named'
  BY <1>1 DEF EraseInv, Numbered, FlagsFresh, InFlight, Named
<1>4. Answered' /\ OneAtATime'
  <2> SUFFICES ASSUME NEW i \in Items
               PROVE  /\ pending[i] = Cardinality(HelpsOn(i)) + CountIn(mail', Sent(i))
                                    + CountIn(replies', Told(i)) + CountIn(inbox, Told(i)) + Entry(i)'
                      /\ Cardinality(SdHelpsOn(i)) + CountIn(mail', Sent(i)) + Entry(i)' <= 1
    BY <1>1 DEF Answered, OneAtATime, HelpsOn, SdHelpsOn
  <2>1. Cardinality(HelpsOn(i)) \in Nat /\ Cardinality(SdHelpsOn(i)) \in Nat
    BY HelpersCounted
  <2>2. /\ CountIn(mail, Sent(i)) \in Nat /\ CountIn(replies, Told(i)) \in Nat
        /\ CountIn(inbox, Told(i)) \in Nat /\ Entry(i) \in Nat
    BY LettersCounted
  <2>3. CountIn(mail', Sent(i)) \in Nat
    BY CountIsNumber DEF BridgeTypes
  <2>4. CountIn(replies', Told(i)) \in Nat
    BY CountIsNumber DEF BridgeTypes
  <2>5. Entry(i)' \in Nat
    BY DEF Entry
  <2>6. /\ pending[i] = Cardinality(HelpsOn(i)) + CountIn(mail, Sent(i))
                        + CountIn(replies, Told(i)) + CountIn(inbox, Told(i)) + Entry(i)
        /\ Cardinality(SdHelpsOn(i)) + CountIn(mail, Sent(i)) + Entry(i) <= 1
    BY DEF EraseInv, Answered, OneAtATime
  <2>7. /\ CountIn(mail', Sent(i)) + CountIn(replies', Told(i)) + Entry(i)'
             = CountIn(mail, Sent(i)) + CountIn(replies, Told(i)) + Entry(i)
        /\ CountIn(mail', Sent(i)) + Entry(i)' <= CountIn(mail, Sent(i)) + Entry(i)
    BY DEF SameDebt
  <2>8. Cardinality(SdHelpsOn(i)) + CountIn(mail', Sent(i)) + Entry(i)' <= 1
    BY <2>1, <2>2, <2>3, <2>5, <2>6, <2>7
  <2>9. pending[i] = Cardinality(HelpsOn(i)) + CountIn(mail', Sent(i))
                     + CountIn(replies', Told(i)) + CountIn(inbox, Told(i)) + Entry(i)'
    BY <2>1, <2>2, <2>3, <2>4, <2>5, <2>6, <2>7
  <2> QED BY <2>8, <2>9
<1> QED BY <1>2, <1>3, <1>4 DEF EraseInv

\* A letter taken is one less.
LEMMA MailTaken ==
    ASSUME BridgeTypes, mail # <<>>, mail' = Tail(mail), NEW i \in Items
    PROVE  /\ Head(mail) \in Letters /\ mail' \in Seq(Letters)
           /\ CountIn(mail', Sent(i)) \in Nat
           /\ CountIn(mail, Sent(i)) = CountIn(mail', Sent(i)) + (IF Head(mail) \in Sent(i) THEN 1 ELSE 0)
<1>1. mail \in Seq(Letters)
  BY DEF BridgeTypes
<1>2. Head(mail) \in Letters /\ mail' \in Seq(Letters)
  BY <1>1, HeadTailProperties
<1>3. CountIn(mail, Sent(i)) = CountIn(Tail(mail), Sent(i)) + (IF Head(mail) \in Sent(i) THEN 1 ELSE 0)
  BY <1>1, CountTail
<1> QED BY <1>2, <1>3, CountIsNumber

\* The line of what is owed names each of them once.
LEMMA LineOfOwed ==
    ASSUME NEW S, IsFiniteSet(S), NEW f \in [1 .. Cardinality(S) -> S], Distinct(f)
    PROVE  Range(f) = S
<1> DEFINE D == 1 .. Cardinality(S)
<1>1. Cardinality(S) \in Nat
  BY FS_CardinalityType
<1>2. IsFiniteSet(D) /\ Cardinality(D) = Cardinality(S)
  BY <1>1, FS_Interval
<1>3. DOMAIN f = D /\ Range(f) \subseteq S
  BY DEF Range
<1> HIDE DEF D
<1>4. f \in Bijection(D, Range(f))
  <2>1. \A m, n \in D : f[m] = f[n] => m = n
    BY <1>3 DEF Distinct
  <2>2. f \in [D -> Range(f)] /\ \A x \in Range(f) : \E n \in D : f[n] = x
    BY <1>3 DEF Range, D
  <2> QED BY <2>1, <2>2 DEF Bijection, Injection, Surjection, IsInjective
<1>5. Cardinality(Range(f)) = Cardinality(S)
  BY <1>2, <1>4, FS_Bijection DEF ExistsBijection
<1> QED BY <1>3, <1>5, FS_Subset

\* Draining inflight_gens answers each item of it once.
LEMMA DrainPays ==
    ASSUME BridgeTypes, NEW res \in {"err", "cancelled"}, Drain(res)
    PROVE  /\ replies' \in Seq(Answers) /\ gens' \in [Items -> 0 .. MaxStrokes] /\ Owed' = {}
           /\ \A e \in Range(replies') : e \in Range(replies) \/ Truthful(e)
           /\ \A i \in Items : CountIn(replies', Told(i)) = CountIn(replies, Told(i)) + Entry(i)
<1>1. PICK row \in [1 .. Cardinality(Owed) -> Owed] :
           /\ Distinct(row) /\ replies' = replies \o [n \in DOMAIN row |-> Failure(OwedStroke(row[n]), res)]
  BY DEF Drain
<1> DEFINE more == [n \in DOMAIN row |-> Failure(OwedStroke(row[n]), res)]
<1>2. IsFiniteSet(Owed) /\ Cardinality(Owed) \in Nat
  BY EraseAssumption, FS_Subset, FS_CardinalityType DEF Owed
<1>3. DOMAIN row = 1 .. Cardinality(Owed) /\ Range(row) = Owed
  BY <1>1, <1>2, LineOfOwed
<1>4. \A i \in Owed : OwedStroke(i) \in Stroke /\ OwedStroke(i).item = i
  <2> SUFFICES ASSUME NEW i \in Owed PROVE OwedStroke(i) \in Stroke /\ OwedStroke(i).item = i
    OBVIOUS
  <2>1. gens[i] \in 1 .. MaxStrokes /\ "sd" \in Engines /\ i \in Items
    BY EraseAssumption DEF BridgeTypes, Owed
  <2> QED BY <2>1 DEF OwedStroke, Stroke
<1>5. \A n \in DOMAIN row : /\ Failure(OwedStroke(row[n]), res) \in Answers /\ Truthful(Failure(OwedStroke(row[n]), res))
                             /\ Failure(OwedStroke(row[n]), res).stroke.item = row[n]
  BY <1>1, <1>4, FailureIs
<1>6. more \in Seq(Answers) /\ DOMAIN more = DOMAIN row
  BY <1>2, <1>3, <1>5
<1>7. \A e \in Range(more) : Truthful(e)
  BY <1>5 DEF Range
<1>8. replies \in Seq(Answers)
  BY DEF BridgeTypes
<1>9. gens' = [i \in Items |-> 0]
  BY DEF Drain
<1>10. ASSUME NEW i \in Items PROVE CountIn(replies', Told(i)) = CountIn(replies, Told(i)) + Entry(i)
  <2>1. CountIn(more, Told(i)) = Entry(i)
    <3> DEFINE places == PlacesIn(more, Told(i))
    <3>1. \A n \in DOMAIN row : more[n] \in Told(i) <=> row[n] = i
      BY <1>5 DEF Told
    <3>2. places = {n \in DOMAIN row : row[n] = i}
      BY <1>6, <3>1 DEF PlacesIn
    <3>3. CASE i \in Owed
      <4>1. PICK n \in DOMAIN row : row[n] = i
        BY <1>3, <3>3 DEF Range
      <4>2. places = {n}
        BY <1>1, <3>2, <4>1 DEF Distinct
      <4> HIDE DEF places
      <4>3. Cardinality(places) = 1
        BY <4>2, FS_Singleton
      <4> QED BY <3>3, <4>3 DEF CountIn, Entry, places
    <3>4. CASE i \notin Owed
      <4>1. places = {}
        BY <1>3, <3>2, <3>4 DEF Range
      <4> HIDE DEF places
      <4>2. Cardinality(places) = 0
        BY <4>1, FS_EmptySet
      <4> QED BY <3>4, <4>2 DEF CountIn, Entry, places
    <3> QED BY <3>3, <3>4
  <2> HIDE DEF more
  <2>2. CountIn(replies \o more, Told(i)) = CountIn(replies, Told(i)) + CountIn(more, Told(i))
    BY <1>6, <1>8, CountConcat
  <2> QED BY <1>1, <2>1, <2>2 DEF more
<1>11. gens' \in [Items -> 0 .. MaxStrokes] /\ Owed' = {}
  BY <1>9, EraseAssumption DEF Owed
<1>12. replies' = replies \o more
  BY <1>1
<1> HIDE DEF more
<1>13. replies' \in Seq(Answers) /\ Range(replies') = Range(replies) \cup Range(more)
  BY <1>6, <1>8, <1>12, ConcatItems
<1> QED BY <1>7, <1>10, <1>11, <1>13

\* Who has no entry is in nobody's hands.
LEMMA NobodyHolds ==
    ASSUME EraseInv, NEW i \in Items \ Owed
    PROVE  /\ CountIn(given, Of(i)) = 0 /\ CountIn(said, Told(i)) = 0
           /\ \A s \in Range(given) : s.item # i
           /\ \A e \in Range(said) : e.stroke.item # i
           /\ sub = "Spawning" /\ ~doomed => CountIn(queued, Of(i)) = 0 /\ \A s \in Range(queued) : s.item # i
<1>1. BridgeTypes
  BY BridgeTyped
<1>2. CountIn(given, Of(i)) \in Nat /\ (CountIn(given, Of(i)) = 0 <=> Range(given) \cap Of(i) = {})
  BY <1>1, CountIsNumber DEF BridgeTypes
<1>3. CountIn(said, Told(i)) \in Nat /\ (CountIn(said, Told(i)) = 0 <=> Range(said) \cap Told(i) = {})
  BY <1>1, CountIsNumber DEF BridgeTypes
<1>4. CountIn(queued, Of(i)) \in Nat /\ (CountIn(queued, Of(i)) = 0 <=> Range(queued) \cap Of(i) = {})
  BY <1>1, CountIsNumber DEF BridgeTypes
<1>5. Range(given) \subseteq SdStroke /\ Range(said) \subseteq Answers /\ Range(queued) \subseteq SdStroke
  BY <1>1, RangeOfSeq DEF BridgeTypes
<1>6. \A s \in SdStroke : s \in Of(i) <=> s.item = i
  BY DEF Of, SdStroke, Stroke
<1>7. \A e \in Answers : e \in Told(i) <=> e.stroke.item = i
  BY DEF Told
<1>8. Entry(i) = 0
  BY DEF Entry
<1>9. CountIn(given, Of(i)) + CountIn(said, Told(i)) <= 0
  BY <1>8 DEF EraseInv, InHands
<1>10. CountIn(given, Of(i)) = 0 /\ CountIn(said, Told(i)) = 0
  BY <1>2, <1>3, <1>9
<1>11. sub = "Spawning" /\ ~doomed => CountIn(queued, Of(i)) = 0
  BY <1>4, <1>8 DEF EraseInv, InHands
<1> QED BY <1>2, <1>3, <1>4, <1>5, <1>6, <1>7, <1>10, <1>11

\* A dispatch brings the stroke of an item that the bridge has no entry for.
LEMMA DispatchBrings ==
    ASSUME EraseInv, Receive("Dispatch")
    PROVE  /\ Head(mail).stroke \in SdStroke /\ Head(mail).stroke.item \in Items \ Owed
           /\ mail' \in Seq(Letters)
           /\ \A i \in Items : /\ CountIn(mail', Sent(i)) \in Nat
                               /\ CountIn(mail, Sent(i)) = CountIn(mail', Sent(i)) + (IF i = Head(mail).stroke.item THEN 1 ELSE 0)
<1> DEFINE m == Head(mail)
           s == m.stroke
<1>1. BridgeTypes /\ mail # <<>> /\ m.type = "Dispatch" /\ mail' = Tail(mail)
  BY BridgeTyped DEF Receive
<1>2. m \in Letters
  BY <1>1, HeadTailProperties DEF BridgeTypes
<1>3. s \in SdStroke /\ s.item \in Items
  BY <1>1, <1>2 DEF Letters, SdStroke
<1>4. \A i \in Items : m \in Sent(i) <=> i = s.item
  BY <1>1, <1>2 DEF Sent
<1>5. mail' \in Seq(Letters)
  BY <1>1, HeadTailProperties DEF BridgeTypes
<1>6. ASSUME NEW i \in Items
      PROVE  /\ CountIn(mail', Sent(i)) \in Nat
             /\ CountIn(mail, Sent(i)) = CountIn(mail', Sent(i)) + (IF i = s.item THEN 1 ELSE 0)
  BY <1>1, <1>4, MailTaken
<1>7. s.item \notin Owed
  <2> DEFINE i == s.item
  <2>1. Cardinality(SdHelpsOn(i)) + CountIn(mail, Sent(i)) + Entry(i) <= 1
    BY <1>3 DEF EraseInv, OneAtATime
  <2>2. CountIn(mail, Sent(i)) = CountIn(mail', Sent(i)) + 1 /\ CountIn(mail', Sent(i)) \in Nat
    BY <1>3, <1>6
  <2>3. Cardinality(SdHelpsOn(i)) \in Nat /\ Entry(i) \in {0, 1}
    BY <1>3, HelpersCounted, LettersCounted
  <2> HIDE DEF i
  <2>4. Entry(i) = 0
    BY <2>1, <2>2, <2>3
  <2> QED BY <2>4 DEF Entry, i
<1> QED BY <1>3, <1>5, <1>6, <1>7

\* Taking note of a stroke that has no entry.
LEMMA StrokeNoted ==
    ASSUME BridgeTypes, NEW s \in SdStroke, s.item \in Items \ Owed, gens' = [gens EXCEPT ![s.item] = s.gen]
    PROVE  /\ gens' \in [Items -> 0 .. MaxStrokes] /\ (Owed' # {} => "sd" \in Engines)
           /\ \A i \in Items : Entry(i)' = Entry(i) + (IF i = s.item THEN 1 ELSE 0)
           /\ \A i \in Items : i # s.item => gens'[i] = gens[i]
           /\ gens'[s.item] = s.gen
<1>1. s.gen \in 1 .. MaxStrokes /\ "sd" \in Engines /\ s.item \in Items
  BY DEF SdStroke
<1>2. gens \in [Items -> 0 .. MaxStrokes] /\ MaxStrokes \in Nat
  BY EraseAssumption DEF BridgeTypes
<1>3. gens' \in [Items -> 0 .. MaxStrokes] /\ gens'[s.item] = s.gen /\ \A i \in Items : i # s.item => gens'[i] = gens[i]
  BY <1>1, <1>2
<1>4. Owed' = Owed \cup {s.item}
  BY <1>1, <1>2, <1>3 DEF Owed
<1> QED BY <1>1, <1>3, <1>4 DEF Entry

\* handle_dispatch, in each state of the subprocess.
LEMMA TakeDispatchKeeps == ASSUME EraseInv, TakeDispatch PROVE EraseInv'
<1> DEFINE s == Head(mail).stroke
           one(i) == IF i = s.item THEN 1 ELSE 0
<1>1. BridgeTypes /\ Receive("Dispatch") /\ UNCHANGED <<alive, said, guiVars, helpers, strokes>>
  BY BridgeTyped DEF TakeDispatch, Receive, countVars
<1>2. s \in SdStroke /\ s.item \in Items \ Owed /\ mail' \in Seq(Letters)
      /\ \A i \in Items : CountIn(mail', Sent(i)) \in Nat /\ CountIn(mail, Sent(i)) = CountIn(mail', Sent(i)) + one(i)
  BY <1>1, DispatchBrings
<1>3. \A i \in Items : /\ s \in Of(i) <=> i = s.item
                       /\ CountIn(<<s>>, Of(i)) = one(i)
  <2>1. \A i \in Items : s \in Of(i) <=> i = s.item
    BY <1>2 DEF Of, SdStroke, Stroke
  <2> HIDE DEF s
  <2> QED BY <2>1, CountOne
<1>4. \A i \in Items : /\ CountIn(replies, Told(i)) \in Nat /\ Entry(i) \in Nat
                       /\ CountIn(given, Of(i)) \in Nat /\ CountIn(said, Told(i)) \in Nat /\ CountIn(queued, Of(i)) \in Nat
  BY LettersCounted
<1>5. /\ \A t \in Range(given) : t.item # s.item
      /\ \A e \in Range(said) : e.stroke.item # s.item
      /\ sub = "Spawning" /\ ~doomed => \A t \in Range(queued) : t.item # s.item
  BY <1>2, NobodyHolds
<1>6. /\ Range(given) \subseteq SdStroke /\ Range(said) \subseteq Answers /\ Range(queued) \subseteq SdStroke
      /\ \A t \in SdStroke : t.item \in Items
      /\ \A e \in Answers : e.stroke.item \in Items
  <2>1. Range(given) \subseteq SdStroke /\ Range(said) \subseteq Answers /\ Range(queued) \subseteq SdStroke
    BY <1>1, RangeOfSeq DEF BridgeTypes
  <2> QED BY <2>1 DEF SdStroke, Answers, Stroke
<1>7. /\ \A i \in Items : CountIn(given, Of(i)) + CountIn(said, Told(i)) <= Entry(i)
      /\ \A t \in Range(given) : gens[t.item] = t.gen
      /\ \A e \in Range(said) : gens[e.stroke.item] = e.stroke.gen
      /\ sub = "Spawning" /\ ~doomed =>
            /\ \A i \in Items : CountIn(queued, Of(i)) <= Entry(i)
            /\ \A t \in Range(queued) : gens[t.item] = t.gen
  BY DEF EraseInv, InHands
<1>8. \A e \in Range(replies) \cup Range(said) : Truthful(e)
  BY DEF EraseInv, Named
<1>9. ASSUME gens' = [gens EXCEPT ![s.item] = s.gen], replies' = replies PROVE \A i \in Items : SameDebt(i)
  <2>1. \A i \in Items : Entry(i)' = Entry(i) + one(i)
    BY <1>1, <1>2, <1>9, StrokeNoted
  <2> HIDE DEF s, one
  <2>2. \A i \in Items : one(i) \in {0, 1}
    BY DEF one
  <2> QED BY <1>2, <1>4, <1>9, <2>1, <2>2 DEF SameDebt
<1>10. ASSUME gens' = [gens EXCEPT ![s.item] = s.gen]
       PROVE  /\ gens' \in [Items -> 0 .. MaxStrokes] /\ (Owed' # {} => "sd" \in Engines)
              /\ \A i \in Items : Entry(i)' = Entry(i) + one(i)
              /\ \A i \in Items : i # s.item => gens'[i] = gens[i]
              /\ gens'[s.item] = s.gen
  BY <1>1, <1>2, <1>10, StrokeNoted
<1> HIDE DEF s
<1>11. ASSUME NEW q \in Seq(SdStroke)
       PROVE  /\ Append(q, s) \in Seq(SdStroke) /\ Range(Append(q, s)) = Range(q) \cup {s}
              /\ \A i \in Items : CountIn(Append(q, s), Of(i)) = CountIn(q, Of(i)) + one(i)
  <2>1. Append(q, s) \in Seq(SdStroke) /\ Range(Append(q, s)) = Range(q) \cup {s}
    BY <1>2, AppendItems
  <2>2. ASSUME NEW i \in Items PROVE CountIn(Append(q, s), Of(i)) = CountIn(q, Of(i)) + (IF s \in Of(i) THEN 1 ELSE 0)
    BY <1>2, CountAppend
  <2> QED BY <1>3, <2>1, <2>2 DEF one
<1> DEFINE noted == gens' = [gens EXCEPT ![s.item] = s.gen]
<1>12. CASE /\ sub = "Ready" /\ alive /\ noted /\ given' = Append(given, s)
            /\ counted' = counted \cup {s.item} /\ UNCHANGED <<replies, sub, queued, doomed, spawned>>
  <2>1. BridgeTypes'
    BY <1>1, <1>2, <1>10, <1>11, <1>12 DEF BridgeTypes
  <2>2. InHands'
    <3>1. \A i \in Items : CountIn(given', Of(i)) + CountIn(said', Told(i)) <= Entry(i)'
      <4> SUFFICES ASSUME NEW i \in Items PROVE CountIn(given', Of(i)) + CountIn(said', Told(i)) <= Entry(i)'
        OBVIOUS
      <4>1. CountIn(given', Of(i)) = CountIn(given, Of(i)) + one(i) /\ said' = said /\ Entry(i)' = Entry(i) + one(i)
        BY <1>1, <1>10, <1>11, <1>12 DEF BridgeTypes
      <4>2. one(i) \in {0, 1}
        OBVIOUS
      <4> HIDE DEF one
      <4> QED BY <4>1, <4>2, <1>4, <1>7
    <3>2. \A t \in Range(given') : gens'[t.item] = t.gen
      BY <1>1, <1>5, <1>6, <1>7, <1>10, <1>11, <1>12 DEF BridgeTypes
    <3>3. \A e \in Range(said') : gens'[e.stroke.item] = e.stroke.gen
      BY <1>1, <1>5, <1>6, <1>7, <1>10, <1>12
    <3> QED BY <1>12, <3>1, <3>2, <3>3 DEF InHands
  <2> QED BY <1>1, <1>8, <1>9, <1>12, <2>1, <2>2, BridgeKeeps
<1>13. CASE /\ sub = "Ready" /\ gens' = [gens EXCEPT ![s.item] = 0] /\ replies' = Append(replies, Failure(s, "err"))
            /\ UNCHANGED <<given, counted, sub, queued, doomed, spawned>>
  <2>1. gens' = gens
    BY <1>1, <1>2, <1>13 DEF Owed, BridgeTypes
  <2>2. s \in Stroke
    BY <1>2 DEF SdStroke, Stroke
  <2> DEFINE a == Failure(s, "err")
  <2>3. a \in Answers /\ Truthful(a) /\ \A i \in Items : a \in Told(i) <=> i = s.item
    BY <2>2, FailureIs DEF Told
  <2> HIDE DEF a
  <2>4. replies' \in Seq(Answers) /\ Range(replies') = Range(replies) \cup {a}
    BY <1>1, <1>13, <2>3, AppendItems DEF BridgeTypes, a
  <2>5. ASSUME NEW i \in Items PROVE CountIn(replies', Told(i)) = CountIn(replies, Told(i)) + one(i)
    <3>1. CountIn(Append(replies, a), Told(i)) = CountIn(replies, Told(i)) + (IF a \in Told(i) THEN 1 ELSE 0)
      BY <1>1, <2>3, CountAppend DEF BridgeTypes
    <3> QED BY <1>13, <2>3, <3>1 DEF a
  <2>6. \A i \in Items : Entry(i)' = Entry(i)
    BY <2>1 DEF Entry, Owed
  <2>7. BridgeTypes'
    BY <1>1, <1>2, <1>13, <2>1, <2>4 DEF BridgeTypes, Owed
  <2>8. InHands'
    BY <1>1, <1>13, <2>1, <2>6 DEF EraseInv, InHands
  <2>9. \A i \in Items : SameDebt(i)
    <3>1. \A i \in Items : one(i) \in {0, 1}
      OBVIOUS
    <3> HIDE DEF one
    <3> QED BY <1>2, <1>4, <2>5, <2>6, <3>1 DEF SameDebt
  <2> QED BY <1>1, <1>8, <2>3, <2>4, <2>7, <2>8, <2>9, BridgeKeeps
<1>14. CASE /\ sub = "Spawning" /\ noted /\ queued' = Append(queued, s)
            /\ UNCHANGED <<replies, given, counted, sub, doomed, spawned>>
  <2>1. BridgeTypes'
    BY <1>1, <1>2, <1>10, <1>11, <1>14 DEF BridgeTypes
  <2>2. InHands'
    <3>1. given' = <<>> /\ said' = <<>>
      BY <1>1, <1>14 DEF BridgeTypes
    <3>2. \A i \in Items : CountIn(given', Of(i)) = 0 /\ CountIn(said', Told(i)) = 0 /\ Entry(i)' \in Nat
      BY <3>1, CountOfNone DEF Entry
    <3>3. Range(given') = {} /\ Range(said') = {}
      BY <3>1 DEF Range
    <3>4. ASSUME ~doomed, NEW i \in Items PROVE CountIn(queued', Of(i)) <= Entry(i)'
      <4>1. CountIn(queued', Of(i)) = CountIn(queued, Of(i)) + one(i) /\ Entry(i)' = Entry(i) + one(i)
        BY <1>1, <1>10, <1>11, <1>14 DEF BridgeTypes
      <4>2. one(i) \in {0, 1}
        OBVIOUS
      <4> HIDE DEF one
      <4> QED BY <1>4, <1>7, <1>14, <3>4, <4>1, <4>2
    <3>5. ASSUME ~doomed, NEW t \in Range(queued') PROVE gens'[t.item] = t.gen
      BY <1>1, <1>5, <1>6, <1>7, <1>10, <1>11, <1>14, <3>5 DEF BridgeTypes
    <3> QED BY <1>14, <3>2, <3>3, <3>4, <3>5 DEF InHands
  <2> QED BY <1>1, <1>8, <1>9, <1>14, <2>1, <2>2, BridgeKeeps
<1>15. CASE /\ sub = "Idle" /\ noted /\ sub' = "Spawning" /\ queued' = <<s>> /\ doomed' = FALSE
            /\ UNCHANGED <<replies, given, counted, spawned>>
  <2>1. <<s>> \in Seq(SdStroke) /\ Range(<<s>>) = {s}
    BY <1>2 DEF Range
  <2>2. BridgeTypes'
    BY <1>1, <1>2, <1>10, <1>15, <2>1 DEF BridgeTypes
  <2>3. InHands'
    <3>1. given' = <<>> /\ said' = <<>>
      BY <1>1, <1>15 DEF BridgeTypes
    <3>2. \A i \in Items : CountIn(given', Of(i)) = 0 /\ CountIn(said', Told(i)) = 0 /\ Entry(i)' \in Nat
      BY <3>1, CountOfNone DEF Entry
    <3>3. Range(given') = {} /\ Range(said') = {}
      BY <3>1 DEF Range
    <3>4. ASSUME NEW i \in Items PROVE CountIn(queued', Of(i)) <= Entry(i)'
      <4>1. CountIn(queued', Of(i)) = one(i) /\ Entry(i)' = Entry(i) + one(i)
        BY <1>3, <1>10, <1>15
      <4> QED BY <1>4, <4>1
    <3>5. ASSUME NEW t \in Range(queued') PROVE gens'[t.item] = t.gen
      BY <1>10, <1>15, <2>1, <3>5
    <3> QED BY <3>2, <3>3, <3>4, <3>5 DEF InHands
  <2> QED BY <1>1, <1>8, <1>9, <1>15, <2>2, <2>3, BridgeKeeps
<1> QED BY <1>12, <1>13, <1>14, <1>15 DEF TakeDispatch, s

\* A letter that dispatches nothing.
LEMMA OtherLetter ==
    ASSUME EraseInv, NEW type \in {"Cancel", "Release"}, Receive(type)
    PROVE  mail' \in Seq(Letters) /\ \A i \in Items : CountIn(mail', Sent(i)) = CountIn(mail, Sent(i))
<1>1. BridgeTypes /\ mail # <<>> /\ Head(mail).type = type /\ mail' = Tail(mail)
  BY BridgeTyped DEF Receive
<1>2. mail' \in Seq(Letters)
  BY <1>1, HeadTailProperties DEF BridgeTypes
<1>3. ASSUME NEW i \in Items PROVE CountIn(mail', Sent(i)) = CountIn(mail, Sent(i))
  <2>1. Head(mail) \notin Sent(i)
    BY <1>1 DEF Sent
  <2> QED BY <1>1, <2>1, MailTaken
<1> QED BY <1>2, <1>3

\* Nothing is in hand once the child is gone.
LEMMA EmptyHands ==
    ASSUME given' = <<>>, said' = <<>>,
           sub' = "Spawning" /\ ~doomed' =>
               /\ \A i \in Items : CountIn(queued', Of(i)) <= Entry(i)'
               /\ \A s \in Range(queued') : gens'[s.item] = s.gen
    PROVE  InHands' /\ Range(said') = {}
<1>1. \A i \in Items : CountIn(given', Of(i)) = 0 /\ CountIn(said', Told(i)) = 0 /\ Entry(i)' \in Nat
  BY CountOfNone DEF Entry
<1>2. Range(given') = {} /\ Range(said') = {}
  BY DEF Range
<1> QED BY <1>1, <1>2 DEF InHands

\* Everybody who is owed an answer gets one, and the child, if there was one, is killed.
LEMMA DrainKeeps ==
    ASSUME EraseInv, NEW res \in {"err", "cancelled"}, Drain(res),
           mail' \in Seq(Letters), \A i \in Items : CountIn(mail', Sent(i)) = CountIn(mail, Sent(i)),
           UNCHANGED <<guiVars, helpers, strokes>>,
           given' = <<>>, said' = <<>>, alive' = FALSE, counted' = {},
           \/ sub' = "Idle" /\ queued' = <<>> /\ spawned' = "none" /\ doomed' \in BOOLEAN
           \/ sub' = "Spawning" /\ doomed' /\ queued' \in {queued, <<>>} /\ spawned' = spawned /\ sub = "Spawning"
    PROVE  EraseInv'
<1>1. BridgeTypes
  BY BridgeTyped
<1>2. /\ replies' \in Seq(Answers) /\ gens' \in [Items -> 0 .. MaxStrokes] /\ Owed' = {}
      /\ \A e \in Range(replies') : e \in Range(replies) \/ Truthful(e)
      /\ \A i \in Items : CountIn(replies', Told(i)) = CountIn(replies, Told(i)) + Entry(i)
  BY <1>1, DrainPays
<1>3. <<>> \in Seq(SdStroke) /\ <<>> \in Seq(Answers)
  BY EmptySeq
<1>4. BridgeTypes'
  BY <1>1, <1>2, <1>3 DEF BridgeTypes
<1>5. InHands' /\ Range(said') = {}
  BY EmptyHands
<1>6. \A i \in Items : SameDebt(i)
  <2>1. \A i \in Items : Entry(i)' = 0 /\ Entry(i) \in Nat
    BY <1>2 DEF Entry
  <2>2. \A i \in Items : CountIn(mail, Sent(i)) \in Nat /\ CountIn(replies, Told(i)) \in Nat
    BY <1>1, BridgeCounted
  <2> QED BY <1>2, <2>1, <2>2 DEF SameDebt
<1>7. \A e \in Range(replies') \cup Range(said') : Truthful(e)
  BY <1>2, <1>5 DEF EraseInv, Named
<1> QED BY <1>4, <1>5, <1>6, <1>7, BridgeKeeps

\* A letter that changes nothing, or a step of the rest that the bridge's books ignore.
LEMMA SameBooks ==
    ASSUME EraseInv, mail' \in Seq(Letters), \A i \in Items : CountIn(mail', Sent(i)) = CountIn(mail, Sent(i)),
           UNCHANGED <<guiVars, helpers, strokes, replies, gens>>, BridgeTypes', InHands',
           \A e \in Range(said') : Truthful(e)
    PROVE  EraseInv'
<1>1. \A i \in Items : SameDebt(i)
  <2>1. \A i \in Items : Entry(i)' = Entry(i) /\ Entry(i) \in Nat
    BY DEF Entry, Owed
  <2>2. \A i \in Items : CountIn(mail, Sent(i)) \in Nat /\ CountIn(replies, Told(i)) \in Nat
    BY BridgeTyped, BridgeCounted
  <2> QED BY <2>1, <2>2 DEF SameDebt
<1>2. \A e \in Range(replies') \cup Range(said') : Truthful(e)
  BY DEF EraseInv, Named
<1> QED BY <1>1, <1>2, BridgeKeeps

\* A letter that finds nothing to do.
LEMMA NothingDone ==
    ASSUME EraseInv, mail' \in Seq(Letters), \A i \in Items : CountIn(mail', Sent(i)) = CountIn(mail, Sent(i)),
           UNCHANGED <<guiVars, helpers, strokes, replies, bridgeVars, childVars>>
    PROVE  EraseInv'
<1>1. UNCHANGED <<replies, sub, queued, doomed, spawned, gens, alive, given, said, counted>>
  BY DEF bridgeVars, childVars
<1>2. BridgeTypes'
  BY <1>1, BridgeTyped DEF BridgeTypes, Owed
<1>3. InHands'
  BY <1>1 DEF EraseInv, InHands, Entry, Owed
<1>4. \A e \in Range(said') : Truthful(e)
  BY <1>1 DEF EraseInv, Named
<1> QED BY <1>1, <1>2, <1>3, <1>4, SameBooks

\* handle_cancel.
LEMMA TakeCancelKeeps == ASSUME EraseInv, TakeCancel PROVE EraseInv'
<1>1. BridgeTypes /\ UNCHANGED <<guiVars, helpers, strokes>> /\ Receive("Cancel")
  BY BridgeTyped DEF TakeCancel, Receive, countVars
<1>2. mail' \in Seq(Letters) /\ \A i \in Items : CountIn(mail', Sent(i)) = CountIn(mail, Sent(i))
  BY <1>1, OtherLetter
<1>3. CASE UNCHANGED <<replies, bridgeVars, childVars>>
  BY <1>1, <1>2, <1>3, NothingDone
<1>4. CASE sub = "Spawning" /\ doomed' = TRUE /\ Drain("cancelled") /\ UNCHANGED <<sub, queued, spawned, childVars>>
  <2>1. given' = <<>> /\ said' = <<>> /\ alive' = FALSE /\ counted' = {}
    BY <1>1, <1>4 DEF BridgeTypes, childVars
  <2> QED BY <1>1, <1>2, <1>4, <2>1, DrainKeeps
<1>5. CASE sub = "Ready" /\ sub' = "Idle" /\ Kill /\ Drain("cancelled") /\ UNCHANGED <<queued, doomed, spawned>>
  BY <1>1, <1>2, <1>5, DrainKeeps DEF Kill, BridgeTypes
<1> QED BY <1>3, <1>4, <1>5 DEF TakeCancel

\* handle_release.
LEMMA TakeReleaseKeeps == ASSUME EraseInv, TakeRelease PROVE EraseInv'
<1>1. BridgeTypes /\ UNCHANGED <<guiVars, helpers, strokes>> /\ Receive("Release")
  BY BridgeTyped DEF TakeRelease, Receive, countVars
<1>2. mail' \in Seq(Letters) /\ \A i \in Items : CountIn(mail', Sent(i)) = CountIn(mail, Sent(i))
  BY <1>1, OtherLetter
<1>3. CASE UNCHANGED <<replies, bridgeVars, childVars>>
  BY <1>1, <1>2, <1>3, NothingDone
<1>4. CASE sub = "Spawning" /\ queued' = <<>> /\ doomed' = TRUE /\ Drain("cancelled") /\ UNCHANGED <<sub, spawned, childVars>>
  <2>1. given' = <<>> /\ said' = <<>> /\ alive' = FALSE /\ counted' = {}
    BY <1>1, <1>4 DEF BridgeTypes, childVars
  <2> QED BY <1>1, <1>2, <1>4, <2>1, DrainKeeps
<1>5. CASE sub = "Ready" /\ sub' = "Idle" /\ Kill /\ Drain("cancelled") /\ UNCHANGED <<queued, doomed, spawned>>
  BY <1>1, <1>2, <1>5, DrainKeeps DEF Kill, BridgeTypes
<1> QED BY <1>3, <1>4, <1>5 DEF TakeRelease

\* The memory watchdog.
LEMMA MemoryShortKeeps == ASSUME EraseInv, MemoryShort PROVE EraseInv'
<1>1. BridgeTypes
  BY BridgeTyped
<1> QED BY <1>1, DrainKeeps DEF MemoryShort, Kill, BridgeTypes

\* Idle eviction: the entries stay, with nobody who works on them.
LEMMA EvictKeeps == ASSUME EraseInv, Evict PROVE EraseInv'
<1>1. BridgeTypes
  BY BridgeTyped
<1>2. InHands' /\ Range(said') = {}
  BY EmptyHands DEF Evict, Kill
<1>3. <<>> \in Seq(SdStroke) /\ <<>> \in Seq(Answers)
  BY EmptySeq
<1>4. BridgeTypes'
  BY <1>1, <1>3 DEF Evict, Kill, BridgeTypes, Owed
<1> QED BY <1>1, <1>2, <1>4, SameBooks DEF Evict, countVars, BridgeTypes

\* The child dies, and what it was given stays listed.
LEMMA CrashKeeps == ASSUME EraseInv, Crash PROVE EraseInv'
<1>1. BridgeTypes
  BY BridgeTyped
<1>2. alive' = FALSE /\ UNCHANGED <<guiVars, helpers, mail, replies, sub, queued, doomed, gens, strokes, given, said, counted, spawned>>
  BY DEF Crash, ChildStep
<1>3. BridgeTypes' /\ InHands'
  BY <1>1, <1>2 DEF BridgeTypes, EraseInv, InHands, Entry, Owed
<1>4. \A e \in Range(said') : Truthful(e)
  BY <1>2 DEF EraseInv, Named
<1> QED BY <1>1, <1>2, <1>3, <1>4, SameBooks DEF BridgeTypes

\* The spawn helper reports.
LEMMA SpawnEndsKeeps == ASSUME EraseInv, SpawnEnds PROVE EraseInv'
<1>1. BridgeTypes
  BY BridgeTyped
<1>2. /\ sub = "Spawning" /\ spawned' \in {"ok", "err"}
      /\ UNCHANGED <<guiVars, helpers, mail, replies, sub, queued, doomed, gens, strokes, alive, given, said, counted>>
  BY DEF SpawnEnds, ChildStep, childVars
<1>3. BridgeTypes' /\ InHands'
  BY <1>1, <1>2 DEF BridgeTypes, EraseInv, InHands, Entry, Owed
<1>4. \A e \in Range(said') : Truthful(e)
  BY <1>2 DEF EraseInv, Named
<1> QED BY <1>1, <1>2, <1>3, <1>4, SameBooks DEF BridgeTypes

\* The child ends a stroke: what was given is said.
LEMMA ChildErasesKeeps == ASSUME EraseInv, ChildErases PROVE EraseInv'
<1> DEFINE s == Head(given)
<1>1. BridgeTypes
  BY BridgeTyped
<1>2. /\ given # <<>> /\ given' = Tail(given) /\ alive
      /\ UNCHANGED <<guiVars, helpers, mail, replies, sub, queued, doomed, gens, strokes, alive, counted, spawned>>
  BY DEF ChildErases, ChildStep
<1>3. s \in SdStroke /\ s \in Range(given) /\ given' \in Seq(SdStroke) /\ Range(given) = {s} \cup Range(given')
  BY <1>1, <1>2, TailItems DEF BridgeTypes
<1>4. s \in Stroke /\ \A i \in Items : s \in Of(i) <=> s.item = i
  BY <1>3 DEF Of, SdStroke, Stroke
<1>5. PICK e \in Answers : e.stroke = s /\ Truthful(e) /\ said' = Append(said, e)
  BY <1>4, FailureIs, ReplyIs DEF ChildErases
<1> HIDE DEF s
<1>6. said' \in Seq(Answers) /\ Range(said') = Range(said) \cup {e}
  BY <1>1, <1>5, AppendItems DEF BridgeTypes
<1>7. BridgeTypes'
  BY <1>1, <1>2, <1>3, <1>6 DEF BridgeTypes, Owed
<1>8. ASSUME NEW i \in Items PROVE CountIn(given', Of(i)) + CountIn(said', Told(i)) <= Entry(i)'
  <2>1. CountIn(given, Of(i)) = CountIn(given', Of(i)) + (IF s \in Of(i) THEN 1 ELSE 0)
    BY <1>1, <1>2, CountTail DEF BridgeTypes, s
  <2>2. CountIn(said', Told(i)) = CountIn(said, Told(i)) + (IF e \in Told(i) THEN 1 ELSE 0)
    BY <1>1, <1>5, CountAppend DEF BridgeTypes
  <2>3. s \in Of(i) <=> e \in Told(i)
    BY <1>4, <1>5 DEF Told
  <2>4. CountIn(given', Of(i)) \in Nat
    BY <1>3, CountIsNumber
  <2>5. CountIn(said, Told(i)) \in Nat
    BY LettersCounted
  <2>6. CountIn(given, Of(i)) + CountIn(said, Told(i)) <= Entry(i) /\ Entry(i)' = Entry(i) /\ Entry(i) \in Nat
    BY <1>2 DEF EraseInv, InHands, Entry, Owed
  <2> QED BY <2>1, <2>2, <2>3, <2>4, <2>5, <2>6
<1>9. /\ \A t \in Range(given) : gens[t.item] = t.gen
      /\ \A x \in Range(said) : gens[x.stroke.item] = x.stroke.gen /\ Truthful(x)
  BY DEF EraseInv, InHands, Named
<1>10. InHands'
  <2>1. sub = "Ready"
    BY <1>1, <1>2 DEF BridgeTypes
  <2>2. \A t \in Range(given') : gens'[t.item] = t.gen
    BY <1>2, <1>3, <1>9
  <2>3. \A x \in Range(said') : gens'[x.stroke.item] = x.stroke.gen
    BY <1>2, <1>3, <1>5, <1>6, <1>9
  <2> QED BY <1>2, <1>8, <2>1, <2>2, <2>3 DEF InHands
<1>11. \A x \in Range(said') : Truthful(x)
  BY <1>5, <1>6, <1>9
<1> QED BY <1>1, <1>2, <1>7, <1>10, <1>11, SameBooks DEF BridgeTypes

\* poll_spawn_result, of an entry whose stroke could not be given to anybody.
LEMMA SpawnFails ==
    ASSUME EraseInv, sub = "Spawning", ~doomed,
           replies' = replies \o [n \in DOMAIN queued |-> Failure(queued[n], "err")],
           gens' = [i \in Items |-> IF i \in ItemsIn(queued) THEN 0 ELSE gens[i]]
    PROVE  /\ replies' \in Seq(Answers) /\ gens' \in [Items -> 0 .. MaxStrokes] /\ Owed' \subseteq Owed
           /\ \A e \in Range(replies') : Truthful(e)
           /\ \A i \in Items : CountIn(replies', Told(i)) + Entry(i)' = CountIn(replies, Told(i)) + Entry(i)
           /\ \A i \in Items : Entry(i)' <= Entry(i)
<1> DEFINE more == [n \in DOMAIN queued |-> Failure(queued[n], "err")]
<1>1. BridgeTypes
  BY BridgeTyped
<1>2. queued \in Seq(SdStroke) /\ replies \in Seq(Answers) /\ gens \in [Items -> 0 .. MaxStrokes] /\ MaxStrokes \in Nat
  BY <1>1, EraseAssumption DEF BridgeTypes
<1>3. DOMAIN queued = 1 .. Len(queued) /\ Len(queued) \in Nat
      /\ \A n \in DOMAIN queued : queued[n] \in SdStroke
  BY <1>2, LenProperties, ElementOfSeq
<1>4. \A n \in DOMAIN queued : /\ queued[n] \in Stroke
                               /\ Failure(queued[n], "err") \in Answers /\ Truthful(Failure(queued[n], "err"))
                               /\ Failure(queued[n], "err").stroke = queued[n]
  <2>1. SdStroke \subseteq Stroke
    BY DEF SdStroke, Stroke
  <2> QED BY <1>3, <2>1, FailureIs
<1>5. more \in Seq(Answers) /\ DOMAIN more = DOMAIN queued
  BY <1>3, <1>4
<1>6. \A e \in Range(more) : Truthful(e)
  BY <1>4 DEF Range
<1>7. ASSUME NEW i \in Items PROVE CountIn(more, Told(i)) = CountIn(queued, Of(i))
  <2>1. \A n \in DOMAIN queued : more[n] \in Told(i) <=> queued[n] \in Of(i)
    BY <1>4 DEF Told, Of
  <2>2. PlacesIn(more, Told(i)) = PlacesIn(queued, Of(i))
    BY <1>5, <2>1 DEF PlacesIn
  <2> QED BY <2>2 DEF CountIn
<1> HIDE DEF more
<1>8. replies' = replies \o more
  BY DEF more
<1>9. replies' \in Seq(Answers) /\ Range(replies') = Range(replies) \cup Range(more)
  <2>1. replies \in Seq(Answers) /\ more \in Seq(Answers)
    BY <1>2, <1>5
  <2>2. replies \o more \in Seq(Answers) /\ Range(replies \o more) = Range(replies) \cup Range(more)
    BY <2>1, ConcatItems
  <2> QED BY <1>8, <2>2
<1>10. \A e \in Range(replies') : Truthful(e)
  BY <1>6, <1>9 DEF EraseInv, Named
<1>11. gens' \in [Items -> 0 .. MaxStrokes] /\ Owed' \subseteq Owed
  BY <1>2 DEF Owed
<1>12. \A i \in Items : Entry(i)' <= Entry(i)
  BY <1>11 DEF Entry
<1>13. ASSUME NEW i \in Items
       PROVE  CountIn(replies', Told(i)) + Entry(i)' = CountIn(replies, Told(i)) + Entry(i)
  <2>1. CountIn(replies', Told(i)) = CountIn(replies, Told(i)) + CountIn(queued, Of(i))
    <3>1. replies \in Seq(Answers) /\ more \in Seq(Answers)
      BY <1>2, <1>5
    <3>2. CountIn(replies \o more, Told(i)) = CountIn(replies, Told(i)) + CountIn(more, Told(i))
      BY <3>1, CountConcat
    <3> QED BY <1>7, <1>8, <3>2
  <2>2. CountIn(queued, Of(i)) <= Entry(i)
    BY DEF EraseInv, InHands
  <2>3. CountIn(queued, Of(i)) \in Nat /\ (CountIn(queued, Of(i)) = 0 <=> Range(queued) \cap Of(i) = {})
    BY <1>2, CountIsNumber
  <2>4. i \in ItemsIn(queued) <=> Range(queued) \cap Of(i) # {}
    BY <1>4 DEF ItemsIn, Range, Of
  <2>5. CountIn(replies, Told(i)) \in Nat /\ Entry(i) \in {0, 1}
    BY LettersCounted
  <2>6. CASE i \in ItemsIn(queued)
    <3>1. CountIn(queued, Of(i)) # 0
      BY <2>3, <2>4, <2>6
    <3>2. CountIn(queued, Of(i)) = 1 /\ Entry(i) = 1
      BY <2>2, <2>3, <2>5, <3>1
    <3>3. Entry(i)' = 0
      BY <2>6 DEF Entry, Owed
    <3> QED BY <2>1, <2>5, <3>2, <3>3
  <2>7. CASE i \notin ItemsIn(queued)
    <3>1. CountIn(queued, Of(i)) = 0
      BY <2>3, <2>4, <2>7
    <3>2. Entry(i)' = Entry(i)
      BY <2>7 DEF Entry, Owed
    <3> QED BY <2>1, <2>5, <3>1, <3>2
  <2> QED BY <2>6, <2>7
<1> QED BY <1>9, <1>10, <1>11, <1>12, <1>13

\* poll_spawn_result.
LEMMA TakeChildKeeps == ASSUME EraseInv, TakeChild PROVE EraseInv'
<1>1. BridgeTypes /\ sub = "Spawning" /\ spawned' = "none" /\ queued' = <<>> /\ doomed' = FALSE
      /\ UNCHANGED <<guiVars, helpers, mail, said, strokes>>
  BY BridgeTyped DEF TakeChild, countVars
<1>2. given = <<>> /\ said = <<>> /\ ~alive /\ counted = {} /\ <<>> \in Seq(SdStroke)
  BY <1>1, EmptySeq DEF BridgeTypes
<1>3. \A i \in Items : /\ CountIn(mail, Sent(i)) \in Nat /\ CountIn(replies, Told(i)) \in Nat
                       /\ Entry(i) \in {0, 1} /\ Entry(i)' \in {0, 1}
  BY LettersCounted DEF Entry
<1>4. CASE ~doomed /\ sub' = "Ready" /\ alive' = TRUE /\ given' = queued /\ counted' = ItemsIn(queued) /\ UNCHANGED <<replies, gens>>
  <2>1. ItemsIn(queued) \subseteq Items
    <3>1. \A n \in DOMAIN queued : queued[n] \in SdStroke
      BY <1>1, ElementOfSeq, LenProperties DEF BridgeTypes
    <3> QED BY <3>1 DEF ItemsIn, SdStroke
  <2>2. BridgeTypes'
    BY <1>1, <1>2, <1>4, <2>1 DEF BridgeTypes, Owed
  <2>3. /\ \A i \in Items : CountIn(queued, Of(i)) <= Entry(i) /\ CountIn(queued, Of(i)) \in Nat /\ CountIn(<<>>, Told(i)) = 0
        /\ \A s \in Range(queued) : gens[s.item] = s.gen
    BY <1>1, <1>4, LettersCounted, CountOfNone DEF EraseInv, InHands
  <2>4. Range(said') = {}
    BY <1>1, <1>2 DEF Range
  <2>5. \A i \in Items : CountIn(given', Of(i)) + CountIn(said', Told(i)) <= Entry(i)'
    BY <1>1, <1>2, <1>4, <2>3 DEF Entry, Owed
  <2>6. InHands'
    BY <1>1, <1>4, <2>3, <2>4, <2>5 DEF InHands
  <2> QED BY <1>1, <1>4, <2>2, <2>4, <2>6, SameBooks DEF BridgeTypes
<1>5. CASE /\ ~doomed /\ sub' = "Idle" /\ UNCHANGED <<alive, given, counted>>
           /\ replies' = replies \o [n \in DOMAIN queued |-> Failure(queued[n], "err")]
           /\ gens' = [i \in Items |-> IF i \in ItemsIn(queued) THEN 0 ELSE gens[i]]
  <2>1. /\ replies' \in Seq(Answers) /\ gens' \in [Items -> 0 .. MaxStrokes] /\ Owed' \subseteq Owed
        /\ \A e \in Range(replies') : Truthful(e)
        /\ \A i \in Items : CountIn(replies', Told(i)) + Entry(i)' = CountIn(replies, Told(i)) + Entry(i)
        /\ \A i \in Items : Entry(i)' <= Entry(i)
    BY <1>1, <1>5, SpawnFails
  <2>2. BridgeTypes'
    BY <1>1, <1>2, <1>5, <2>1 DEF BridgeTypes
  <2>3. InHands' /\ Range(said') = {}
    BY <1>1, <1>2, <1>5, EmptyHands
  <2>4. ASSUME NEW i \in Items PROVE SameDebt(i)
    <3>1. CountIn(replies', Told(i)) \in Nat
      BY <2>1, CountIsNumber
    <3> QED BY <1>1, <1>3, <2>1, <3>1 DEF SameDebt
  <2> QED BY <1>1, <2>1, <2>2, <2>3, <2>4, BridgeKeeps
<1>6. CASE sub' = "Idle" /\ UNCHANGED <<alive, given, counted, replies, gens>>
  <2>1. BridgeTypes'
    BY <1>1, <1>2, <1>6 DEF BridgeTypes, Owed
  <2>2. InHands' /\ Range(said') = {}
    BY <1>1, <1>2, <1>6, EmptyHands
  <2> QED BY <1>1, <1>6, <2>1, <2>2, SameBooks DEF BridgeTypes
<1> QED BY <1>4, <1>5, <1>6 DEF TakeChild

\* poll_events: the entry that names the answer's generation is that of its stroke.
LEMMA TakeEventKeeps == ASSUME EraseInv, TakeEvent PROVE EraseInv'
<1>1. BridgeTypes /\ said # <<>>
  BY BridgeTyped DEF TakeEvent
<1>2. PICK e \in Answers : e = Head(said)
  BY <1>1, TailItems DEF BridgeTypes
<1>3. e \in Range(said) /\ Tail(said) \in Seq(Answers) /\ Range(said) = {e} \cup Range(Tail(said))
  BY <1>1, <1>2, TailItems DEF BridgeTypes
<1>4. PICK i \in Items : i = e.stroke.item
  BY DEF Answers, Stroke
<1>5. e.stroke \in Stroke /\ e.stroke.gen \in 1 .. MaxStrokes /\ MaxStrokes \in Nat
  BY EraseAssumption DEF Answers, Stroke
<1>6. /\ \A t \in Range(given) : gens[t.item] = t.gen
      /\ \A x \in Range(said) : gens[x.stroke.item] = x.stroke.gen /\ Truthful(x)
      /\ \A x \in Range(replies) : Truthful(x)
  BY DEF EraseInv, InHands, Named
<1>7. gens[i] = e.stroke.gen /\ i \in Owed
  BY <1>3, <1>4, <1>5, <1>6 DEF Owed
<1>8. PICK r \in Answers :
           /\ r.stroke = e.stroke /\ Truthful(r)
           /\ r = IF e.res = "ok" THEN [e EXCEPT !.gen = gens[i]] ELSE e
  <2>1. CASE e.res = "ok"
    <3> DEFINE r == [e EXCEPT !.gen = gens[i]]
    <3>1. gens[i] \in 0 .. MaxStrokes
      BY <1>5, <1>7
    <3>2. r \in Answers /\ r.stroke = e.stroke /\ r.gen = gens[i]
      BY <3>1 DEF Answers
    <3> QED BY <1>7, <2>1, <3>2 DEF Truthful
  <2>2. CASE e.res # "ok"
    BY <2>2 DEF Truthful
  <2> QED BY <2>1, <2>2
<1>9. /\ sub = "Ready" /\ said' = Tail(said)
       /\ replies' = Append(replies, r) /\ gens' = [gens EXCEPT ![i] = 0] /\ counted' = counted \ {i}
       /\ UNCHANGED <<guiVars, helpers, mail, sub, queued, doomed, spawned, alive, given, strokes>>
  BY <1>2, <1>4, <1>8 DEF TakeEvent, Forget, countVars
<1>10. \A j \in Items : (r \in Told(j) <=> j = i) /\ (e \in Told(j) <=> j = i)
  BY <1>4, <1>8 DEF Told
<1>11. replies' \in Seq(Answers) /\ Range(replies') = Range(replies) \cup {r}
  <2>1. replies \in Seq(Answers)
    BY <1>1 DEF BridgeTypes
  <2>2. Append(replies, r) \in Seq(Answers) /\ Range(Append(replies, r)) = Range(replies) \cup {r}
    BY <2>1, AppendItems
  <2> QED BY <1>9, <2>2
<1>12. gens' \in [Items -> 0 .. MaxStrokes] /\ Owed' = Owed \ {i} /\ \A j \in Items : j # i => gens'[j] = gens[j]
  <2>1. gens \in [Items -> 0 .. MaxStrokes] /\ 0 \in 0 .. MaxStrokes
    BY <1>1, EraseAssumption DEF BridgeTypes
  <2> QED BY <1>9, <1>4, <1>5, <2>1 DEF Owed
<1>13. \A j \in Items : Entry(j)' = Entry(j) - (IF j = i THEN 1 ELSE 0)
  BY <1>7, <1>12 DEF Entry
<1>14. ASSUME NEW j \in Items
       PROVE  /\ CountIn(replies', Told(j)) = CountIn(replies, Told(j)) + (IF j = i THEN 1 ELSE 0)
              /\ CountIn(said, Told(j)) = CountIn(said', Told(j)) + (IF j = i THEN 1 ELSE 0)
  <2>1. CountIn(Append(replies, r), Told(j)) = CountIn(replies, Told(j)) + (IF r \in Told(j) THEN 1 ELSE 0)
    BY <1>1, <1>8, CountAppend DEF BridgeTypes
  <2>2. CountIn(said, Told(j)) = CountIn(Tail(said), Told(j)) + (IF e \in Told(j) THEN 1 ELSE 0)
    BY <1>1, <1>2, CountTail DEF BridgeTypes
  <2> QED BY <1>9, <1>10, <2>1, <2>2
<1>15. \A j \in Items : SameDebt(j)
  <2> SUFFICES ASSUME NEW j \in Items PROVE SameDebt(j)
    OBVIOUS
  <2>1. CountIn(mail, Sent(j)) \in Nat /\ CountIn(replies, Told(j)) \in Nat /\ Entry(j) \in {0, 1}
    BY LettersCounted
  <2> QED BY <1>9, <1>13, <1>14, <2>1 DEF SameDebt
<1>16. BridgeTypes'
  BY <1>1, <1>9, <1>3, <1>11, <1>12 DEF BridgeTypes
<1>17. ASSUME NEW j \in Items PROVE CountIn(given', Of(j)) + CountIn(said', Told(j)) <= Entry(j)'
  <2>1. CountIn(given, Of(j)) + CountIn(said, Told(j)) <= Entry(j)
    BY DEF EraseInv, InHands
  <2>2. CountIn(said', Told(j)) \in Nat
    BY <1>3, <1>9, CountIsNumber
  <2>3. CountIn(given, Of(j)) \in Nat /\ Entry(j) \in {0, 1}
    BY LettersCounted
  <2> QED BY <1>9, <1>13, <1>14, <2>1, <2>2, <2>3
<1>18. CountIn(given, Of(i)) = 0 /\ CountIn(said', Told(i)) = 0
  <2>1. Entry(i)' = 0
    BY <1>4, <1>5, <1>12 DEF Entry
  <2>2. CountIn(said', Told(i)) \in Nat
    BY <1>3, <1>9, CountIsNumber
  <2>3. CountIn(given, Of(i)) \in Nat
    BY <1>4, <1>5, LettersCounted
  <2>4. CountIn(given, Of(i)) + CountIn(said', Told(i)) <= 0
    BY <1>9, <1>4, <1>5, <1>17, <2>1
  <2> QED BY <2>2, <2>3, <2>4
<1>19. \A t \in Range(given) : t.item # i /\ t.item \in Items
  <2>1. Range(given) \cap Of(i) = {}
    BY <1>1, <1>18, CountIsNumber DEF BridgeTypes
  <2>2. Range(given) \subseteq SdStroke
    BY <1>1, RangeOfSeq DEF BridgeTypes
  <2> QED BY <2>1, <2>2 DEF Of, SdStroke, Stroke
<1>20. \A x \in Range(said') : x.stroke.item # i /\ x.stroke.item \in Items
  <2>1. Range(said') \cap Told(i) = {}
    BY <1>3, <1>9, <1>18, CountIsNumber
  <2>2. Range(said') \subseteq Answers
    BY <1>3, <1>9, RangeOfSeq
  <2> QED BY <2>1, <2>2 DEF Told, Answers, Stroke
<1>21. InHands'
  <2>1. \A t \in Range(given') : gens'[t.item] = t.gen
    BY <1>9, <1>6, <1>12, <1>19
  <2>2. \A x \in Range(said') : gens'[x.stroke.item] = x.stroke.gen
    BY <1>3, <1>9, <1>6, <1>12, <1>20
  <2> QED BY <1>9, <1>17, <2>1, <2>2 DEF InHands
<1>22. \A x \in Range(replies') \cup Range(said') : Truthful(x)
  BY <1>3, <1>9, <1>6, <1>8, <1>11
<1> QED BY <1>9, <1>15, <1>16, <1>21, <1>22, BridgeKeeps

\* What pump_inpaint_subprocess makes of the replies answers the same strokes.
LEMMA DecodedTells ==
    ASSUME EraseInv, NEW bad
    PROVE  /\ Decoded(bad) \in Seq(Answers)
           /\ \A i \in Items : CountIn(Decoded(bad), Told(i)) = CountIn(inbox, Told(i)) + CountIn(replies, Told(i))
           /\ \A n \in DOMAIN Decoded(bad) : Truthful(Decoded(bad)[n])
<1> DEFINE more == [n \in DOMAIN replies |-> IF n \in bad THEN Failure(replies[n].stroke, "err") ELSE replies[n]]
<1>1. replies \in Seq(Answers) /\ inbox \in Seq(Answers)
  BY DEF EraseInv, EraseTypes, EraseTypeOK
<1>2. DOMAIN replies = 1 .. Len(replies) /\ Len(replies) \in Nat /\ \A n \in DOMAIN replies : replies[n] \in Answers
  BY <1>1, LenProperties, ElementOfSeq
<1>3. \A n \in DOMAIN replies : replies[n].stroke \in Stroke /\ Truthful(replies[n])
  BY <1>2 DEF EraseInv, Named, Range, Answers
<1>4. \A n \in DOMAIN replies : more[n] \in Answers /\ more[n].stroke = replies[n].stroke /\ Truthful(more[n])
  BY <1>2, <1>3, FailureIs
<1>5. more \in Seq(Answers) /\ DOMAIN more = DOMAIN replies
  BY <1>2, <1>4
<1>6. ASSUME NEW i \in Items PROVE CountIn(more, Told(i)) = CountIn(replies, Told(i))
  <2>1. \A n \in DOMAIN replies : more[n] \in Told(i) <=> replies[n] \in Told(i)
    BY <1>2, <1>4 DEF Told
  <2>2. PlacesIn(more, Told(i)) = PlacesIn(replies, Told(i))
    BY <1>5, <2>1 DEF PlacesIn
  <2> QED BY <2>2 DEF CountIn
<1>7. \A e \in Range(more) : Truthful(e)
  BY <1>4, <1>5 DEF Range
<1> HIDE DEF more
<1>8. Decoded(bad) = inbox \o more
  BY DEF Decoded, more
<1>9. inbox \o more \in Seq(Answers) /\ Range(inbox \o more) = Range(inbox) \cup Range(more)
  BY <1>1, <1>5, ConcatItems
<1>10. ASSUME NEW i \in Items PROVE CountIn(inbox \o more, Told(i)) = CountIn(inbox, Told(i)) + CountIn(more, Told(i))
  BY <1>1, <1>5, CountConcat
<1>11. \A e \in Range(Decoded(bad)) : Truthful(e)
  BY <1>7, <1>8, <1>9 DEF EraseInv, Named
<1> QED BY <1>6, <1>8, <1>9, <1>10, <1>11 DEF Range

\* What drain_inpaint_results does to the items.
LEMMA DrainedDoes ==
    ASSUME EraseInv, NEW bad, Drained(bad), NEW i \in Items
    PROVE  /\ pending'[i] = pending[i] - CountIn(inbox, Told(i)) - CountIn(replies, Told(i))
           /\ pending'[i] \in 0 .. pending[i]
           /\ flagOf'[i] \in {0, flagOf[i]} /\ (pending'[i] > 0 => flagOf'[i] = flagOf[i])
           /\ job'[i] \in {NoRun, job[i]}
           /\ version'[i] \in {version[i], version[i] + 1}
           /\ \/ shown'[i] = shown[i]
              \/ job[i] # NoRun /\ shown'[i] = job[i].gen /\ job[i].version = version[i]
<1> DEFINE row == Decoded(bad)
           of(k) == {n \in DOMAIN row : row[n].stroke.item = k}
           stopped == {k \in Items : \E n \in of(k) : row[n].res = "cancelled"}
           fresh(k) == {n \in of(k) : Fresh(row[n])}
           lands == {k \in Items \ stopped : fresh(k) # {} /\ IsCurrent(k)}
           first(k) == row[CHOOSE n \in fresh(k) : \A m \in fresh(k) : n <= m]
<1>1. /\ pending' = [k \in Items |-> Less(pending[k], Cardinality(of(k)))]
      /\ flagOf' = [k \in Items |-> IF of(k) # {} /\ pending'[k] = 0 THEN 0 ELSE flagOf[k]]
      /\ job' = [k \in Items |-> IF k \in stopped \cup lands THEN NoRun ELSE job[k]]
      /\ shown' = [k \in Items |-> IF k \in lands THEN first(k).stroke.gen ELSE shown[k]]
      /\ version' = [k \in Items |-> IF k \in lands THEN version[k] + 1 ELSE version[k]]
  BY DEF Drained
<1>2. /\ row \in Seq(Answers)
      /\ CountIn(row, Told(i)) = CountIn(inbox, Told(i)) + CountIn(replies, Told(i))
      /\ \A n \in DOMAIN row : Truthful(row[n])
  BY DecodedTells
<1> HIDE DEF row
<1>3. DOMAIN row = 1 .. Len(row) /\ Len(row) \in Nat /\ \A n \in DOMAIN row : row[n] \in Answers
  BY <1>2, LenProperties, ElementOfSeq
<1>4. Cardinality(of(i)) = CountIn(row, Told(i))
  <2>1. of(i) = PlacesIn(row, Told(i))
    BY <1>3 DEF Told, PlacesIn
  <2> QED BY <2>1 DEF CountIn
<1>5. fresh(i) \subseteq Nat
  BY <1>3
<1>6. i \in lands => job[i] # NoRun /\ first(i).stroke.gen = job[i].gen /\ job[i].version = version[i]
  <2> SUFFICES ASSUME i \in lands PROVE job[i] # NoRun /\ first(i).stroke.gen = job[i].gen /\ job[i].version = version[i]
    OBVIOUS
  <2>1. fresh(i) # {} /\ job[i] # NoRun /\ job[i].version = version[i]
    BY DEF IsCurrent
  <2>2. PICK n \in fresh(i) : \A m \in fresh(i) : n <= m
    BY <1>5, <2>1, LeastOfSome
  <2> DEFINE k == CHOOSE h \in fresh(i) : \A m \in fresh(i) : h <= m
  <2>3. k \in fresh(i)
    BY <2>2
  <2>4. first(i) = row[k] /\ Fresh(row[k]) /\ Truthful(row[k]) /\ row[k].stroke.item = i
    BY <1>2, <2>3
  <2> HIDE DEF k, first
  <2>5. first(i).stroke.gen = latest[i]
    BY <2>4 DEF Fresh, Truthful
  <2> QED BY <2>1, <2>5 DEF EraseInv, Named
<1> HIDE DEF first, lands, stopped
<1>7. pending'[i] = pending[i] - CountIn(inbox, Told(i)) - CountIn(replies, Told(i)) /\ pending'[i] \in 0 .. pending[i]
  <2>1. pending'[i] = Less(pending[i], CountIn(inbox, Told(i)) + CountIn(replies, Told(i)))
    BY <1>1, <1>2, <1>4
  <2>2. pending[i] = Cardinality(HelpsOn(i)) + CountIn(mail, Sent(i))
                     + CountIn(replies, Told(i)) + CountIn(inbox, Told(i)) + Entry(i)
    BY DEF EraseInv, Answered
  <2>3. Cardinality(HelpsOn(i)) \in Nat
    BY HelpersCounted
  <2>4. /\ CountIn(mail, Sent(i)) \in Nat /\ CountIn(replies, Told(i)) \in Nat
        /\ CountIn(inbox, Told(i)) \in Nat /\ Entry(i) \in Nat
    BY LettersCounted
  <2>5. pending[i] \in Nat /\ pending[i] >= CountIn(inbox, Told(i)) + CountIn(replies, Told(i))
    BY <2>2, <2>3, <2>4
  <2> QED BY <2>1, <2>4, <2>5 DEF Less
<1>8. flagOf'[i] \in {0, flagOf[i]} /\ (pending'[i] > 0 => flagOf'[i] = flagOf[i])
  BY <1>1
<1>9. job'[i] \in {NoRun, job[i]} /\ version'[i] \in {version[i], version[i] + 1}
  BY <1>1
<1>10. shown'[i] = shown[i] \/ (job[i] # NoRun /\ shown'[i] = job[i].gen /\ job[i].version = version[i])
  BY <1>1, <1>6
<1> QED BY <1>7, <1>8, <1>9, <1>10

\* pump_inpaint_results.
LEMMA PumpKeeps == ASSUME EraseInv, Pump PROVE EraseInv'
<1>1. PICK bad : Drained(bad)
  BY DEF Pump
<1>2. /\ inbox' = <<>> /\ replies' = <<>>
      /\ UNCHANGED <<latest, flagged, helpers, mail, bridgeVars, childVars, strokes>>
  BY DEF Pump
<1>3. UNCHANGED <<sub, queued, doomed, spawned, gens, alive, given, said, counted>>
  BY <1>2 DEF bridgeVars, childVars
<1>4. ASSUME NEW i \in Items
      PROVE  /\ pending'[i] = pending[i] - CountIn(inbox, Told(i)) - CountIn(replies, Told(i))
             /\ pending'[i] \in 0 .. pending[i]
             /\ flagOf'[i] \in {0, flagOf[i]} /\ (pending'[i] > 0 => flagOf'[i] = flagOf[i])
             /\ job'[i] \in {NoRun, job[i]}
             /\ version'[i] \in {version[i], version[i] + 1}
             /\ \/ shown'[i] = shown[i]
                \/ job[i] # NoRun /\ shown'[i] = job[i].gen /\ job[i].version = version[i]
  BY <1>1, DrainedDoes
<1>5. /\ pending \in [Items -> 0 .. MaxStrokes] /\ flagOf \in [Items -> 0 .. MaxStrokes] /\ version \in [Items -> Nat]
      /\ job \in [Items -> [gen : 0 .. MaxStrokes, version : Nat]] /\ shown \in [Items -> 0 .. MaxStrokes]
      /\ NoRun \in [gen : 0 .. MaxStrokes, version : Nat] /\ MaxStrokes \in Nat
  BY EraseAssumption DEF EraseInv, EraseTypes, EraseTypeOK, NoRun
<1>6. /\ pending' \in [Items -> 0 .. MaxStrokes] /\ flagOf' \in [Items -> 0 .. MaxStrokes] /\ version' \in [Items -> Nat]
      /\ job' \in [Items -> [gen : 0 .. MaxStrokes, version : Nat]] /\ shown' \in [Items -> 0 .. MaxStrokes]
  <2>1. /\ DOMAIN pending' = Items /\ pending' = [k \in Items |-> pending'[k]]
        /\ flagOf' = [k \in Items |-> flagOf'[k]] /\ job' = [k \in Items |-> job'[k]]
        /\ version' = [k \in Items |-> version'[k]] /\ shown' = [k \in Items |-> shown'[k]]
    BY <1>1 DEF Drained
  <2>2. ASSUME NEW i \in Items
        PROVE  /\ pending'[i] \in 0 .. MaxStrokes /\ flagOf'[i] \in 0 .. MaxStrokes /\ version'[i] \in Nat
               /\ job'[i] \in [gen : 0 .. MaxStrokes, version : Nat] /\ shown'[i] \in 0 .. MaxStrokes
    BY <1>4, <1>5
  <2> QED BY <2>1, <2>2
<1>7. <<>> \in Seq(Answers)
  BY EmptySeq
<1>8. EraseTypes'
  <2>1. EraseTypeOK'
    BY <1>2, <1>3, <1>6, <1>7 DEF EraseInv, EraseTypes, EraseTypeOK
  <2> QED BY <1>2, <1>3, <2>1 DEF EraseInv, EraseTypes, Owed
<1>9. Numbered'
  <2>1. \A i \in Items : latest[i] \in Nat /\ latest[i] <= strokes /\ pending[i] <= latest[i]
    BY <1>5 DEF EraseInv, Numbered, EraseTypes, EraseTypeOK
  <2>2. \A i \in Items : pending'[i] <= latest[i]
    BY <1>4, <1>5, <2>1
  <2> QED BY <1>2, <2>1, <2>2 DEF EraseInv, Numbered
<1>10. \A i \in Items : /\ CountIn(replies', Told(i)) = 0 /\ CountIn(inbox', Told(i)) = 0 /\ Entry(i)' = Entry(i)
                        /\ HelpsOn(i)' = HelpsOn(i) /\ SdHelpsOn(i)' = SdHelpsOn(i)
  BY <1>2, <1>3, CountOfNone DEF Entry, Owed, HelpsOn, SdHelpsOn
<1>11. Answered'
  <2> SUFFICES ASSUME NEW i \in Items
               PROVE  pending'[i] = Cardinality(HelpsOn(i)) + CountIn(mail, Sent(i)) + 0 + 0 + Entry(i)
    BY <1>2, <1>10 DEF Answered
  <2>1. pending[i] = Cardinality(HelpsOn(i)) + CountIn(mail, Sent(i))
                     + CountIn(replies, Told(i)) + CountIn(inbox, Told(i)) + Entry(i)
    BY DEF EraseInv, Answered
  <2>2. Cardinality(HelpsOn(i)) \in Nat
    BY HelpersCounted
  <2>3. /\ CountIn(mail, Sent(i)) \in Nat /\ CountIn(replies, Told(i)) \in Nat
        /\ CountIn(inbox, Told(i)) \in Nat /\ Entry(i) \in Nat
    BY LettersCounted
  <2> QED BY <1>4, <2>1, <2>2, <2>3
<1>12. OneAtATime' /\ InHands'
  BY <1>2, <1>3, <1>10 DEF EraseInv, OneAtATime, InHands
<1>13. FlagsFresh'
  BY <1>2, <1>4, <1>5 DEF EraseInv, FlagsFresh, InFlight
<1>14. Named'
  <2>1. Range(inbox') = {} /\ Range(replies') = {}
    BY <1>2 DEF Range
  <2> QED BY <1>2, <1>3, <1>4, <2>1 DEF EraseInv, Named
<1> QED BY <1>8, <1>9, <1>11, <1>12, <1>13, <1>14 DEF EraseInv

\* Nothing is under way at first.
LEMMA EraseInvInit == EraseInit => EraseInv
<1> SUFFICES ASSUME EraseInit PROVE EraseInv
  OBVIOUS
<1>1. /\ latest = [i \in Items |-> 0] /\ pending = [i \in Items |-> 0]
      /\ flagOf = [i \in Items |-> 0] /\ flagged = {} /\ inbox = <<>>
      /\ version = [i \in Items |-> 0] /\ job = [i \in Items |-> NoRun] /\ shown = [i \in Items |-> 0]
      /\ helpers = {} /\ mail = <<>> /\ replies = <<>>
      /\ sub = "Idle" /\ queued = <<>> /\ doomed = FALSE /\ spawned = "none"
      /\ gens = [i \in Items |-> 0]
      /\ alive = FALSE /\ given = <<>> /\ said = <<>> /\ counted = {} /\ strokes = 0
  BY DEF EraseInit
<1>2. MaxStrokes \in Nat /\ NoRun \in [gen : 0 .. MaxStrokes, version : Nat]
  BY EraseAssumption DEF NoRun
<1>3. /\ <<>> \in Seq(Answers) /\ <<>> \in Seq(Letters) /\ <<>> \in Seq(SdStroke) /\ <<>> \in Seq(Stroke)
      /\ IsFiniteSet({}) /\ Range(<<>>) = {}
  BY EmptySeq, FS_EmptySet DEF Range
<1>4. \A i \in Items : Entry(i) = 0
  BY <1>1 DEF Entry, Owed
<1>5. EraseTypes
  <2>1. Owed = {}
    BY <1>1 DEF Owed
  <2>2. /\ {latest, pending, flagOf, gens, shown} \subseteq [Items -> 0 .. MaxStrokes]
        /\ version \in [Items -> Nat] /\ job \in [Items -> [gen : 0 .. MaxStrokes, version : Nat]]
    BY <1>1, <1>2
  <2>3. EraseTypeOK
    BY <1>1, <1>3, <2>2 DEF EraseTypeOK
  <2> QED BY <1>1, <1>2, <1>3, <2>1, <2>3 DEF EraseTypes
<1>6. Numbered /\ FlagsFresh
  BY <1>1 DEF Numbered, FlagsFresh, InFlight
<1>7. Answered /\ OneAtATime
  <2>1. \A i \in Items : HelpsOn(i) = {} /\ SdHelpsOn(i) = {}
    BY <1>1 DEF HelpsOn, SdHelpsOn
  <2>2. Cardinality({}) = 0
    BY FS_EmptySet
  <2>3. \A i \in Items : CountIn(mail, Sent(i)) = 0 /\ CountIn(replies, Told(i)) = 0 /\ CountIn(inbox, Told(i)) = 0
    BY <1>1, CountOfNone
  <2>4. \A i \in Items : Cardinality(HelpsOn(i)) = 0 /\ Cardinality(SdHelpsOn(i)) = 0 /\ pending[i] = 0
    BY <1>1, <2>1, <2>2
  <2>5. Answered
    BY <1>4, <2>3, <2>4 DEF Answered
  <2>6. OneAtATime
    BY <1>4, <2>3, <2>4 DEF OneAtATime
  <2> QED BY <2>5, <2>6
<1>8. InHands /\ Named
  BY <1>1, <1>3, <1>4, CountOfNone DEF InHands, Named
<1> QED BY <1>5, <1>6, <1>7, <1>8 DEF EraseInv

\* A step of the others.
LEMMA EraseInvSame == ASSUME EraseInv, UNCHANGED eraseVars PROVE EraseInv'
<1>1. mail' \in Seq(Letters) /\ \A i \in Items : CountIn(mail', Sent(i)) = CountIn(mail, Sent(i))
  BY DEF EraseInv, EraseTypes, eraseVars
<1> QED BY <1>1, NothingDone DEF eraseVars, countVars

\* Every step keeps the invariant, if an "sd" stroke waits for the one before it.
LEMMA EraseInvNext == ASSUME "sd" \notin Overlapping PROVE EraseInv /\ [EraseNext]_eraseVars => EraseInv'
<1> SUFFICES ASSUME EraseInv, [EraseNext]_eraseVars PROVE EraseInv'
  OBVIOUS
<1>1. CASE User
  BY <1>1, CancelAllItemsKeeps, SwitchModelKeeps, CancelItemKeeps, EditItemKeeps, UndoItemKeeps, EraseItemKeeps DEF User
<1>2. CASE Bridge
  BY <1>2, TakeDispatchKeeps, TakeCancelKeeps, TakeReleaseKeeps, TakeChildKeeps, TakeEventKeeps DEF Bridge
<1>3. CASE Child
  BY <1>3, SpawnEndsKeeps, ChildErasesKeeps DEF Child
<1>4. CASE Pump \/ MemoryShort \/ Evict \/ Crash
  BY <1>4, PumpKeeps, MemoryShortKeeps, EvictKeeps, CrashKeeps
<1>5. ASSUME NEW s \in helpers, Helper(s) PROVE EraseInv'
  BY <1>5, EncodeKeeps, PaintKeeps DEF Helper
<1>6. CASE UNCHANGED eraseVars
  BY <1>6, EraseInvSame
<1> QED BY <1>1, <1>2, <1>3, <1>4, <1>5, <1>6 DEF EraseNext

\* The counts in the words of the property.
LEMMA EraseInvEnough == EraseInv => EraseOK
<1> SUFFICES ASSUME EraseInv PROVE EraseOK
  OBVIOUS
<1>1. /\ mail \in Seq(Letters) /\ inbox \in Seq(Answers) /\ replies \in Seq(Answers) /\ EraseTypeOK
  BY DEF EraseInv, EraseTypes, EraseTypeOK
<1>2. ASSUME NEW row \in Seq(Answers), NEW i \in Items PROVE In(row, i) = CountIn(row, Told(i))
  <2>1. \A n \in DOMAIN row : row[n] \in Answers
    BY LenProperties, ElementOfSeq
  <2>2. {n \in DOMAIN row : row[n].stroke.item = i} = PlacesIn(row, Told(i))
    BY <2>1 DEF Told, PlacesIn
  <2> QED BY <2>2 DEF In, CountIn
<1>3. ASSUME NEW i \in Items PROVE Posted(i) = CountIn(mail, Sent(i))
  <2>1. \A n \in DOMAIN mail : mail[n] \in Letters
    BY <1>1, LenProperties, ElementOfSeq
  <2>2. {n \in DOMAIN mail : mail[n].type = "Dispatch" /\ mail[n].stroke.item = i} = PlacesIn(mail, Sent(i))
    BY <2>1 DEF Sent, PlacesIn
  <2> QED BY <2>2 DEF Posted, CountIn
<1>4. \A i \in Items :
          pending[i] = Cardinality({s \in helpers : s.item = i}) + Posted(i)
                       + In(replies, i) + In(inbox, i) + (IF i \in Owed THEN 1 ELSE 0)
  <2> SUFFICES ASSUME NEW i \in Items
               PROVE  pending[i] = Cardinality({s \in helpers : s.item = i}) + Posted(i)
                                   + In(replies, i) + In(inbox, i) + (IF i \in Owed THEN 1 ELSE 0)
    OBVIOUS
  <2>1. pending[i] = Cardinality(HelpsOn(i)) + CountIn(mail, Sent(i))
                     + CountIn(replies, Told(i)) + CountIn(inbox, Told(i)) + Entry(i)
    BY DEF EraseInv, Answered
  <2>2. In(replies, i) = CountIn(replies, Told(i)) /\ In(inbox, i) = CountIn(inbox, Told(i)) /\ Posted(i) = CountIn(mail, Sent(i))
    BY <1>1, <1>2, <1>3
  <2> QED BY <2>1, <2>2 DEF HelpsOn, Entry
<1> QED BY <1>1, <1>4 DEF EraseOK, Accounted, EraseInv, InHands, FlagsFresh

\* What a step may show.
ShowsItsOwn ==
    \A i \in Items : shown'[i] # shown[i] => shown'[i] = job[i].gen /\ job[i].version = version[i]

\* Only pump_inpaint_results shows a stroke.
LEMMA ShownByPump == ASSUME EraseInv, [EraseNext]_eraseVars PROVE ShowsItsOwn
<1>1. CASE Pump
  BY <1>1, DrainedDoes DEF Pump, ShowsItsOwn
<1>2. CASE UNCHANGED shown
  BY <1>2 DEF ShowsItsOwn
<1>3. User => UNCHANGED shown
  BY DEF User, CancelAllItems, SwitchModel, CancelItem, EditItem, UndoItem, EraseItem, UserStep
<1>4. Bridge => UNCHANGED shown
  BY DEF Bridge, TakeDispatch, TakeCancel, TakeRelease, TakeChild, TakeEvent, Receive, guiVars
<1>5. Child \/ Crash \/ MemoryShort \/ Evict => UNCHANGED shown
  BY DEF Child, SpawnEnds, ChildErases, Crash, MemoryShort, Evict, ChildStep, guiVars
<1>6. \A s \in helpers : Helper(s) => UNCHANGED shown
  BY DEF Helper, Encode, Paint, Helps
<1> QED BY <1>1, <1>2, <1>3, <1>4, <1>5, <1>6 DEF EraseNext, eraseVars, guiVars

----------------------------------------------------------------------------
(* The command line                                                        *)

Words    == [type : {"done", "error"}, input : Inputs, high : BOOLEAN]
Reports  == [type : {"rss"}, input : {0}, high : BOOLEAN]
Kids     == [up : BOOLEAN, given : Seq(Inputs), said : Seq(Words \cup Reports), owes : Nat]
Serving  == phase \in {"spawn", "burst", "loop"}
Places   == Range(call.target)

CliTypes ==
    /\ call \in Calls /\ phase \in {"spawn", "burst", "loop", "write", "over"} /\ jobs \in Nat \ {0}
    /\ line \in Seq(Inputs) /\ flight \in Seq(Inputs) /\ drained \in Seq(Words)
    /\ outcome \in [Inputs -> {"none", "ok", "err"}] /\ child \in Kids
    /\ files \in [Places -> {Absent, Earlier} \cup Inputs]
    /\ told \in [Inputs -> {"no", "success", "failure"}] /\ lost \subseteq Inputs

\* An input waits or is in flight, once, until it is answered or lost.
Sorted(ln, fl, oc, lo, valid) ==
    /\ Distinct(ln) /\ Distinct(fl) /\ Range(ln) \cap Range(fl) = {}
    /\ \A i \in valid : oc[i] = "none" /\ i \notin lo <=> i \in Range(ln) \cup Range(fl)
    /\ \A i \in valid : oc[i] # "none" => i \notin lo
    /\ Range(ln) \cup Range(fl) \subseteq valid

\* What the child has, what it has said and what was polled of that are inputs
\* in flight, each in one place and once.
Apart     == {p \in (Words \cup Reports) \X (Words \cup Reports) : p[1].type = "rss" \/ p[1].input # p[2].input}
Spoken(q) == {e.input : e \in {x \in Range(q) : x.type # "rss"}}
InHand(gv, sd, dr, fl) ==
    /\ Distinct(gv) /\ Rising(sd, Apart) /\ Rising(dr, Apart)
    /\ Range(gv) \cup Spoken(sd) \cup Spoken(dr) \subseteq Range(fl)
    /\ Range(gv) \cap Spoken(sd) = {} /\ Range(gv) \cap Spoken(dr) = {} /\ Spoken(sd) \cap Spoken(dr) = {}

\* The outputs are those of inputs that succeeded, and each has its own or that
\* of another with the same name.
OutputsKept ==
    /\ Serving => Succeeded = {}
    /\ \A i \in Succeeded : outcome[i] = "ok" /\ files[call.target[i]] \in Inputs
                            /\ call.target[files[call.target[i]]] = call.target[i]
    /\ \A p \in Places : files[p] \in Inputs => files[p] \in Succeeded

CliInv ==
    /\ CliTypes /\ OutputsKept
    /\ Serving => Sorted(line, flight, outcome, lost, call.valid)
    /\ InHand(child.given, child.said, drained, flight)
    /\ Len(flight) <= jobs
    /\ phase # "loop" => flight = <<>> /\ drained = <<>>

\* Inputs are none of the marks for what a file holds.
LEMMA InputsAre == Inputs \subseteq Nat /\ 0 \notin Inputs /\ Absent \notin Inputs /\ Earlier \notin Inputs
BY CliAssumption DEF Inputs, Absent, Earlier

\* What comes of a place in a line.
LEMMA PlacesCounted ==
    ASSUME NEW s \in Seq(Inputs), Distinct(s), NEW i
    PROVE  Cardinality({n \in DOMAIN s : s[n] = i}) = IF i \in Range(s) THEN 1 ELSE 0
<1> DEFINE P == {n \in DOMAIN s : s[n] = i}
<1>1. CASE i \in Range(s)
  <2>1. PICK n \in DOMAIN s : s[n] = i
    BY <1>1 DEF Range
  <2>2. P = {n}
    BY <2>1 DEF Distinct
  <2> HIDE DEF P
  <2>3. Cardinality(P) = 1
    BY <2>2, FS_Singleton
  <2> QED BY <1>1, <2>3 DEF P
<1>2. CASE i \notin Range(s)
  <2>1. P = {}
    BY <1>2 DEF Range
  <2> HIDE DEF P
  <2>2. Cardinality(P) = 0
    BY <2>1, FS_EmptySet
  <2> QED BY <1>2, <2>2 DEF P
<1> QED BY <1>1, <1>2

\* Nobody is in an empty line.
LEMMA EmptyLine == Range(<<>>) = {} /\ Distinct(<<>>) /\ Spoken(<<>>) = {} /\ \A R : Rising(<<>>, R)
BY DEF Range, Distinct, Spoken, Rising

\* A line with nobody in it is empty.
LEMMA NobodyInLine == ASSUME NEW T, NEW s \in Seq(T), Range(s) = {} PROVE s = <<>>
<1>1. s # <<>> => Len(s) \in Nat \ {0} /\ DOMAIN s = 1 .. Len(s)
  BY EmptySeq, LenProperties
<1>2. s # <<>> => 1 \in DOMAIN s
  BY <1>1
<1> QED BY <1>2 DEF Range

\* The invariant gives the three properties.
LEMMA CliInvEnough == CliInv => CliOK
<1> SUFFICES ASSUME CliInv PROVE CliOK
  OBVIOUS
<1>0. CliTypes /\ OutputsKept
  BY DEF CliInv
<1>1. CliAccounted
  <2> SUFFICES ASSUME Serving, NEW i \in call.valid
               PROVE  Cardinality({n \in DOMAIN line : line[n] = i}) + Cardinality({n \in DOMAIN flight : flight[n] = i})
                      + (IF outcome[i] # "none" THEN 1 ELSE 0) + (IF i \in lost THEN 1 ELSE 0) = 1
    BY DEF CliAccounted, Serving
  <2>1. Sorted(line, flight, outcome, lost, call.valid) /\ line \in Seq(Inputs) /\ flight \in Seq(Inputs)
    BY <1>0 DEF CliInv, CliTypes
  <2>2. Distinct(line) /\ Distinct(flight)
    BY <2>1 DEF Sorted
  <2>3. Cardinality({n \in DOMAIN line : line[n] = i}) = IF i \in Range(line) THEN 1 ELSE 0
    BY <2>1, <2>2, PlacesCounted
  <2>4. Cardinality({n \in DOMAIN flight : flight[n] = i}) = IF i \in Range(flight) THEN 1 ELSE 0
    BY <2>1, <2>2, PlacesCounted
  <2>5. /\ ~(i \in Range(line) /\ i \in Range(flight))
        /\ (outcome[i] = "none" /\ i \notin lost <=> i \in Range(line) \/ i \in Range(flight))
        /\ (outcome[i] # "none" => i \notin lost)
    BY <2>1 DEF Sorted
  <2> QED BY <2>3, <2>4, <2>5
<1>2. CliAwaits
  <2>1. Len(flight) <= jobs /\ Range(child.given) \cup Spoken(drained) \subseteq Range(flight)
    BY DEF CliInv, InHand
  <2>2. ASSUME NEW n \in DOMAIN drained PROVE drained[n].input \in Spoken(drained)
    <3>1. drained[n] \in Words
      BY <1>0 DEF CliTypes
    <3>2. drained[n].type # "rss"
      BY <3>1 DEF Words
    <3> QED BY <3>2 DEF Spoken, Range
  <2> QED BY <2>1, <2>2 DEF CliAwaits
<1>3. ExitTellsTruth
  <2> SUFFICES ASSUME phase = "over" PROVE ExitTellsTruth
    BY DEF ExitTellsTruth
  <2>1. ASSUME ExitCode = 0, NEW i \in Inputs
        PROVE  files[call.target[i]] = i \/ (SharesOutput(i) /\ files[call.target[i]] \in Inputs)
    <3>1. i \in Succeeded
      BY <2>1 DEF ExitCode
    <3> QED BY <1>0, <3>1 DEF OutputsKept, SharesOutput
  <2>2. ASSUME ExitCode = 1, NEW p \in DOMAIN files PROVE files[p] \in {Absent, Earlier}
    <3>1. Succeeded = {}
      BY <2>2 DEF ExitCode
    <3> QED BY <1>0, <3>1 DEF OutputsKept, CliTypes
  <2>3. \A i \in Succeeded : outcome[i] = "ok"
    BY <1>0 DEF OutputsKept
  <2> QED BY <2>1, <2>2, <2>3 DEF ExitTellsTruth
<1> QED BY <1>1, <1>2, <1>3 DEF CliOK

\* Nothing has been sent at first.
LEMMA CliInvInit == CliInit => CliInv
<1> SUFFICES ASSUME CliInit PROVE CliInv
  OBVIOUS
<1> DEFINE all == [i \in Inputs |-> i]
<1>1. all \in Seq(Inputs) /\ Range(all) = Inputs /\ Distinct(all)
  BY CliAssumption DEF Inputs, Range, Distinct
<1>2. call \in Calls /\ call.valid \subseteq Inputs /\ DOMAIN call.target = Inputs /\ call.jobs \in Nat \ {0}
  BY CliAssumption DEF CliInit
<1>3. line = Without(all, Inputs \ call.valid)
  BY DEF CliInit
<1> HIDE DEF all
<1>4. line \in Seq(Inputs) /\ Range(line) = call.valid /\ Distinct(line)
  <2>1. Range(line) = Range(all) \ (Inputs \ call.valid) /\ line \in Seq(Inputs) /\ Distinct(line)
    BY <1>1, <1>3, WithoutItems
  <2> QED BY <1>1, <1>2, <2>1
<1>5. Dead \in Kids /\ Dead.given = <<>> /\ Dead.said = <<>>
  BY DEF Dead, Kids
<1>6. CliTypes
  <2>1. files = [p \in Places |-> IF p \in call.existing THEN Earlier ELSE Absent]
    BY DEF CliInit, Places
  <2>2. /\ phase = "spawn" /\ jobs = call.jobs /\ flight = <<>> /\ drained = <<>> /\ child = Dead
        /\ outcome = [i \in Inputs |-> "none"] /\ lost = {}
        /\ told = [i \in Inputs |-> IF i \in call.valid THEN "no" ELSE "failure"]
    BY DEF CliInit
  <2>3. told \in [Inputs -> {"no", "success", "failure"}] /\ outcome \in [Inputs -> {"none", "ok", "err"}]
    BY <2>2
  <2>4. flight \in Seq(Inputs) /\ drained \in Seq(Words)
    BY <2>2
  <2>5. files \in [Places -> {Absent, Earlier} \cup Inputs]
    BY <2>1
  <2> QED BY <1>2, <1>4, <1>5, <2>2, <2>3, <2>4, <2>5 DEF CliTypes
<1>7. Succeeded = {}
  BY DEF CliInit, Succeeded
<1>8. OutputsKept
  BY <1>7, InputsAre DEF CliInit, OutputsKept, Places
<1>9. Sorted(line, flight, outcome, lost, call.valid)
  BY <1>2, <1>4, EmptyLine DEF CliInit, Sorted
<1>10. InHand(child.given, child.said, drained, flight)
  BY <1>5, EmptyLine DEF CliInit, InHand
<1>11. Len(flight) <= jobs
  BY <1>2 DEF CliInit
<1> QED BY <1>6, <1>8, <1>9, <1>10, <1>11 DEF CliInv, CliInit

----------------------------------------------------------------------------

\* An answer takes its input out of flight and into the results.
LEMMA AnswerSorted ==
    ASSUME NEW ln \in Seq(Inputs), NEW fl \in Seq(Inputs), NEW oc \in [Inputs -> {"none", "ok", "err"}],
           NEW lo, NEW valid, valid \subseteq Inputs, Sorted(ln, fl, oc, lo, valid),
           NEW i \in Range(fl), NEW res \in {"ok", "err"}
    PROVE  Sorted(ln, Without(fl, {i}), [oc EXCEPT ![i] = res], lo, valid)
<1> DEFINE rest == Without(fl, {i})
           then == [oc EXCEPT ![i] = res]
<1>1. Range(rest) = Range(fl) \ {i} /\ (Distinct(fl) => Distinct(rest))
  BY WithoutItems
<1>2. i \in valid /\ i \in Inputs
  BY DEF Sorted
<1>3. then[i] = res /\ \A j \in Inputs \ {i} : then[j] = oc[j]
  BY <1>2
<1> HIDE DEF rest, then
<1>4. Sorted(ln, rest, then, lo, valid)
  BY <1>1, <1>2, <1>3 DEF Sorted
<1> QED BY <1>4 DEF rest, then

\* The head of the line is sent, or is lost.
LEMMA SendSorted ==
    ASSUME NEW ln \in Seq(Inputs), NEW fl \in Seq(Inputs), NEW oc, NEW lo, NEW valid,
           Sorted(ln, fl, oc, lo, valid), ln # <<>>
    PROVE  /\ Head(ln) \in Inputs \ Range(fl)
           /\ Sorted(Tail(ln), Append(fl, Head(ln)), oc, lo, valid)
           /\ Sorted(Tail(ln), fl, oc, lo \cup {Head(ln)}, valid)
<1> DEFINE e == Head(ln)
           rest == Tail(ln)
           more == Append(fl, e)
<1>1. /\ e \in Range(ln) /\ e \in Inputs /\ Range(ln) = {e} \cup Range(rest)
      /\ Distinct(rest) /\ e \notin Range(rest)
  BY TailItems DEF Sorted
<1>2. e \notin Range(fl)
  BY <1>1 DEF Sorted
<1> HIDE DEF e, rest
<1>3. Range(more) = Range(fl) \cup {e} /\ (Distinct(fl) => Distinct(more))
  BY <1>1, <1>2, AppendItems
<1> HIDE DEF more
<1>4. Sorted(rest, more, oc, lo, valid)
  BY <1>1, <1>2, <1>3 DEF Sorted
<1>5. Sorted(rest, fl, oc, lo \cup {e}, valid)
  BY <1>1, <1>2 DEF Sorted
<1> QED BY <1>1, <1>2, <1>4, <1>5 DEF e, rest, more

\* The input an event is about goes with the event.
LEMMA HandledInHand ==
    ASSUME NEW gv \in Seq(Inputs), NEW sd \in Seq(Words \cup Reports), NEW dr \in Seq(Words), NEW fl \in Seq(Inputs),
           InHand(gv, sd, dr, fl), dr # <<>>
    PROVE  /\ Head(dr).input \in Range(fl)
           /\ InHand(gv, sd, Tail(dr), Without(fl, {Head(dr).input}))
<1> DEFINE e == Head(dr)
           more == Tail(dr)
           i == e.input
           rest == Without(fl, {i})
<1>1. Range(rest) = Range(fl) \ {i}
  BY WithoutItems
<1>2. e \in Words /\ more \in Seq(Words) /\ Range(dr) = {e} \cup Range(more)
  BY TailItems
<1>3. Rising(more, Apart) /\ {e} \X Range(more) \subseteq Apart
  <2>1. Rising(dr, Apart)
    BY DEF InHand
  <2> QED BY <2>1, TailRising
<1> HIDE DEF e, more, rest
<1>4. e.type # "rss"
  BY <1>2 DEF Words
<1>5. Spoken(dr) = {i} \cup Spoken(more)
  BY <1>2, <1>4 DEF Spoken
<1>6. i \notin Spoken(more)
  <2> SUFFICES ASSUME NEW x \in Range(more), x.input = i PROVE FALSE
    BY DEF Spoken
  <2>1. <<e, x>> \in Apart
    BY <1>3
  <2> QED BY <1>4, <2>1 DEF Apart
<1>7. InHand(gv, sd, more, rest)
  BY <1>1, <1>3, <1>5, <1>6 DEF InHand
<1>8. i \in Range(fl)
  BY <1>5 DEF InHand
<1> QED BY <1>7, <1>8 DEF e, more, rest

\* An input that is not in flight is sent.
LEMMA SentInHand ==
    ASSUME NEW gv \in Seq(Inputs), NEW sd, NEW dr, NEW fl \in Seq(Inputs), InHand(gv, sd, dr, fl), NEW e \in Inputs \ Range(fl)
    PROVE  InHand(Append(gv, e), sd, dr, Append(fl, e)) /\ InHand(gv, sd, dr, Append(fl, e))
<1>1. e \notin Range(gv)
  BY DEF InHand
<1>2. Range(Append(gv, e)) = Range(gv) \cup {e} /\ Range(Append(fl, e)) = Range(fl) \cup {e}
      /\ (Distinct(gv) => Distinct(Append(gv, e)))
  BY <1>1, AppendItems
<1> DEFINE g == Append(gv, e)
           f == Append(fl, e)
<1> HIDE DEF g, f
<1>3. Range(g) = Range(gv) \cup {e} /\ Range(f) = Range(fl) \cup {e} /\ (Distinct(gv) => Distinct(g))
  BY <1>2 DEF g, f
<1>4. InHand(g, sd, dr, f) /\ InHand(gv, sd, dr, f)
  BY <1>1, <1>3 DEF InHand
<1> QED BY <1>4 DEF g, f

\* Nothing is in hand of a child that has just been started, and what it has is
\* what it was sent.
LEMMA NothingInHand == ASSUME NEW fl PROVE InHand(<<>>, <<>>, <<>>, fl)
BY EmptyLine DEF InHand

\* The child is spawned, or the batch fails.
LEMMA SpawnKeeps == CliInv /\ Spawn => CliInv'
<1> SUFFICES ASSUME CliInv, Spawn PROVE CliInv'
  OBVIOUS
<1>1. /\ phase = "spawn" /\ flight = <<>> /\ drained = <<>> /\ CliTypes /\ OutputsKept
      /\ Sorted(line, flight, outcome, lost, call.valid) /\ InHand(child.given, child.said, drained, flight)
      /\ Len(flight) <= jobs
      /\ Succeeded = {}
      /\ UNCHANGED <<call, jobs, line, flight, drained, files, told, lost>>
  BY DEF CliInv, Spawn, Serving, OutputsKept
<1>2. Succeeded' = {} /\ Places' = Places
  BY <1>1 DEF Succeeded, Places
<1>3. OutputsKept'
  BY <1>1, <1>2 DEF OutputsKept, Places
<1>4. CASE phase' = "write" /\ child' = child /\ outcome' \in {outcome, Failing(line)}
  <2>1. outcome' \in [Inputs -> {"none", "ok", "err"}]
    BY <1>1, <1>4 DEF CliTypes, Failing
  <2>2. CliTypes'
    BY <1>1, <1>4, <2>1 DEF CliTypes, Places
  <2>3. ~Serving'
    BY <1>4 DEF Serving
  <2> QED BY <1>1, <1>3, <1>4, <2>2, <2>3 DEF CliInv
<1>5. CASE phase' = "burst" /\ child' = [Dead EXCEPT !.up = TRUE] /\ outcome' = outcome
  <2>1. child' \in Kids /\ child'.given = <<>> /\ child'.said = <<>>
    <3>1. child' = [up |-> TRUE, given |-> <<>>, said |-> <<>>, owes |-> 0]
      BY <1>5 DEF Dead
    <3>2. <<>> \in Seq(Inputs) /\ <<>> \in Seq(Words \cup Reports)
      BY EmptySeq
    <3> QED BY <3>1, <3>2 DEF Kids
  <2>2. CliTypes'
    BY <1>1, <1>5, <2>1 DEF CliTypes, Places
  <2>3. InHand(child'.given, child'.said, drained', flight')
    BY <1>1, <2>1, NothingInHand
  <2> QED BY <1>1, <1>3, <1>5, <2>2, <2>3 DEF CliInv
<1> QED BY <1>4, <1>5 DEF Spawn

\* The first burst is sent.
LEMMA BurstKeeps == CliInv /\ Burst => CliInv'
<1> SUFFICES ASSUME CliInv, Burst PROVE CliInv'
  OBVIOUS
<1>1. /\ phase = "burst" /\ phase' = "loop" /\ flight = <<>> /\ drained = <<>> /\ CliTypes /\ OutputsKept
      /\ Sorted(line, flight, outcome, lost, call.valid) /\ InHand(child.given, child.said, drained, flight)
      /\ UNCHANGED <<call, jobs, drained, outcome, files, told, lost>>
  BY DEF CliInv, Burst, Serving
<1>2. PICK n \in 0 .. Lesser(jobs, Len(line)) :
           /\ flight' = SubSeq(line, 1, n) /\ line' = SubSeq(line, n + 1, Len(line))
           /\ child' = IF child.up THEN [child EXCEPT !.given = flight'] ELSE child
  BY DEF Burst
<1>3. n \in 0 .. Len(line) /\ n <= jobs /\ line \in Seq(Inputs)
  BY <1>1, <1>2 DEF Lesser, CliTypes
<1>4. /\ flight' \in Seq(Inputs) /\ line' \in Seq(Inputs) /\ Len(flight') = n
      /\ Range(line) = Range(flight') \cup Range(line')
      /\ Distinct(line) => Distinct(flight') /\ Distinct(line') /\ Range(flight') \cap Range(line') = {}
  BY <1>2, <1>3, SplitItems
<1>5. Range(flight) = {}
  BY <1>1, EmptyLine
<1>6. Sorted(line', flight', outcome', lost', call'.valid)
  BY <1>1, <1>4, <1>5 DEF Sorted
<1>7. child \in Kids
  BY <1>1 DEF CliTypes
<1>8. child' \in Kids /\ child'.said = child.said /\ (child'.given = flight' \/ child'.given = child.given)
  BY <1>2, <1>4, <1>7 DEF Kids
<1>9. InHand(child'.given, child'.said, drained', flight')
  <2>1. Spoken(child.said) = {} /\ Range(child.given) = {} /\ Spoken(drained) = {} /\ Rising(child.said, Apart)
        /\ Rising(drained, Apart) /\ Distinct(child.given)
    BY <1>1, <1>5, EmptyLine DEF InHand
  <2>2. Distinct(flight')
    BY <1>1, <1>4 DEF Sorted
  <2>3. Distinct(child'.given) /\ Range(child'.given) \subseteq Range(flight')
    BY <1>8, <2>1, <2>2
  <2> QED BY <1>1, <1>8, <2>1, <2>3 DEF InHand
<1>10. CliTypes'
  BY <1>1, <1>4, <1>8 DEF CliTypes, Places
<1>11. OutputsKept'
  BY <1>1 DEF OutputsKept, Places, Succeeded, Serving
<1> QED BY <1>1, <1>3, <1>4, <1>6, <1>9, <1>10, <1>11 DEF CliInv

\* The child's events are polled.
LEMMA PollKeeps == CliInv /\ Poll => CliInv'
<1> SUFFICES ASSUME CliInv, Poll PROVE CliInv'
  OBVIOUS
<1> DEFINE words == child.said
           reports == {e \in Range(words) : e.type = "rss"}
<1>1. /\ phase = "loop" /\ drained = <<>> /\ CliTypes /\ OutputsKept /\ Len(flight) <= jobs
      /\ Sorted(line, flight, outcome, lost, call.valid) /\ InHand(child.given, words, drained, flight)
      /\ drained' = Without(words, reports) /\ child' = [child EXCEPT !.said = <<>>]
      /\ UNCHANGED <<call, phase, jobs, line, flight, outcome, files, told, lost>>
  BY DEF CliInv, Poll, Turns, Serving
<1>2. child \in Kids /\ words \in Seq(Words \cup Reports)
  BY <1>1 DEF CliTypes, Kids
<1>3. child' \in Kids /\ child'.said = <<>> /\ child'.given = child.given
  <2>1. <<>> \in Seq(Words \cup Reports)
    BY EmptySeq
  <2> QED BY <1>1, <1>2, <2>1 DEF Kids
<1> HIDE DEF words
<1>4. /\ drained' \in Seq(Words \cup Reports) /\ Range(drained') = Range(words) \ reports
      /\ (Rising(words, Apart) => Rising(drained', Apart))
  BY <1>1, <1>2, WithoutItems, WithoutOrder
<1>5. \A e \in Range(drained') : e \in Words
  <2>1. \A e \in Range(words) : e \in Words \cup Reports
    BY <1>2 DEF Range
  <2> QED BY <1>4, <2>1 DEF Reports
<1>6. drained' \in Seq(Words)
  <2>1. drained' \in [1 .. Len(drained') -> Words] /\ Len(drained') \in Nat
    BY <1>4, <1>5, LenProperties DEF Range
  <2> QED BY <2>1
<1>7. Spoken(drained') = Spoken(words)
  BY <1>4 DEF Spoken
<1>8. InHand(child'.given, child'.said, drained', flight')
  BY <1>1, <1>3, <1>4, <1>7, EmptyLine DEF InHand
<1>9. CliTypes'
  BY <1>1, <1>3, <1>6 DEF CliTypes, Places
<1>10. OutputsKept'
  BY <1>1 DEF OutputsKept, Places, Succeeded, Serving
<1> QED BY <1>1, <1>8, <1>9, <1>10 DEF CliInv, Serving

\* While images are served nothing is written, whatever becomes of the results.
LEMMA NothingWritten ==
    ASSUME OutputsKept, Serving, UNCHANGED <<call, files, told>> PROVE OutputsKept'
BY DEF OutputsKept, Places, Succeeded, Serving

\* A result is taken, and the next image sent.
LEMMA ImageDoneKeeps == CliInv /\ ImageDone => CliInv'
<1> SUFFICES ASSUME CliInv, ImageDone PROVE CliInv'
  OBVIOUS
<1> DEFINE i == Head(drained).input
           rest == Without(flight, {i})
           e == Head(line)
<1>1. /\ phase = "loop" /\ drained # <<>> /\ CliTypes /\ OutputsKept /\ Len(flight) <= jobs
      /\ Sorted(line, flight, outcome, lost, call.valid) /\ InHand(child.given, child.said, drained, flight)
      /\ drained' = Tail(drained) /\ UNCHANGED <<call, phase, jobs, paused, files, told>>
  BY DEF CliInv, ImageDone, Serving
<1>2. PICK res \in {"ok", "err"} : outcome' = [outcome EXCEPT ![i] = res]
  <2>1. \E res \in {"ok"} \cup (IF "result" \in CliFaults THEN {"err"} ELSE {}) : outcome' = [outcome EXCEPT ![i] = res]
    BY DEF ImageDone
  <2> QED BY <2>1
<1>3. Admitting(rest)
  BY DEF ImageDone
<1>4. /\ child \in Kids /\ line \in Seq(Inputs) /\ flight \in Seq(Inputs) /\ drained \in Seq(Words)
      /\ outcome \in [Inputs -> {"none", "ok", "err"}] /\ lost \subseteq Inputs /\ jobs \in Nat
      /\ call.valid \subseteq Inputs
      /\ child.given \in Seq(Inputs) /\ child.said \in Seq(Words \cup Reports) /\ child.up \in BOOLEAN
  BY <1>1, CliAssumption DEF CliTypes, Kids
<1>5. i \in Range(flight) /\ InHand(child.given, child.said, drained', rest)
  BY <1>1, <1>4, HandledInHand
<1>6. Sorted(line, rest, outcome', lost, call.valid)
  BY <1>1, <1>2, <1>4, <1>5, AnswerSorted
<1>7. rest \in Seq(Inputs) /\ Len(rest) < Len(flight) /\ Len(rest) \in Nat /\ Len(flight) \in Nat
  <2>1. rest \in Seq(Inputs)
    BY <1>4, WithoutItems
  <2>2. Range(flight) \cap {i} # {}
    BY <1>5
  <2>3. Len(rest) < Len(flight)
    BY <1>4, <2>2, WithoutOrder
  <2> HIDE DEF rest
  <2> QED BY <1>4, <2>1, <2>3, LenProperties
<1>8. drained' \in Seq(Words) /\ outcome' \in [Inputs -> {"none", "ok", "err"}]
  <2>1. Tail(drained) \in Seq(Words)
    BY <1>1, <1>4, TailItems
  <2> QED BY <1>1, <1>2, <1>4, <2>1
<1>9. OutputsKept'
  BY <1>1, NothingWritten DEF Serving
<1> HIDE DEF rest, i
<1>10. SUFFICES /\ child' \in Kids /\ line' \in Seq(Inputs) /\ flight' \in Seq(Inputs) /\ lost' \subseteq Inputs
                /\ Sorted(line', flight', outcome', lost', call.valid)
                /\ InHand(child'.given, child'.said, drained', flight')
                /\ Len(flight') <= jobs
  <2>1. CliTypes'
    BY <1>1, <1>8, <1>10 DEF CliTypes, Places
  <2> QED BY <1>1, <1>9, <1>10, <2>1 DEF CliInv
<1>11. CASE flight' = rest /\ UNCHANGED <<line, child, lost>>
  BY <1>1, <1>4, <1>5, <1>6, <1>7, <1>11
<1>12. CASE line # <<>> /\ line' = Tail(line) /\ flight' = Append(rest, e) /\ lost' = lost
            /\ child' = IF child.up THEN [child EXCEPT !.given = Append(@, e)] ELSE child
  <2>1. e \in Inputs \ Range(rest) /\ Sorted(line', flight', outcome', lost', call.valid)
    BY <1>4, <1>6, <1>7, <1>12, SendSorted
  <2>2. Tail(line) \in Seq(Inputs)
    BY <1>4, <1>12, TailItems
  <2> HIDE DEF e
  <2>3. Append(rest, e) \in Seq(Inputs) /\ Len(Append(rest, e)) = Len(rest) + 1 /\ Append(child.given, e) \in Seq(Inputs)
    BY <1>4, <1>7, <2>1, AppendProperties
  <2>4. child' \in Kids /\ child'.said = child.said /\ child'.given \in {child.given, Append(child.given, e)}
    BY <1>4, <1>12, <2>3 DEF Kids
  <2>5. InHand(child'.given, child'.said, drained', flight')
    BY <1>4, <1>5, <1>7, <1>12, <2>1, <2>4, SentInHand
  <2> QED BY <1>1, <1>4, <1>7, <1>12, <2>1, <2>2, <2>3, <2>4, <2>5
<1>13. CASE line # <<>> /\ line' = Tail(line) /\ flight' = rest /\ lost' = lost \cup {e} /\ child' = child
  <2>1. e \in Inputs /\ Sorted(line', flight', outcome', lost', call.valid)
    BY <1>4, <1>6, <1>7, <1>13, SendSorted
  <2>2. Tail(line) \in Seq(Inputs)
    BY <1>4, <1>13, TailItems
  <2> HIDE DEF e
  <2> QED BY <1>1, <1>4, <1>5, <1>7, <1>13, <2>1, <2>2
<1> QED BY <1>3, <1>11, <1>12, <1>13 DEF Admitting

\* An error is taken, and the next image sent.
LEMMA ImageErrorKeeps == CliInv /\ ImageError => CliInv'
<1> SUFFICES ASSUME CliInv, ImageError PROVE CliInv'
  OBVIOUS
<1> DEFINE i == Head(drained).input
           rest == Without(flight, {i})
<1>1. /\ phase = "loop" /\ drained # <<>> /\ CliTypes /\ OutputsKept /\ Len(flight) <= jobs
      /\ Sorted(line, flight, outcome, lost, call.valid) /\ InHand(child.given, child.said, drained, flight)
      /\ drained' = Tail(drained) /\ flight' = rest /\ outcome' = [outcome EXCEPT ![i] = "err"]
      /\ UNCHANGED <<call, phase, jobs, line, paused, child, files, told, lost>>
  BY DEF CliInv, ImageError, Serving
<1>4. /\ child \in Kids /\ line \in Seq(Inputs) /\ flight \in Seq(Inputs) /\ drained \in Seq(Words)
      /\ outcome \in [Inputs -> {"none", "ok", "err"}] /\ jobs \in Nat /\ call.valid \subseteq Inputs
      /\ child.given \in Seq(Inputs) /\ child.said \in Seq(Words \cup Reports)
  BY <1>1, CliAssumption DEF CliTypes, Kids
<1>5. i \in Range(flight) /\ InHand(child.given, child.said, drained', rest)
  BY <1>1, <1>4, HandledInHand
<1>6. Sorted(line, rest, outcome', lost, call.valid)
  BY <1>1, <1>4, <1>5, AnswerSorted
<1>7. rest \in Seq(Inputs) /\ Len(rest) <= Len(flight) /\ Len(rest) \in Nat /\ Len(flight) \in Nat
  <2>1. rest \in Seq(Inputs) /\ Len(rest) <= Len(flight)
    BY <1>4, WithoutItems
  <2> HIDE DEF rest
  <2> QED BY <1>4, <2>1, LenProperties
<1>8. drained' \in Seq(Words) /\ outcome' \in [Inputs -> {"none", "ok", "err"}]
  <2>1. Tail(drained) \in Seq(Words)
    BY <1>1, <1>4, TailItems
  <2> QED BY <1>1, <1>4, <2>1
<1>9. OutputsKept'
  BY <1>1, NothingWritten DEF Serving
<1> HIDE DEF rest, i
<1>10. CliTypes'
  BY <1>1, <1>7, <1>8 DEF CliTypes, Places
<1>11. Len(flight') <= jobs'
  BY <1>1, <1>4, <1>7
<1> QED BY <1>1, <1>5, <1>6, <1>9, <1>10, <1>11 DEF CliInv

\* A child that died is spawned anew with what it had.
LEMMA RetryBatchKeeps == CliInv /\ RetryBatch => CliInv'
<1> SUFFICES ASSUME CliInv, RetryBatch PROVE CliInv'
  OBVIOUS
<1>1. /\ phase = "loop" /\ drained = <<>> /\ CliTypes /\ OutputsKept
      /\ Sorted(line, flight, outcome, lost, call.valid)
      /\ line' = flight \o line /\ flight' = <<>> /\ jobs' = HalvedJobs /\ child' = Dead
      /\ UNCHANGED <<call, drained, paused, files, told, lost>>
  BY DEF CliInv, RetryBatch, Turns, Serving, RequeuedLine
<1>2. Dead \in Kids /\ Dead.given = <<>> /\ Dead.said = <<>>
  <2>1. <<>> \in Seq(Inputs) /\ <<>> \in Seq(Words \cup Reports)
    BY EmptySeq
  <2> QED BY <2>1 DEF Dead, Kids
<1>3. /\ line' \in Seq(Inputs) /\ Range(line') = Range(flight) \cup Range(line)
      /\ Distinct(flight) /\ Distinct(line) /\ Range(flight) \cap Range(line) = {} => Distinct(line')
  BY <1>1, ConcatItems DEF CliTypes
<1>4. jobs' \in Nat \ {0} /\ flight' \in Seq(Inputs) /\ Len(flight') <= jobs'
  BY <1>1 DEF HalvedJobs, CliTypes
<1>5. outcome' \in [Inputs -> {"none", "ok", "err"}] /\ phase' \in {"spawn", "write"}
  BY <1>1 DEF RetryBatch, CliTypes, Failing
<1>6. CliTypes'
  BY <1>1, <1>2, <1>3, <1>4, <1>5 DEF CliTypes, Places
<1>7. InHand(child'.given, child'.said, drained', flight')
  BY <1>1, <1>2, NothingInHand
<1>8. OutputsKept'
  BY <1>1, NothingWritten DEF Serving
<1>9. phase' = "spawn" => outcome' = outcome
  BY DEF RetryBatch
<1>10. phase' = "spawn" => Sorted(line', flight', outcome', lost', call'.valid)
  BY <1>1, <1>3, <1>9, EmptyLine DEF Sorted
<1>11. Serving' => phase' = "spawn"
  BY <1>5 DEF Serving
<1> QED BY <1>1, <1>4, <1>5, <1>6, <1>7, <1>8, <1>10, <1>11 DEF CliInv

\* Everything is answered, or given up.
LEMMA LeaveLoopKeeps == CliInv /\ LeaveLoop => CliInv'
<1> SUFFICES ASSUME CliInv, LeaveLoop PROVE CliInv'
  OBVIOUS
<1>1. /\ phase = "loop" /\ drained = <<>> /\ CliTypes /\ OutputsKept /\ Len(flight) <= jobs /\ flight = <<>>
      /\ phase' = "write" /\ child' = Dead
      /\ UNCHANGED <<call, jobs, line, flight, drained, paused, outcome, files, told, lost>>
  BY DEF CliInv, LeaveLoop, Turns, Serving
<1>2. Dead \in Kids /\ Dead.given = <<>> /\ Dead.said = <<>>
  <2>1. <<>> \in Seq(Inputs) /\ <<>> \in Seq(Words \cup Reports)
    BY EmptySeq
  <2> QED BY <2>1 DEF Dead, Kids
<1>3. CliTypes'
  BY <1>1, <1>2 DEF CliTypes, Places
<1>4. OutputsKept'
  BY <1>1, NothingWritten DEF Serving
<1>5. InHand(child'.given, child'.said, drained', flight')
  BY <1>1, <1>2, NothingInHand
<1>6. ~Serving'
  BY <1>1 DEF Serving
<1> QED BY <1>1, <1>3, <1>4, <1>5, <1>6 DEF CliInv

\* The next input to be told of is one of the inputs.
LEMMA NextIsUntold == ASSUME Untold # {} PROVE NextOne \in Untold
<1>1. Untold \subseteq Nat
  BY InputsAre DEF Untold
<1>2. \E m \in Untold : \A n \in Untold : m <= n
  BY <1>1, LeastOfSome
<1> QED BY <1>2 DEF NextOne

\* A result is written, or not.
LEMMA WriteOutKeeps == CliInv /\ WriteOut => CliInv'
<1> SUFFICES ASSUME CliInv, WriteOut PROVE CliInv'
  OBVIOUS
<1> DEFINE i == NextOne
           path == call.target[i]
<1>1. /\ phase = "write" /\ Untold # {} /\ CliTypes /\ OutputsKept
      /\ InHand(child.given, child.said, drained, flight) /\ Len(flight) <= jobs /\ flight = <<>> /\ drained = <<>>
      /\ UNCHANGED <<call, phase, jobs, line, flight, drained, paused, outcome, child, lost>>
  BY DEF CliInv, WriteOut
<1>2. i \in Inputs /\ told[i] = "no" /\ i \notin Succeeded /\ i \in DOMAIN call.target
  BY <1>1, NextIsUntold, CliAssumption DEF Untold, Succeeded, CliTypes
<1>3. path \in Places
  BY <1>2 DEF Places, Range
<1>4. CASE outcome[i] = "ok" /\ files' = [files EXCEPT ![path] = i] /\ told' = [told EXCEPT ![i] = "success"]
  <2> HIDE DEF path, i
  <2>1. Succeeded' = Succeeded \cup {i}
    BY <1>1, <1>2, <1>4 DEF Succeeded, CliTypes
  <2>2. CliTypes'
    BY <1>1, <1>2, <1>3, <1>4 DEF CliTypes, Places
  <2>3. files'[path] = i /\ (\A q \in Places \ {path} : files'[q] = files[q]) /\ Places' = Places
    BY <1>1, <1>3, <1>4 DEF CliTypes, Places
  <2>4. ASSUME NEW j \in Succeeded'
        PROVE  outcome'[j] = "ok" /\ files'[call.target[j]] \in Inputs
               /\ call.target[files'[call.target[j]]] = call.target[j]
    <3>1. call.target[j] \in Places /\ path = call.target[i]
      BY <2>1, <1>1, <1>2, CliAssumption DEF Places, Range, Succeeded, CliTypes, path
    <3>2. CASE call.target[j] = path
      BY <1>1, <1>2, <1>4, <2>1, <2>3, <3>1, <3>2 DEF OutputsKept
    <3>3. CASE call.target[j] # path
      BY <1>1, <2>1, <2>3, <3>1, <3>3 DEF OutputsKept
    <3> QED BY <3>2, <3>3
  <2>5. ASSUME NEW q \in Places, files'[q] \in Inputs PROVE files'[q] \in Succeeded'
    BY <1>1, <2>1, <2>3, <2>5 DEF OutputsKept
  <2>6. ~Serving'
    BY <1>1 DEF Serving
  <2>7. OutputsKept'
    BY <1>1, <2>3, <2>4, <2>5, <2>6 DEF OutputsKept
  <2> QED BY <1>1, <2>2, <2>6, <2>7 DEF CliInv
<1>5. CASE told' = [told EXCEPT ![i] = "failure"] /\ files' = files
  <2> HIDE DEF path, i
  <2>1. Succeeded' = Succeeded
    BY <1>1, <1>2, <1>5 DEF Succeeded, CliTypes
  <2>2. CliTypes'
    BY <1>1, <1>2, <1>5 DEF CliTypes, Places
  <2>3. OutputsKept' /\ ~Serving'
    BY <1>1, <1>5, <2>1 DEF OutputsKept, Serving, Places
  <2> QED BY <1>1, <2>2, <2>3 DEF CliInv
<1> QED BY <1>4, <1>5 DEF WriteOut

\* The end of the call.
LEMMA ReportKeeps == CliInv /\ Report => CliInv'
<1> SUFFICES ASSUME CliInv, Report PROVE CliInv'
  OBVIOUS
<1>1. /\ phase = "write" /\ phase' = "over"
      /\ UNCHANGED <<call, jobs, line, flight, drained, paused, outcome, child, files, told, lost>>
  BY DEF Report
<1>2. CliTypes'
  BY <1>1 DEF CliInv, CliTypes, Places
<1>3. OutputsKept' /\ ~Serving'
  BY <1>1 DEF CliInv, OutputsKept, Serving, Places, Succeeded
<1> QED BY <1>1, <1>2, <1>3 DEF CliInv

\* A step of the child leaves the command line alone.
LEMMA ChildKeeps ==
    ASSUME CliInv, UNCHANGED <<call, phase, jobs, line, flight, drained, outcome, files, told, lost>>,
           child' \in Kids, InHand(child'.given, child'.said, drained, flight)
    PROVE  CliInv'
<1>1. CliTypes'
  BY DEF CliInv, CliTypes, Places
<1>2. OutputsKept'
  BY DEF CliInv, OutputsKept, Serving, Places, Succeeded
<1> QED BY <1>1, <1>2 DEF CliInv, Serving

\* The child says a word: an answer to what it has, which it then has no more,
\* or a report.
LEMMA ChildSaysKeeps ==
    ASSUME CliInv, NEW w \in Words \cup Reports, NEW gv \in Seq(Inputs), NEW n \in Nat, ChildSays(w, gv, n),
           Distinct(gv), Range(gv) \subseteq Range(child.given),
           w.type # "rss" => w.input \in Range(child.given) \ Range(gv)
    PROVE  CliInv'
<1> DEFINE all == Words \cup Reports
           sd == Append(child.said, w)
<1>1. child \in Kids /\ child.said \in Seq(all) /\ InHand(child.given, child.said, drained, flight)
  BY DEF CliInv, CliTypes, Kids
<1>2. child' = [child EXCEPT !.said = sd, !.given = gv, !.owes = n]
      /\ UNCHANGED <<call, phase, jobs, line, flight, drained, outcome, files, told, lost>>
  BY DEF ChildSays
<1> HIDE DEF sd, all
<1>3. sd \in Seq(all) /\ Range(sd) = Range(child.said) \cup {w}
  BY <1>1, AppendItems DEF sd, all
<1>4. child' \in Kids /\ child'.given = gv /\ child'.said = sd
  BY <1>1, <1>2, <1>3 DEF Kids, all
<1>5. Spoken(sd) = Spoken(child.said) \cup (IF w.type = "rss" THEN {} ELSE {w.input})
  BY <1>3 DEF Spoken
<1>6. Rising(sd, Apart)
  <2>1. ASSUME NEW x \in Range(child.said) PROVE <<x, w>> \in Apart
    <3>1. x \in Words \cup Reports
      BY <1>1 DEF Range, all
    <3>2. x.type = "rss" \/ x.input # w.input
      <4>1. CASE x.type # "rss" /\ w.type = "rss"
        <5>1. x.input \in Inputs /\ w.input = 0
          BY <3>1, <4>1 DEF Words, Reports
        <5> QED BY <5>1, InputsAre
      <4>2. CASE x.type # "rss" /\ w.type # "rss"
        BY <1>1, <4>2 DEF InHand, Spoken
      <4> QED BY <4>1, <4>2
    <3> QED BY <3>1, <3>2 DEF Apart
  <2>2. Range(child.said) \X {w} \subseteq Apart
    BY <2>1
  <2>3. Rising(child.said, Apart) /\ w \in all
    BY <1>1 DEF InHand, all
  <2> QED BY <1>1, <2>2, <2>3, AppendRising DEF sd
<1>7. InHand(child'.given, child'.said, drained, flight)
  <2>1. InHand(gv, sd, drained, flight)
    BY <1>1, <1>5, <1>6 DEF InHand
  <2> QED BY <1>4, <2>1
<1> QED BY <1>2, <1>4, <1>7, ChildKeeps

\* The child answers on an image.
LEMMA ChildAnswersKeeps == CliInv /\ ChildAnswers => CliInv'
<1> SUFFICES ASSUME CliInv, ChildAnswers PROVE CliInv'
  OBVIOUS
<1> DEFINE word(i, type) == [type |-> type, input |-> i, high |-> FALSE]
<1>1. PICK i \in Range(child.given), type \in {"done", "error"} :
          ChildSays(word(i, type), Without(child.given, {i}), IF type = "done" THEN child.owes + 1 ELSE child.owes)
  <2>1. \E i \in Range(child.given), type \in {"done"} \cup (IF "image" \in CliFaults THEN {"error"} ELSE {}) :
          ChildSays(word(i, type), Without(child.given, {i}), IF type = "done" THEN child.owes + 1 ELSE child.owes)
    BY DEF ChildAnswers
  <2> QED BY <2>1
<1> DEFINE w == word(i, type)
           rest == Without(child.given, {i})
           n == IF type = "done" THEN child.owes + 1 ELSE child.owes
<1>2. child.given \in Seq(Inputs) /\ child.owes \in Nat /\ Distinct(child.given)
  BY DEF CliInv, CliTypes, Kids, InHand
<1>3. w \in Words /\ w.input = i /\ w.type # "rss"
  BY <1>2 DEF Words, Range
<1>4. rest \in Seq(Inputs) /\ Range(rest) = Range(child.given) \ {i} /\ Distinct(rest)
  BY <1>2, WithoutItems
<1>5. n \in Nat /\ ChildSays(w, rest, n)
  BY <1>1, <1>2
<1> HIDE DEF w, rest, n
<1> QED BY <1>3, <1>4, <1>5, ChildSaysKeeps

\* The child reports its memory.
LEMMA ChildReportsKeeps == CliInv /\ ChildReportsRss => CliInv'
<1> SUFFICES ASSUME CliInv, ChildReportsRss PROVE CliInv'
  OBVIOUS
<1> DEFINE word(high) == [type |-> "rss", input |-> 0, high |-> high]
<1>1. PICK high \in BOOLEAN : ChildSays(word(high), child.given, child.owes - 1)
  BY DEF ChildReportsRss
<1> DEFINE w == word(high)
           n == child.owes - 1
<1>2. child.given \in Seq(Inputs) /\ n \in Nat /\ Distinct(child.given)
  BY DEF CliInv, CliTypes, Kids, InHand, ChildReportsRss
<1>3. w \in Reports /\ w.type = "rss"
  BY DEF Reports
<1>4. ChildSays(w, child.given, n)
  BY <1>1
<1> HIDE DEF w, n
<1> QED BY <1>2, <1>3, <1>4, ChildSaysKeeps

\* The child dies.
LEMMA ChildDiesKeeps == CliInv /\ ChildDies => CliInv'
<1> SUFFICES ASSUME CliInv, ChildDies PROVE CliInv'
  OBVIOUS
<1>1. /\ child' = [child EXCEPT !.up = FALSE, !.given = <<>>]
      /\ UNCHANGED <<call, phase, jobs, line, flight, drained, paused, outcome, files, told, lost>>
      /\ child \in Kids /\ InHand(child.given, child.said, drained, flight)
  BY DEF ChildDies, CliInv, CliTypes
<1>2. <<>> \in Seq(Inputs)
  BY EmptySeq
<1>3. child' \in Kids /\ child'.given = <<>> /\ child'.said = child.said
  BY <1>1, <1>2 DEF Kids
<1>4. InHand(child'.given, child'.said, drained, flight)
  BY <1>1, <1>3, EmptyLine DEF InHand
<1> QED BY <1>1, <1>3, <1>4, ChildKeeps

\* Every step keeps the invariant.
LEMMA CliInvNext == CliInv /\ [CliNext]_cliVars => CliInv'
<1> SUFFICES ASSUME CliInv, [CliNext]_cliVars PROVE CliInv'
  OBVIOUS
<1>1. CASE UNCHANGED cliVars
  <2>1. UNCHANGED <<call, phase, jobs, line, flight, drained, outcome, files, told, lost, child>>
    BY <1>1 DEF cliVars
  <2> QED BY <2>1, ChildKeeps DEF CliInv, CliTypes
<1> QED BY <1>1, SpawnKeeps, BurstKeeps, PollKeeps, ImageDoneKeeps, ImageErrorKeeps, RetryBatchKeeps, LeaveLoopKeeps,
           WriteOutKeeps, ReportKeeps, ChildAnswersKeeps, ChildReportsKeeps, ChildDiesKeeps DEF CliNext, Cli

----------------------------------------------------------------------------
(* The making of engines                                                   *)

Variants   == {"optimized", "full"}
PassKinds  == [place : {"gpu", "cpu"}, variant : Variants]
Making == [ep : AllProviders \cup {"none"}, graph : {"none", "partial", "whole"}, writes : BOOLEAN]

ProvTypes ==
    /\ able \in Machines
    /\ passes \in [Procs -> Seq(PassKinds)] /\ ladder \in [Procs -> Seq(AllProviders)]
    /\ commit \in [Procs -> Making] /\ engine \in [Procs -> AllProviders \cup {"none", "failed"}]
    /\ knows \in [Procs -> SUBSET (AllProviders \ {"CPU"})] /\ listed \subseteq AllProviders \ {"CPU"}
    /\ graphs \in [Caching -> {"none", "partial", "whole"}]

\* What is being made is at the head of the ladder, of a pass of the build.
Underway(p) ==
    commit[p] # NoCommit =>
        /\ passes[p] # <<>> /\ ladder[p] # <<>>
        /\ commit[p].ep = Head(ladder[p])
        /\ commit[p].ep = "CPU" /\ commit[p].graph = "partial" => p \in spoilt

\* The last pass is the CPU's full model, which fails only with a spoilt graph.
EndsOnCpu(p) ==
    family # "sd" /\ passes[p] # <<>> =>
        /\ passes[p][Len(passes[p])] = Pass("cpu", "full")
        /\ Len(passes[p]) = 1 => ladder[p] = <<"CPU">> \/ (ladder[p] = <<>> /\ p \in spoilt)

Blamed(e) == e \in listed \/ \E p \in Procs : e \in knows[p]
Blameless(e) == {e} \X Variants \in SUBSET able

ProvInv ==
    /\ ProvTypes /\ ProvidersOK
    /\ \A p \in Procs : Underway(p) /\ EndsOnCpu(p)

\* A provider that was rightly blamed does not become blameless.
LEMMA BlameStays ==
    ASSUME NoFalseBlame, able' = able, NEW e, Blamed(e) PROVE ~Blameless(e)'
<1>1. e \in listed \cup UNION {knows[p] : p \in Procs}
  BY DEF Blamed
<1>2. {e} \X {"optimized", "full"} \notin SUBSET able
  BY <1>1 DEF NoFalseBlame
<1> QED BY <1>2 DEF Blameless, Variants

\* Blame is right if everyone blamed is not blameless.
LEMMA BlameTrue ==
    ASSUME \A e : Blamed(e)' => ~Blameless(e)' PROVE NoFalseBlame'
<1>1. ASSUME NEW e \in listed' \cup UNION {knows'[p] : p \in Procs} PROVE {e} \X {"optimized", "full"} \notin SUBSET able'
  <2>1. Blamed(e)'
    BY DEF Blamed
  <2> QED BY <2>1 DEF Blameless, Variants
<1> QED BY <1>1 DEF NoFalseBlame

\* Nobody is blamed anew.
LEMMA NoNewBlame ==
    ASSUME NoFalseBlame, able' = able, \A e : Blamed(e)' => Blamed(e) PROVE NoFalseBlame'
BY BlameStays, BlameTrue

\* The providers there are are none of the marks for an engine that is missing.
LEMMA ProviderNames ==
    /\ Gpus \in Seq(AllProviders) /\ <<"CPU">> \in Seq(AllProviders)
    /\ "none" \notin AllProviders /\ "failed" \notin AllProviders
<1>1. Gpus \in Seq(STRING)
  BY ProvidersAssumption
<1>2. \A n \in 1 .. Len(Gpus) : Gpus[n] \in AllProviders
  BY <1>1 DEF AllProviders
<1>3. Gpus \in Seq(AllProviders)
  BY <1>1, <1>2
<1>4. "CPU" \in AllProviders /\ "none" \notin AllProviders /\ "failed" \notin AllProviders
  BY ProvidersAssumption DEF AllProviders
<1> QED BY <1>3, <1>4

\* The passes of a build and what each tries are what their names say.
LEMMA SameBlame ==
    ASSUME ProvidersOK, UNCHANGED <<family, able, engine, knows, listed>>, spoilt \subseteq spoilt' PROVE ProvidersOK'
<1>1. NoFalseBlame'
  BY NoNewBlame DEF ProvidersOK, Blamed
<1>2. CpuIsLastResort'
  BY DEF ProvidersOK, CpuIsLastResort
<1> QED BY <1>1, <1>2 DEF ProvidersOK

\* The passes of a family, each a pass.
LEMMA PassesAre ==
    ASSUME NEW kind
    PROVE  /\ Passes(kind) \in Seq(PassKinds) /\ Passes(kind) # <<>>
           /\ kind # "sd" => Len(Passes(kind)) > 1 /\ Passes(kind)[Len(Passes(kind))] = Pass("cpu", "full")
<1>1. Pass("gpu", "full") \in PassKinds /\ Pass("cpu", "full") \in PassKinds
      /\ Pass("gpu", "optimized") \in PassKinds /\ Pass("cpu", "optimized") \in PassKinds
  BY DEF Pass, PassKinds, Variants
<1>2. CASE kind = "seg"
  BY <1>1, <1>2 DEF Passes
<1>3. CASE kind = "sd"
  BY <1>1, <1>3 DEF Passes
<1>4. CASE kind # "seg" /\ kind # "sd"
  BY <1>1, <1>4 DEF Passes
<1> QED BY <1>2, <1>3, <1>4

\* The providers that a pass tries are providers.
LEMMA RungsAre ==
    ASSUME NEW p \in PassKinds
    PROVE  Rungs(p) \in Seq(AllProviders) /\ (p = Pass("cpu", "full") => Rungs(p) = <<"CPU">>)
BY ProviderNames DEF Rungs, Pass, PassKinds

\* No engine has been asked for at first.
LEMMA ProvInvInit == ProvInit => ProvInv
<1> SUFFICES ASSUME ProvInit PROVE ProvInv
  OBVIOUS
<1>1. NoCommit \in Making
  BY DEF NoCommit, Making
<1>2. ProvTypes
  BY <1>1 DEF ProvInit, ProvTypes
<1>3. ProvidersOK
  BY DEF ProvInit, ProvidersOK, NoFalseBlame, CpuIsLastResort
<1>4. \A p \in Procs : Underway(p) /\ EndsOnCpu(p)
  BY DEF ProvInit, Underway, EndsOnCpu
<1> QED BY <1>2, <1>3, <1>4 DEF ProvInv

\* What holds of one builder holds of those a step leaves alone.
LEMMA OthersBuildOn ==
    ASSUME NEW p \in Procs, Underway(p), EndsOnCpu(p),
           family' = family, passes'[p] = passes[p], ladder'[p] = ladder[p], commit'[p] = commit[p],
           p \in spoilt => p \in spoilt'
    PROVE  Underway(p)' /\ EndsOnCpu(p)'
BY DEF Underway, EndsOnCpu

\* A build begins with its passes.
LEMMA StartBuildKeeps == ASSUME ProvInv, NEW p \in Procs, StartBuild(p) PROVE ProvInv'
<1> USE DEF ProvInv
<1> DEFINE ps == Passes(family)
<1>0. ps \in Seq(PassKinds) /\ ps # <<>> /\ ps[1] \in PassKinds
      /\ (family # "sd" => Len(ps) > 1 /\ ps[Len(ps)] = Pass("cpu", "full"))
  BY PassesAre
<1>1. Rungs(ps[1]) \in Seq(AllProviders)
  BY <1>0, RungsAre
<1> HIDE DEF ps
<1>2. /\ passes' = [passes EXCEPT ![p] = ps] /\ ladder' = [ladder EXCEPT ![p] = Rungs(ps[1])]
      /\ engine' = [engine EXCEPT ![p] = "none"] /\ knows' = [knows EXCEPT ![p] = listed]
      /\ spoilt' = spoilt \ {p} /\ UNCHANGED <<family, able, commit, listed, graphs, kills>>
      /\ passes[p] = <<>>
  BY DEF StartBuild, ps
<1>3. ProvTypes'
  BY <1>0, <1>1, <1>2 DEF ProvTypes
<1>4. ProvidersOK'
  <2>1. \A e : Blamed(e)' => Blamed(e)
    BY <1>2 DEF Blamed, ProvTypes
  <2>2. NoFalseBlame'
    BY <1>2, <2>1, NoNewBlame DEF ProvidersOK
  <2>3. CpuIsLastResort'
    BY <1>2 DEF ProvidersOK, CpuIsLastResort, ProvTypes
  <2> QED BY <2>2, <2>3 DEF ProvidersOK
<1>5. ASSUME NEW q \in Procs PROVE Underway(q)' /\ EndsOnCpu(q)'
  <2>1. CASE q = p
    <3>1. commit[p] = NoCommit
      BY <1>2 DEF Underway
    <3>2. passes'[p] = ps
      BY <1>2 DEF ProvTypes
    <3> QED BY <1>0, <1>2, <2>1, <3>1, <3>2 DEF Underway, EndsOnCpu
  <2>2. CASE q # p
    BY <1>2, <2>2, OthersBuildOn DEF ProvTypes
  <2> QED BY <2>1, <2>2
<1> QED BY <1>3, <1>4, <1>5

\* A provider known to fail is passed over.
LEMMA SkipKnownKeeps == ASSUME ProvInv, NEW p \in Procs, SkipKnown(p) PROVE ProvInv'
<1> USE DEF ProvInv
<1>2. /\ commit[p] = NoCommit /\ ladder[p] # <<>> /\ Head(ladder[p]) \in knows[p] /\ passes[p] # <<>>
      /\ ladder' = [ladder EXCEPT ![p] = Tail(@)]
      /\ UNCHANGED <<family, able, passes, commit, engine, knows, listed, graphs, spoilt, kills>>
  BY DEF SkipKnown, Climbs
<1>3. ProvTypes'
  <2>1. Tail(ladder[p]) \in Seq(AllProviders)
    BY <1>2 DEF ProvTypes
  <2> QED BY <1>2, <2>1 DEF ProvTypes
<1>4. ProvidersOK'
  BY <1>2, SameBlame
<1>5. ASSUME NEW q \in Procs PROVE Underway(q)' /\ EndsOnCpu(q)'
  <2>1. CASE q = p
    <3>1. ladder[p] # <<"CPU">>
      BY <1>2 DEF ProvTypes
    <3> QED BY <1>2, <2>1, <3>1 DEF Underway, EndsOnCpu
  <2>2. CASE q # p
    BY <1>2, <2>2, OthersBuildOn DEF ProvTypes
  <2> QED BY <2>1, <2>2
<1> QED BY <1>3, <1>4, <1>5

\* A pass that came to nothing is followed by the next.
LEMMA NextPassKeeps == ASSUME ProvInv, NEW p \in Procs, NextPass(p) PROVE ProvInv'
<1> USE DEF ProvInv
<1> DEFINE ps == passes[p]
<1>1. ps \in Seq(PassKinds) /\ ps # <<>> /\ commit[p] = NoCommit /\ ladder[p] = <<>>
      /\ passes' = [passes EXCEPT ![p] = Tail(ps)]
      /\ UNCHANGED <<family, able, commit, knows, listed, graphs, spoilt, kills>>
  BY DEF NextPass, Climbs, ProvTypes
<1>2. CASE Len(ps) = 1
  <2>1. engine' = [engine EXCEPT ![p] = "failed"] /\ ladder' = ladder
    BY <1>2 DEF NextPass
  <2> HIDE DEF ps
  <2>6. Tail(ps) = <<>>
    <3>1. Tail(ps) \in Seq(PassKinds) /\ Len(Tail(ps)) = 0
      BY <1>1, <1>2, HeadTailProperties
    <3> QED BY <3>1, EmptySeq
  <2>2. ProvTypes'
    BY <1>1, <2>1 DEF ProvTypes
  <2>3. family # "sd" => p \in spoilt
    BY <1>1, <1>2 DEF EndsOnCpu, ps
  <2>4. ProvidersOK'
    <3>1. NoFalseBlame'
      BY <1>1, NoNewBlame DEF ProvidersOK, Blamed
    <3>2. CpuIsLastResort'
      BY <1>1, <2>1, <2>3 DEF ProvidersOK, CpuIsLastResort, ProvTypes
    <3> QED BY <3>1, <3>2 DEF ProvidersOK
  <2>5. ASSUME NEW q \in Procs PROVE Underway(q)' /\ EndsOnCpu(q)'
    <3>1. CASE q = p
      BY <1>1, <2>1, <2>6, <3>1 DEF Underway, EndsOnCpu, ProvTypes
    <3>2. CASE q # p
      BY <1>1, <2>1, <3>2, OthersBuildOn DEF ProvTypes
    <3> QED BY <3>1, <3>2
  <2> QED BY <2>2, <2>4, <2>5
<1>3. CASE Len(ps) # 1
  <2>0. Len(ps) > 1 /\ ps[2] \in PassKinds
    <3> HIDE DEF ps
    <3>1. Len(ps) \in Nat /\ Len(ps) # 0
      BY <1>1, EmptySeq
    <3>2. Len(ps) > 1
      BY <1>3, <3>1
    <3> QED BY <1>1, <3>2, ElementOfSeq
  <2>1. ladder' = [ladder EXCEPT ![p] = Rungs(ps[2])] /\ engine' = engine
    BY <1>3 DEF NextPass
  <2>2. Rungs(ps[2]) \in Seq(AllProviders) /\ (ps[2] = Pass("cpu", "full") => Rungs(ps[2]) = <<"CPU">>)
    BY <2>0, RungsAre
  <2> HIDE DEF ps
  <2>3. Tail(ps) \in Seq(PassKinds) /\ Len(Tail(ps)) = Len(ps) - 1 /\ Tail(ps)[Len(Tail(ps))] = ps[Len(ps)]
    BY <1>1, <2>0
  <2>4. ProvTypes'
    BY <1>1, <2>1, <2>2, <2>3 DEF ProvTypes
  <2>5. ProvidersOK'
    BY <1>1, <2>1, SameBlame
  <2>6. ASSUME NEW q \in Procs PROVE Underway(q)' /\ EndsOnCpu(q)'
    <3>1. CASE q = p
      <4>1. passes'[p] = Tail(ps) /\ ladder'[p] = Rungs(ps[2]) /\ commit'[p] = NoCommit /\ NoCommit' = NoCommit
        BY <1>1, <2>1 DEF ProvTypes, NoCommit
      <4>2. family # "sd" => ps[Len(ps)] = Pass("cpu", "full")
        BY <1>1 DEF EndsOnCpu, ps
      <4>3. Len(Tail(ps)) = 1 => ps[2] = ps[Len(ps)]
        <5>1. Len(ps) \in Nat
          BY <1>1, LenProperties
        <5>2. Len(Tail(ps)) = 1 => Len(ps) = 2
          BY <5>1, <2>3
        <5> QED BY <5>2
      <4>4. Underway(p)'
        BY <4>1 DEF Underway
      <4>5. EndsOnCpu(p)'
        BY <1>1, <2>2, <2>3, <4>1, <4>2, <4>3 DEF EndsOnCpu
      <4> QED BY <3>1, <4>4, <4>5
    <3>2. CASE q # p
      BY <1>1, <2>1, <3>2, OthersBuildOn DEF ProvTypes
    <3> QED BY <3>1, <3>2
  <2> QED BY <2>4, <2>5, <2>6
<1> QED BY <1>2, <1>3

\* The head of the ladder is tried.
LEMMA StartCommitKeeps == ASSUME ProvInv, NEW p \in Procs, StartCommit(p) PROVE ProvInv'
<1> USE DEF ProvInv
<1> DEFINE ep == Head(ladder[p])
           graph == IF ep \in Caching THEN graphs[ep] ELSE "none"
           made == [ep |-> ep, graph |-> graph, writes |-> FALSE]
<1>1. /\ passes[p] # <<>> /\ ladder[p] # <<>>
      /\ commit' = [commit EXCEPT ![p] = made]
      /\ spoilt' = IF ep = "CPU" /\ graph = "partial" THEN spoilt \cup {p} ELSE spoilt
      /\ UNCHANGED <<family, able, passes, ladder, engine, knows, listed, graphs, kills>>
  BY DEF StartCommit, Climbs
<1>2. ep \in AllProviders /\ graph \in {"none", "partial", "whole"}
  BY <1>1 DEF ProvTypes
<1> HIDE DEF graph
<1>3. made \in Making /\ made.ep = ep /\ made.graph = graph
  BY <1>2 DEF Making
<1> HIDE DEF made
<1>4. ProvTypes'
  BY <1>1, <1>3 DEF ProvTypes
<1>5. ProvidersOK'
  BY <1>1, SameBlame
<1>6. ASSUME NEW q \in Procs PROVE Underway(q)' /\ EndsOnCpu(q)'
  <2>1. CASE q = p
    <3>1. commit'[p] = made
      BY <1>1 DEF ProvTypes
    <3> QED BY <1>1, <1>3, <2>1, <3>1 DEF Underway, EndsOnCpu
  <2>2. CASE q # p
    BY <1>1, <2>2, OthersBuildOn DEF ProvTypes
  <2> QED BY <2>1, <2>2
<1> QED BY <1>4, <1>5, <1>6

\* The optimised graph is written.
LEMMA StartWriteKeeps == ASSUME ProvInv, NEW p \in Procs, StartWrite(p) PROVE ProvInv'
<1> USE DEF ProvInv
<1>1. /\ commit[p] # NoCommit
      /\ commit' = [commit EXCEPT ![p].writes = TRUE] /\ graphs' = [graphs EXCEPT ![commit[p].ep] = "partial"]
      /\ UNCHANGED <<family, able, passes, ladder, engine, knows, listed, spoilt, kills>>
  BY DEF StartWrite
<1> DEFINE made == [commit[p] EXCEPT !.writes = TRUE]
<1>2. commit[p] \in Making
  BY DEF ProvTypes
<1>3. made \in Making /\ made.ep = commit[p].ep /\ made.graph = commit[p].graph
  BY <1>2 DEF Making
<1>4. commit' = [commit EXCEPT ![p] = made]
  BY <1>1
<1> HIDE DEF made
<1>5. ProvTypes'
  BY <1>1, <1>3, <1>4 DEF ProvTypes
<1>6. ProvidersOK'
  BY <1>1, SameBlame
<1>7. ASSUME NEW q \in Procs PROVE Underway(q)' /\ EndsOnCpu(q)'
  <2>1. CASE q = p
    <3>1. commit'[p] = made
      BY <1>4 DEF ProvTypes
    <3> QED BY <1>1, <1>3, <2>1, <3>1 DEF Underway, EndsOnCpu
  <2>2. CASE q # p
    BY <1>1, <1>4, <2>2, OthersBuildOn DEF ProvTypes
  <2> QED BY <2>1, <2>2
<1> QED BY <1>5, <1>6, <1>7

\* The session is made.
LEMMA CommitSucceedsKeeps == ASSUME ProvInv, NEW p \in Procs, CommitSucceeds(p) PROVE ProvInv'
<1> USE DEF ProvInv
<1>1. /\ commit[p] # NoCommit
      /\ engine' = [engine EXCEPT ![p] = commit[p].ep]
      /\ passes' = [passes EXCEPT ![p] = <<>>] /\ ladder' = [ladder EXCEPT ![p] = <<>>]
      /\ commit' = [commit EXCEPT ![p] = NoCommit] /\ graphs' = Written(p)
      /\ UNCHANGED <<family, able, knows, listed, spoilt, kills>>
  BY DEF CommitSucceeds
<1>2. commit[p].ep \in AllProviders /\ commit[p].ep # "failed"
  <2>1. ladder[p] \in Seq(AllProviders) /\ ladder[p] # <<>> /\ commit[p].ep = Head(ladder[p])
    BY <1>1 DEF ProvTypes, Underway
  <2> QED BY <2>1, ProviderNames
<1>3. NoCommit \in Making
  BY DEF NoCommit, Making
<1>4. Written(p) \in [Caching -> {"none", "partial", "whole"}]
  BY DEF Written, ProvTypes
<1>5. ProvTypes'
  BY <1>1, <1>2, <1>3, <1>4 DEF ProvTypes
<1>6. ProvidersOK'
  <2>1. NoFalseBlame'
    BY <1>1, NoNewBlame DEF ProvidersOK, Blamed
  <2>2. CpuIsLastResort'
    BY <1>1, <1>2 DEF ProvidersOK, CpuIsLastResort, ProvTypes
  <2> QED BY <2>1, <2>2 DEF ProvidersOK
<1>7. ASSUME NEW q \in Procs PROVE Underway(q)' /\ EndsOnCpu(q)'
  <2>1. CASE q = p
    BY <1>1, <2>1 DEF Underway, EndsOnCpu, ProvTypes, NoCommit
  <2>2. CASE q # p
    BY <1>1, <2>2, OthersBuildOn DEF ProvTypes
  <2> QED BY <2>1, <2>2
<1> QED BY <1>5, <1>6, <1>7

\* The session is not made: its provider is blamed, or its graph spoilt.
LEMMA CommitFailsKeeps == ASSUME ProvInv, NEW p \in Procs, CommitFails(p) PROVE ProvInv'
<1> USE DEF ProvInv
<1> DEFINE recorded == {commit[p].ep} \ (Suspects(p) \cup {"CPU"})
<1>1. /\ commit[p] # NoCommit /\ ~Works(p)
      /\ knows' = [knows EXCEPT ![p] = @ \cup recorded]
      /\ listed' = IF recorded \subseteq knows[p] THEN listed ELSE knows'[p]
      /\ graphs' = [e \in Caching |-> IF e \in Suspects(p) THEN "none" ELSE Written(p)[e]]
      /\ commit' = [commit EXCEPT ![p] = NoCommit] /\ ladder' = [ladder EXCEPT ![p] = Tail(@)]
      /\ UNCHANGED <<family, able, passes, engine, spoilt, kills>>
  BY DEF CommitFails
<1>2. /\ passes[p] # <<>> /\ ladder[p] # <<>> /\ ladder[p] \in Seq(AllProviders) /\ passes[p] \in Seq(PassKinds)
      /\ commit[p].ep = Head(ladder[p]) /\ commit[p].ep \in AllProviders
      /\ (commit[p].ep = "CPU" /\ commit[p].graph = "partial" => p \in spoilt)
  BY <1>1 DEF Underway, ProvTypes
<1>3. passes[p][1] \in PassKinds /\ Variant(p) \in Variants
  <2>1. passes[p][1] \in PassKinds
    <3> DEFINE ps == passes[p]
    <3>1. ps \in Seq(PassKinds) /\ ps # <<>>
      BY <1>2
    <3> HIDE DEF ps
    <3>2. ps[1] \in PassKinds
      BY <3>1
    <3> QED BY <3>2 DEF ps
  <2> QED BY <2>1 DEF Variant, PassKinds
<1>4. recorded \subseteq AllProviders \ {"CPU"}
  BY <1>2
<1>5. ASSUME NEW e \in recorded PROVE {e} \X Variants \notin SUBSET able
  <2>1. e = commit[p].ep /\ commit[p].graph = "none"
    BY DEF Suspects, WasCached
  <2>2. <<e, Variant(p)>> \notin able
    BY <1>1, <2>1 DEF Works
  <2> QED BY <1>3, <2>2
<1>6. knows'[p] = knows[p] \cup recorded
  BY <1>1 DEF ProvTypes
<1>7. ProvTypes'
  <2>1. Written(p) \in [Caching -> {"none", "partial", "whole"}]
    BY DEF Written, ProvTypes
  <2>2. graphs' \in [Caching -> {"none", "partial", "whole"}]
    BY <1>1, <2>1
  <2>3. NoCommit \in Making /\ Tail(ladder[p]) \in Seq(AllProviders)
    BY <1>2 DEF NoCommit, Making
  <2>4. knows[p] \subseteq AllProviders \ {"CPU"}
    BY DEF ProvTypes
  <2>5. listed' \subseteq AllProviders \ {"CPU"}
    BY <1>1, <1>4, <1>6, <2>4 DEF ProvTypes
  <2>6. knows' \in [Procs -> SUBSET (AllProviders \ {"CPU"})]
    BY <1>1, <1>4, <2>4 DEF ProvTypes
  <2> HIDE DEF recorded
  <2> QED BY <1>1, <2>2, <2>3, <2>5, <2>6 DEF ProvTypes
<1> HIDE DEF recorded
<1>8. NoFalseBlame'
  <2>1. ASSUME NEW e \in listed' \cup UNION {knows'[q] : q \in Procs}
        PROVE  {e} \X Variants \notin SUBSET able
    <3>1. e \in listed \/ (\E q \in Procs : e \in knows[q]) \/ e \in recorded
      BY <1>1, <1>6 DEF ProvTypes
    <3> QED BY <1>5, <3>1 DEF ProvidersOK, NoFalseBlame, Variants
  <2> QED BY <1>1, <2>1 DEF NoFalseBlame, Variants
<1>9. CpuIsLastResort'
  BY <1>1 DEF ProvidersOK, CpuIsLastResort
<1>10. ASSUME NEW q \in Procs PROVE Underway(q)' /\ EndsOnCpu(q)'
  <2>1. CASE q = p
    <3>1. commit'[p] = NoCommit /\ ladder'[p] = Tail(ladder[p]) /\ NoCommit' = NoCommit
      BY <1>1 DEF ProvTypes, NoCommit
    <3>2. Underway(p)'
      BY <3>1 DEF Underway
    <3>3. ASSUME family # "sd", Len(passes[p]) = 1 PROVE Tail(ladder[p]) = <<>> /\ p \in spoilt
      <4>1. passes[p][1] = Pass("cpu", "full") /\ ladder[p] = <<"CPU">>
        BY <1>2, <3>3 DEF EndsOnCpu
      <4>2. <<commit[p].ep, Variant(p)>> \in able
        BY <1>2, <4>1, ProvidersAssumption DEF ProvTypes, Pass, Variant
      <4>3. commit[p].graph = "partial"
        BY <1>1, <4>2 DEF Works
      <4> QED BY <1>2, <4>1, <4>3
    <3>4. EndsOnCpu(p)'
      BY <1>1, <3>1, <3>3 DEF EndsOnCpu
    <3> QED BY <2>1, <3>2, <3>4
  <2>2. CASE q # p
    BY <1>1, <2>2, OthersBuildOn DEF ProvTypes
  <2> QED BY <2>1, <2>2
<1> QED BY <1>7, <1>8, <1>9, <1>10 DEF ProvidersOK

\* The process is killed in the middle of a build.
LEMMA KillBuilderKeeps == ASSUME ProvInv, NEW p \in Procs, KillBuilder(p) PROVE ProvInv'
<1> USE DEF ProvInv
<1>1. /\ passes' = [passes EXCEPT ![p] = <<>>] /\ ladder' = [ladder EXCEPT ![p] = <<>>]
      /\ commit' = [commit EXCEPT ![p] = NoCommit] /\ engine' = [engine EXCEPT ![p] = "none"]
      /\ UNCHANGED <<family, able, knows, listed, graphs, spoilt>>
  BY DEF KillBuilder
<1>2. NoCommit \in Making
  BY DEF NoCommit, Making
<1>3. ProvTypes'
  BY <1>1, <1>2 DEF ProvTypes
<1>4. ProvidersOK'
  <2>1. NoFalseBlame'
    BY <1>1, NoNewBlame DEF ProvidersOK, Blamed
  <2>2. CpuIsLastResort'
    BY <1>1 DEF ProvidersOK, CpuIsLastResort, ProvTypes
  <2> QED BY <2>1, <2>2 DEF ProvidersOK
<1>5. ASSUME NEW q \in Procs PROVE Underway(q)' /\ EndsOnCpu(q)'
  <2>1. CASE q = p
    BY <1>1, <2>1 DEF Underway, EndsOnCpu, ProvTypes, NoCommit
  <2>2. CASE q # p
    BY <1>1, <2>2, OthersBuildOn DEF ProvTypes
  <2> QED BY <2>1, <2>2
<1> QED BY <1>3, <1>4, <1>5

\* Every step keeps the invariant.
LEMMA ProvInvNext == ProvInv /\ [ProvNext]_provVars => ProvInv'
<1> SUFFICES ASSUME ProvInv, [ProvNext]_provVars PROVE ProvInv'
  OBVIOUS
<1>1. CASE ClearGraphs
  <2>1. ProvTypes'
    BY <1>1 DEF ProvInv, ProvTypes, ClearGraphs
  <2> QED BY <1>1, <2>1 DEF ProvInv, ClearGraphs, ProvidersOK, NoFalseBlame, CpuIsLastResort, Underway, EndsOnCpu
<1>2. ASSUME NEW p \in Procs, Build(p) \/ KillBuilder(p) PROVE ProvInv'
  BY <1>2, StartBuildKeeps, SkipKnownKeeps, NextPassKeeps, StartCommitKeeps, StartWriteKeeps,
     CommitSucceedsKeeps, CommitFailsKeeps, KillBuilderKeeps DEF Build
<1>3. CASE UNCHANGED provVars
  <2>1. ProvidersOK'
    BY <1>3, SameBlame DEF provVars, ProvInv
  <2>2. ProvTypes'
    BY <1>3 DEF provVars, ProvInv, ProvTypes
  <2>3. \A p \in Procs : Underway(p)' /\ EndsOnCpu(p)'
    BY <1>3 DEF provVars, ProvInv, Underway, EndsOnCpu, NoCommit
  <2> QED BY <2>1, <2>2, <2>3 DEF ProvInv
<1> QED BY <1>1, <1>2, <1>3 DEF ProvNext

----------------------------------------------------------------------------
(* The cache of built models                                               *)

Models  == {"new", "building", "ok", "err"}
Stages  == {"rest", "waiting", "building", "painting"}
Entries == [slot : {0} \cup Slots, age : Nat, pinned : BOOLEAN]

SessTypes ==
    /\ keep \in BOOLEAN /\ entry \in Entries
    /\ model \in [Slots -> Models]
    /\ held \in [Threads -> {0} \cup Slots] /\ stage \in [Threads -> Stages]

\* A thread has a slot unless it rests, and the slot is what its stage says.
InItsSlot(t) ==
    /\ stage[t] = "rest" <=> held[t] = 0
    /\ stage[t] = "building" => model[held[t]] = "building"
    /\ stage[t] = "painting" => model[held[t]] = "ok"

OneBuilds == \A t, u \in Threads : stage[t] = "building" /\ stage[u] = "building" /\ held[t] = held[u] => t = u

\* A bundle that is kept and not pinned is some stroke's.
StrokesUseIt ==
    backend = "sd" /\ entry.slot # 0 /\ ~entry.pinned /\ model[entry.slot] = "ok"
        => \E t \in Threads : held[t] = entry.slot

SessInv == SessTypes /\ (\A t \in Threads : InItsSlot(t)) /\ OneBuilds /\ StrokesUseIt

\* Slots are numbers, one more than there are threads.
LEMMA SlotsAreNumbers == Slots \subseteq Nat /\ 0 \notin Slots /\ IsFiniteSet(Slots) /\ Cardinality(Slots) = Cardinality(Threads) + 1
<1> DEFINE c == Cardinality(Threads)
           n == c + 1
<1>1. c \in Nat
  BY SessionsAssumption, FS_CardinalityType
<1> HIDE DEF c
<1>2. n \in Int /\ n >= 1
  BY <1>1
<1> HIDE DEF n
<1>3. IsFiniteSet(1 .. n) /\ Cardinality(1 .. n) = n
  BY <1>2, FS_Interval
<1>4. Slots = 1 .. n
  BY DEF Slots, n, c
<1> QED BY <1>2, <1>3, <1>4 DEF n, c

\* The invariant gives the property.
LEMMA SessInvEnough == SessInv => SessionsOK
<1> SUFFICES ASSUME SessInv PROVE SessionsOK
  OBVIOUS
<1>1. \A t \in Threads : stage[t] = "painting" => model[held[t]] = "ok"
  BY DEF SessInv, InItsSlot
<1>2. ASSUME NEW n \in Slots PROVE Cardinality({t \in Threads : held[t] = n /\ stage[t] = "building"}) <= 1
  <2> DEFINE B == {t \in Threads : held[t] = n /\ stage[t] = "building"}
  <2>1. CASE B = {}
    BY <2>1, FS_EmptySet
  <2>2. CASE B # {}
    <3>1. PICK t \in B : TRUE
      BY <2>2
    <3>2. B = {t}
      BY <3>1 DEF SessInv, OneBuilds
    <3> HIDE DEF B
    <3>3. Cardinality(B) = 1
      BY <3>2, FS_Singleton
    <3> QED BY <3>3 DEF B
  <2> QED BY <2>1, <2>2
<1>3. backend = "sd" /\ AtRest /\ ~entry.pinned => ~Kept
  <2> SUFFICES ASSUME backend = "sd", AtRest, ~entry.pinned, Kept PROVE FALSE
    OBVIOUS
  <2>1. PICK t \in Threads : held[t] = entry.slot
    BY DEF SessInv, StrokesUseIt, Kept
  <2> QED BY <2>1 DEF SessInv, InItsSlot, AtRest, Kept
<1> QED BY <1>1, <1>2, <1>3 DEF SessionsOK

\* Nothing is kept at first.
LEMMA SessInvInit == SessInit => SessInv
<1> SUFFICES ASSUME SessInit PROVE SessInv
  OBVIOUS
<1>1. NoEntry \in Entries
  BY DEF NoEntry, Entries
<1>2. SessTypes
  BY <1>1 DEF SessInit, SessTypes, Models, Stages
<1> QED BY <1>2 DEF SessInit, SessInv, InItsSlot, OneBuilds, StrokesUseIt, NoEntry

\* There is a slot for whoever asks: the others have one each, and the cache one.
LEMMA SlotLeft ==
    ASSUME SessTypes, NEW t \in Threads, held[t] = 0
    PROVE  (CHOOSE n \in Unused : TRUE) \in Unused
<1> DEFINE others == Threads \ {t}
           theirs == {held[u] : u \in others}
           taken  == {entry.slot} \cup theirs
<1>1. IsFiniteSet(others) /\ Cardinality(others) = Cardinality(Threads) - 1 /\ Cardinality(Threads) \in Nat
  BY SessionsAssumption, FS_RemoveElement, FS_CardinalityType
<1>2. IsFiniteSet(theirs) /\ Cardinality(theirs) <= Cardinality(others)
  <2>1. [u \in others |-> held[u]] \in Surjection(others, theirs)
    BY DEF Surjection
  <2> HIDE DEF others, theirs
  <2> QED BY <1>1, <2>1, FS_Surjection
<1>3. IsFiniteSet(taken) /\ Cardinality(taken) <= Cardinality(theirs) + 1
  <2>1. taken = theirs \cup {entry.slot}
    OBVIOUS
  <2> HIDE DEF theirs
  <2>2. Cardinality(theirs) \in Nat
    BY <1>2, FS_CardinalityType
  <2> QED BY <1>2, <2>1, <2>2, FS_AddElement
<1>4. ASSUME Slots \subseteq taken PROVE FALSE
  <2> HIDE DEF taken
  <2>1. Cardinality(Slots) <= Cardinality(taken)
    BY <1>3, <1>4, FS_Subset
  <2>2. Cardinality(taken) \in Nat /\ Cardinality(theirs) \in Nat /\ Cardinality(others) \in Nat
    BY <1>1, <1>2, <1>3, FS_CardinalityType
  <2> HIDE DEF theirs, others
  <2> QED BY <1>1, <1>2, <1>3, <2>1, <2>2, SlotsAreNumbers
<1>5. PICK n \in Slots : n \notin taken
  BY <1>4
<1>6. \A u \in Threads : held[u] # n
  BY <1>5, SlotsAreNumbers
<1>7. n \in Unused
  BY <1>5, <1>6 DEF Unused
<1> QED BY <1>7

\* get_or_create takes the entry, or makes one.
LEMMA GetKeeps == ASSUME SessInv, NEW t \in Threads, Get(t) PROVE SessInv'
<1> DEFINE e == Swept(entry)
           slot == IF e.slot = 0 THEN CHOOSE n \in Unused : TRUE ELSE e.slot
           got == [slot |-> slot, age |-> AgeAfterGet(e), pinned |-> backend = "sd" /\ keep]
<1>1. /\ stage[t] = "rest" /\ stage' = [stage EXCEPT ![t] = "waiting"]
      /\ entry' = got /\ held' = [held EXCEPT ![t] = slot]
      /\ model' = IF e.slot = 0 THEN [model EXCEPT ![slot] = "new"] ELSE model
      /\ backend' = backend /\ keep' = keep
  BY DEF Get
<1>2. SessTypes /\ held[t] = 0 /\ (\A u \in Threads : InItsSlot(u)) /\ OneBuilds /\ StrokesUseIt
  BY <1>1 DEF SessInv, InItsSlot
<1>3. e \in Entries
  BY <1>2 DEF SessTypes, Swept, NoEntry, Entries
<1>4. e.slot # 0 => e = entry
  BY DEF Swept, NoEntry
<1>5. e.slot = 0 => slot \in Unused
  BY <1>2, SlotLeft
<1>6. slot \in Slots /\ slot # 0
  <2>1. CASE e.slot = 0
    BY <1>5, <2>1, SlotsAreNumbers DEF Unused
  <2>2. CASE e.slot # 0
    BY <1>3, <2>2 DEF Entries
  <2> QED BY <2>1, <2>2
<1>7. AgeAfterGet(e) \in Nat
  BY <1>3 DEF AgeAfterGet, Entries
<1>8. got.slot = slot
  OBVIOUS
<1>9. got \in Entries
  BY <1>6, <1>7 DEF Entries
<1>10. e.slot = 0 => \A u \in Threads : held[u] # slot
  BY <1>5 DEF Unused
<1>11. e.slot # 0 => slot = e.slot
  OBVIOUS
<1> HIDE DEF got, slot, e
<1>12. SessTypes'
  BY <1>1, <1>2, <1>6, <1>9 DEF SessTypes, Models, Stages
<1>13. /\ held'[t] = slot /\ stage'[t] = "waiting"
       /\ \A u \in Threads \ {t} : held'[u] = held[u] /\ stage'[u] = stage[u]
  BY <1>1, <1>2 DEF SessTypes
<1>14. ASSUME NEW u \in Threads PROVE InItsSlot(u)'
  <2>1. CASE u = t
    BY <1>6, <1>13, <2>1 DEF InItsSlot
  <2>2. CASE u # t
    <3>1. model'[held[u]] = model[held[u]] \/ stage[u] = "rest"
      BY <1>1, <1>2, <1>10, <2>2 DEF SessTypes, InItsSlot
    <3> QED BY <1>2, <1>13, <2>2, <3>1 DEF InItsSlot
  <2> QED BY <2>1, <2>2
<1>15. OneBuilds'
  BY <1>2, <1>13 DEF OneBuilds
<1>16. StrokesUseIt'
  BY <1>1, <1>8, <1>13 DEF StrokesUseIt
<1> QED BY <1>12, <1>14, <1>15, <1>16 DEF SessInv

\* The first of those who wait builds.
LEMMA StartBuildingKeeps == ASSUME SessInv, NEW t \in Threads, StartBuilding(t) PROVE SessInv'
<1> USE DEF SessInv
<1>1. /\ stage[t] = "waiting" /\ model[held[t]] = "new"
      /\ stage' = [stage EXCEPT ![t] = "building"] /\ model' = [model EXCEPT ![held[t]] = "building"]
      /\ UNCHANGED <<backend, keep, entry, held>>
  BY DEF StartBuilding
<1>2. held[t] \in Slots
  BY <1>1 DEF InItsSlot, SessTypes
<1>3. /\ SessTypes' /\ stage'[t] = "building" /\ model'[held[t]] = "building"
      /\ \A u \in Threads \ {t} : stage'[u] = stage[u]
      /\ \A n \in Slots \ {held[t]} : model'[n] = model[n]
  BY <1>1, <1>2 DEF SessTypes, Models, Stages
<1>4. \A u \in Threads : held[u] = held[t] => stage[u] \notin {"building", "painting"}
  BY <1>1 DEF InItsSlot
<1>5. ASSUME NEW u \in Threads PROVE InItsSlot(u)'
  BY <1>1, <1>2, <1>3, <1>4 DEF InItsSlot, SessTypes
<1>6. OneBuilds'
  BY <1>1, <1>3, <1>4 DEF OneBuilds
<1>7. StrokesUseIt'
  BY <1>1, <1>3, <1>2 DEF StrokesUseIt, SessTypes, Entries
<1> QED BY <1>3, <1>5, <1>6, <1>7

\* The build ends, well or not.
LEMMA EndBuildingKeeps == ASSUME SessInv, NEW t \in Threads, EndBuilding(t) PROVE SessInv'
<1> USE DEF SessInv
<1>1. PICK res \in {"ok", "err"} : model' = [model EXCEPT ![held[t]] = res]
  BY DEF EndBuilding
<1>2. /\ stage[t] = "building" /\ stage' = [stage EXCEPT ![t] = "waiting"]
      /\ UNCHANGED <<backend, keep, entry, held>>
  BY DEF EndBuilding
<1>3. held[t] \in Slots /\ model[held[t]] = "building"
  BY <1>2 DEF InItsSlot, SessTypes
<1>4. /\ SessTypes' /\ stage'[t] = "waiting" /\ model'[held[t]] = res
      /\ \A u \in Threads \ {t} : stage'[u] = stage[u]
      /\ \A n \in Slots \ {held[t]} : model'[n] = model[n]
  BY <1>1, <1>2, <1>3 DEF SessTypes, Models, Stages
<1>5. \A u \in Threads \ {t} : held[u] = held[t] => stage[u] \notin {"building", "painting"}
  BY <1>2, <1>3 DEF InItsSlot, OneBuilds
<1>6. ASSUME NEW u \in Threads PROVE InItsSlot(u)'
  BY <1>2, <1>3, <1>4, <1>5 DEF InItsSlot, SessTypes
<1>7. OneBuilds'
  BY <1>2, <1>4 DEF OneBuilds
<1>8. StrokesUseIt'
  BY <1>2, <1>3, <1>4 DEF StrokesUseIt, SessTypes, Entries
<1> QED BY <1>4, <1>6, <1>7, <1>8

\* Those who waited get what was built.
LEMMA ObtainKeeps == ASSUME SessInv, NEW t \in Threads, Obtain(t) PROVE SessInv'
<1> USE DEF SessInv
<1>1. stage[t] = "waiting" /\ held[t] \in Slots /\ UNCHANGED <<backend, keep, entry, model>>
  BY DEF Obtain, InItsSlot, SessTypes
<1>2. CASE model[held[t]] = "ok" /\ stage' = [stage EXCEPT ![t] = "painting"] /\ held' = held
  <2>1. SessTypes'
    BY <1>1, <1>2 DEF SessTypes, Stages
  <2>2. \A u \in Threads : InItsSlot(u)'
    BY <1>1, <1>2, SlotsAreNumbers DEF InItsSlot, SessTypes
  <2> QED BY <1>1, <1>2, <2>1, <2>2 DEF OneBuilds, StrokesUseIt, SessTypes
<1>3. CASE model[held[t]] = "err" /\ stage' = [stage EXCEPT ![t] = "rest"] /\ held' = [held EXCEPT ![t] = 0]
  <2>1. SessTypes'
    BY <1>1, <1>3 DEF SessTypes, Stages
  <2>2. \A u \in Threads : InItsSlot(u)'
    BY <1>1, <1>3 DEF InItsSlot, SessTypes
  <2>3. OneBuilds'
    BY <1>1, <1>3 DEF OneBuilds, SessTypes
  <2>4. StrokesUseIt'
    BY <1>1, <1>3 DEF StrokesUseIt, SessTypes
  <2> QED BY <2>1, <2>2, <2>3, <2>4
<1> QED BY <1>2, <1>3 DEF Obtain

\* A stroke lets go of its bundle.
LEMMA FinishKeeps == ASSUME SessInv, NEW t \in Threads, NEW how, Finish(t, how) PROVE SessInv'
<1> USE DEF SessInv
<1>1. /\ stage[t] = "painting" /\ stage' = [stage EXCEPT ![t] = "rest"] /\ held' = [held EXCEPT ![t] = 0]
      /\ entry' = IF backend = "sd" /\ ~entry.pinned THEN NoEntry ELSE entry
      /\ UNCHANGED <<backend, keep, model>>
  BY DEF Finish, Releases
<1>2. SessTypes'
  BY <1>1 DEF SessTypes, Stages, NoEntry, Entries
<1>3. \A u \in Threads : InItsSlot(u)'
  BY <1>1 DEF InItsSlot, SessTypes
<1>4. OneBuilds'
  BY <1>1 DEF OneBuilds, SessTypes
<1>5. StrokesUseIt'
  BY <1>1 DEF StrokesUseIt, NoEntry
<1> QED BY <1>2, <1>3, <1>4, <1>5

\* Every step keeps the invariant.
LEMMA SessInvNext == SessInv /\ [SessNext]_sessVars => SessInv'
<1> SUFFICES ASSUME SessInv, [SessNext]_sessVars PROVE SessInv'
  OBVIOUS
<1>1. CASE ReleaseAll \/ SweepIdle
  <2>1. entry' = NoEntry /\ UNCHANGED <<backend, keep, model, held, stage>>
    BY <1>1 DEF ReleaseAll, SweepIdle
  <2>2. NoEntry \in Entries /\ NoEntry.slot = 0
    BY DEF NoEntry, Entries
  <2> QED BY <2>1, <2>2 DEF SessInv, SessTypes, InItsSlot, OneBuilds, StrokesUseIt
<1>2. CASE SwitchKeep
  BY <1>2 DEF SwitchKeep, SessInv, SessTypes, InItsSlot, OneBuilds, StrokesUseIt
<1>3. CASE TimePasses
  <2>1. entry' = [entry EXCEPT !.age = @ + 1] /\ UNCHANGED <<backend, keep, model, held, stage>> /\ entry \in Entries
    BY <1>3 DEF TimePasses, SessInv, SessTypes
  <2>2. entry' \in Entries /\ entry'.slot = entry.slot /\ entry'.pinned = entry.pinned
    BY <2>1 DEF Entries
  <2> QED BY <2>1, <2>2 DEF SessInv, SessTypes, InItsSlot, OneBuilds, StrokesUseIt
<1>4. ASSUME NEW t \in Threads, Get(t) \/ Paints(t) PROVE SessInv'
  BY <1>4, GetKeeps, StartBuildingKeeps, EndBuildingKeeps, ObtainKeeps, FinishKeeps DEF Paints
<1>5. CASE UNCHANGED sessVars
  BY <1>5 DEF sessVars, SessInv, SessTypes, InItsSlot, OneBuilds, StrokesUseIt
<1> QED BY <1>1, <1>2, <1>3, <1>4, <1>5 DEF SessNext

----------------------------------------------------------------------------
(* The store behind the timelines                                          *)

Kinds == {"plain", "compressing", "compressed", "disk", "loaded", "gone"}
Files == Nat \ {InMemory}

StoreTypes ==
    /\ tier \in [kind : Kinds, copy : Nat, blob : Nat]
    /\ blobs \subseteq Files /\ {written, copies} \subseteq Nat
    /\ demoting \in {No} \cup Files
    /\ reading \in [Readers -> {No} \cup Nat]

\* What the steps of a load, of the encoder and of a demotion know of the tier
\* while the lock is released.
Between ==
    /\ encoder # 0 => tier.kind = "compressing"
    /\ demoting # No => /\ kept
                        /\ tier.kind = "compressed" \/ (tier.kind = "loaded" /\ tier.blob = InMemory)
    /\ tier.kind = "disk" => tier.blob # InMemory
    /\ tier.kind = "gone" => ~kept
    /\ \A r \in Readers : reading[r] \in Files => tier.kind \in {"disk", "loaded"} /\ tier.blob = reading[r]

Owned == blobs \subseteq {demoting} \cup (IF tier.kind \in {"disk", "loaded"} THEN {tier.blob} ELSE {})
Backed ==
    /\ tier.kind = "disk" \/ (tier.kind = "loaded" /\ tier.blob # InMemory) => tier.blob \in blobs
    /\ demoting # No => demoting \in blobs

StoreInv == StoreTypes /\ Between /\ Owned /\ Backed

\* The invariant gives the property: a load reads the file the tier names.
LEMMA StoreInvEnough == StoreInv => NoOrphan
<1> SUFFICES ASSUME StoreInv PROVE NoOrphan
  OBVIOUS
<1>1. Owned /\ Backed
  BY DEF StoreInv
<1>2. ASSUME NEW r \in Readers, reading[r] \notin {No, InMemory} PROVE reading[r] \in blobs
  <2>1. reading[r] \in Files
    BY <1>2 DEF StoreInv, StoreTypes, Files
  <2>2. tier.kind \in {"disk", "loaded"} /\ tier.blob = reading[r]
    BY <2>1 DEF StoreInv, Between
  <2>3. tier.blob # InMemory
    BY <2>1, <2>2 DEF Files
  <2> QED BY <1>1, <2>2, <2>3 DEF Backed
<1> QED BY <1>1, <1>2 DEF NoOrphan, Owned, Backed

\* A payload begins plain, with nothing on disk.
LEMMA StoreInvInit == StoreInit => StoreInv
<1> SUFFICES ASSUME StoreInit PROVE StoreInv
  OBVIOUS
<1>1. StoreTypes
  BY DEF StoreInit, StoreTypes, Tier, Kinds, Files, No, InMemory
<1>2. Between /\ Owned /\ Backed
  BY DEF StoreInit, Between, Owned, Backed, Tier, Files, No, InMemory
<1> QED BY <1>1, <1>2 DEF StoreInv

----------------------------------------------------------------------------
(* The steps                                                               *)

Invariants == <<tier, encoder, reading, demoting, blobs, copies, written, kept>>

\* What the reader holds is no business of the invariant.
LEMMA SameKeeps ==
    ASSUME StoreInv, UNCHANGED Invariants
    PROVE  StoreInv'
BY DEF Invariants, StoreInv, StoreTypes, Between, Owned, Backed

\* A load that begins reads the stored form of the tier.
LEMMA StartLoadKeeps ==
    ASSUME StoreInv, NEW r \in Readers, StartLoad(r)
    PROVE  StoreInv'
<1>1. /\ reading' = [reading EXCEPT ![r] = StoredForm]
      /\ UNCHANGED <<tier, encoder, demoting, blobs, copies, written, kept>>
      /\ tier.kind \in {"compressed", "disk"}
  BY DEF StartLoad, DecodedKinds, StoreInv, StoreTypes, Between, Kinds
<1>2. StoredForm \in Nat /\ (StoredForm \in Files => tier.kind = "disk" /\ StoredForm = tier.blob)
  BY <1>1 DEF StoredForm, Files, InMemory, StoreInv, StoreTypes
<1>3. StoreTypes'
  BY <1>1, <1>2 DEF StoreInv, StoreTypes
<1>4. Between'
  BY <1>1, <1>2 DEF StoreInv, StoreTypes, Between
<1>5. Owned' /\ Backed'
  BY <1>1 DEF StoreInv, Owned, Backed
<1> QED BY <1>3, <1>4, <1>5 DEF StoreInv

\* A load that failed reads nothing.
LEMMA FailLoadKeeps ==
    ASSUME StoreInv, NEW r \in Readers, FailLoad(r)
    PROVE  StoreInv'
<1>1. /\ reading' = [reading EXCEPT ![r] = No]
      /\ UNCHANGED <<tier, encoder, demoting, blobs, copies, written, kept>>
  BY DEF FailLoad
<1>2. StoreTypes'
  BY <1>1 DEF StoreInv, StoreTypes
<1>3. Between'
  BY <1>1 DEF StoreInv, StoreTypes, Between, No, Files
<1>4. Owned' /\ Backed'
  BY <1>1 DEF StoreInv, Owned, Backed
<1> QED BY <1>2, <1>3, <1>4 DEF StoreInv

\* What was read becomes the tier's copy only over the form it was read from, of
\* which it keeps the file.
LEMMA FinishLoadKeeps ==
    ASSUME StoreInv, NEW r \in Readers, FinishLoad(r)
    PROVE  StoreInv'
<1>1. /\ reading' = [reading EXCEPT ![r] = No] /\ copies' = copies + 1
      /\ UNCHANGED <<encoder, demoting, blobs, written, kept>>
  BY DEF FinishLoad
<1>2. StoreTypes /\ Between /\ Owned /\ Backed
  BY DEF StoreInv
<1>3. \A s \in Readers : reading'[s] \in Files => reading[s] = reading'[s]
  BY <1>1, <1>2 DEF StoreTypes, No, Files
<1>4. copies' \in Nat /\ reading' \in [Readers -> {No} \cup Nat]
  BY <1>1, <1>2 DEF StoreTypes
<1>5. CASE UnchangedSince(reading[r])
  <2> DEFINE form == reading[r]
  <2>1. tier' = Tier("loaded", copies', form)
    BY <1>5 DEF FinishLoad
  <2>2. \/ tier.kind = "compressed" /\ form = InMemory
        \/ tier.kind = "disk" /\ form = tier.blob
    BY <1>5 DEF UnchangedSince
  <2>3. form \in Nat
    BY <1>2, <2>2 DEF StoreTypes, InMemory
  <2>4. tier'.kind = "loaded" /\ tier'.blob = form
    BY <2>1 DEF Tier
  <2> HIDE DEF form
  <2>5. StoreTypes'
    BY <1>1, <1>2, <1>4, <2>1, <2>3 DEF StoreTypes, Tier, Kinds
  <2>6. Between'
    BY <1>1, <1>2, <1>3, <2>2, <2>4 DEF Between, Files
  <2>7. Owned' /\ Backed'
    BY <1>1, <1>2, <2>2, <2>4 DEF Owned, Backed
  <2> QED BY <2>5, <2>6, <2>7 DEF StoreInv
<1>6. CASE ~UnchangedSince(reading[r])
  <2>1. tier' = tier
    BY <1>6 DEF FinishLoad
  <2>2. StoreTypes'
    BY <1>1, <1>2, <1>4, <2>1 DEF StoreTypes
  <2>3. Between'
    BY <1>1, <1>2, <1>3, <2>1 DEF Between
  <2>4. Owned' /\ Backed'
    BY <1>1, <1>2, <2>1 DEF Owned, Backed
  <2> QED BY <2>2, <2>3, <2>4 DEF StoreInv
<1> QED BY <1>5, <1>6

\* A copy put back goes to the form it came from.
LEMMA PutBackKeeps ==
    ASSUME StoreInv, PutBack
    PROVE  StoreInv'
<1> DEFINE home == IF tier.blob = InMemory THEN "compressed" ELSE "disk"
<1>1. /\ tier' = Tier(home, 0, tier.blob) /\ tier.kind = "loaded" /\ demoting = No
      /\ UNCHANGED <<encoder, reading, demoting, blobs, copies, written, kept>>
  BY DEF PutBack, Sweeps
<1>2. StoreTypes /\ Between /\ Owned /\ Backed
  BY DEF StoreInv
<1>3. tier'.kind = home /\ tier'.blob = tier.blob
  BY <1>1 DEF Tier
<1>4. StoreTypes'
  BY <1>1, <1>2 DEF StoreTypes, Tier, Kinds
<1>5. Between'
  BY <1>1, <1>2, <1>3 DEF Between, Files
<1>6. Owned' /\ Backed'
  BY <1>1, <1>2, <1>3 DEF Owned, Backed, StoreTypes, Files
<1> QED BY <1>4, <1>5, <1>6 DEF StoreInv

\* The encoder begins with a payload that has no file.
LEMMA BeginCompressKeeps ==
    ASSUME StoreInv, BeginCompress
    PROVE  StoreInv'
<1>1. /\ tier' = [tier EXCEPT !.kind = "compressing"] /\ tier.kind = "plain" /\ demoting = No
      /\ encoder' = tier.copy
      /\ UNCHANGED <<reading, demoting, blobs, copies, written, kept>>
  BY DEF BeginCompress, Sweeps
<1>2. StoreTypes /\ Between /\ Owned /\ Backed
  BY DEF StoreInv
<1>3. tier'.kind = "compressing"
  BY <1>1, <1>2 DEF StoreTypes
<1>4. StoreTypes'
  BY <1>1, <1>2 DEF StoreTypes, Kinds
<1>5. Between'
  BY <1>1, <1>2, <1>3 DEF Between
<1>6. Owned' /\ Backed'
  BY <1>1, <1>2, <1>3 DEF Owned, Backed
<1> QED BY <1>4, <1>5, <1>6 DEF StoreInv

\* While the encoder works nobody reads the tier's file, and nobody writes one.
LEMMA EncodedKeeps ==
    ASSUME StoreInv, NEW ok \in BOOLEAN, Encoded(ok)
    PROVE  StoreInv'
<1> DEFINE form == IF ok THEN Tier("compressed", 0, InMemory) ELSE Tier("plain", tier.copy, InMemory)
<1>1. /\ tier' = form /\ encoder # 0 /\ encoder' = 0
      /\ UNCHANGED <<reading, demoting, blobs, copies, written, kept>>
  BY DEF Encoded
<1>2. StoreTypes /\ Between /\ Owned /\ Backed
  BY DEF StoreInv
<1>3. tier.kind = "compressing" /\ demoting = No /\ \A r \in Readers : reading[r] \notin Files
  BY <1>1, <1>2 DEF Between
<1>4. tier'.kind \in {"compressed", "plain"}
  BY <1>1 DEF Tier
<1>5. tier' \in [kind : Kinds, copy : Nat, blob : Nat]
  BY <1>1, <1>2 DEF StoreTypes, Tier, Kinds, InMemory
<1>6. StoreTypes'
  BY <1>1, <1>2, <1>5 DEF StoreTypes
<1>7. Between'
  BY <1>1, <1>2, <1>3, <1>4 DEF Between
<1>8. Owned' /\ Backed'
  BY <1>1, <1>2, <1>3, <1>4 DEF Owned, Backed
<1> QED BY <1>6, <1>7, <1>8 DEF StoreInv

\* demote_to_disk names the file it writes.
LEMMA StartDemoteKeeps ==
    ASSUME StoreInv, StartDemote
    PROVE  StoreInv'
<1>1. /\ tier.kind = "compressed" /\ demoting = No /\ kept
      /\ written' = written + 1 /\ demoting' = written' /\ blobs' = blobs \cup {written'}
      /\ UNCHANGED <<tier, encoder, reading, copies, kept>>
  BY DEF StartDemote, Sweeps
<1>2. StoreTypes /\ Between /\ Owned /\ Backed
  BY DEF StoreInv
<1>3. written' \in Nat /\ written' \in Files
  BY <1>1, <1>2 DEF StoreTypes, Files, InMemory
<1>4. StoreTypes'
  BY <1>1, <1>2, <1>3 DEF StoreTypes
<1>5. Between'
  BY <1>1, <1>2 DEF Between
<1>6. blobs = {}
  BY <1>1, <1>2 DEF Owned, StoreTypes, No, Files
<1>7. Owned' /\ Backed'
  BY <1>1, <1>6 DEF Owned, Backed
<1> QED BY <1>4, <1>5, <1>7 DEF StoreInv

\* The file becomes the tier's, or goes with the demotion.
LEMMA FinishDemoteKeeps ==
    ASSUME StoreInv, FinishDemote
    PROVE  StoreInv'
<1>1. /\ demoting # No /\ demoting' = No
      /\ UNCHANGED <<encoder, reading, copies, written, kept>>
  BY DEF FinishDemote
<1>2. StoreTypes /\ Between /\ Owned /\ Backed
  BY DEF StoreInv
<1>3. demoting \in Files /\ \A r \in Readers : reading[r] \notin Files
  BY <1>1, <1>2 DEF StoreTypes, Between, Files
<1>4. CASE tier.kind = "compressed"
  <2>1. tier' = Tier("disk", 0, demoting) /\ blobs' = blobs
    BY <1>4 DEF FinishDemote
  <2>2. tier'.kind = "disk" /\ tier'.blob = demoting
    BY <2>1 DEF Tier
  <2>3. StoreTypes'
    BY <1>1, <1>2, <1>3, <2>1 DEF StoreTypes, Tier, Kinds, Files
  <2>4. Between'
    BY <1>1, <1>2, <1>3, <1>4, <2>2 DEF Between, Files
  <2>5. Owned'
    BY <1>1, <1>2, <1>4, <2>1, <2>2 DEF Owned
  <2>6. Backed'
    BY <1>1, <1>2, <1>4, <2>1, <2>2 DEF Backed
  <2> QED BY <2>3, <2>4, <2>5, <2>6 DEF StoreInv
<1>5. CASE tier.kind # "compressed"
  <2>1. tier' = tier /\ blobs' = blobs \ {demoting}
    BY <1>5 DEF FinishDemote
  <2>2. tier.kind = "loaded" /\ tier.blob = InMemory
    BY <1>1, <1>2, <1>5 DEF Between
  <2>3. StoreTypes'
    BY <1>1, <1>2, <2>1 DEF StoreTypes
  <2>4. Between'
    BY <1>1, <1>2, <2>1 DEF Between
  <2>5. Owned' /\ Backed'
    BY <1>1, <1>2, <2>1, <2>2 DEF Owned, Backed
  <2> QED BY <2>3, <2>4, <2>5 DEF StoreInv
<1> QED BY <1>4, <1>5

\* The last reference takes the file with it.
LEMMA DropCellKeeps ==
    ASSUME StoreInv, DropCell
    PROVE  StoreInv'
<1>1. /\ ~kept /\ encoder = 0 /\ \A r \in Readers : reading[r] = No
      /\ tier' = Tier("gone", 0, InMemory)
      /\ blobs' = IF tier.kind \in {"disk", "loaded"} THEN blobs \ {tier.blob} ELSE blobs
      /\ UNCHANGED <<encoder, reading, demoting, copies, written, kept>>
  BY DEF DropCell, Alive
<1>2. StoreTypes /\ Between /\ Owned /\ Backed
  BY DEF StoreInv
<1>3. demoting = No /\ tier'.kind = "gone"
  BY <1>1, <1>2 DEF Between, Tier
<1>4. StoreTypes'
  BY <1>1, <1>2 DEF StoreTypes, Tier, Kinds, InMemory
<1>5. Between'
  BY <1>1, <1>2, <1>3 DEF Between, No, Files
<1>6. Owned' /\ Backed'
  BY <1>1, <1>2, <1>3 DEF Owned, Backed
<1> QED BY <1>4, <1>5, <1>6 DEF StoreInv

\* The timeline drops the payload between two frames.
LEMMA DiscardKeeps ==
    ASSUME StoreInv, Discard
    PROVE  StoreInv'
<1>1. /\ demoting = No /\ kept' = FALSE
      /\ UNCHANGED <<tier, encoder, reading, demoting, blobs, copies, written>>
  BY DEF Discard, Sweeps
<1> QED BY <1>1 DEF StoreInv, StoreTypes, Between, Owned, Backed

\* Every step keeps the invariant.
LEMMA StoreInvStep == StoreInv /\ [StoreNext]_storeVars => StoreInv'
<1> SUFFICES ASSUME StoreInv, [StoreNext]_storeVars PROVE StoreInv'
  OBVIOUS
<1>1. CASE Sweep \/ StartDemote
  BY <1>1, PutBackKeeps, BeginCompressKeeps, FinishDemoteKeeps, StartDemoteKeeps DEF Sweep
<1>2. CASE Encoded(TRUE) \/ Encoded(FALSE)
  BY <1>2, EncodedKeeps
<1>3. CASE Discard \/ DropCell
  BY <1>3, DiscardKeeps, DropCellKeeps
<1>4. ASSUME NEW r \in Readers, Load(r) PROVE StoreInv'
  <2>1. CASE Borrow(r)
    BY <2>1, SameKeeps DEF Borrow, Invariants
  <2> QED BY <1>4, <2>1, StartLoadKeeps, FinishLoadKeeps, FailLoadKeeps DEF Load
<1>5. ASSUME NEW r \in Readers, Release(r) PROVE StoreInv'
  BY <1>5, SameKeeps DEF Release, Invariants
<1>6. CASE UNCHANGED storeVars
  BY <1>6, SameKeeps DEF storeVars, Invariants
<1> QED BY <1>1, <1>2, <1>3, <1>4, <1>5, <1>6 DEF StoreNext

----------------------------------------------------------------------------
(* The recipes of cut-outs                                                 *)

RecipeSet == [model : Cutters, lines : Modes, edge : Styles, filter : Styles, mask : Styles]
Traces    == [over : Cutters \cup {None, "photo"}, filter : Styles]
Pictures  == [cut : Cutters \cup {None, "photo"}, mask : Styles, lines : Traces, edge : Styles]
Results   == [picture : Pictures, seg : Cutters \cup {None}, trace : Traces, recipe : RecipeSet]
Runs      == [kind : {None, "Process"}, brings : Results]
Album     == [knobs : Knobs, recipe : RecipeSet \cup {NoRecipe}, seg : Cutters \cup {None}, trace : Traces,
              picture : Pictures, status : {"pending", "processing", "done", "error"}, job : Runs \cup {NoJob}]
Snapshots == [kind : {"Process", "Adjust", "Preset"}, knobs : Knobs, recipe : RecipeSet \cup {NoRecipe},
              picture : Pictures]
Flights   == [picture : Pictures, mask : Styles, version : Nat]

\* What is shown was made by the recipe, and a sketch leaves the mask alone.
MadeBy(p, r) ==
    r # NoRecipe /\ p.cut # None => p.mask = r.mask /\ (p.cut = r.model \/ Whole(r))
Agrees(x) ==
    /\ Whole(x.knobs) \/ Whole(x.recipe) => x.knobs.mask = Plain
    /\ Whole(x.recipe) => x.recipe.mask = Plain
    /\ x.picture = Nothing => x.recipe = NoRecipe
    /\ MadeBy(x.picture, x.recipe)

\* The tensor is of the recipe's model; the recipe of a sketch says nothing of it.
Serves(i) == i.recipe # NoRecipe /\ i.seg # None => i.seg = i.recipe.model \/ Whole(i.recipe)

\* What a run brings is by its recipe, and that is of the knobs.
Brings(i, m) ==
    i.job # NoJob =>
        /\ i.job.brings.recipe = RecipeOf(i.knobs, m)
        /\ i.job.brings.picture = PictureOf(i.job.brings.recipe)
        /\ i.job.brings.seg = m \/ Whole(i.job.brings.recipe)

\* A preview of the state that is shown is by its knobs, and of its model.
Fits(f, knobs, recipe, at) ==
    f # NoFlight =>
        /\ f.version <= at /\ f.picture # Nothing
        /\ f.version = at => /\ f.mask = knobs.mask
                             /\ recipe # NoRecipe => MadeBy(f.picture, Noted(recipe, f.mask))

Agreeing == {x \in Snapshots : Agrees(x)}
Histories == {t \in [states : Seq(Agreeing), at : Nat, version : Nat] : t.at \in 1 .. Len(t.states)}

RecTypes ==
    /\ cutter \in Cutters /\ viewing \in Images
    /\ album \in [Images -> Album] /\ steps \in [Images -> Histories]
    /\ previews \in [Images -> {"no", "mask", "edge"}] /\ flights \in [Images -> Flights \cup {NoFlight}]

RecInv ==
    /\ RecTypes
    /\ \A n \in Images : /\ Agrees(album[n]) /\ Serves(album[n]) /\ Brings(album[n], cutter)
                         /\ Fits(flights[n], album[n].knobs, album[n].recipe, steps[n].version)

\* Constants of their sets, and marks that are nobody's name.
LEMMA RecConstants ==
    /\ Plain \in Styles /\ None = "none" /\ None \notin Cutters /\ Presets \subseteq Knobs
    /\ NoLines \in Traces /\ Nothing \in Pictures /\ Photo \in Pictures /\ PlainKnobs \in Knobs
    /\ NoRecipe \notin RecipeSet /\ NoJob \notin Runs /\ NoFlight \notin Flights
    /\ ~Whole(NoRecipe) /\ Photo # Nothing /\ Nothing.cut = None
BY RecipesAssumption DEF None, NoLines, Nothing, Photo, PlainKnobs, Knobs, Modes, Traces, Pictures, NoRecipe, RecipeSet,
   NoJob, Runs, NoFlight, Flights, Whole

\* The recipe of knobs, and the picture by it.
LEMMA RecipeIsOne ==
    ASSUME NEW k \in Knobs, NEW m \in Cutters
    PROVE  LET r == RecipeOf(k, m) IN
           /\ r \in RecipeSet /\ r.model = m /\ r.lines = k.lines /\ (Whole(r) <=> Whole(k))
           /\ Whole(r) => r.mask = Plain
           /\ ~Whole(r) => r.mask = k.mask
           /\ r.lines = "subject" => r.filter = k.filter
           /\ r.edge = k.edge
BY RecConstants DEF RecipeOf, Knobs, RecipeSet, Whole, Modes

LEMMA PictureShapes ==
    /\ \A m \in Cutters \cup {None, "photo"}, k \in Styles :
           Cutout(m, k) \in Pictures /\ Cutout(m, k).cut = m /\ Cutout(m, k).mask = k
    /\ \A m \in Cutters \cup {None, "photo"}, k \in Styles, t \in Traces, e \in Styles :
           Outlined(m, k, t, e) \in Pictures /\ Outlined(m, k, t, e).cut = m /\ Outlined(m, k, t, e).mask = k
    /\ \A t \in Traces, e \in Styles :
           Sketch(t, e) \in Pictures /\ Sketch(t, e).cut = None /\ Sketch(t, e).lines = t
    /\ Nothing.cut = None /\ Nothing.lines = NoLines
<1>1. Nothing \in Pictures /\ Plain \in Styles
  BY RecConstants
<1>2. ASSUME NEW m \in Cutters \cup {None, "photo"}, NEW k \in Styles
      PROVE  Cutout(m, k) \in Pictures /\ Cutout(m, k).cut = m /\ Cutout(m, k).mask = k
  BY <1>1 DEF Cutout, Pictures
<1>3. ASSUME NEW t \in Traces, NEW e \in Styles
      PROVE  Sketch(t, e) \in Pictures /\ Sketch(t, e).cut = Nothing.cut /\ Sketch(t, e).lines = t
  BY <1>1 DEF Sketch, Pictures
<1>4. ASSUME NEW m \in Cutters \cup {None, "photo"}, NEW k \in Styles, NEW t \in Traces, NEW e \in Styles
      PROVE  Outlined(m, k, t, e) \in Pictures /\ Outlined(m, k, t, e).cut = m /\ Outlined(m, k, t, e).mask = k
  BY DEF Outlined, Pictures
<1>5. Nothing.cut = None /\ Nothing.lines = NoLines
  BY DEF Nothing
<1> QED BY <1>2, <1>3, <1>4, <1>5

LEMMA PictureIsOne ==
    ASSUME NEW r \in RecipeSet
    PROVE  /\ Trace(r) \in Traces
           /\ PictureOf(r) \in Pictures /\ PictureOf(r) # Nothing
           /\ MadeBy(PictureOf(r), r)
           /\ r.lines = "off" => PictureOf(r) = Cutout(r.model, r.mask)
           /\ r.lines = "subject" => PictureOf(r) = Outlined(r.model, r.mask, Trace(r), r.edge)
<1>1. r.lines \in {"off", "subject", "whole"} /\ r.model \in Cutters /\ r.mask \in Styles /\ r.edge \in Styles /\ r.filter \in Styles
  BY DEF RecipeSet, Modes
<1>2. Trace(r) \in Traces /\ Trace(r).over # None
  BY <1>1, RecConstants DEF Trace, Traces
<1>3. CASE r.lines = "off"
  <2>1. PictureOf(r) = Cutout(r.model, r.mask)
    BY <1>3 DEF PictureOf
  <2> QED BY <1>1, <1>2, <1>3, <2>1, RecConstants, PictureShapes DEF MadeBy
<1>4. CASE r.lines = "subject"
  <2>1. PictureOf(r) = Outlined(r.model, r.mask, Trace(r), r.edge)
    BY <1>4 DEF PictureOf
  <2> QED BY <1>1, <1>2, <1>4, <2>1, RecConstants, PictureShapes DEF MadeBy
<1>5. CASE r.lines = "whole"
  <2>1. PictureOf(r) = Sketch(Trace(r), r.edge)
    BY <1>5 DEF PictureOf
  <2>2. Trace(r) # NoLines
    BY <1>2 DEF NoLines
  <2> QED BY <1>1, <1>2, <1>5, <2>1, <2>2, RecConstants, PictureShapes DEF MadeBy
<1> QED BY <1>1, <1>3, <1>4, <1>5

\* What the tiers promise of two recipes.
LEMMA TierTells ==
    ASSUME NEW old \in RecipeSet, NEW new \in RecipeSet,
           Whole(old) => old.mask = Plain, Whole(new) => new.mask = Plain
    PROVE  LET rung == RequiredTier(old, new) IN
           /\ rung = "skip" => old = new
           /\ rung \in {"mask", "addedge"} => old.model = new.model /\ ~Whole(old) /\ ~Whole(new)
           /\ rung = "addedge" => new.lines = "subject"
           /\ rung \in {"skip", "full", "mask", "addedge", "edge"}
<1>1. new.lines \in {"off", "subject", "whole"}
  BY DEF RecipeSet, Modes
<1> QED BY <1>1 DEF RequiredTier, Whole

\* What a difference of recipes takes from an image.
LEMMA InvalidatedKeeps ==
    ASSUME NEW i \in Album, NEW old, NEW new
    PROVE  LET j == Invalidated(i, old, new) IN
           /\ j \in Album /\ j.knobs = i.knobs /\ j.recipe = i.recipe /\ j.picture = i.picture
           /\ j.job = i.job /\ j.seg \in {None, i.seg}
<1> DEFINE seg == IF old.model # new.model THEN None ELSE i.seg
           trace == IF old.filter # new.filter \/ Whole(old) # Whole(new) THEN NoLines ELSE i.trace
           j == [i EXCEPT !.seg = seg, !.trace = trace]
<1>1. seg \in Cutters \cup {None} /\ trace \in Traces /\ seg \in {None, i.seg}
  BY RecConstants DEF Album
<1> HIDE DEF seg, trace
<1>2. /\ j \in Album /\ j.knobs = i.knobs /\ j.recipe = i.recipe /\ j.picture = i.picture
      /\ j.job = i.job /\ j.seg = seg
  BY <1>1 DEF Album
<1>3. Invalidated(i, old, new) = j
  BY DEF Invalidated, seg, trace, Album
<1> QED BY <1>1, <1>2, <1>3

\* What classify_candidates makes of an image: a tensor is used again only if it is
\* the model's, and lines are added only to a subject.
LEMMA ClassifiedKeeps ==
    ASSUME NEW i \in Album, Agrees(i), Serves(i), NEW m \in Cutters
    PROVE  LET c == Classified(i, m) IN
           /\ c.item \in Album /\ c.item.knobs = i.knobs /\ c.item.recipe = i.recipe
           /\ c.item.picture = i.picture /\ c.item.job = i.job /\ c.item.seg \in {None, i.seg}
           /\ c.work \in {"skip", "full", "mask", "addedge"}
           /\ c.work \in {"mask", "addedge"} => c.item.seg = m
           /\ c.work = "mask" => i.knobs.lines = "off"
           /\ c.work = "addedge" => i.knobs.lines = "subject"
           /\ c.work = "skip" => i.recipe = RecipeOf(i.knobs, m)
<1>1. CASE i.recipe = NoRecipe
  <2>1. Classified(i, m) = [item |-> i, work |-> "full"]
    BY <1>1 DEF Classified
  <2> QED BY <2>1
<1>2. CASE i.recipe # NoRecipe
  <2> DEFINE old  == i.recipe
             new  == RecipeOf(i.knobs, m)
             item == Invalidated(i, old, new)
             rung == RequiredTier(old, new)
             work == CASE rung = "skip" -> "skip"
                       [] rung = "mask" /\ item.seg # None ->
                              IF new.lines = "off" THEN "mask" ELSE "addedge"
                       [] rung = "addedge" /\ item.seg # None -> "addedge"
                       [] OTHER -> "full"
  <2>1. Classified(i, m) = [item |-> item, work |-> work]
    BY <1>2 DEF Classified
  <2>2. old \in RecipeSet /\ i.knobs \in Knobs
    BY <1>2 DEF Album
  <2>3. new \in RecipeSet /\ new.model = m /\ new.lines = i.knobs.lines /\ (Whole(new) => new.mask = Plain)
    BY <2>2, RecipeIsOne
  <2>4. Whole(old) => old.mask = Plain
    BY DEF Agrees
  <2>5. /\ item \in Album /\ item.knobs = i.knobs /\ item.recipe = i.recipe /\ item.picture = i.picture
        /\ item.job = i.job /\ item.seg \in {None, i.seg}
    BY InvalidatedKeeps
  <2> HIDE DEF new
  <2>6. /\ rung = "skip" => old = new
        /\ rung \in {"mask", "addedge"} => old.model = new.model /\ ~Whole(old) /\ ~Whole(new)
        /\ rung = "addedge" => new.lines = "subject"
    BY <2>2, <2>3, <2>4, TierTells
  <2>7. new.lines \in {"off", "subject", "whole"}
    BY <2>3 DEF RecipeSet, Modes
  <2> HIDE DEF item, rung, old
  <2>8. /\ work \in {"skip", "full", "mask", "addedge"}
        /\ work = "skip" => rung = "skip"
        /\ work = "mask" => rung = "mask" /\ new.lines = "off" /\ item.seg # None
        /\ work = "addedge" => rung \in {"mask", "addedge"} /\ item.seg # None
                               /\ (rung = "mask" => new.lines # "off")
    OBVIOUS
  <2>9. work \in {"mask", "addedge"} => item.seg = m
    <3> SUFFICES ASSUME work \in {"mask", "addedge"} PROVE item.seg = m
      OBVIOUS
    <3>1. item.seg # None /\ item.seg = i.seg
      BY <2>5, <2>8
    <3>2. old.model = m /\ ~Whole(old)
      BY <2>3, <2>6, <2>8
    <3>3. i.seg = i.recipe.model
      BY <1>2, <3>1, <3>2 DEF Serves, old
    <3> QED BY <3>1, <3>2, <3>3 DEF old
  <2>10. work = "addedge" => new.lines = "subject"
    BY <2>6, <2>7, <2>8 DEF Whole
  <2> HIDE DEF work
  <2> QED BY <2>1, <2>3, <2>5, <2>6, <2>8, <2>9, <2>10 DEF old, new
<1> QED BY <1>1, <1>2

\* What a run brings is by the recipe of its knobs.
LEMMA OutcomeFollows ==
    ASSUME NEW i \in Album, NEW m \in Cutters, NEW work \in {"full", "mask", "addedge"},
           work \in {"mask", "addedge"} => i.seg = m,
           work = "mask" => i.knobs.lines = "off", work = "addedge" => i.knobs.lines = "subject"
    PROVE  LET b == Outcome(i, work, i.knobs, m) IN
           /\ b \in Results /\ b.recipe = RecipeOf(i.knobs, m) /\ b.picture = PictureOf(b.recipe)
           /\ b.seg = m \/ Whole(b.recipe)
<1> DEFINE k == i.knobs
           r == RecipeOf(k, m)
           trace == [over |-> i.seg, filter |-> k.filter]
<1>1. k \in Knobs /\ i.seg \in Cutters \cup {None} /\ i.trace \in Traces /\ k.filter \in Styles
  BY DEF Album, Knobs
<1>2. /\ r \in RecipeSet /\ r.model = m /\ r.lines = k.lines /\ (~Whole(r) => r.mask = k.mask)
      /\ (r.lines = "subject" => r.filter = k.filter) /\ r.edge = k.edge
  BY <1>1, RecipeIsOne
<1>3. /\ Trace(r) \in Traces /\ PictureOf(r) \in Pictures
      /\ r.lines = "off" => PictureOf(r) = Cutout(r.model, r.mask)
      /\ r.lines = "subject" => PictureOf(r) = Outlined(r.model, r.mask, Trace(r), r.edge)
  BY <1>2, PictureIsOne
<1>4. trace \in Traces
  BY <1>1 DEF Traces
<1> HIDE DEF k, r
<1>5. CASE work = "full"
  <2>1. Outcome(i, work, k, m) =
          [picture |-> PictureOf(r), seg |-> IF Whole(r) THEN i.seg ELSE m,
           trace |-> IF r.lines = "off" THEN i.trace ELSE Trace(r), recipe |-> r]
    BY <1>5 DEF Outcome, r
  <2> QED BY <1>1, <1>2, <1>3, <2>1 DEF Results, k, r
<1>6. CASE work = "mask"
  <2>1. Outcome(i, work, k, m) =
          [picture |-> Cutout(i.seg, k.mask), seg |-> i.seg, trace |-> i.trace, recipe |-> r]
    BY <1>6 DEF Outcome, r, k
  <2>2. Cutout(i.seg, k.mask) = PictureOf(r)
    BY <1>2, <1>3, <1>6 DEF Whole, k
  <2> QED BY <1>1, <1>2, <1>3, <1>6, <2>1, <2>2 DEF Results, k, r
<1>7. CASE work = "addedge"
  <2>1. k.lines # "off" /\ i.seg = m
    BY <1>7 DEF k
  <2>2. Outcome(i, work, k, m) =
          [picture |-> Outlined(i.seg, k.mask, trace, k.edge), seg |-> i.seg, trace |-> trace, recipe |-> r]
    BY <1>7, <2>1 DEF Outcome, r, k
  <2>3. trace = Trace(r)
    BY <1>2, <1>7, <2>1 DEF Trace, k
  <2>4. Outlined(i.seg, k.mask, trace, k.edge) = PictureOf(r)
    BY <1>2, <1>3, <1>7, <2>1, <2>3 DEF Whole, k
  <2> HIDE DEF trace
  <2> QED BY <1>2, <1>3, <1>4, <2>1, <2>2, <2>4 DEF Results, k, r
<1> QED BY <1>5, <1>6, <1>7 DEF k

\* process_items: images that run keep what they show.
LEMMA RanKeeps ==
    ASSUME NEW items \in [Images -> Album], NEW n \in Images, NEW kind \in {None, "Process"},
           cutter \in Cutters, Agrees(items[n]), Serves(items[n]), Brings(items[n], cutter),
           items[n].knobs = items[viewing].knobs
    PROVE  LET i == items[n]
               j == Ran(items, n, kind) IN
           /\ j \in Album /\ j.knobs = i.knobs /\ j.recipe = i.recipe /\ j.picture = i.picture
           /\ Agrees(j) /\ Serves(j) /\ Brings(j, cutter)
<1> DEFINE i == items[n]
           c == Classified(i, cutter)
           b == Outcome(c.item, c.work, i.knobs, cutter)
           j == [c.item EXCEPT !.knobs = i.knobs, !.status = "processing", !.job = [kind |-> kind, brings |-> b]]
<1>1. /\ c.item \in Album /\ c.item.knobs = i.knobs /\ c.item.recipe = i.recipe
      /\ c.item.picture = i.picture /\ c.item.job = i.job /\ c.item.seg \in {None, i.seg}
      /\ c.work \in {"skip", "full", "mask", "addedge"}
      /\ c.work \in {"mask", "addedge"} => c.item.seg = cutter
      /\ c.work = "mask" => i.knobs.lines = "off"
      /\ c.work = "addedge" => i.knobs.lines = "subject"
  BY ClassifiedKeeps
<1>2. Ran(items, n, kind) = IF c.work = "skip" THEN c.item ELSE j
  BY DEF Ran
<1>3. Agrees(i) /\ Serves(i) /\ Brings(i, cutter)
  OBVIOUS
<1> HIDE DEF c, i
<1>4. Agrees(c.item) /\ Serves(c.item) /\ Brings(c.item, cutter)
  BY <1>1, <1>3 DEF Agrees, Serves, Brings
<1>5. CASE c.work = "skip"
  BY <1>1, <1>2, <1>4, <1>5 DEF i
<1>6. CASE c.work # "skip"
  <2>1. /\ b \in Results /\ b.recipe = RecipeOf(i.knobs, cutter) /\ b.picture = PictureOf(b.recipe)
        /\ b.seg = cutter \/ Whole(b.recipe)
    BY <1>1, <1>6, OutcomeFollows
  <2> HIDE DEF b
  <2>2. [kind |-> kind, brings |-> b] \in Runs
    BY <2>1 DEF Runs
  <2>3. i.knobs \in Knobs
    BY <1>1 DEF Album
  <2>4. /\ j \in Album /\ j.knobs = i.knobs /\ j.recipe = c.item.recipe /\ j.picture = c.item.picture
        /\ j.seg = c.item.seg /\ j.job.brings = b
    BY <1>1, <2>2, <2>3 DEF Album
  <2> HIDE DEF j
  <2>5. Agrees(j) /\ Serves(j)
    BY <1>1, <1>4, <2>4 DEF Agrees, Serves
  <2>6. Brings(j, cutter)
    BY <2>1, <2>4 DEF Brings
  <2> QED BY <1>1, <1>2, <1>6, <2>4, <2>5, <2>6 DEF i
<1> QED BY <1>5, <1>6

----------------------------------------------------------------------------
(* Histories                                                               *)

\* What is shown agrees, and filling it in keeps a history one.
LEMMA ShownAgrees ==
    ASSUME NEW t \in Histories
    PROVE  /\ Shown(t) \in Agreeing
           /\ \A s \in Agreeing : Amended(t, s) \in Histories /\ Amended(t, s).version = t.version
<1>1. t \in [states : Seq(Agreeing), at : Nat, version : Nat] /\ t.at \in 1 .. Len(t.states)
  BY DEF Histories
<1>2. t.states[t.at] \in Agreeing
  BY <1>1, ElementOfSeq
<1>3. ASSUME NEW s \in Agreeing PROVE Amended(t, s) \in Histories /\ Amended(t, s).version = t.version
  <2> DEFINE states == [t.states EXCEPT ![t.at] = s]
             u == Amended(t, s)
  <2>1. states \in Seq(Agreeing) /\ Len(states) = Len(t.states)
    BY <1>1, ExceptSeq
  <2>2. u = [t EXCEPT !.states = states]
    BY <1>1 DEF Amended
  <2> HIDE DEF states
  <2>3. u \in [states : Seq(Agreeing), at : Nat, version : Nat]
        /\ u.states = states /\ u.at = t.at /\ u.version = t.version
    BY <1>1, <2>1, <2>2
  <2> QED BY <1>1, <2>1, <2>3 DEF Histories
<1> QED BY <1>2, <1>3 DEF Shown

\* The newest states of a history.
LEMMA LatestAgree ==
    ASSUME NEW s \in Seq(Agreeing), Len(s) > 0
    PROVE  Latest(s) \in Seq(Agreeing) /\ Len(Latest(s)) > 0
<1>1. Depth \in Nat \ {0} /\ Len(s) \in Nat
  BY TimelineAssumption, LenProperties
<1> DEFINE from == IF Len(s) > Depth THEN Len(s) - Depth + 1 ELSE 1
<1>2. from \in 1 .. Len(s)
  BY <1>1
<1>3. \A n \in from .. Len(s) : s[n] \in Agreeing
  BY <1>1, <1>2, ElementOfSeq
<1>4. Latest(s) = SubSeq(s, from, Len(s))
  BY DEF Latest
<1> HIDE DEF from
<1>5. /\ SubSeq(s, from, Len(s)) \in Seq(Agreeing)
      /\ Len(SubSeq(s, from, Len(s))) = Len(s) - from + 1
  BY <1>1, <1>2, <1>3, SubSeqProperties
<1> QED BY <1>1, <1>2, <1>4, <1>5

\* A push makes a history, with the next version: a step that joins none is new.
LEMMA PushedAgrees ==
    ASSUME NEW t \in Histories, NEW s \in Agreeing
    PROVE  Pushed(t, s, FALSE) \in Histories /\ Pushed(t, s, FALSE).version = t.version + 1
<1> DEFINE past == SubSeq(t.states, 1, t.at)
           states == Latest(Append(past, s))
           u == Pushed(t, s, FALSE)
<1>1. t.states \in Seq(Agreeing) /\ t.at \in 1 .. Len(t.states) /\ t.version \in Nat
  BY DEF Histories
<1>2. past \in Seq(Agreeing)
  BY <1>1, SplitItems, LenProperties
<1> HIDE DEF past
<1>3. Append(past, s) \in Seq(Agreeing) /\ Len(Append(past, s)) > 0
  BY <1>2, AppendProperties, LenProperties
<1>4. states \in Seq(Agreeing) /\ Len(states) > 0
  BY <1>3, LatestAgree
<1>5. u = [states |-> states, at |-> Len(states), version |-> t.version + 1]
  BY DEF Pushed, Joins, past
<1> HIDE DEF states, u
<1>6. Len(states) \in Nat /\ t.version + 1 \in Nat
  BY <1>1, <1>4, LenProperties
<1>7. u \in [states : Seq(Agreeing), at : Nat, version : Nat]
      /\ u.states = states /\ u.at = Len(states) /\ u.version = t.version + 1
  BY <1>4, <1>5, <1>6
<1>8. u \in Histories
  BY <1>4, <1>6, <1>7 DEF Histories
<1> QED BY <1>7, <1>8 DEF u

\* Another state may be shown under the next version.
LEMMA WalkedAgrees ==
    ASSUME NEW t \in Histories, NEW n \in 1 .. Len(t.states)
    PROVE  [t EXCEPT !.at = n, !.version = t.version + 1] \in Histories
<1> DEFINE Shapes == [states : Seq(Agreeing), at : Nat, version : Nat]
           w == t.version + 1
           u == [t EXCEPT !.at = n, !.version = w]
<1>1. t \in Shapes /\ n \in Nat /\ w \in Nat
  BY LenProperties DEF Histories
<1> HIDE DEF w
<1>2. u \in Shapes /\ u.at = n /\ u.states = t.states
  BY <1>1
<1> HIDE DEF u
<1>3. u \in Histories
  BY <1>2 DEF Histories
<1> QED BY <1>3 DEF u, w

\* A snapshot of an image agrees if the image does.
LEMMA SnapshotAgrees ==
    ASSUME NEW i \in Album, Agrees(i), NEW kind \in {"Process", "Adjust", "Preset"}
    PROVE  Snapshot(i, kind) \in Agreeing
<1>1. Snapshot(i, kind) \in Snapshots
  BY DEF Snapshot, Snapshots, Album
<1>2. Agrees(Snapshot(i, kind))
  BY DEF Agrees, Snapshot
<1> QED BY <1>1, <1>2 DEF Agreeing

----------------------------------------------------------------------------
(* Steps of the user, runs and previews                                    *)

\* A preview of a state that is left does not matter.
LEMMA LeftBehind ==
    ASSUME NEW f \in Flights \cup {NoFlight}, NEW k, NEW r, NEW v \in Nat, Fits(f, k, r, v), NEW l, NEW s
    PROVE  Fits(f, l, s, v + 1)
<1>1. CASE f = NoFlight
  BY <1>1 DEF Fits
<1>2. CASE f # NoFlight
  <2>1. f.version \in Nat
    BY <1>2 DEF Flights
  <2> QED BY <1>2, <2>1 DEF Fits
<1> QED BY <1>1, <1>2

\* A step on one image leaves the others as they are.
LEMMA OneImage ==
    ASSUME RecInv, RecTypes', cutter' = cutter, NEW n \in Images,
           \A m \in Images \ {n} : album'[m] = album[m] /\ flights'[m] = flights[m] /\ steps'[m] = steps[m],
           Agrees(album'[n]), Serves(album'[n]), Brings(album'[n], cutter),
           Fits(flights'[n], album'[n].knobs, album'[n].recipe, steps'[n].version)
    PROVE  RecInv'
<1> SUFFICES ASSUME NEW m \in Images
             PROVE  /\ Agrees(album'[m]) /\ Serves(album'[m]) /\ Brings(album'[m], cutter)
                    /\ Fits(flights'[m], album'[m].knobs, album'[m].recipe, steps'[m].version)
  BY DEF RecInv
<1>1. CASE m = n
  BY <1>1
<1>2. CASE m # n
  <2>1. album'[m] = album[m] /\ flights'[m] = flights[m] /\ steps'[m] = steps[m]
    BY <1>2
  <2> QED BY <2>1 DEF RecInv
<1> QED BY <1>1, <1>2

\* apply_tier_result of a run that worked.
LEMMA LandKeeps ==
    ASSUME RecInv, Slips = {}, NEW n \in Images, Land(n) PROVE RecInv'
<1> DEFINE i == album[n]
           b == i.job.brings
           t == steps[n]
           done == [i EXCEPT !.recipe = b.recipe, !.picture = b.picture, !.seg = b.seg,
                             !.trace = b.trace, !.status = "done", !.job = NoJob]
           h == IF i.job.kind = None THEN Amended(t, Snapshot(done, Shown(t).kind))
                ELSE Pushed(t, Snapshot(done, i.job.kind), FALSE)
<1>1. /\ i.job # NoJob /\ flights[n] = NoFlight
      /\ album' = [album EXCEPT ![n] = done] /\ steps' = [steps EXCEPT ![n] = h]
      /\ UNCHANGED <<cutter, viewing, previews, flights>>
  BY DEF Land
<1>2. /\ album \in [Images -> Album] /\ steps \in [Images -> Histories] /\ cutter \in Cutters
      /\ i \in Album /\ t \in Histories
      /\ Agrees(i) /\ Brings(i, cutter)
  BY DEF RecInv, RecTypes
<1>3. i.job \in Runs /\ b \in Results /\ i.knobs \in Knobs
  BY <1>1, <1>2 DEF Album, Runs
<1>4. /\ b.recipe = RecipeOf(i.knobs, cutter) /\ b.picture = PictureOf(b.recipe)
      /\ b.seg = cutter \/ Whole(b.recipe)
  BY <1>1, <1>2 DEF Brings
<1>5. /\ b.recipe \in RecipeSet /\ b.recipe.model = cutter /\ (Whole(b.recipe) <=> Whole(i.knobs))
      /\ (Whole(b.recipe) => b.recipe.mask = Plain)
  BY <1>2, <1>3, <1>4, RecipeIsOne
<1>6. b.picture # Nothing /\ MadeBy(b.picture, b.recipe)
  BY <1>4, <1>5, PictureIsOne
<1>7. b.picture \in Pictures /\ b.seg \in Cutters \cup {None} /\ b.trace \in Traces /\ i.job.kind \in {None, "Process"}
  BY <1>3 DEF Results, Runs
<1>8. /\ done \in Album /\ done.knobs = i.knobs /\ done.recipe = b.recipe /\ done.picture = b.picture
      /\ done.seg = b.seg /\ done.job = NoJob
  BY <1>2, <1>5, <1>7 DEF Album
<1> HIDE DEF done
<1>9. Agrees(done) /\ Serves(done) /\ Brings(done, cutter)
  BY <1>2, <1>4, <1>5, <1>6, <1>8 DEF Agrees, Serves, Brings
<1>10. h \in Histories
  <2>1. Shown(t).kind \in {"Process", "Adjust", "Preset"}
    BY <1>2, ShownAgrees DEF Agreeing, Snapshots
  <2>2. Snapshot(done, Shown(t).kind) \in Agreeing
    BY <1>8, <1>9, <2>1, SnapshotAgrees
  <2>3. i.job.kind # None => Snapshot(done, i.job.kind) \in Agreeing
    BY <1>7, <1>8, <1>9, SnapshotAgrees
  <2> QED BY <1>2, <2>2, <2>3, ShownAgrees, PushedAgrees
<1> HIDE DEF h
<1>11. album'[n] = done /\ flights'[n] = NoFlight
       /\ \A m \in Images \ {n} : album'[m] = album[m] /\ flights'[m] = flights[m] /\ steps'[m] = steps[m]
  BY <1>1, <1>2
<1>12. RecTypes'
  BY <1>1, <1>2, <1>8, <1>10 DEF RecInv, RecTypes
<1> QED BY <1>1, <1>9, <1>11, <1>12, OneImage DEF Fits

\* The same of one that failed, abandon_job, and evict_all_tensors.
LEMMA LettingGoKeeps ==
    ASSUME RecInv, NEW n \in Images, Fail(n) \/ CancelRun(n) \/ EvictTensors(n) PROVE RecInv'
<1> DEFINE i == album[n]
           j == album'[n]
<1>1. /\ album \in [Images -> Album] /\ i \in Album /\ Agrees(i) /\ Serves(i) /\ Brings(i, cutter)
      /\ Fits(flights[n], i.knobs, i.recipe, steps[n].version)
  BY DEF RecInv, RecTypes
<1>2. UNCHANGED <<cutter, viewing, previews, flights, steps>>
  BY DEF Fail, CancelRun, EvictTensors
<1>3. /\ j \in Album /\ j.knobs = i.knobs /\ j.picture = i.picture
      /\ j.recipe = i.recipe \/ j.recipe = NoRecipe
      /\ j.seg = i.seg \/ j.seg = None
      /\ j.job = i.job \/ j.job = NoJob
      /\ album' \in [Images -> Album]
      /\ \A m \in Images \ {n} : album'[m] = album[m]
  <2>1. CASE Fail(n)
    BY <1>1, <2>1, RecConstants DEF Fail, Album
  <2>2. CASE CancelRun(n)
    BY <1>1, <2>2, RecConstants DEF CancelRun, Album
  <2>3. CASE EvictTensors(n)
    BY <1>1, <2>3, RecConstants DEF EvictTensors, Album
  <2> QED BY <2>1, <2>2, <2>3
<1> HIDE DEF i, j
<1>4. Agrees(j) /\ Serves(j) /\ Brings(j, cutter)
  BY <1>1, <1>3, RecConstants DEF Agrees, Serves, Brings, MadeBy
<1>5. Fits(flights[n], j.knobs, j.recipe, steps[n].version)
  BY <1>1, <1>3 DEF Fits
<1>6. RecTypes'
  BY <1>2, <1>3 DEF RecInv, RecTypes
<1> QED BY <1>2, <1>3, <1>4, <1>5, <1>6, OneImage DEF j

\* What a preview shows of an image that is not refused one.
LEMMA PreviewedFits ==
    ASSUME NEW i \in Album, Agrees(i), Serves(i), NEW kind \in {"mask", "edge"}, ~Refused(i, kind)
    PROVE  LET p == Previewed(i, kind) IN
           /\ p \in Pictures /\ p # Nothing
           /\ i.recipe # NoRecipe => MadeBy(p, Noted(i.recipe, i.knobs.mask))
<1> DEFINE p == Previewed(i, kind)
           k == i.knobs
           drawn == k.lines = "subject" /\ i.seg # None /\ i.trace # NoLines
<1>1. /\ k \in Knobs /\ k.mask \in Styles /\ k.edge \in Styles /\ i.seg \in Cutters \cup {None}
      /\ i.trace \in Traces /\ i.recipe \in RecipeSet \cup {NoRecipe}
  BY DEF Album, Knobs
<1>2. ASSUME i.recipe # NoRecipe
      PROVE  LET r == Noted(i.recipe, k.mask) IN
             r.mask = k.mask /\ r.model = i.recipe.model /\ (Whole(r) <=> Whole(i.recipe))
  BY <1>1, <1>2 DEF Noted, RecipeSet, Whole
<1> HIDE DEF k
<1>3. CASE drawn
  <2>1. p = Outlined(i.seg, k.mask, i.trace, k.edge)
    BY <1>3 DEF Previewed, k
  <2> HIDE DEF p
  <2>2. p \in Pictures /\ p.cut = i.seg /\ p.mask = k.mask
    BY <1>1, <2>1, PictureShapes
  <2>3. p # Nothing
    BY <1>3, <2>2, PictureShapes
  <2> QED BY <1>2, <1>3, <2>2, <2>3 DEF Serves, MadeBy, p, k
<1>4. CASE ~drawn /\ kind = "mask" /\ i.seg # None
  <2>1. p = Cutout(i.seg, k.mask)
    BY <1>4 DEF Previewed, k
  <2> HIDE DEF p
  <2>2. p \in Pictures /\ p.cut = i.seg /\ p.mask = k.mask
    BY <1>1, <2>1, PictureShapes
  <2>3. p # Nothing
    BY <1>4, <2>2, PictureShapes
  <2> QED BY <1>2, <1>4, <2>2, <2>3 DEF Serves, MadeBy, p, k
<1>5. CASE ~drawn /\ kind = "mask" /\ i.seg = None
  <2>1. p = Photo
    BY <1>5 DEF Previewed, k
  <2>2. i.recipe = NoRecipe
    BY <1>5 DEF Refused, Agrees
  <2> QED BY <2>1, <2>2, RecConstants
<1>6. CASE ~drawn /\ kind # "mask"
  <2>1. p = Sketch(i.trace, k.edge) /\ i.trace # NoLines
    BY <1>6 DEF Previewed, Refused, k
  <2>2. p \in Pictures /\ p.cut = None /\ p # Nothing
    BY <1>1, <2>1, PictureShapes
  <2> HIDE DEF p
  <2> QED BY <2>2 DEF MadeBy, p
<1> QED BY <1>3, <1>4, <1>5, <1>6

\* tick: what leaves shows the image as it is.
LEMMA PreviewStartsKeeps ==
    ASSUME RecInv, NEW n \in Images, PreviewStarts(n) PROVE RecInv'
<1> DEFINE i == album[n]
           p == Previewed(i, previews[n])
           f == [picture |-> p, mask |-> i.knobs.mask, version |-> steps[n].version]
<1>1. /\ previews' = [previews EXCEPT ![n] = "no"] /\ flights' = [flights EXCEPT ![n] = f]
      /\ UNCHANGED <<cutter, viewing, album, steps>>
      /\ previews[n] # "no" /\ ~Refused(i, previews[n])
  BY DEF PreviewStarts, Due
<1>2. /\ i \in Album /\ Agrees(i) /\ Serves(i) /\ Brings(i, cutter) /\ steps[n] \in Histories
      /\ previews[n] \in {"mask", "edge"} /\ RecTypes
  BY <1>1 DEF RecInv, RecTypes
<1>3. i.knobs.mask \in Styles /\ steps[n].version \in Nat
  BY <1>2 DEF Album, Knobs, Histories
<1>4. /\ p \in Pictures /\ p # Nothing
      /\ i.recipe # NoRecipe => MadeBy(p, Noted(i.recipe, i.knobs.mask))
  BY <1>1, <1>2, PreviewedFits
<1> HIDE DEF p, i
<1>5. f \in Flights /\ Fits(f, i.knobs, i.recipe, steps[n].version)
  BY <1>3, <1>4 DEF Flights, Fits
<1> HIDE DEF f
<1>6. flights'[n] = f /\ \A m \in Images \ {n} : flights'[m] = flights[m]
  BY <1>1, <1>2 DEF RecTypes
<1>7. RecTypes'
  BY <1>1, <1>2, <1>5 DEF RecTypes
<1> QED BY <1>1, <1>2, <1>5, <1>6, <1>7, OneImage DEF i

\* apply_completed_previews: what lands is noted.
LEMMA PreviewArrivesKeeps ==
    ASSUME RecInv, NEW n \in Images, PreviewArrives(n) PROVE RecInv'
<1> DEFINE i == album[n]
           f == flights[n]
           t == steps[n]
           status == IF i.status = "pending" THEN "done" ELSE i.status
           redrawn == [i EXCEPT !.picture = f.picture, !.status = status, !.recipe = Noted(i.recipe, f.mask)]
           h == Amended(t, Snapshot(redrawn, Shown(t).kind))
<1>1. /\ f # NoFlight /\ flights' = [flights EXCEPT ![n] = NoFlight]
      /\ UNCHANGED <<cutter, viewing, previews>>
  BY DEF PreviewArrives
<1>2. /\ RecTypes /\ i \in Album /\ t \in Histories /\ f \in Flights
      /\ Agrees(i) /\ Serves(i) /\ Brings(i, cutter) /\ Fits(f, i.knobs, i.recipe, t.version)
  BY <1>1 DEF RecInv, RecTypes
<1>3. flights'[n] = NoFlight /\ (\A m \in Images \ {n} : flights'[m] = flights[m])
      /\ flights' \in [Images -> Flights \cup {NoFlight}]
  BY <1>1, <1>2 DEF RecTypes
<1>4. CASE f.version # t.version
  <2>1. UNCHANGED <<album, steps>>
    BY <1>4 DEF PreviewArrives
  <2>2. RecTypes'
    BY <1>1, <1>2, <1>3, <2>1 DEF RecTypes
  <2> QED BY <1>1, <1>2, <1>3, <2>1, <2>2, OneImage DEF Fits
<1>5. CASE f.version = t.version
  <2>1. album' = [album EXCEPT ![n] = redrawn] /\ steps' = [steps EXCEPT ![n] = h]
    BY <1>1, <1>2, <1>5 DEF PreviewArrives, Album
  <2>2. /\ f.picture # Nothing /\ f.mask = i.knobs.mask /\ f.picture \in Pictures /\ f.mask \in Styles
        /\ i.recipe # NoRecipe => MadeBy(f.picture, Noted(i.recipe, f.mask))
    BY <1>1, <1>2, <1>5 DEF Fits, Flights
  <2>3. /\ i.recipe = NoRecipe => Noted(i.recipe, f.mask) = NoRecipe
        /\ i.recipe # NoRecipe =>
              LET r == Noted(i.recipe, f.mask) IN
              r \in RecipeSet /\ r.mask = f.mask /\ r.model = i.recipe.model /\ (Whole(r) <=> Whole(i.recipe))
    BY <1>2, <2>2 DEF Noted, RecipeSet, Whole, Album
  <2> DEFINE r == Noted(i.recipe, f.mask)
  <2>4. r \in RecipeSet \cup {NoRecipe} /\ status \in {"pending", "processing", "done", "error"}
    BY <1>2, <2>3 DEF Album
  <2> HIDE DEF r, status
  <2>5. /\ redrawn \in Album /\ redrawn.knobs = i.knobs /\ redrawn.recipe = r /\ redrawn.picture = f.picture
        /\ redrawn.seg = i.seg /\ redrawn.job = i.job
    BY <1>2, <2>2, <2>4 DEF Album, r
  <2> HIDE DEF redrawn
  <2>6. Agrees(redrawn)
    BY <1>2, <2>2, <2>3, <2>5, RecConstants DEF Agrees, r, MadeBy
  <2>7. Serves(redrawn) /\ Brings(redrawn, cutter)
    BY <1>2, <2>3, <2>5, RecConstants DEF Serves, Brings, r
  <2>8. h \in Histories
    <3>1. Shown(t).kind \in {"Process", "Adjust", "Preset"}
      BY <1>2, ShownAgrees DEF Agreeing, Snapshots
    <3> QED BY <1>2, <2>5, <2>6, <3>1, SnapshotAgrees, ShownAgrees
  <2> HIDE DEF h
  <2>9. /\ album'[n] = redrawn
        /\ \A m \in Images \ {n} : album'[m] = album[m] /\ steps'[m] = steps[m]
    BY <1>2, <2>1 DEF RecTypes
  <2>10. RecTypes'
    BY <1>1, <1>2, <1>3, <2>1, <2>5, <2>8 DEF RecTypes
  <2> QED BY <1>1, <1>3, <2>6, <2>7, <2>9, <2>10, OneImage DEF Fits
<1> QED BY <1>4, <1>5

\* The model, and the image that is shown.
LEMMA PickingKeeps ==
    ASSUME RecInv, (\E m \in Cutters : PickModel(m)) \/ (\E n \in Images : Look(n)) \/ Tripwire PROVE RecInv'
<1>1. ASSUME NEW m \in Cutters, PickModel(m) PROVE RecInv'
  <2> DEFINE j == [album[viewing] EXCEPT !.seg = None]
  <2>1. /\ cutter' = m /\ album' = [album EXCEPT ![viewing] = j]
        /\ UNCHANGED <<viewing, steps, previews, flights>> /\ \A n \in Images : album[n].job = NoJob
    BY <1>1 DEF PickModel, UserMoves, NothingRuns
  <2>2. RecTypes /\ viewing \in Images /\ album[viewing] \in Album /\ album \in [Images -> Album]
    BY DEF RecInv, RecTypes
  <2>3. /\ j \in Album /\ j.knobs = album[viewing].knobs /\ j.recipe = album[viewing].recipe
        /\ j.picture = album[viewing].picture /\ j.job = album[viewing].job /\ j.seg = None
    BY <2>2 DEF Album
  <2> HIDE DEF j
  <2>4. RecTypes'
    BY <2>1, <2>2, <2>3 DEF RecTypes
  <2>5. ASSUME NEW n \in Images
        PROVE  /\ Agrees(album'[n]) /\ Serves(album'[n]) /\ Brings(album'[n], m)
               /\ Fits(flights[n], album'[n].knobs, album'[n].recipe, steps[n].version)
    <3>1. Agrees(album[n]) /\ Serves(album[n]) /\ Fits(flights[n], album[n].knobs, album[n].recipe, steps[n].version)
      BY DEF RecInv
    <3>2. CASE n = viewing
      <4>1. album'[n] = j
        BY <2>1, <2>2, <3>2
      <4>2. Agrees(j)
        BY <2>3, <3>1, <3>2 DEF Agrees
      <4> QED BY <2>1, <2>3, <3>1, <3>2, <4>1, <4>2 DEF Serves, Brings
    <3>3. CASE n # viewing
      <4>1. album'[n] = album[n]
        BY <2>1, <2>2, <3>3
      <4> QED BY <2>1, <3>1, <4>1 DEF Brings
    <3> QED BY <3>2, <3>3
  <2> QED BY <2>1, <2>4, <2>5 DEF RecInv
<1>2. ASSUME NEW n \in Images, Look(n) PROVE RecInv'
  BY <1>2 DEF Look, RecInv, RecTypes
<1>3. ASSUME Tripwire PROVE RecInv'
  <2>1. UNCHANGED <<cutter, viewing, album, steps, flights>>
    BY <1>3 DEF Tripwire
  <2>2. previews' \in [Images -> {"no", "mask", "edge"}]
    BY <1>3 DEF Tripwire, RecInv, RecTypes
  <2> QED BY <2>1, <2>2 DEF RecInv, RecTypes
<1> QED BY <1>1, <1>2, <1>3

\* handle_remove_bg: images of equal knobs run.
LEMMA ProcessKeeps ==
    ASSUME RecInv, Slips = {}, NEW S \in SUBSET Images, Process(S) PROVE RecInv'
<1>1. /\ album' = [n \in Images |-> IF n \in S THEN Ran(album, n, "Process") ELSE album[n]]
      /\ UNCHANGED <<cutter, viewing, steps, previews, flights>>
      /\ \A n \in S : album[n].knobs = album[viewing].knobs
  BY DEF Process, Processed, Here
<1>2. RecTypes /\ cutter \in Cutters /\ album \in [Images -> Album]
  BY DEF RecInv, RecTypes
<1>3. ASSUME NEW n \in Images
      PROVE  /\ album'[n] \in Album /\ Agrees(album'[n]) /\ Serves(album'[n]) /\ Brings(album'[n], cutter)
             /\ Fits(flights[n], album'[n].knobs, album'[n].recipe, steps[n].version)
  <2>1. /\ Agrees(album[n]) /\ Serves(album[n]) /\ Brings(album[n], cutter)
        /\ Fits(flights[n], album[n].knobs, album[n].recipe, steps[n].version)
    BY DEF RecInv
  <2>2. CASE n \in S
    <3>1. album'[n] = Ran(album, n, "Process") /\ album[n].knobs = album[viewing].knobs
      BY <1>1, <2>2
    <3> QED BY <1>2, <2>1, <3>1, RanKeeps
  <2>3. CASE n \notin S
    <3>1. album'[n] = album[n]
      BY <1>1, <2>3
    <3> QED BY <1>2, <2>1, <3>1
  <2> QED BY <2>2, <2>3
<1>4. RecTypes'
  BY <1>1, <1>2, <1>3 DEF RecTypes
<1> QED BY <1>1, <1>3, <1>4 DEF RecInv

\* apply_toolbar_change: the step is recorded under a new version, so that no preview
\* of the old knobs fits.
LEMMA AdjustedKeeps ==
    ASSUME RecInv, Slips = {}, NEW k \in Knobs, NEW preset \in BOOLEAN, Adjusted(k, preset) PROVE RecInv'
<1> DEFINE here == album[viewing]
           stale == Whole(k) # Whole(here.knobs) \/ (~preset /\ k.filter # here.knobs.filter)
           trace == IF stale THEN NoLines ELSE here.trace
           item == [here EXCEPT !.knobs = k, !.trace = trace]
           asked == Dispatch(item, here.knobs, preset)
           items == [album EXCEPT ![viewing] = item]
           kind == IF preset THEN "Preset" ELSE "Adjust"
           h == Pushed(steps[viewing], Snapshot(item, kind), FALSE)
<1>1. /\ UNCHANGED <<cutter, viewing, flights>>
      /\ here.job = NoJob /\ (Whole(k) \/ Whole(here.recipe) => k.mask = Plain)
      /\ RecTypes /\ cutter \in Cutters /\ viewing \in Images /\ here \in Album /\ steps[viewing] \in Histories
      /\ album \in [Images -> Album]
      /\ Agrees(here) /\ Serves(here) /\ Fits(flights[viewing], here.knobs, here.recipe, steps[viewing].version)
  BY DEF Adjusted, UserMoves, NothingRuns, Here, RecInv, RecTypes
<1>2. /\ steps' = [steps EXCEPT ![viewing] = h]
      /\ album' = Processed(items, {viewing}, None) \/ album' = items
      /\ (previews' = [previews EXCEPT ![viewing] = asked] /\ asked \in {"mask", "edge"}) \/ previews' = previews
  <2>1. here.trace = album[viewing].trace /\ item = [here EXCEPT !.knobs = k, !.trace = IF stale THEN NoLines ELSE @]
    BY <1>1 DEF Album
  <2>2. PICK soon \in BOOLEAN : /\ soon => "quick" \in Slips
                               /\ steps' = [steps EXCEPT ![viewing] = Pushed(@, Snapshot(item, kind), soon)]
    BY <2>1, Zenon DEF Adjusted, Here
  <2>3. ~soon
    BY <2>2
  <2>4. steps' = [steps EXCEPT ![viewing] = h]
    BY <2>2, <2>3
  <2>5. album' = Processed(items, {viewing}, None) \/ album' = items
    BY <2>1 DEF Adjusted, Here
  <2>6. (previews' = [previews EXCEPT ![viewing] = asked] /\ asked \in {"mask", "edge"}) \/ previews' = previews
    BY <2>1 DEF Adjusted, Here
  <2> QED BY <2>4, <2>5, <2>6
<1>3. trace \in Traces /\ kind \in {"Preset", "Adjust"}
  BY <1>1, RecConstants DEF Album
<1> HIDE DEF stale, trace, kind
<1>4. /\ item \in Album /\ item.knobs = k /\ item.recipe = here.recipe /\ item.picture = here.picture
      /\ item.seg = here.seg /\ item.job = NoJob
  BY <1>1, <1>3 DEF Album
<1> HIDE DEF item, here, asked
<1>5. Agrees(item) /\ Serves(item) /\ Brings(item, cutter)
  BY <1>1, <1>4 DEF Agrees, Serves, Brings
<1>6. h \in Histories /\ h.version = steps[viewing].version + 1
  BY <1>1, <1>3, <1>4, <1>5, SnapshotAgrees, PushedAgrees
<1> HIDE DEF h
<1>7. items \in [Images -> Album] /\ items[viewing] = item /\ \A m \in Images \ {viewing} : items[m] = album[m]
  BY <1>1, <1>4
<1> HIDE DEF items
<1> DEFINE j == album'[viewing]
<1>8. /\ album' \in [Images -> Album] /\ (\A m \in Images \ {viewing} : album'[m] = album[m])
      /\ Agrees(j) /\ Serves(j) /\ Brings(j, cutter)
  <2>1. CASE album' = items
    BY <1>5, <1>7, <2>1
  <2>2. CASE album' = Processed(items, {viewing}, None)
    <3>1. album' = [n \in Images |-> IF n \in {viewing} THEN Ran(items, n, None) ELSE items[n]]
      BY <2>2 DEF Processed
    <3>2. j = Ran(items, viewing, None)
      BY <1>1, <3>1
    <3>3. j \in Album /\ Agrees(j) /\ Serves(j) /\ Brings(j, cutter)
      BY <1>1, <1>5, <1>7, <3>2, RanKeeps
    <3> QED BY <1>7, <3>1, <3>3
  <2> QED BY <1>2, <2>1, <2>2
<1> HIDE DEF j
<1>9. Fits(flights[viewing], j.knobs, j.recipe, h.version)
  <2>1. flights[viewing] \in Flights \cup {NoFlight} /\ steps[viewing].version \in Nat
    BY <1>1 DEF RecTypes, Histories
  <2> QED BY <1>1, <1>6, <2>1, LeftBehind
<1>10. RecTypes'
  BY <1>1, <1>2, <1>6, <1>8 DEF RecTypes
<1>11. steps'[viewing] = h /\ \A m \in Images \ {viewing} : steps'[m] = steps[m]
  BY <1>1, <1>2 DEF RecTypes
<1> QED BY <1>1, <1>8, <1>9, <1>10, <1>11, OneImage DEF j

\* The rows of the toolbar, and presets.
LEMMA TurnedKeeps ==
    ASSUME RecInv, Slips = {}, TurnAKnob \/ \E k \in Presets : TakePreset(k) PROVE RecInv'
<1>1. viewing \in Images /\ Here.knobs \in Knobs
  BY DEF RecInv, RecTypes, Album, Here
<1>2. /\ \A l \in Modes : [Here.knobs EXCEPT !.lines = l] \in Knobs
      /\ \A v \in Styles : /\ [Here.knobs EXCEPT !.mask = v] \in Knobs
                           /\ [Here.knobs EXCEPT !.edge = v] \in Knobs
                           /\ [Here.knobs EXCEPT !.filter = v] \in Knobs
  BY <1>1 DEF Knobs
<1>3. CASE TurnAKnob
  <2>1. \E k \in Knobs : Adjusted(k, FALSE)
    BY <1>2, <1>3 DEF TurnAKnob
  <2> QED BY <2>1, AdjustedKeeps
<1>4. CASE \E k \in Presets : TakePreset(k)
  <2>1. \E k \in Knobs : Adjusted(k, TRUE)
    BY <1>4, RecConstants DEF TakePreset
  <2> QED BY <2>1, AdjustedKeeps
<1> QED BY <1>3, <1>4

\* BatchItem::restore: another state is shown as it was left.
LEMMA WalkKeeps ==
    ASSUME RecInv, Slips = {}, NEW t \in Histories, Walk(t) PROVE RecInv'
<1> DEFINE here == album[viewing]
           to == Shown(t)
           status == IF to.picture = Nothing THEN "pending" ELSE "done"
           trace == IF to.knobs.lines # here.knobs.lines THEN NoLines ELSE here.trace
           j == album'[viewing]
<1>1. /\ UNCHANGED <<cutter, viewing>> /\ here.job = NoJob
      /\ steps' = [steps EXCEPT ![viewing] = t]
      /\ flights' = [flights EXCEPT ![viewing] = NoFlight] /\ previews' = [previews EXCEPT ![viewing] = "no"]
      /\ here.seg = None \/ to.recipe.model \in {None, here.seg}
      /\ RecTypes /\ viewing \in Images /\ here \in Album /\ album \in [Images -> Album]
  BY DEF Walk, UserMoves, NothingRuns, Here, RecInv, RecTypes
<1>2. /\ album' = [album EXCEPT ![viewing].knobs = to.knobs, ![viewing].recipe = to.recipe,
                     ![viewing].picture = to.picture,
                     ![viewing].status = IF to.picture = Nothing THEN "pending" ELSE "done",
                     ![viewing].trace = IF to.knobs.lines # here.knobs.lines THEN NoLines ELSE @]
  BY DEF Walk, Here
<1>3. to \in Snapshots /\ Agrees(to)
  BY ShownAgrees DEF Agreeing
<1>4. /\ to.knobs \in Knobs /\ to.recipe \in RecipeSet \cup {NoRecipe} /\ to.picture \in Pictures
      /\ trace \in Traces /\ status \in {"pending", "done"}
  BY <1>1, <1>3, RecConstants DEF Snapshots, Album
<1>5. album' = [album EXCEPT ![viewing] =
                   [here EXCEPT !.knobs = to.knobs, !.recipe = to.recipe, !.picture = to.picture,
                                !.status = status, !.trace = trace]]
  BY <1>1, <1>2 DEF Album
<1> HIDE DEF status, trace, to
<1>6. /\ j \in Album /\ j.knobs = to.knobs /\ j.recipe = to.recipe /\ j.picture = to.picture
      /\ j.seg = here.seg /\ j.job = NoJob
      /\ album' \in [Images -> Album] /\ \A m \in Images \ {viewing} : album'[m] = album[m]
  BY <1>1, <1>4, <1>5 DEF Album
<1> HIDE DEF j, here
<1>7. Agrees(j) /\ Brings(j, cutter)
  BY <1>3, <1>6 DEF Agrees, Brings
<1>8. Serves(j)
  BY <1>1, <1>4, <1>6, RecConstants DEF Serves, RecipeSet
<1>9. /\ flights'[viewing] = NoFlight
      /\ \A m \in Images \ {viewing} : flights'[m] = flights[m] /\ steps'[m] = steps[m]
  BY <1>1 DEF RecTypes
<1>10. RecTypes'
  BY <1>1, <1>6 DEF RecTypes
<1> QED BY <1>1, <1>6, <1>7, <1>8, <1>9, <1>10, OneImage DEF Fits, j

LEMMA StepsBackKeep == ASSUME RecInv, Slips = {}, UndoStep \/ RedoStep PROVE RecInv'
<1> DEFINE t == steps[viewing]
<1>1. t \in Histories /\ t.at \in 1 .. Len(t.states) /\ Len(t.states) \in Nat
  BY LenProperties DEF RecInv, RecTypes, Histories
<1>2. CASE UndoStep
  <2>1. t.at - 1 \in 1 .. Len(t.states) /\ Walk(Undone(t))
    BY <1>1, <1>2 DEF UndoStep, CanUndo
  <2>2. Undone(t) = [t EXCEPT !.at = t.at - 1, !.version = t.version + 1]
    BY <1>1 DEF Undone, Histories
  <2>3. Undone(t) \in Histories
    BY <1>1, <2>1, <2>2, WalkedAgrees
  <2> QED BY <2>1, <2>3, WalkKeeps
<1>3. CASE RedoStep
  <2>1. t.at + 1 \in 1 .. Len(t.states) /\ Walk(Redone(t))
    BY <1>1, <1>3 DEF RedoStep, CanRedo
  <2>2. Redone(t) = [t EXCEPT !.at = t.at + 1, !.version = t.version + 1]
    BY <1>1 DEF Redone, Histories
  <2>3. Redone(t) \in Histories
    BY <1>1, <2>1, <2>2, WalkedAgrees
  <2> QED BY <2>1, <2>3, WalkKeeps
<1> QED BY <1>2, <1>3

\* Images as they are opened, or after a first run.
LEMMA RecInvInit == RecipesInit => RecInv
<1> SUFFICES ASSUME RecipesInit PROVE RecInv
  OBVIOUS
<1>1. PICK item \in {Opened, AfterARun(cutter)} :
         /\ album = [n \in Images |-> item]
         /\ steps = [n \in Images |-> NewTimeline(Snapshot(item, "Process"))]
  BY DEF RecipesInit
<1>2. /\ cutter \in Cutters /\ viewing \in Images
      /\ previews = [n \in Images |-> "no"] /\ flights = [n \in Images |-> NoFlight]
  BY DEF RecipesInit
<1>3. /\ Opened \in Album /\ Opened.knobs = PlainKnobs /\ Opened.recipe = NoRecipe /\ Opened.picture = Nothing
      /\ Opened.job = NoJob
  BY RecConstants DEF Opened, Album
<1>4. ~Whole(PlainKnobs)
  BY DEF PlainKnobs, Whole
<1>5. item \in Album /\ Agrees(item) /\ Serves(item) /\ Brings(item, cutter)
  <2>1. CASE item = Opened
    BY <1>3, <1>4, <2>1, RecConstants DEF Agrees, Serves, Brings, MadeBy
  <2>2. CASE item = AfterARun(cutter)
    <3> DEFINE r == RecipeOf(PlainKnobs, cutter)
               p == PictureOf(r)
    <3>1. item = [Opened EXCEPT !.recipe = r, !.seg = cutter, !.picture = p, !.status = "done"]
      BY <2>2 DEF AfterARun
    <3>2. r \in RecipeSet /\ r.model = cutter /\ ~Whole(r)
      BY <1>2, <1>4, RecConstants, RecipeIsOne
    <3>3. p \in Pictures /\ p # Nothing /\ MadeBy(p, r)
      BY <3>2, PictureIsOne
    <3> HIDE DEF r, p
    <3>4. /\ item \in Album /\ item.knobs = PlainKnobs /\ item.recipe = r /\ item.picture = p
          /\ item.seg = cutter /\ item.job = NoJob
      BY <1>2, <1>3, <3>1, <3>2, <3>3 DEF Album
    <3>5. Agrees(item) /\ Serves(item) /\ Brings(item, cutter)
      BY <1>4, <3>2, <3>3, <3>4 DEF Agrees, Serves, Brings
    <3> QED BY <3>4, <3>5
  <2> QED BY <2>1, <2>2
<1> DEFINE s == Snapshot(item, "Process")
<1>6. s \in Agreeing
  BY <1>5, SnapshotAgrees
<1> HIDE DEF s
<1>7. NewTimeline(s) \in Histories
  <2>1. <<s>> \in Seq(Agreeing) /\ Len(<<s>>) = 1
    BY <1>6
  <2> DEFINE one == <<s>>
             t == NewTimeline(s)
  <2>2. t = [states |-> one, at |-> 1, version |-> 0]
    BY DEF NewTimeline
  <2>3. one \in Seq(Agreeing) /\ Len(one) = 1
    BY <2>1
  <2> HIDE DEF one, t
  <2>4. t \in [states : Seq(Agreeing), at : Nat, version : Nat] /\ t.states = one /\ t.at = 1
    BY <2>2, <2>3
  <2>5. t.at \in 1 .. Len(t.states)
    BY <2>3, <2>4
  <2>6. t \in Histories
    BY <2>4, <2>5 DEF Histories
  <2> QED BY <2>6 DEF t
<1>8. RecTypes
  BY <1>1, <1>2, <1>5, <1>7 DEF RecTypes, s
<1> QED BY <1>1, <1>2, <1>5, <1>8 DEF RecInv, Fits

\* Every step keeps the invariant.
LEMMA RecInvNext == ASSUME Slips = {} PROVE RecInv /\ [RecipesNext]_recipeVars => RecInv'
<1> SUFFICES ASSUME RecInv, [RecipesNext]_recipeVars PROVE RecInv'
  OBVIOUS
<1>1. CASE UNCHANGED recipeVars
  BY <1>1 DEF recipeVars, RecInv, RecTypes
<1>2. ASSUME NEW S \in {{viewing}, Images}, Process(S) PROVE RecInv'
  <2>1. S \in SUBSET Images
    BY DEF RecInv, RecTypes
  <2> QED BY <1>2, <2>1, ProcessKeeps
<1> QED BY <1>1, <1>2, TurnedKeeps, StepsBackKeep, PickingKeeps, LandKeeps, LettingGoKeeps,
           PreviewStartsKeeps, PreviewArrivesKeeps DEF RecipesNext

\* The invariant gives what the run checks.
LEMMA RecInvEnough == RecInv => RecipesOK
<1> SUFFICES ASSUME RecInv PROVE RecipesOK
  OBVIOUS
<1>1. RunsFollowRecipes
  BY DEF RecInv, Brings, RunsFollowRecipes
<1>2. ASSUME NEW n \in Images, UpToDate(n), album[n].picture.cut # None
      PROVE  /\ album[n].picture.mask = album[n].knobs.mask
             /\ album[n].picture.cut = cutter \/ Whole(album[n].recipe)
  <2> DEFINE i == album[n]
             r == RecipeOf(i.knobs, cutter)
  <2>1. i \in Album /\ Agrees(i) /\ Serves(i) /\ cutter \in Cutters
    BY DEF RecInv, RecTypes
  <2>2. i.recipe # NoRecipe /\ i.recipe = r
    BY <1>2, <2>1, ClassifiedKeeps DEF UpToDate
  <2>3. i.knobs \in Knobs
    BY <2>1 DEF Album
  <2>4. r.model = cutter /\ (Whole(r) => r.mask = Plain) /\ (~Whole(r) => r.mask = i.knobs.mask)
    BY <2>1, <2>3, RecipeIsOne
  <2> HIDE DEF r
  <2> QED BY <1>2, <2>1, <2>2, <2>4 DEF Agrees, MadeBy
<1> QED BY <1>1, <1>2 DEF RecipesOK, UpToDateCut

----------------------------------------------------------------------------
(* The theorems                                                            *)

\* The invariant holds of every behaviour of the store.
LEMMA StoreInvAlways == StoreSpec => []StoreInv
BY StoreInvInit, StoreInvStep, PTL DEF StoreSpec

\* No file outlives its payload, and no load reads a file that is gone
\* (timeline.rs Stored: load, demote_to_disk, drop).
THEOREM FilesOwned == StoreSpec => []NoOrphan
BY StoreInvAlways, StoreInvEnough, PTL

StaysInUse ==
    tier.kind \in {"plain", "loaded"} /\ (\E r \in Readers : using[r] = tier.copy /\ using'[r] = tier.copy) /\ kept
        => tier'.copy = tier.copy

\* A payload in use is neither put away nor decoded anew (compress_when_idle's
\* strong count, load's second look at the tier).
THEOREM CopiesStay == StoreSpec => InUseStays
<1>1. ASSUME StoreInv, [StoreNext]_storeVars PROVE [StaysInUse]_storeVars
  <2> SUFFICES ASSUME tier.kind \in {"plain", "loaded"}, kept,
                      NEW s \in Readers, using[s] = tier.copy
               PROVE  tier'.copy = tier.copy
    BY DEF StaysInUse
  <2>1. tier \in [kind : Kinds, copy : Nat, blob : Nat] /\ encoder = 0
    BY <1>1 DEF StoreInv, StoreTypes, Between
  <2>2. ~Idle
    BY DEF Idle, InUse
  <2>3. CASE BeginCompress
    BY <2>1, <2>3 DEF BeginCompress
  <2>4. ASSUME NEW r \in Readers, FinishLoad(r) PROVE tier' = tier
    <3>1. ~UnchangedSince(reading[r])
      BY DEF UnchangedSince
    <3> QED BY <2>4, <3>1 DEF FinishLoad
  <2>5. CASE FinishDemote
    BY <2>5 DEF FinishDemote
  <2>6. CASE UNCHANGED tier
    BY <2>6
  <2>7. ~PutBack /\ ~DropCell /\ ~Encoded(TRUE) /\ ~Encoded(FALSE)
    BY <2>1, <2>2 DEF PutBack, DropCell, Alive, Encoded
  <2>8. StartDemote \/ Discard => UNCHANGED tier
    BY DEF StartDemote, Discard
  <2>9. \A r \in Readers : Borrow(r) \/ StartLoad(r) \/ FailLoad(r) \/ Release(r) => UNCHANGED tier
    BY DEF Borrow, StartLoad, FailLoad, Release
  <2> QED BY <1>1, <2>3, <2>4, <2>5, <2>6, <2>7, <2>8, <2>9 DEF StoreNext, Sweep, Load, storeVars
<1>2. StoreSpec => [][StaysInUse]_storeVars
  BY <1>1, StoreInvAlways, PTL DEF StoreSpec
<1> QED BY <1>2 DEF InUseStays, StaysInUse

\* Each part begins as its own specification says, and takes its own steps.
LEMMA PartsBegin == ToolsInit => EraseInit /\ CliInit /\ ProvInit /\ SessInit /\ RecipesInit
BY DEF ToolsInit

\* A step of the tools is a step of each, or leaves it alone.
LEMMA PartsStep ==
    [ToolsNext]_toolVars => /\ [EraseNext]_eraseVars /\ [CliNext]_cliVars /\ [ProvNext]_provVars
                            /\ [SessNext]_sessVars /\ [RecipesNext]_recipeVars
BY DEF ToolsNext, On, toolVars

\* The invariant of the tools.
ToolsInv == EraseInv /\ CliInv /\ ProvInv /\ SessInv

\* The invariant holds of every behaviour of the tools.
LEMMA ToolsInvAlways == ASSUME "sd" \notin Overlapping PROVE ToolsSpec => []ToolsInv
<1>1. ToolsInit => ToolsInv
  BY PartsBegin, EraseInvInit, CliInvInit, ProvInvInit, SessInvInit DEF ToolsInv
<1>2. ToolsInv /\ [ToolsNext]_toolVars => ToolsInv'
  BY PartsStep, EraseInvNext, CliInvNext, ProvInvNext, SessInvNext DEF ToolsInv
<1> QED BY <1>1, <1>2, PTL DEF ToolsSpec

\* Every stroke is answered once and its item's brush locked until then; every
\* input of the command line waits, is in flight, is answered or lost; engines
\* end on a provider that can run them and blame none that can; the cache keeps
\* no model that failed (inpaint_bridge.rs, batch.rs, engine.rs, inpaint_sd.rs).
THEOREM ToolsKept == ASSUME "sd" \notin Overlapping PROVE ToolsSpec => []ToolsOK
<1>1. ToolsInv => ToolsOK
  BY EraseInvEnough, CliInvEnough, SessInvEnough DEF ToolsInv, ToolsOK, ProvInv
<1> QED BY <1>1, ToolsInvAlways, PTL

\* The result that lands is that of the stroke its item waits for, on the state
\* it started from (drain_inpaint_results).
THEOREM OwnStrokeLands == ASSUME "sd" \notin Overlapping PROVE ToolsSpec => LandsOwnStroke
<1>1. ToolsInv /\ [ToolsNext]_toolVars => [ShowsItsOwn]_eraseVars
  BY PartsStep, ShownByPump DEF ToolsInv
<1>2. ToolsSpec => [][ShowsItsOwn]_eraseVars
  BY <1>1, ToolsInvAlways, PTL DEF ToolsSpec
<1> QED BY <1>2 DEF LandsOwnStroke, ShowsItsOwn

\* A run brings what its recipe says, whatever it was spared, and a cut-out that is
\* called up to date is the model's and has the mask of the knobs (classify_candidates,
\* apply_cache_impact, apply_completed_previews).
THEOREM RecipesFollowed == ASSUME Slips = {} PROVE ToolsSpec => []RecipesOK
<1>1. ToolsInit => RecInv
  BY PartsBegin, RecInvInit
<1>2. RecInv /\ [ToolsNext]_toolVars => RecInv'
  BY PartsStep, RecInvNext
<1>3. ToolsSpec => []RecInv
  BY <1>1, <1>2, PTL DEF ToolsSpec
<1> QED BY <1>3, RecInvEnough, PTL
=============================================================================
