------------------------------ MODULE Storage ------------------------------
(***************************************************************************)
(* One stored payload of the timelines (timeline.rs Stored): plain, being  *)
(* compressed by a thread, compressed, on disk, or read back for use.  The *)
(* GUI thread sweeps and demotes; it and the jobs load, each in two steps  *)
(* with the lock released in between.                                      *)
(*                                                                         *)
(* Decoded copies and files are numbered as they are made.                 *)
(***************************************************************************)
EXTENDS Integers, FiniteSets

CONSTANTS
    Readers,     \* the canvas and the jobs that use the payload
    MaxCopies,   \* bound on the copies decoded
    MaxBlobs     \* bound on the files written

ASSUME StorageAssumption == {MaxCopies, MaxBlobs} \subseteq Nat \ {0}

VARIABLES
    tier,        \* [kind, copy, blob]: kind "plain", "compressing", "compressed", "disk", "loaded"
    encoder,     \* the copy the encoder thread works on, 0 for none
    reading,     \* what each reader's load is decoding: "no", "bytes", or a file's number
    using,       \* the copy each reader holds, 0 for none
    demoting,    \* the GUI thread in demote_to_disk: "no", "write", or the file written
    blobs,       \* the files there are
    copies, written,   \* how many were made
    kept         \* the timeline, or a run that started from it, has it

storeVars == <<tier, encoder, reading, using, demoting, blobs, copies, written, kept>>

No == -1       \* no load, no demotion
InMemory == 0  \* the compressed bytes in memory

Tier(kind, copy, blob) == [kind |-> kind, copy |-> copy, blob |-> blob]
DecodedKinds == {"plain", "compressing", "loaded"}   \* the kinds that hold a copy

StoreInit ==
    /\ tier = Tier("plain", 1, InMemory) /\ copies = 1
    /\ encoder = 0 /\ reading = [r \in Readers |-> No]
    /\ using \in [Readers -> {0, 1}]
    /\ demoting = No /\ blobs = {} /\ written = 0 /\ kept = TRUE

\* Someone besides the cell has copy c: its strong count is above one.
InUse(c) == encoder = c \/ \E r \in Readers : using[r] = c

Alive == kept \/ encoder # 0 \/ \E r \in Readers : reading[r] # No

----------------------------------------------------------------------------
(* load                                                                    *)

\* A payload that is decoded is handed out under the lock.
Borrow(r) ==
    /\ kept /\ reading[r] = No /\ using[r] = 0 /\ tier.kind \in DecodedKinds
    /\ using' = [using EXCEPT ![r] = tier.copy]
    /\ UNCHANGED <<tier, encoder, reading, demoting, blobs, copies, written, kept>>

StoredForm == IF tier.kind = "compressed" THEN InMemory ELSE tier.blob
StartLoad(r) ==
    /\ kept /\ reading[r] = No /\ using[r] = 0 /\ tier.kind \notin DecodedKinds
    /\ reading' = [reading EXCEPT ![r] = StoredForm]
    /\ UNCHANGED <<tier, encoder, using, demoting, blobs, copies, written, kept>>

\* The tier was changed while the lock was released: the copy is not kept.
WrongUnchangedSince(form) == tier.kind \notin DecodedKinds
UnchangedSince(form) ==
    \/ tier.kind = "compressed" /\ form = InMemory
    \/ tier.kind = "disk" /\ form = tier.blob
FinishLoad(r) ==
    /\ reading[r] # No /\ reading' = [reading EXCEPT ![r] = No]
    /\ copies < MaxCopies /\ copies' = copies + 1
    /\ using' = [using EXCEPT ![r] = copies']
    /\ tier' = IF UnchangedSince(reading[r]) THEN Tier("loaded", copies', reading[r]) ELSE tier
    /\ UNCHANGED <<encoder, demoting, blobs, written, kept>>

\* The read or the decoding failed: there is nothing to use.
FailLoad(r) ==
    /\ reading[r] # No /\ reading' = [reading EXCEPT ![r] = No]
    /\ UNCHANGED <<tier, encoder, using, demoting, blobs, copies, written, kept>>

\* The canvas turns to another image, or the job ends.
Release(r) ==
    /\ using[r] # 0 /\ using' = [using EXCEPT ![r] = 0]
    /\ UNCHANGED <<tier, encoder, reading, demoting, blobs, copies, written, kept>>

----------------------------------------------------------------------------
(* compress_when_idle, demote_to_disk                                      *)

Sweeps == kept /\ demoting = No   \* the GUI thread is at neither

WrongIdle == encoder # tier.copy   \* only the encoder is looked at
Idle == ~InUse(tier.copy)

\* A copy read back that nobody uses any more is dropped for its stored form.
PutBack ==
    /\ Sweeps /\ tier.kind = "loaded" /\ Idle
    /\ tier' = Tier(IF tier.blob = InMemory THEN "compressed" ELSE "disk", 0, tier.blob)
    /\ UNCHANGED <<encoder, reading, using, demoting, blobs, copies, written, kept>>

BeginCompress ==
    /\ Sweeps /\ tier.kind = "plain" /\ Idle
    /\ tier' = [tier EXCEPT !.kind = "compressing"] /\ encoder' = tier.copy
    /\ UNCHANGED <<reading, using, demoting, blobs, copies, written, kept>>

\* finish_compress; a payload that could not be encoded is as it was.
Encoded(ok) ==
    /\ encoder # 0 /\ encoder' = 0
    /\ tier' = IF ok THEN Tier("compressed", 0, InMemory) ELSE Tier("plain", tier.copy, InMemory)
    /\ UNCHANGED <<reading, using, demoting, blobs, copies, written, kept>>

StartDemote ==
    /\ Sweeps /\ tier.kind = "compressed"
    /\ written < MaxBlobs /\ written' = written + 1
    /\ demoting' = written' /\ blobs' = blobs \cup {written'}
    /\ UNCHANGED <<tier, encoder, reading, using, copies, kept>>

\* The payload was read back while the file was written: the file goes.
FinishDemote ==
    /\ demoting # No /\ demoting' = No
    /\ IF tier.kind = "compressed"
       THEN tier' = Tier("disk", 0, demoting) /\ UNCHANGED blobs
       ELSE blobs' = blobs \ {demoting} /\ UNCHANGED tier
    /\ UNCHANGED <<encoder, reading, using, copies, written, kept>>

\* The last step or run that has the payload goes.
Discard ==
    /\ Sweeps /\ kept' = FALSE
    /\ UNCHANGED <<tier, encoder, reading, using, demoting, blobs, copies, written>>

\* Stored::drop, with the last reference to the cell.
DropCell ==
    /\ ~Alive /\ tier.kind # "gone"
    /\ tier' = Tier("gone", 0, InMemory)
    /\ blobs' = IF tier.kind \in {"disk", "loaded"} THEN blobs \ {tier.blob} ELSE blobs
    /\ UNCHANGED <<encoder, reading, using, demoting, copies, written, kept>>

Load(r) == Borrow(r) \/ StartLoad(r) \/ FinishLoad(r) \/ FailLoad(r)
Sweep == PutBack \/ BeginCompress \/ FinishDemote

StoreNext ==
    \/ Sweep \/ StartDemote \/ Encoded(TRUE) \/ Encoded(FALSE) \/ Discard \/ DropCell
    \/ \E r \in Readers : Load(r) \/ Release(r)

StoreSpec == StoreInit /\ [][StoreNext]_storeVars

\* Frames are drawn, and an encoder that is started again and again succeeds.
StoreFairness == WF_storeVars(Sweep) /\ WF_storeVars(\E ok \in BOOLEAN : Encoded(ok)) /\ SF_storeVars(Encoded(TRUE))

----------------------------------------------------------------------------
(* Properties                                                              *)

\* Every file belongs to the payload or is being written, so that none is left
\* once it is dropped; and what the payload or a load refers to is there.
NoOrphan ==
    /\ blobs \subseteq {demoting} \cup (IF tier.kind \in {"disk", "loaded"} THEN {tier.blob} ELSE {})
    /\ tier.kind = "disk" \/ (tier.kind = "loaded" /\ tier.blob # InMemory) => tier.blob \in blobs
    /\ \A r \in Readers : reading[r] \notin {No, InMemory} => reading[r] \in blobs

\* A payload the canvas or a job uses stays as it is (timeline.rs:10), so that an
\* unchanged one is recognised: only one that is being compressed already goes.
InUseStays ==
    [][tier.kind \in {"plain", "loaded"} /\ (\E r \in Readers : using[r] = tier.copy /\ using'[r] = tier.copy) /\ kept
         => tier'.copy = tier.copy]_storeVars

\* A payload nobody uses is stored in the end, unless it is used again.
IdleIsStored == (kept /\ tier.kind \in DecodedKinds /\ ~\E r \in Readers : using[r] # 0)
                    ~> (~kept \/ tier.kind \notin DecodedKinds \/ \E r \in Readers : using[r] # 0)
=============================================================================
