----------------------------- MODULE MCSegBatch -----------------------------
(* Instances of SegBatch for TLC. *)
EXTENDS SegBatchInv

CONSTANTS a, b, c, d

OneJob     == {1}
OneTwo     == {1, 2}
OneToThree == {1, 2, 3}
None       == <<>>
SeqA       == <<a>>
SeqAB      == <<a, b>>
SeqC       == <<c>>
SeqD       == <<d>>
OneBatch   == {1}
=============================================================================
