----------------------------- MODULE MCBatchApp -----------------------------
(***************************************************************************)
(* Instances of BatchApp for TLC.                                          *)
(***************************************************************************)
EXTENDS BatchApp

CONSTANTS huge, wide, tiny

ThreeImages == {huge, wide, tiny}
TwoImages   == {huge, wide}
\* huge alone exceeds the budget of 4; wide and tiny fit together.
Costs == [i \in Images |-> IF i = huge THEN 5 ELSE IF i = wide THEN 2 ELSE 1]
\* One image at a time.
BigCosts == [i \in Images |-> 3]

\* Two images, two runs and one step of the user; or three images, with one run
\* and one step, or two runs and no step.
SmallInit == Begin(TwoImages, 0, 0) \/ Begin(ThreeImages, 1, 0) \/ Begin(ThreeImages, 0, 1)
=============================================================================
