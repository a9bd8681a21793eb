----------------------------- MODULE MCRecovery -----------------------------
(* Model values for Recovery.                                              *)
EXTENDS Recovery, TLC

CONSTANTS b1, b2, b3

TwoBlocks == {b1, b2}
OneString == {b3}
AndAString == {b1, b3}
NoStrings == {}
OneBit == {0, 1}
NoneOrFour == {0, 4}
Symmetry == Permutations(Blocks \ StringBlocks)
=============================================================================
