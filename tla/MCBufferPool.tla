----------------------------- MODULE MCBufferPool -----------------------------
(* Two frames for three blocks: every pin may evict, and two transactions  *)
(* fill the pool between them.                                             *)
EXTENDS BufferPool, TLC

CONSTANTS t1, t2, t3, b1, b2, b3, v0, v1

MCTxs == {t1, t2, t3}
MCPair == {t1, t2}
MCBlocks == {b1, b2, b3}
MCTwo == {b1, b2}
MCOne == {v0}
MCVals == {v0, v1}
MCSymmetry == Permutations(MCPair) \cup Permutations(MCBlocks)
MCPinSymmetry == Permutations(MCPair) \cup Permutations(MCTwo)
=============================================================================
