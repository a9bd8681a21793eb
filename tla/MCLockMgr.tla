------------------------------ MODULE MCLockMgr ------------------------------
(* Three transactions over two blocks: enough for a reader pair and a      *)
(* writer on one block while a second block closes a wait cycle.           *)
EXTENDS LockMgr, TLC

CONSTANTS t1, t2, t3, b1, b2

MCTxs == {t1, t2, t3}
MCBlocks == {b1, b2}
MCSymmetry == Permutations(MCTxs) \cup Permutations(MCBlocks)

(* The liveness run: two transactions, no symmetry.                        *)
MCPair == {t1, t2}
=============================================================================
