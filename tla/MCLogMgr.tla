------------------------------ MODULE MCLogMgr ------------------------------
(* Blocks of four units take one large and one small record, or three      *)
(* small ones: four records fill and overflow blocks in every combination. *)
EXTENDS LogMgr

CONSTANTS t1, t2
MCThreads == {t1, t2}
MCSizes == {1, 2}
=============================================================================
