------------------------------ MODULE MCBTree ------------------------------
(* Instances of BTree for TLC: small pages and keys around zero, which is     *)
(* what an unused slot holds.                                                 *)
EXTENDS BTree
MCKeys == {-2, -1, 0, 1, 2}
MCMinKey == -9
MCRids == 1..6
=============================================================================
