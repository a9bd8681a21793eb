----------------------------- MODULE MCRecords -----------------------------
(* Instances of Records for TLC: two scans, of two transactions or, as in a   *)
(* product of a table with itself, of one.                                    *)
EXTENDS Records, TLC
MCTxs == {1, 2}
MCScans == {"a", "b"}
MCVals == {7}
MCOldFiles == {<<>>, <<(1 :> [used |-> TRUE, val |-> 0] @@ 2 :> [used |-> FALSE, val |-> 0])>>}
=============================================================================
