---------------------------- MODULE LockContract ----------------------------
(***************************************************************************)
(* What the lock manager promises its callers: block-granularity shared    *)
(* and exclusive ownership.  LockMgr is shown to implement this module.    *)
(*                                                                         *)
(* The promise has a hole, and the contract shows exactly how large it is: *)
(* a block can be lost (Lose), after which nothing is promised about it.   *)
(* On every other block ownership stays exclusive.                         *)
(***************************************************************************)
CONSTANTS Txs,      \* transactions
          Blocks    \* lockable blocks, the end-of-file pseudo block included

VARIABLES held,     \* held[t][b]: the mode in which t owns b
          lost      \* blocks about which nothing is promised any more

Modes == {"none", "S", "X"}

Init ==
    /\ held = [t \in Txs |-> [b \in Blocks |-> "none"]]
    /\ lost = {}

Others(t) == Txs \ {t}

Share(t, b) ==
    /\ held[t][b] = "none"
    /\ b \in lost \/ \A u \in Others(t) : held[u][b] # "X"
    /\ held' = [held EXCEPT ![t][b] = "S"]
    /\ UNCHANGED lost

Exclude(t, b) ==
    /\ held[t][b] = "S"
    /\ b \in lost \/ \A u \in Others(t) : held[u][b] = "none"
    /\ held' = [held EXCEPT ![t][b] = "X"]
    /\ UNCHANGED lost

Drop(t, b) ==
    /\ held[t][b] # "none"
    /\ held' = [held EXCEPT ![t][b] = "none"]
    /\ UNCHANGED lost

Lose(b) ==
    /\ lost' = lost \cup {b}
    /\ UNCHANGED held

Next ==
    \/ \E t \in Txs, b \in Blocks : Share(t, b) \/ Exclude(t, b) \/ Drop(t, b)
    \/ \E b \in Blocks : Lose(b)

Spec == Init /\ [][Next]_<<held, lost>>
=============================================================================
