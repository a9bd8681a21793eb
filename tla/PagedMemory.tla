---------------------------- MODULE PagedMemory ----------------------------
(***************************************************************************)
(* What the buffer pool promises the transactions: every block has one     *)
(* content, the last value written to it, and a transaction sees exactly   *)
(* that content through each of its pins, however few frames there are.    *)
(* BufferPool is shown to implement this module.                           *)
(***************************************************************************)
CONSTANTS Txs,      \* transactions
          Blocks,   \* blocks of the database files
          Vals,     \* contents of a block
          Empty     \* content of a block that was never written

VARIABLES mem,      \* mem[b]: the content of b
          view      \* view[t][b]: what t reads through its pin of b

NotPinned == [pinned |-> FALSE]
Sees(v) == [pinned |-> TRUE, val |-> v]

Init ==
    /\ mem = [b \in Blocks |-> Empty]
    /\ view = [t \in Txs |-> [b \in Blocks |-> NotPinned]]

Pin(t, b) ==
    /\ view' = [view EXCEPT ![t][b] = Sees(mem[b])]
    /\ UNCHANGED mem

Unpin(t, b) ==
    /\ view' = [view EXCEPT ![t][b] = NotPinned]
    /\ UNCHANGED mem

Write(t, b, v) ==
    /\ view[t][b] # NotPinned
    /\ mem' = [mem EXCEPT ![b] = v]
    /\ view' = [u \in Txs |-> [view[u] EXCEPT
                  ![b] = IF @ = NotPinned THEN NotPinned ELSE Sees(v)]]

Next ==
    \E t \in Txs, b \in Blocks :
        \/ Pin(t, b)
        \/ Unpin(t, b)
        \/ \E v \in Vals : Write(t, b, v)

Spec == Init /\ [][Next]_<<mem, view>>
=============================================================================
