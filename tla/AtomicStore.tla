----------------------------- MODULE AtomicStore -----------------------------
(***************************************************************************)
(* What transactions promise: a store in which a commit is one step and an *)
(* unfinished transaction is nothing.  A crash goes back to what was kept, *)
(* which may lack the commits that have not returned, all of them or none. *)
(* Recovery is shown to implement this module.                             *)
(***************************************************************************)
EXTENDS FiniteSets

CONSTANTS Blocks, Values, Txs

VARIABLES now,       \* what the commits so far have made of each block
          kept,      \* what a crash leaves of it
          work,      \* work[n]: the blocks n has written, and what with
          committed, \* transactions whose commit has not returned
          late,      \* those of them that a crash would undo
          over       \* transactions that have returned, or rolled back

vars == <<now, kept, work, committed, late, over>>

Nothing == [b \in {} |-> {}]

Init ==
    /\ now \in [Blocks -> Values] /\ kept = now
    /\ work = [n \in Txs |-> Nothing]
    /\ committed = {} /\ late = {} /\ over = {}

Open(n) == n \notin committed \cup over

\* Before a step of transactions new, all that has been committed may be kept.
KeepOrNot(new) ==
    \/ kept' = kept /\ late' = late \cup new
    \/ kept' = now /\ late' = new

Keep == UNCHANGED <<committed, over, work>> /\ KeepOrNot({}) /\ UNCHANGED now

\* No two transactions write a block at the same time.
Write(n, b, v) ==
    /\ Open(n)
    /\ b \in DOMAIN now /\ \A m \in Txs \ {n} : b \notin DOMAIN work[m]
    /\ UNCHANGED <<committed, over>>
    /\ work' = [work EXCEPT ![n] = [c \in DOMAIN @ \cup {b} |-> IF c = b THEN v ELSE @[c]]]
    /\ KeepOrNot({})
    /\ UNCHANGED now

Commit(n) ==
    /\ Open(n)
    /\ committed' = committed \cup {n}
    /\ UNCHANGED over
    /\ work' = [work EXCEPT ![n] = Nothing]
    /\ KeepOrNot({n})
    /\ now' = [b \in DOMAIN now |-> IF b \in DOMAIN work[n] THEN work[n][b] ELSE now[b]]

\* A commit returns only when it is kept.
Return(n) ==
    /\ n \in committed
    /\ committed' = committed \ {n} /\ over' = over \cup {n}
    /\ n \notin late'
    /\ KeepOrNot({})
    /\ UNCHANGED <<now, work>>

Rollback(n) ==
    /\ Open(n)
    /\ over' = over \cup {n}
    /\ UNCHANGED committed
    /\ work' = [work EXCEPT ![n] = Nothing]
    /\ KeepOrNot({})
    /\ UNCHANGED now

\* A transaction that is dropped without an end takes the blocks it has written
\* with it: nothing is promised of them from then on.
Drop(n) ==
    LET left == DOMAIN now \ DOMAIN work[n]
    IN /\ Open(n)
       /\ over' = over \cup {n}
       /\ UNCHANGED <<committed, late>>
       /\ work' = [work EXCEPT ![n] = Nothing]
       /\ now' = [b \in left |-> now[b]] /\ kept' = [b \in left |-> kept[b]]

Crash ==
    /\ committed' = {} /\ late' = {} /\ over' = {}
    /\ work' = [n \in Txs |-> Nothing]
    /\ UNCHANGED kept
    /\ now' = kept

Next ==
    \/ Keep \/ Crash
    \/ \E n \in Txs :
         \/ Commit(n) \/ Return(n) \/ Rollback(n) \/ Drop(n)
         \/ \E b \in Blocks, v \in Values : Write(n, b, v)

Spec == Init /\ [][Next]_vars
=============================================================================
