------------------------------ MODULE Records ------------------------------
(***************************************************************************)
(* Record files: TableScan and RecordPage (src/record) on the block locks,  *)
(* the end-of-file lock and the undo of Transaction (src/tx).               *)
(*                                                                          *)
(* Each step takes at most one lock (LockContract), so that transactions    *)
(* interleave where the code can block.  Once a block is lost in the sense  *)
(* of LockContract nothing is promised any more, and the model stops.       *)
(* Blocks and slots count from 1; slot 0 is the code's -1.                  *)
(***************************************************************************)
EXTENDS Integers, Sequences, FiniteSets

CONSTANTS
    Txs,            \* transactions that run at the same time
    Scans,          \* TableScan objects
    SlotsPerBlock,  \* how many slots are valid in a block
    Vals,           \* values of the record's field besides 0
    OldFiles,       \* what earlier transactions may have left in the file
    MaxOld,         \* bound on the blocks of an old file
    MaxOps          \* bound on the operations that change the file

ASSUME TxsAssumption == 0 \notin Txs
ASSUME ScansAssumption == IsFiniteSet(Scans)
\* With a slot larger than a block insert() would append blocks for ever.
ASSUME SlotsAssumption == SlotsPerBlock \in Nat \ {0}

VARIABLES
    file,       \* the blocks of the table's file, each a sequence of slots
    lock,       \* lock[t][b]: the mode in which t owns block b, EOF included
    scan,       \* scan[s]: its transaction, what its code is doing, its page and slot
    pins,       \* pins[t][b]: how often t has pinned b
    undo,       \* undo[t]: the log records of t's changes, oldest first
    \* history
    committed,  \* the records <<block, slot, value>> of committed transactions
    seen,       \* seen[s]: what next() returned since the scan's start
    twice,      \* blocks unpinned by a scan that had been closed before
    lost,       \* blocks whose locks are lost
    ops

vars == <<file, lock, scan, pins, undo, committed, seen, twice, lost, ops>>

EOF == 0
Slots == 1..SlotsPerBlock
Slot == [used : BOOLEAN, val : Vals \cup {0}]
Empty == [s \in Slots |-> [used |-> FALSE, val |-> 0]]
MaxBlocks == MaxOld + MaxOps + 1
Blocks == 0..MaxBlocks

ASSUME BoundsAssumption == MaxOld \in Nat /\ MaxOps \in Nat
ASSUME OldFilesAssumption == OldFiles \subseteq {f \in Seq([Slots -> Slot]) : Len(f) <= MaxOld}
Dirty == <<<<0, 0>>>>      \* seen[s] when the scan's own transaction interfered

\* Where the code of a scan can be: between two operations, or before a lock.
Steps == {"size", "append", "next", "nextEnd", "insert", "insertEnd", "flag", "unflag", "write"}
NoScan == [tx |-> 0, pc |-> "none", blk |-> 0, slot |-> 0, val |-> 0, ended |-> FALSE]

RecordsIn(f) ==
    {<<r[1], r[2], f[r[1]][r[2]].val>> : r \in {x \in (1..Len(f)) \X Slots : f[x[1]][x[2]].used}}

Init ==
    /\ file \in OldFiles
    /\ lock = [t \in Txs |-> [b \in Blocks |-> "none"]]
    /\ scan = [s \in Scans |-> NoScan]
    /\ pins = [t \in Txs |-> [b \in Blocks |-> 0]]
    /\ undo = [t \in Txs |-> <<>>]
    /\ committed = RecordsIn(file)
    /\ seen = [s \in Scans |-> <<>>] /\ twice = {} /\ lost = {} /\ ops = 0

-----------------------------------------------------------------------------
(* Locks, pins and writes of the transaction *)

Others(t) == Txs \ {t}
Mine(s) == scan[s].tx
ScansOf(t) == {s \in Scans : scan[s].tx = t}
InOp(s) == scan[s].pc \in Steps
Ready(t) == \A s \in ScansOf(t) : ~InOp(s)      \* a transaction is one thread

CanShare(t, b) == lock[t][b] # "none" \/ \A u \in Others(t) : lock[u][b] # "X"
CanExclude(t, b) == \A u \in Others(t) : lock[u][b] = "none"

Share(t, b) ==
    /\ CanShare(t, b)
    /\ lock' = [lock EXCEPT ![t][b] = IF @ = "none" THEN "S" ELSE @]

\* xLock is sLock, then the upgrade.
Exclude(t, b) ==
    /\ lock[t][b] # "none"
    /\ CanExclude(t, b)
    /\ lock' = [lock EXCEPT ![t][b] = "X"]

\* close(): the page is unpinned whenever there is one, closed or not.
Unpinned(p, b) == IF b = 0 \/ p[b] = 0 THEN p ELSE [p EXCEPT ![b] = @ - 1]
Repinned(p, old, b) == [Unpinned(p, old) EXCEPT ![b] = @ + 1]

\* MUTANT of MoveTo: the old page stays pinned.
MoveToLeaks(s, b, slot, pc) ==
    /\ scan' = [scan EXCEPT ![s].pc = pc, ![s].blk = b, ![s].slot = slot, ![s].ended = FALSE]
    /\ pins' = [pins EXCEPT ![Mine(s)][b] = @ + 1]
    /\ UNCHANGED twice

\* MUTANT of MoveTo: the search starts behind the first slot.
MoveToFirst(s, b, slot, pc) ==
    /\ scan' = [scan EXCEPT ![s].pc = pc, ![s].blk = b, ![s].slot = IF slot = 0 THEN 1 ELSE slot,
                            ![s].ended = FALSE]
    /\ pins' = [pins EXCEPT ![Mine(s)] = Repinned(@, scan[s].blk, b)]
    /\ twice' = IF scan[s].pc = "closed" THEN twice \cup {scan[s].blk} ELSE twice

\* moveToBlock, moveToRid: close() and pin the new block.
MoveTo(s, b, slot, pc) ==
    /\ scan' = [scan EXCEPT ![s].pc = pc, ![s].blk = b, ![s].slot = slot, ![s].ended = FALSE]
    /\ pins' = [pins EXCEPT ![Mine(s)] = Repinned(@, scan[s].blk, b)]
    /\ twice' = IF scan[s].pc = "closed" THEN twice \cup {scan[s].blk} ELSE twice

Goto(s, pc) == scan' = [scan EXCEPT ![s].pc = pc]
At(s, pc) == scan[s].pc = pc /\ lost = {}

Used == {x \in (1..Len(file)) \X Slots : file[x[1]][x[2]].used}
\* setInt, setString with logging: the old content goes to the log.
Write(s, new) ==
    LET b == scan[s].blk
        i == scan[s].slot
    IN /\ Exclude(Mine(s), b)
       /\ undo' = [undo EXCEPT ![Mine(s)] = Append(@, [blk |-> b, slot |-> i, old |-> file[b][i]])]
       /\ file' = [file EXCEPT ![b][i] = new]
       /\ seen' = [u \in Scans |-> IF Mine(u) = Mine(s) THEN Dirty ELSE seen[u]]
       /\ scan' = [scan EXCEPT ![s].pc = "idle", ![s].ended = FALSE]
       /\ UNCHANGED <<pins, committed, twice, lost, ops>>

-----------------------------------------------------------------------------
(* TableScan *)

\* The constructor looks at the size of the file; an empty file gets a block.
Open(s, t) ==
    /\ At(s, "none") /\ Ready(t)
    /\ scan' = [scan EXCEPT ![s] = [NoScan EXCEPT !.tx = t, !.pc = "size"]]
    /\ seen' = [seen EXCEPT ![s] = <<>>]
    /\ UNCHANGED <<file, lock, pins, undo, committed, twice, lost, ops>>

Size(s) ==
    /\ At(s, "size")
    /\ Share(Mine(s), EOF)
    /\ IF file = <<>> THEN Goto(s, "append") /\ UNCHANGED <<pins, twice>>
       ELSE MoveTo(s, 1, 0, "idle")
    /\ UNCHANGED <<file, undo, committed, seen, lost, ops>>

\* moveToNewBlock, format included. A rollback does not undo the length of the
\* file. The scan goes on with what it was doing: the constructor returns,
\* insert() tries again.
MoveToNewBlock(s) ==
    LET new == Len(file) + 1
    IN /\ At(s, "append")
       /\ lock[Mine(s)][EOF] # "none" /\ CanExclude(Mine(s), EOF)
       /\ lock' = [lock EXCEPT ![Mine(s)][EOF] = "X", ![Mine(s)][new] = "X"]
       /\ file' = Append(file, Empty)
       /\ MoveTo(s, new, 0, IF scan[s].blk = 0 THEN "idle" ELSE "insert")
       /\ UNCHANGED <<undo, committed, seen, lost, ops>>

BeforeFirst(s) ==
    /\ scan[s].pc \in {"idle", "closed"} /\ lost = {} /\ Ready(Mine(s))
    /\ MoveTo(s, 1, 0, "idle")
    /\ seen' = [seen EXCEPT ![s] = <<>>]
    /\ UNCHANGED <<file, lock, undo, committed, lost, ops>>

MoveToRid(s, b, i) ==
    /\ scan[s].pc \in {"idle", "closed"} /\ lost = {} /\ Ready(Mine(s))
    /\ <<b, i>> \in Used
    /\ MoveTo(s, b, i, "idle")
    /\ seen' = [seen EXCEPT ![s] = Dirty]
    /\ UNCHANGED <<file, lock, undo, committed, lost, ops>>

Close(s) ==
    LET b == scan[s].blk
    IN /\ scan[s].pc \in {"idle", "closed"} /\ lost = {} /\ Ready(Mine(s))
       /\ pins' = [pins EXCEPT ![Mine(s)] = Unpinned(@, b)]
       /\ twice' = IF scan[s].pc = "closed" THEN twice \cup {b} ELSE twice
       /\ Goto(s, "closed")
       /\ UNCHANGED <<file, lock, undo, committed, seen, lost, ops>>

\* An operation starts on a scan that has a page it has pinned.
Begin(s, pc) ==
    /\ At(s, "idle") /\ Ready(Mine(s)) /\ pins[Mine(s)][scan[s].blk] > 0
    /\ UNCHANGED <<file, lock, pins, undo, committed, twice, lost>>
    /\ Goto(s, pc)

\* next() after the end of the scan starts the last block again.
Next_(s) ==
    /\ Begin(s, "next")
    /\ seen' = [seen EXCEPT ![s] = IF scan[s].ended THEN Dirty ELSE @]
    /\ UNCHANGED ops

Insert(s) == ops < MaxOps /\ Begin(s, "insert") /\ ops' = ops + 1 /\ UNCHANGED seen

\* remove and setVal work on the current record.
OnRecord(s) == scan[s].slot # 0 /\ <<scan[s].blk, scan[s].slot>> \in Used
Remove(s) ==
    ops < MaxOps /\ OnRecord(s) /\ Begin(s, "unflag") /\ ops' = ops + 1 /\ UNCHANGED seen
SetVal(s, v) ==
    /\ ops < MaxOps /\ At(s, "idle") /\ Ready(Mine(s)) /\ OnRecord(s)
    /\ pins[Mine(s)][scan[s].blk] > 0
    /\ scan' = [scan EXCEPT ![s].pc = "write", ![s].val = v]
    /\ ops' = ops + 1
    /\ UNCHANGED <<file, lock, pins, undo, committed, seen, twice, lost>>

\* searchAfter: the first slot behind the current one with that flag, or 0.
SearchAfter(s, flag) ==
    LET found == {i \in Slots : i > scan[s].slot /\ file[scan[s].blk][i].used = flag}
    IN IF found = {} THEN 0 ELSE CHOOSE i \in found : \A j \in found : i <= j

NextAfter(s) ==
    LET i == SearchAfter(s, TRUE)
    IN /\ At(s, "next") /\ Share(Mine(s), scan[s].blk)
       /\ scan' = [scan EXCEPT ![s].slot = i, ![s].pc = IF i = 0 THEN "nextEnd" ELSE "idle"]
       /\ seen' = [seen EXCEPT ![s] = IF i = 0 \/ @ = Dirty THEN @ ELSE Append(@, <<scan[s].blk, i>>)]
       /\ UNCHANGED <<file, pins, undo, committed, twice, lost, ops>>

InsertAfter(s) ==
    LET i == SearchAfter(s, FALSE)
    IN /\ At(s, "insert") /\ Share(Mine(s), scan[s].blk)
       /\ scan' = [scan EXCEPT ![s].slot = i, ![s].pc = IF i = 0 THEN "insertEnd" ELSE "flag"]
       /\ UNCHANGED <<file, pins, undo, committed, seen, twice, lost, ops>>

\* What the last block means: next() ends, insert() appends; before it both go on.
PastBlock(s) ==
    /\ IF scan[s].blk # Len(file)
       THEN MoveTo(s, scan[s].blk + 1, 0, IF At(s, "nextEnd") THEN "next" ELSE "insert")
       ELSE /\ scan' = IF At(s, "nextEnd") THEN [scan EXCEPT ![s].pc = "idle", ![s].ended = TRUE]
                       ELSE [scan EXCEPT ![s].pc = "append"]
            /\ UNCHANGED <<pins, twice>>
    /\ UNCHANGED <<file, undo, committed, seen, lost, ops>>

\* MUTANT of AtEndOfBlock: insert() starts again at the first block.
AtEndOfBlockAgain(s) ==
    /\ At(s, "nextEnd") \/ At(s, "insertEnd")
    /\ Share(Mine(s), EOF)
    /\ IF At(s, "insertEnd")
       THEN MoveTo(s, 1, 0, "insert") /\ UNCHANGED <<file, undo, committed, seen, lost, ops>>
       ELSE PastBlock(s)

AtEndOfBlock(s) ==
    /\ At(s, "nextEnd") \/ At(s, "insertEnd")
    /\ Share(Mine(s), EOF)
    /\ PastBlock(s)

Content(s) == file[scan[s].blk][scan[s].slot]
\* The fields of a slot that is used again keep the removed record's values.
SetFlag(s) == At(s, "flag") /\ Write(s, [Content(s) EXCEPT !.used = TRUE])
ClearFlag(s) == At(s, "unflag") /\ Write(s, [Content(s) EXCEPT !.used = FALSE])
SetInt(s) == At(s, "write") /\ Write(s, [Content(s) EXCEPT !.val = scan[s].val])

\* The block for which a scan inside an operation wants a lock.
Wanted(s) ==
    IF scan[s].pc \in {"size", "append", "nextEnd", "insertEnd"} THEN EOF ELSE scan[s].blk
WantsX(s) == scan[s].pc \in {"append", "flag", "unflag", "write"}

ShareFirst(s) ==
    /\ lost = {} /\ WantsX(s) /\ lock[Mine(s)][Wanted(s)] = "none"
    /\ Share(Mine(s), Wanted(s))
    /\ UNCHANGED <<file, scan, pins, undo, committed, seen, twice, lost, ops>>

-----------------------------------------------------------------------------
(* The end of a transaction *)

Blocked(s) ==
    /\ InOp(s)
    /\ IF WantsX(s) /\ lock[Mine(s)][Wanted(s)] # "none"
       THEN ~CanExclude(Mine(s), Wanted(s))
       ELSE ~CanShare(Mine(s), Wanted(s))

\* The log is read backwards: back[k] is the file when k records were undone.
Undone(f, u) ==
    LET back[k \in 0..Len(u)] ==
            IF k = 0 THEN f
            ELSE LET r == u[Len(u) + 1 - k] IN [back[k - 1] EXCEPT ![r.blk][r.slot] = r.old]
    IN back[Len(u)]

\* MUTANT of Release: the transaction's scans keep their pins.
ReleaseKeepsPins(t) ==
    /\ lock' = [lock EXCEPT ![t] = [b \in Blocks |-> "none"]]
    /\ undo' = [undo EXCEPT ![t] = <<>>]
    /\ scan' = [s \in Scans |-> IF Mine(s) = t THEN NoScan ELSE scan[s]]
    /\ seen' = [s \in Scans |-> IF Mine(s) = t THEN <<>> ELSE seen[s]]
    /\ UNCHANGED pins

\* All locks and pins go, and with them the client's scans.
Release(t) ==
    /\ lock' = [lock EXCEPT ![t] = [b \in Blocks |-> "none"]]
    /\ undo' = [undo EXCEPT ![t] = <<>>]
    /\ scan' = [s \in Scans |-> IF Mine(s) = t THEN NoScan ELSE scan[s]]
    /\ seen' = [s \in Scans |-> IF Mine(s) = t THEN <<>> ELSE seen[s]]
    /\ pins' = [pins EXCEPT ![t] = [b \in Blocks |-> 0]]

\* The slots t has changed.
Changed(t) == {<<undo[t][k].blk, undo[t][k].slot>> : k \in DOMAIN undo[t]}

Commit(t) ==
    /\ lost = {} /\ Ready(t) /\ ScansOf(t) # {}
    /\ committed' = {r \in committed : <<r[1], r[2]>> \notin Changed(t)}
                    \cup {r \in RecordsIn(file) : <<r[1], r[2]>> \in Changed(t)}
    /\ Release(t)
    /\ UNCHANGED <<file, twice, lost, ops>>

\* MUTANT of Restored: the changes are undone in the order they were made.
RestoredForward(t) ==
    Undone(file, [i \in DOMAIN undo[t] |-> undo[t][Len(undo[t]) + 1 - i]])

Restored(t) == Undone(file, undo[t])

Rollback(t) ==
    /\ lost = {} /\ Ready(t) /\ ScansOf(t) # {}
    /\ file' = Restored(t)
    /\ Release(t)
    /\ UNCHANGED <<committed, twice, lost, ops>>

\* A lock request times out, and the caller rolls back. If it did not even have
\* the shared lock, it gives back a lock of somebody else.
TimeOut(s) ==
    LET t == Mine(s)
    IN /\ lost = {} /\ Blocked(s)
       /\ file' = Restored(t)
       /\ lost' = IF lock[t][Wanted(s)] = "none" THEN {Wanted(s)} ELSE {}
       /\ Release(t)
       /\ UNCHANGED <<committed, twice, ops>>

Step(s) ==
    \/ Size(s) \/ MoveToNewBlock(s) \/ NextAfter(s) \/ InsertAfter(s) \/ AtEndOfBlock(s)
    \/ SetFlag(s) \/ ClearFlag(s) \/ SetInt(s) \/ ShareFirst(s) \/ TimeOut(s)

Call(s) ==
    \/ \E t \in Txs : Open(s, t)
    \/ BeforeFirst(s) \/ Close(s) \/ Next_(s) \/ Insert(s) \/ Remove(s)
    \/ \E v \in Vals : SetVal(s, v)
    \/ \E b \in 1..Len(file), i \in Slots : MoveToRid(s, b, i)

Next == (\E s \in Scans : Step(s) \/ Call(s)) \/ \E t \in Txs : Commit(t) \/ Rollback(t)

\* A thread that runs goes on running, and wait_for returns.
Fairness == \A s \in Scans : WF_vars(Step(s))
Spec == Init /\ [][Next]_vars /\ Fairness

-----------------------------------------------------------------------------
(* Properties *)

\* The types; in particular no file grows by more than one block per insertion.
TypeOK ==
    /\ file \in Seq([Slots -> Slot]) /\ Len(file) <= MaxBlocks
    /\ lock \in [Txs -> [Blocks -> {"none", "S", "X"}]]
    /\ \A s \in Scans : /\ scan[s].tx \in Txs \cup {0}
                        /\ scan[s].pc \in Steps \cup {"none", "idle", "closed"}
                        /\ scan[s].blk \in 0..Len(file)
                        /\ scan[s].slot \in 0..SlotsPerBlock
                        /\ scan[s].val \in Vals \cup {0}
                        /\ scan[s].ended \in BOOLEAN
    /\ pins \in [Txs -> [Blocks -> 0..Cardinality(Scans)]]
    /\ committed \subseteq Blocks \X Slots \X (Vals \cup {0})
    /\ lost \subseteq Blocks /\ twice \subseteq Blocks /\ ops \in 0..MaxOps

\* No two running transactions have changed the same record. Take back what they
\* have logged, and exactly the records of the committed ones are left: no change is
\* lost, overwritten or half undone, however scans, insertions that grow the file,
\* and rollbacks interleave.
CommittedRecords ==
    lost = {} =>
        /\ \A t \in Txs : \A u \in Others(t) : Changed(t) \cap Changed(u) = {}
        /\ committed = {r \in RecordsIn(file) : \A t \in Txs : <<r[1], r[2]>> \notin Changed(t)}
                       \cup UNION {{r \in RecordsIn(Undone(file, undo[t])) : <<r[1], r[2]>> \in Changed(t)} : t \in Txs}

Before(x, y) == x[1] < y[1] \/ (x[1] = y[1] /\ x[2] < y[2])

\* A scan that next() has declared finished, in a transaction that changed nothing
\* meanwhile, has returned every record of the file once and in order; and it stays
\* so while its transaction lasts, because nobody can add a record behind it.
ScanIsComplete ==
    \A s \in Scans : lost = {} /\ scan[s].ended /\ seen[s] # Dirty =>
        /\ {seen[s][i] : i \in DOMAIN seen[s]} = Used
        /\ \A i, j \in DOMAIN seen[s] : i < j => Before(seen[s][i], seen[s][j])

\* A transaction has pinned a block once for every open scan of its that is on it,
\* unless a scan was used again after its close().
PinsBalanced ==
    \A t \in Txs, b \in Blocks \ {EOF} : b \notin twice =>
        pins[t][b] = Cardinality({s \in ScansOf(t) : scan[s].blk = b /\ scan[s].pc # "closed"})

\* Every operation ends, insert() included, which moves forward until it finds a
\* free slot or appends a block; or it times out, or a block is lost.
OperationsEnd == \A s \in Scans : InOp(s) ~> (~InOp(s) \/ lost # {})
=============================================================================
