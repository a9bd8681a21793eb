------------------------------ MODULE Recovery ------------------------------
(***************************************************************************)
(* Transactions over the log and the buffer pool, with crashes: the        *)
(* Transaction and RecoveryMgr classes and the log records (src/tx), on    *)
(* top of what LogMgr, BufferPool and LockMgr promise.                     *)
(*                                                                         *)
(* The log is a sequence with a stable prefix (StableLog).  The pool is    *)
(* one content per block (PagedMemory) plus the three fields of Buffer     *)
(* that decide what reaches the disk: page, _txnum and _lsn.  A block is   *)
(* written only under its exclusive lock (LockContract, no block lost).    *)
(*                                                                         *)
(* A process is a session.  It opens the database in transaction 1, which  *)
(* recovers and then commits (SampleDB::SampleDB), and numbers the others  *)
(* from 2; the next session numbers from 1 again.                          *)
(*                                                                         *)
(* The content of a block is a number: an int, or in a block of            *)
(* StringBlocks the length of a string.                                    *)
(***************************************************************************)
EXTENDS Integers, Sequences, FiniteSets

CONSTANTS Blocks,
          StringBlocks,   \* blocks written with setString, the others with setInt
          Vals,           \* contents
          LastTx,         \* bound: transactions 2 .. LastTx in each session
          MaxWrites,      \* bound: writes, all transactions together
          MaxCrashes      \* bound: crashes

ASSUME StringsAssumption == StringBlocks \subseteq Blocks
ASSUME ValsAssumption == Vals \subseteq Nat /\ 0 \in Vals
ASSUME BoundsAssumption ==
    LastTx \in Nat \ {0, 1} /\ MaxWrites \in Nat /\ MaxCrashes \in Nat

Boot == 1                 \* the transaction SampleDB opens the database with
Users == 2 .. LastTx
Txs == {Boot} \cup Users
NoTx == 0

VARIABLES
    log,      \* the records of the log
    stable,   \* how many of them are on disk; also _lastSaveLsn
    disk,     \* disk[b]: the content of b on disk
    buf,      \* buf[b]: Buffer::_page, _txnum and _lsn of b
    tx,       \* tx[n]: what transaction n is doing
    xlock,    \* xlock[b]: the transaction with the exclusive lock of b
    finished, \* doRecover's finishedTransactions
    commits,  \* history: the commits, where their record is, what they wrote
    acked,    \* history: the records of the commits that have returned
    tainted,  \* history: blocks an abandoned transaction had written
    crashes

vars == <<log, stable, disk, buf, tx, xlock, finished, commits, acked, tainted,
          crashes>>
history == <<commits, acked, tainted, crashes>>

Rec(op, n) == [op |-> op, tx |-> n]
SetRec(n, b, old) == [op |-> "SET", tx |-> n, blk |-> b, old |-> old]

Clean(v) == [page |-> v, txnum |-> NoTx, lsn |-> 0]
NotBegun == [st |-> "none"]

(* A new database whose catalogs have just been created and committed.     *)
Init ==
    /\ log = <<Rec("START", Boot), Rec("COMMIT", Boot)>>
    /\ stable = 2
    /\ disk = [b \in Blocks |-> 0]
    /\ buf = [b \in Blocks |-> Clean(0)]
    /\ tx = [n \in Txs |-> IF n = Boot THEN [st |-> "over"] ELSE NotBegun]
    /\ xlock = [b \in Blocks |-> NoTx]
    /\ finished = {}
    /\ commits = {}
    /\ acked = {}
    /\ tainted = {}
    /\ crashes = 0

Goto(n, s) == tx' = [tx EXCEPT ![n] = s]
At(n, st) == tx[n].st = st
IsUp == At(Boot, "over")

(* The LSN that LogMgr::append returns.                                    *)
NextLsnTwice == Len(log) + 2
NextLsn == Len(log) + 1

(* LogMgr::append may have to start a block and then writes the old one.   *)
AppendRec(r) ==
    /\ log' = Append(log, r)
    /\ stable' \in {stable, Len(log)}

(* LogMgr::flush(lsn).                                                     *)
FlushLogSwapped(lsn) == stable' = IF lsn < stable THEN Len(log) ELSE stable
FlushLog(lsn) == stable' = IF lsn >= stable THEN Len(log) ELSE stable

(* Buffer::flush: the log up to the buffer's record, then the page.  A     *)
(* frame keeps _lsn when it is given another block, so that an unlogged    *)
(* change may carry a later one than its block ever had.                   *)
FlushBufferUnlogged(b) ==
    /\ UNCHANGED stable
    /\ disk' = [disk EXCEPT ![b] = buf[b].page]
    /\ buf' = [buf EXCEPT ![b].txnum = NoTx]
FlushBufferAgain(b) ==
    /\ stable' = Len(log)
    /\ disk' = [disk EXCEPT ![b] = buf[b].page]
    /\ UNCHANGED buf
FlushBuffer(b) ==
    /\ FlushLog(buf[b].lsn) \/ stable' = Len(log)
    /\ disk' = [disk EXCEPT ![b] = buf[b].page]
    /\ buf' = [buf EXCEPT ![b].txnum = NoTx]

(* What SetIntRecord and SetStringRecord read back from their own record.  *)
(* SetStringRecord writes the string 4 + len bytes behind the offset and   *)
(* looks for it 4 bytes behind it: it finds the zero padding, the empty    *)
(* string, or for 1 to 3 characters a length prefix that is off by that    *)
(* many bytes, longer than the record, upon which Page::getBytes exits.    *)
Shift == <<256, 65536, 16777216>>
FoundLength(len) == IF len \in 1 .. 3 THEN len * Shift[len] ELSE 0
ReadBack(b, old) == IF b \in StringBlocks THEN FoundLength(old) ELSE old
Unreadable(r) ==
    /\ r.op = "SET"
    /\ r.blk \in StringBlocks
    /\ FoundLength(r.old) > 2 * r.old

Dirty(n) == {b \in Blocks : buf[b].txnum = n}
Wrote(n) == {b \in Blocks : xlock[b] = n}
-----------------------------------------------------------------------------
(* Transaction::Transaction, setInt, setString.                            *)

Begin(n) ==
    /\ IsUp
    /\ n \in Users
    /\ At(n, "none")
    /\ n > 2 => ~At(n - 1, "none")
    /\ AppendRec(Rec("START", n))
    /\ Goto(n, [st |-> "active"])
    /\ UNCHANGED <<disk, buf, xlock, finished, history>>

(* xLock, then RecoveryMgr::setInt logs the old content ...                *)
LogWrite(n, b, v) ==
    /\ At(n, "active")
    /\ Cardinality({i \in DOMAIN log : log[i].op = "SET"}) < MaxWrites
    /\ xlock[b] \in {NoTx, n}
    /\ xlock' = [xlock EXCEPT ![b] = n]
    /\ AppendRec(SetRec(n, b, buf[b].page))
    /\ Goto(n, [st |-> "writing", blk |-> b, val |-> v, lsn |-> NextLsn])
    /\ UNCHANGED <<disk, buf, finished, history>>

(* ... and the page is changed and marked modified.                        *)
ApplyWrite(n) ==
    /\ At(n, "writing")
    /\ buf' = [buf EXCEPT ![tx[n].blk] =
                [page |-> tx[n].val, txnum |-> n, lsn |-> tx[n].lsn]]
    /\ Goto(n, [st |-> "active"])
    /\ UNCHANGED <<log, stable, disk, xlock, finished, history>>

(* BufferMgr replaces a frame nobody has pinned; the page of a write in    *)
(* progress is pinned.                                                     *)
Steal(b) ==
    /\ buf[b].txnum # NoTx
    /\ ~At(Boot, "exited")
    /\ \A n \in Txs : At(n, "writing") => tx[n].blk # b
    /\ FlushBuffer(b)
    /\ UNCHANGED <<log, tx, xlock, finished, history>>
-----------------------------------------------------------------------------
(* Transaction::commit and rollback.  Both end alike: flushAll, one buffer *)
(* after the other, a closing record, a flush of the log, and the release  *)
(* of the locks.                                                           *)

Commit(n) ==
    /\ n \in Users
    /\ At(n, "active")
    /\ Goto(n, [st |-> "flushing", with |-> "COMMIT"])
    /\ UNCHANGED <<log, stable, disk, buf, xlock, finished, history>>

FlushOne(n, b) ==
    /\ At(n, "flushing")
    /\ b \in Dirty(n)
    /\ FlushBuffer(b)
    /\ UNCHANGED <<log, tx, xlock, finished, history>>

Close(n) ==
    /\ At(n, "flushing")
    /\ Dirty(n) = {}
    /\ AppendRec(Rec(tx[n].with, n))
    /\ Goto(n, [st |-> "closing", with |-> tx[n].with, lsn |-> NextLsn])
    /\ commits' = IF tx[n].with = "COMMIT" /\ n \in Users
                    THEN commits \cup {[at |-> NextLsn,
                                        wrote |-> [b \in Wrote(n) |-> buf[b].page]]}
                    ELSE commits
    /\ UNCHANGED <<disk, buf, xlock, finished, acked, tainted, crashes>>

Release(n) == xlock' = [b \in Blocks |-> IF xlock[b] = n THEN NoTx ELSE xlock[b]]

End(n) ==
    /\ At(n, "closing")
    /\ FlushLog(tx[n].lsn)
    /\ Release(n)
    /\ Goto(n, IF tx[n].with = "CHECKPOINT"
                 THEN [st |-> "flushing", with |-> "COMMIT"]
                 ELSE [st |-> "over"])
    /\ acked' = IF tx[n].with = "COMMIT" /\ n \in Users
                  THEN acked \cup {tx[n].lsn} ELSE acked
    /\ UNCHANGED <<log, disk, buf, finished, commits, tainted, crashes>>

(* RecoveryMgr::doRollback: the iterator flushes the log and goes back to  *)
(* the transaction's START; records of other transactions are skipped.     *)
Rollback(n) ==
    /\ n \in Users
    /\ At(n, "active")
    /\ stable' = Len(log)
    /\ Goto(n, [st |-> "undoing", pos |-> Len(log)])
    /\ UNCHANGED <<log, disk, buf, xlock, finished, history>>

(* SetIntRecord::undo: a write that is not logged.                         *)
Undo(n, r) ==
    buf' = [buf EXCEPT ![r.blk].page = ReadBack(r.blk, r.old),
                       ![r.blk].txnum = n]

NextOwnOrStart(n) == CHOOSE i \in 1 .. tx[n].pos :
                LET end(k) == log[k].tx = n \/ log[k].op = "START" IN
                end(i) /\ \A j \in i + 1 .. tx[n].pos : ~end(j)
NextOwn(n) == CHOOSE i \in 1 .. tx[n].pos :
                /\ log[i].tx = n
                /\ \A j \in i + 1 .. tx[n].pos : log[j].tx # n

UndoOne(n) ==
    /\ At(n, "undoing")
    /\ LET i == NextOwn(n) IN
         /\ \A j \in i .. tx[n].pos : ~Unreadable(log[j])
         /\ \/ /\ log[i].op = "START"
               /\ Goto(n, [st |-> "flushing", with |-> "ROLLBACK"])
               /\ UNCHANGED buf
            \/ /\ log[i].op = "SET"
               /\ Undo(n, log[i])
               /\ Goto(n, [st |-> "undoing", pos |-> i - 1])
    /\ UNCHANGED <<log, stable, disk, xlock, finished, history>>

(* Transaction::~Transaction when neither commit nor rollback came to its  *)
(* end: after an exception, or when rollback itself threw because undo     *)
(* found no frame to pin.  Locks and pins go, the changes stay.            *)
Abandon(n) ==
    /\ n \in Users
    /\ tx[n].st \in {"active", "undoing"}
    /\ Release(n)
    /\ tainted' = tainted \cup Wrote(n)
    /\ Goto(n, [st |-> "over"])
    /\ UNCHANGED <<log, stable, disk, buf, finished, commits, acked, crashes>>
-----------------------------------------------------------------------------
(* The process dies; the next one starts transaction 1 and recovers.       *)
(* Transaction's constructor appends START, recover() finds no buffer of   *)
(* its own to flush, and the iterator flushes the log.                     *)
RestartRemembers ==
    /\ log' = Append(SubSeq(log, 1, stable), Rec("START", Boot))
    /\ stable' = Len(log')
    /\ buf' = [b \in Blocks |-> Clean(disk[b])]
    /\ tx' = [n \in Txs |-> IF n = Boot THEN [st |-> "recovering", pos |-> Len(log')]
                            ELSE NotBegun]
    /\ xlock' = [b \in Blocks |-> NoTx]
    /\ UNCHANGED finished
    /\ commits' = {c \in commits : c.at <= stable}
    /\ UNCHANGED <<disk, acked, tainted>>

Restart ==
    /\ log' = Append(SubSeq(log, 1, stable), Rec("START", Boot))
    /\ stable' = Len(log')
    /\ buf' = [b \in Blocks |-> Clean(disk[b])]
    /\ tx' = [n \in Txs |-> IF n = Boot THEN [st |-> "recovering", pos |-> Len(log')]
                            ELSE NotBegun]
    /\ xlock' = [b \in Blocks |-> NoTx]
    /\ finished' = {}
    /\ commits' = {c \in commits : c.at <= stable}
    /\ UNCHANGED <<disk, acked, tainted>>

Crash ==
    /\ crashes < MaxCrashes
    /\ crashes' = crashes + 1
    /\ Restart

(* RecoveryMgr::doRecover, one record of the log after the other.          *)
RecoverOne ==
    /\ At(Boot, "recovering")
    /\ LET i == tx[Boot].pos
           op == IF i = 0 THEN "NONE" ELSE log[i].op
           back == [st |-> "recovering", pos |-> i - 1] IN
         \/ /\ op \in {"NONE", "CHECKPOINT"}
            /\ Goto(Boot, [st |-> "flushing", with |-> "CHECKPOINT"])
            /\ UNCHANGED <<buf, finished>>
         \/ /\ op \in {"COMMIT", "ROLLBACK"}
            /\ finished' = finished \cup {log[i].tx}
            /\ Goto(Boot, back)
            /\ UNCHANGED buf
         \/ /\ op \in {"START", "SET"}
            /\ op = "START" \/ log[i].tx \in finished
            /\ ~Unreadable(log[i])
            /\ Goto(Boot, back)
            /\ UNCHANGED <<buf, finished>>
         \/ /\ op = "SET"
            /\ log[i].tx \notin finished
            /\ ~Unreadable(log[i])
            /\ Undo(Boot, log[i])
            /\ Goto(Boot, back)
            /\ UNCHANGED finished
    /\ UNCHANGED <<log, stable, disk, xlock, history>>

(* createLogRecord reads every record the iterator passes, and the process *)
(* exits at one it cannot read, whoever wrote it.                          *)
RecordsRead(n) ==
    CASE At(n, "recovering") -> {tx[n].pos} \ {0}
      [] At(n, "undoing")    -> NextOwn(n) .. tx[n].pos
      [] OTHER               -> {}

Exit(n) ==
    /\ \E i \in RecordsRead(n) : Unreadable(log[i])
    /\ tx' = [m \in Txs |-> [st |-> "exited"]]
    /\ UNCHANGED <<log, stable, disk, buf, xlock, finished, history>>
-----------------------------------------------------------------------------
SystemStep ==
    \/ RecoverOne
    \/ \E n \in Txs : \/ Exit(n) \/ Close(n) \/ End(n)
                      \/ \E b \in Blocks : FlushOne(n, b)

Next ==
    \/ SystemStep
    \/ Crash
    \/ \E b \in Blocks : Steal(b)
    \/ \E n \in Users :
         \/ Begin(n) \/ ApplyWrite(n) \/ UndoOne(n)
         \/ Commit(n) \/ Rollback(n) \/ Abandon(n)
         \/ \E b \in Blocks, v \in Vals : LogWrite(n, b, v)

Spec == Init /\ [][Next]_vars

(* The constructor of SampleDB runs through: recovery is not suspended.    *)
Fairness == WF_vars(SystemStep)
FairSpec == Spec /\ Fairness
-----------------------------------------------------------------------------
TxStates ==
    [st : {"none", "active", "over", "exited"}]
    \cup [st : {"writing"}, blk : Blocks, val : Vals,
          lsn : 1 .. Len(log)]
    \cup [st : {"flushing"}, with : {"COMMIT", "ROLLBACK", "CHECKPOINT"}]
    \cup [st : {"closing"}, with : {"COMMIT", "ROLLBACK", "CHECKPOINT"},
          lsn : 1 .. Len(log)]
    \cup [st : {"undoing", "recovering"}, pos : 0 .. Len(log)]

Records ==
    [op : {"START", "COMMIT", "ROLLBACK", "CHECKPOINT"}, tx : Txs]
    \cup [op : {"SET"}, tx : Users, blk : Blocks, old : Nat]

(* The types of the variables; a transaction has the fields of its state,  *)
(* and an LSN or a position of the iterator points into the log.           *)
TypeOK ==
    /\ log \in Seq(Records)
    /\ stable \in 1 .. Len(log)
    /\ disk \in [Blocks -> Nat]
    /\ buf \in [Blocks -> [page : Nat, txnum : Txs \cup {NoTx}, lsn : 0 .. Len(log)]]
    /\ tx \in [Txs -> TxStates]
    /\ xlock \in [Blocks -> Txs \cup {NoTx}]
    /\ finished \subseteq Txs
    /\ tainted \subseteq Blocks

(* What the commits up to record k have written last.                      *)
Writers(b, k) == {c \in commits : c.at <= k /\ b \in DOMAIN c.wrote}
Truth(b, k) ==
    IF Writers(b, k) = {} THEN 0
    ELSE (CHOOSE c \in Writers(b, k) : \A d \in Writers(b, k) : d.at <= c.at).wrote[b]

(* The records of block b that recovery would undo if the log ended with   *)
(* record k: behind the last checkpoint, of transactions without an end.   *)
Closes(r, n) == r.op \in {"COMMIT", "ROLLBACK"} /\ r.tx = n
Ended(i, k) ==
    \E j \in i .. k : log[j].op = "CHECKPOINT" \/ Closes(log[j], log[i].tx)
Losers(b, k) ==
    {i \in 1 .. k : log[i].op = "SET" /\ log[i].blk = b /\ ~Ended(i, k)}

(* What recovery would make of b then: the oldest content that those       *)
(* records remember, or what the disk has.                                 *)
Least(S) == CHOOSE i \in S : \A j \in S : i <= j
Survives(b, k) == IF Losers(b, k) = {} THEN disk[b] ELSE log[Least(Losers(b, k))].old

Ints == (Blocks \ StringBlocks) \ tainted

(* Atomicity: at every moment, the moments of rollback and of recovery     *)
(* itself included, a crash leaves exactly what the commits on the disk's  *)
(* log have written.  Breaks when a page is written before its record, a   *)
(* closing record before the pages, or records are undone in the wrong     *)
(* order.  Blocks that an abandoned transaction wrote are excepted, and    *)
(* the blocks with strings.                                                *)
CrashSafe == \A b \in Ints : Survives(b, stable) = Truth(b, stable)

(* Outside recovery, a block without exclusive lock has in the pool what   *)
(* the last commit wrote to it: nothing of a transaction that rolled back, *)
(* and everything of one that committed before the last crash.             *)
Free == {b \in Blocks \ tainted : xlock[b] = NoTx}
CommittedIsVisible == IsUp => \A b \in Free \cap Ints : buf[b].page = Truth(b, Len(log))

(* Durability: the record of a commit that has returned is on disk, and    *)
(* stays the record of that commit through every crash.                    *)
AckedSurvives ==
    \A p \in acked : p <= stable /\ \E c \in commits : c.at = p

(* The store that transactions see.  What a block shows is what the pool   *)
(* has of it when nobody has it locked; what a crash leaves is what        *)
(* recovery would make of the disk.                                        *)
StoreNow == [b \in Ints |-> IF IsUp /\ xlock[b] = NoTx THEN buf[b].page
                            ELSE IF At(Boot, "exited") THEN Survives(b, stable)
                            ELSE Truth(b, Len(log))]
StoreKept == [b \in Ints |-> Survives(b, stable)]
Live(n) == tx[n].st \in {"active", "writing", "flushing", "undoing"}
StoreWork == [n \in Users |-> [b \in IF Live(n) THEN Wrote(n) \cap Ints ELSE {} |-> buf[b].page]]
ClosingWith(op) == {n \in Users : At(n, "closing") /\ tx[n].with = op}
StoreLate == {n \in ClosingWith("COMMIT") : tx[n].lsn > stable}
StoreOver == {n \in Users : At(n, "over")} \cup ClosingWith("ROLLBACK")

Store == INSTANCE AtomicStore WITH
            Blocks <- Blocks \ StringBlocks, Values <- Vals, Txs <- Users,
            now <- StoreNow, kept <- StoreKept, work <- StoreWork,
            committed <- ClosingWith("COMMIT"),
            late <- StoreLate, over <- StoreOver

(* Transactions are atomic, isolated and durable: through the steps of     *)
(* their writes, flushes, log records, undo, crash and recovery, a commit  *)
(* is one step that shows all its writes, a rollback or a crash none, and  *)
(* a commit that has returned stays.                                       *)
ImplementsStore == Store!Spec

(* Recovery comes to its end, or the process to its: the iterator never    *)
(* goes round, and the flushes before the checkpoint leave nothing behind. *)
RecoveryEnds == At(Boot, "recovering") ~> (IsUp \/ At(Boot, "exited"))

(* README.md:99, "ensures that the database can be restored to a           *)
(* consistent state after a crash by replaying log records and undoing     *)
(* uncommitted transactions", said of strings as well: undone writes of    *)
(* strings give back what was there before.                                *)
StringsAreRestored == IsUp => \A b \in Free : buf[b].page = Truth(b, Len(log))
=============================================================================
