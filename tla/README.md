# A TLA+ model of sampleDB

sampleDB (`src/`) is a small relational database in C++: a paged file layer, a
write-ahead log, a buffer pool, block-level locking, transactions with undo
recovery, record files, B-tree indexes, catalogs, a SQL parser and planner, and an
embedded client interface. This directory models all of these layers: the lower ones,
in which threads and crashes meet, step by step with their interleavings; the upper
ones, which are sequential, as what their algorithms do to every small input, through
long sequences of calls and through errors.

Source paths below are relative to `src/src/`.

## 1. The system

| Component | State it keeps | Operations | Talks to | What is hard | What makes it correct |
|---|---|---|---|---|---|
| File manager (`file/`) | open files; the blocks on disk | read, write, append, length | - | files grow by a separate write; block arithmetic in `int` | a block reads as last written |
| Log manager (`logging/`) | current page and block, two LSN counters | append, flush(lsn), iterator | file manager | a full page takes four assignments to replace; `iterator()` does not lock; crashes | records come back in order; what was flushed survives |
| Buffer pool (`buffer/`, `tx/BufferList`) | frames (block, page, pins, modifying transaction, LSN), number available, pins per transaction | pin, unpin, unpinAll, flushAll, setModified, replacement | log (WAL), file manager | waiting for a frame with a timeout; wake-ups; a page written without the pool's mutex | a pinned block stays; one content per block however few the frames |
| Lock manager (`tx/LockTable`, `tx/ConcurrencyMgr`) | one number per block; per transaction a map block -> mode | sLock, xLock, release | - | upgrades, deadlocks, timeouts, wake-ups, failed requests | a writer is alone; everybody's request ends |
| Transactions, recovery (`tx/`) | running transactions; log records | begin, setInt, setString, commit, rollback, recover, destructor | all of the above | crash between any two steps, also of rollback and recovery; numbers that start anew; steal | atomic and durable |
| Record files (`record/`) | slots of fixed size with a flag; a scan's block, slot and pin | next, insert, remove, moveToRid, close | transactions | growing while scanning; a second unpin | every record once; pins balanced |
| B-tree (`indexing/`) | leaf and directory pages | insert, remove, search | transactions | splits, equal keys, overflow blocks, a new root | exactly the inserted entries, each reachable |
| Index maintenance (`indexing/IndexUpdatePlanner`) | - | insert, delete, modify, create index | record files, B-tree | a scan over what it changes | index and table agree |
| Sorting, joins, grouping (`materialize/`) | runs in temporary tables, saved positions | split, merge, join, group | record files | empty inputs, equal keys, going back | the sorted bag; the join; the groups |
| Scans (`scan/`) | positions | next, beforeFirst | record files | the product's first row | the algebra |
| Catalogs, statistics (`meta/`) | catalog tables, cached statistics | create, look up, refresh | record files | creation interrupted by a crash; the cache | definitions survive; estimates belong to the table |
| Planners (`plan/`) | a list of aggregates | build the tree of scans | catalogs | one member shared by nested calls | the tree means the query |
| Parser (`parse/`) | position in the text | query, insert, ... | - | words of several lexemes; the text stored for a view | what is parsed is what was written |
| Client interface (`interface/`) | the connection's current transaction; a result set's scan | query, update, commit, rollback | planner, transactions | errors in the middle | no operation on a transaction that is over |
| Start-up (`app/`) | - | open: recover or create | all | a crash during the first start | recovered, or complete |

Threads share one `BufferMgr`, one `LogMgr`, one `FileMgr` and the static `LockTable`,
each with a mutex of its own. A `Transaction` belongs to one thread. It calls down:
lock, then buffer, then log record, then page. Nothing calls up, except that undo of a
log record calls `Transaction::pin`, `setInt` and `setString`.

## 2. The modules

An abstract specification says what a component promises to the one above it; the
detailed module is shown to implement it; and the module above builds on the promise.

    LockContract  <--implements--  LockMgr     (theorems: LockMgrProofs)
    PagedMemory   <--implements--  BufferPool  (theorems: BufferPoolProofs)
    StableLog     <--implements--  LogMgr      (theorems: LogMgrProofs)
    AtomicStore   <--implements--  Recovery    (relies on the three promises above;
                                                theorems: RecoveryProofs)
                                   Records     (relies on LockContract, undo in place;
                                                theorems: RecordsProofs)
                                   BTree       (one transaction: relies on locks;
                                                theorems: BTreeProofs)
                  Parser  <--extends--  Query  (text -> plan -> scans -> rows)
                                   Database    (statements as steps: relies on Records,
                                                BTree and Recovery; theorems: DatabaseProofs)

The module `MCxxx` gives the constants of `xxx` their values for TLC. `NatLemmas` has the
facts about natural numbers and recursive functions that several proofs need.

### LockMgr (`tx/LockTable.cpp`, `tx/ConcurrencyMgr.cpp`)

`lockTable[b]` is the number in `_lockTable`, 0 for no entry; `locks[t]` is
`ConcurrencyMgr::_locks`; `call[t]` is the `LockTable` call thread `t` is inside, with
whether it is awake and how long it has waited (`running`, `due`: `wait_for` has timed
out but the truncated milliseconds do not exceed the limit, `expired`). `granted` and
`clobbered` are history: who was given what, and the blocks on which a lock was given
back that had not been granted. Every hold of the mutex is one action: `SLock` and
`XLock` (which write `_locks` before asking), `GrantS`, `GrantX`, `Sleep`, `TimeOut`
(the exception, which leaves the entry), `Tick` (time), `Release`, one `Unlock` per
block, `Finish`. A transaction that was thrown at can only release, as callers do.

### BufferPool (`buffer/`, `tx/BufferList.cpp`)

`frame[f]` has `_blk`, `_pins`, `_txnum` and the page; `numAvailable`, `buffers`,
`pinned` are the source's. `Pin` enters `BufferMgr::pin`; `GetFrame` is a successful
`tryToPin` (search, else replacement with its flush and read), `NoFrame` a failed one
that waits or, its time up, throws; `Tick` is time; `Unpin`, `UnpinAll`, `FlushAll` are
the handlers of that name. `Write` changes the page and `SetModified` marks the frame:
two steps, as in `Transaction::setInt`. That only one transaction at a time writes a
block is the lock manager's promise, a guard of `Write`.

### LogMgr (`logging/`)

Each assignment of `append`, `appendNewBlock` and `flush()` is an action (`WritePage`,
`SaveLsn`, `Grow`, `ResetHeader`, `WriteNew`, `SetCurr`, `SetBytes`, `SetHeader`,
`CountLsn`), under the mutex except when `iterator()` runs the first two. `Crash` may
fall between any two. `PageRecords` is what `LogIterator` reads of one block and
`Iterated` what it returns in all: a crash between the growth of the file and the write
of the new header leaves a block whose boundary is 0 (`Headless`); an iterator that comes
to it goes no further, since it returns records of length 0 there and `createLogRecord`
ends the process on them. `hidden` is history: what such a crash has put out of the
iterators' reach, though the file still has it. `Quiet` restricts the model to executions
in which `iterator()` does not run beside an `append` (`Iterating`, `Appending`), as when
recovery runs at start-up; iterators and `flush(lsn)` overlap freely. The program does
not keep to it: `doRollback` of one of several threads calls `iterator()` while the others
append (section 5, 2).

### Recovery (`tx/Transaction.cpp`, `tx/RecoveryMgr.cpp`, `tx/LogRecord/`)

The log is a sequence with a stable prefix; a block has a content on disk and one in
the pool with `_txnum` and `_lsn`. `LogWrite` and `ApplyWrite` are the two halves of
`setInt`; `Steal` is a replacement; `Commit`, `FlushOne`, `Close`, `End` are the steps of
`RecoveryMgr::commit`, shared by rollback and recovery; `Rollback` and `UndoOne` walk
back through the log; `Abandon` is the destructor of an unfinished transaction;
`Crash` starts the next process, whose transaction 1 recovers record by record
(`RecoverOne`), writes a checkpoint and then its own COMMIT. Transaction numbers start
anew. An int is its value; a string is its length, which is what decides what
`SetStringRecord` reads back, and `Exit` is the process ending on a record that cannot
be read. `commits`, `acked` and `tainted` (blocks an abandoned transaction had written)
are history.

Recovery uses the promises of the other modules: a write needs the exclusive lock (no
block clobbered), a block has one content, and the log is append-only with a stable
prefix (no `iterator()` beside an append, no crash that leaves a log block without
header: StableLog's `unread` stays 0). Section 5 says where the code does not give them.

AtomicStore is what Recovery gives in turn to those above: each block shows the last
commit to it (`now`), a commit is one step that publishes what its transaction has
written (`work`), no two transactions write one block at a time, and a crash goes back to
`kept`, which lacks at most the commits that have not returned, all of those or none.
Under the refinement mapping (`StoreNow` to `StoreOver`) a commit happens at its COMMIT
record (`Close`), returns at `End`, and any flush of the log keeps what was late; what a
crash keeps is read off the disk and the stable log, as recovery would. A rollback is over
at its ROLLBACK record. An undo is a write like any other, and flushing, recovering and
the checkpoint change nothing that can be seen. Blocks with strings are not in the store,
and a block leaves it when an abandoned transaction had written to it.

### Records (`record/TableScan.cpp`, `record/RecordPage.cpp`, `tx/Transaction.cpp`)

`file` is the table's blocks, each a sequence of slots with a flag and one field;
`undo[t]` the log records of transaction `t` in this file, and `Undone` its walk back
through them; `scan[s]` is a `TableScan`: its transaction, page, slot, and in `pc` what its code is
doing. A step takes at most one lock, because that is where another transaction can
run: `Open` and `Size` (the constructor and its look at the length), `MoveToNewBlock`
(with `append` and `format`), `NextAfter`/`InsertAfter` (a search in one page),
`AtEndOfBlock` (the look at the length), `SetFlag`, `ClearFlag`, `SetInt` (the three
writes, each logged). `BeforeFirst`, `MoveToRid`, `Close`, `Commit` and `Rollback` are
the operations of that name, `TimeOut` the exception of a lock request and the
rollback that follows. Slots and blocks count from 1, and slot 0 is the code's -1.
A second `close()` unpins once more; `twice` remembers the blocks it hit, on which
nothing is claimed about pins. When a request times out before it had any lock, a lock
of somebody else is given back (section 5, 1) and the model stops (`lost`).

### BTree (`indexing/`)

`leaf` and `dir` are the two files of an index, a page being its flag, its number of
records and all its slots, also those behind the last record: `remove` and
`transferRecs` leave copies there, `format` leaves zeros, and the code reads them (a
search compares the slot after the last smaller key, and the first slot of an overflow
block, without asking whether they are in use). Keys are integers. `Insert` and
`Remove` are `BTreeIndex::insert` and `remove` with everything below: `LeafInsert`
(first key, overflow, split), `InsertBelow` and `InsertEntry` (directory), `MakeNewRoot`.
`Path` is the walk of `search` and of the recursion of `insert` through the directory,
written as a function of the number of blocks passed; a walk that is not over after as
many steps as the directory has blocks goes round for ever (`Ends`), and the operation
never ends. `Lookup` is `beforeFirst` and `next` to the end. `entries` is the abstract index. The
two initial states are a new index and one whose creating transaction was rolled back,
which leaves the root without its first entry. `astray` and `spoilt` record that a
search was once led wrong by an unused slot or by a page's header, or an overflow chain
cut off (section 5, 7 and 8). The model follows an index until then: after such an
operation lookups of other keys may miss entries too, a block's number of records may
fall below zero, and nothing is claimed of what the index does next. An insertion that
is misled to write behind the end of the directory file (not `Inside`) is left out.

### Parser and Query (`parse/`, `plan/`, `scan/`, `materialize/`)

A text is a sequence of words and a word a sequence of lexemes, because the tokenizer
cuts at spaces and around commas only. Every `match...`, `eat...` and grammar rule of
the parser is an operator from a position to a position and a result; position 0 is an
exception. `QueryText(q, TRUE)` is what `QueryData::toString` prints and `ViewMgr`
stores, `StatementText` what a user writes.

In `Query` a plan and a scan are records with the operators below them: `CreatePlan` is
`BasicQueryPlanner::createPlan`, threading the shared list of aggregates; `Open` opens a
plan, draining what is materialized, split into runs, merged and sorted; `Next_` and
`BeforeFirst` are the calls of that name on every kind of scan. `Thrown` and `Undefined`
are the two ways in which a call does not return. The actions are a statement's way:
`ParseText`, `CreateQueryPlan`, `OpenPlan` (over any content of the tables), `Fetch`.
`Answer` says independently what a query means; `Supported` and `Filled` name the
queries and contents for which the code can be expected to give it.

### Database (`app/`, `meta/`, `indexing/IndexUpdatePlanner.cpp`, `interface/`)

What one client sees. `Start`, `CreateCatalog`, `CommitStart` and `Crash` are the life of
the process: a new directory is filled by one transaction (`work`), an existing one is
recovered and opened. `catalog` is the four catalog tables: `WithTable` appends the rows
`TableMgr::createTable` writes, `GetLayout` and `IndexInfo` read them as the code does,
first row and last index included. A statement is one step (`Execute...`, `Create...`,
`UpdateFails`, `UpdateKills`); `files` and `entries` are what Records and BTree implement.

A statement commits, throws and is rolled back, or ends the process. The undo of ints
leaves nothing behind; `Undone` is what the undo of strings leaves: any strings of records
that the statement may have replaced (`Replaced`), and any keys of string indexes it may
have moved (`Keys`), are empty. Where one of them has one to three characters (`Short`)
the process ends instead; and the record stays in the log behind the last checkpoint,
where recovery meets it at every later start, be it of a statement that committed
(`Logged`). `badLog` says that there is such a record, or the block without header that a
crash of the growing log leaves (LogMgr). Indexes are created on any name
(`CreateIndex`): with one on a field the table lacks every change of the table throws
(`IndexesFit`), and with one on a BOOL field its entry ends the process (`Changes`,
`UpdateKills`), as a value of the wrong type does.

`ExecuteQuery`, `FetchRow`, `NextFails`, `ColumnFails` and `CloseResult` are a result set,
whose `live` says whether its transaction still exists; main reads one statement at a
time and closes every result set. `DeadScan` is a call of one whose transaction is over,
which is undefined. An UPDATE throws at the first record it selects, because its value is
not parsed, so that `ExecuteModify` changes a record only for a caller with a
`ModifyData` of its own. A schema names no field twice, and no table has the name of a
catalog: the code checks neither, and a statement that does it is left out.

## 3. The runs

| Run | Bounds | What it shows |
|---|---|---|
| `lock_safety` | 3 transactions, 2 blocks, symmetry | `ExclusiveUnlessClobbered`: a writer is alone; `TableMatchesOwners`: the number in the table is true; `BooksAgree`: `_locks` is; `BlockedByAnother`: nobody waits for itself; `ReaderSleepsOnlyWhenBlocked`: no lost wake-up of a reader; `ImplementsContract` |
| `lock_liveness` | 2 transactions, 2 blocks | `RequestsEnd`: every request ends, deadlocks included |
| `buffer_frames` | 2 transactions, 3 blocks, 2 frames | `PinnedBlockStays` (in the frame the transaction knows, and in no other), `SleepsOnlyWhenFull` (no lost wake-up), `SavedIsOnDisk` (flushAll leaves nothing of its transaction behind) |
| `buffer_pins` | 2 transactions, 2 blocks, 1 frame, 2 pins each | `PinsMatchLists` (counts of frames and of the pool), `ImplementsMemory`, `PinsEnd` |
| `log` | 2 threads, blocks of 4 units, records of 1 and 2, 4 records, 2 crashes | `LogInOrder` (the blocks hold every record in order; an iterator returns all of them, or all since the crash that left a block without header), `FlushedIsOnDisk`, `ImplementsStableLog` |
| `recovery` | 2 concurrent transactions, 2 int blocks, 2 writes, 1 crash | `CrashSafe`: at every moment a crash leaves exactly the commits of the stable log; `CommittedIsVisible`; `AckedSurvives` |
| `recovery_twice` | 1 transaction per session, an int and a string block, 2 writes, 2 crashes | `ImplementsStore` over three sessions with the same transaction numbers; `RecoveryEnds` |
| `recovery_strings` | lengths 0 and 4 | violated: `StringsAreRestored` |
| `records` | 2 scans, of 2 transactions or of one, 2 slots a block, an old file of no block or one, 2 changes | `CommittedRecords`: no record is changed by two running transactions, and with all that is logged taken back exactly the committed records are left; `ScanIsComplete`: a finished scan has seen each record once, and nobody can add one behind it; `PinsBalanced`; `OperationsEnd` |
| `btree` | 5 keys around 0, leaves of 3, directory pages of 4, 7 operations | `LookupIsRight`: a search finds all entries of its key and no others; `DirectoryIsTree` |
| `query` | 21 statements, 4 views, 2 tables of up to 3 rows and one of 5 | `ParsedAsWritten`; `RowsAreRight`: the rows of the tree of scans are the query's meaning, in order; `EndsAsSupported` |
| `database` | 1 table, 2 indexes, fields of each type, 2 values (1 a short string), 2 slots, 5 statements, 1 crash | `LayoutsFit`: no field touches another; `IndexMatchesRecords`: an index of an int field agrees with its table, whatever undo does to strings; `StartsOnceFormed`: with a readable log a directory opens if and only if its first start committed |

Why the bounds are enough to be interesting. Two readers and a third transaction are
what it takes to upgrade against a reader, to time out, and to have someone else take
the block that is then given back; two blocks make deadlocks and half-finished
releases. Three blocks in two frames make a frame change hands under a waiter, one
frame makes every pin a replacement. Four units make a block hold one header and either
one, two or three records, so that records exactly fill, almost fill and overflow it;
four records fill at least two blocks, and the second crash meets what the first left.
Two writes are a loser and a winner on one block or on two, with every position of the
flushes, the log's growth and the crash between them; CrashSafe is stated for every
state, so that the second crash inside recovery is covered without a second restart,
which `recovery_twice` adds.

Two slots a block and two changes make a file grow under a scan, a slot be used again,
and both transactions be at the end of the file at once; two scans of one transaction
are a product of a table with itself. Seven insertions into leaves of three and
directory pages of four make the root split (its fourth child), overflow chains form
and shrink, and a split meet a run of equal keys at either end; the key 0 is what an
unused slot holds. Five rows make three runs, so that one run is left over in a merge
iteration and the last merge happens while rows are pulled; two rows or none are the
edges. Five statements are a table, an index and three changes, one of them to a slot
that is used again, or a table created twice.

`CHECK_DEADLOCK FALSE` is set where the model may stop: all transactions over
(BufferPool), all records appended and all crashes used (LogMgr, Recovery), all
operations used (BTree, Database), a lock lost (Records), the rows fetched (Query).

Each property of a passing run has a mutant, an operator written beside the one it
would replace and marked so, that would break it: `PROJECT.json` lists them.

### Fairness

`RequestsEnd` and `PinsEnd` assume weak fairness of each thread's steps inside a call
and of time: threads are scheduled by the operating system and `wait_for` returns at its
timeout. No fairness is assumed of the choices of callers. `OperationsEnd`
assumes the same of each scan's steps: a thread inside `next()` or `insert()` goes on, a
lock request that can be granted or has waited too long returns. `RecoveryEnds` assumes that
the constructor of `SampleDB`, a sequential program, is not suspended for ever.

## 4. What is proved

TLAPS proves the following of every behaviour, for every value of the constants that
meets the assumptions the model declares; the bounds on operations and crashes are any
natural numbers. With two exceptions a theorem follows from an inductive invariant, `IInv`
in each of the modules (`IndInv` in BTreeProofs), which holds initially and is kept by every action, one lemma for
each action or group of actions that are alike.

### LockMgr, for every finite set of transactions and every set of blocks

- `TypeCorrect`: TypeOK is inductive (proved, so that no run checks it).
- `BooksAlwaysAgree`: from the inductive `Books`, which says what `_locks`, the call and
  the grants of one transaction have to do with each other at each point of a request.
  BooksAgree alone is not inductive: inside a request the entry is ahead of the grant.
- `TableIsTrue`, `ExclusionHolds`, `NoSelfDeadlock`: from the inductive `Table`, which
  says of every block not clobbered that its number counts the owners, or is -1 with one
  owner. The number must count exactly for the grant of an upgrade at 1 to mean that the
  only reader is the caller; that the caller is a reader is in `Books`. The counting uses
  the cardinality facts of FiniteSetTheorems.
- `NoLostReaderWakeup`: inductive with `Books`; whoever makes a block free of its writer
  erases the entry and wakes all.
- `KeepsContract`: every step is a step of LockContract or changes no ownership.

### BufferPool, for all finite sets of transactions and blocks and any number of frames

- `TypeCorrect`, `PinsAreCounted`, `PinsHold`, `NoLostWakeup`, `ForceAtCommit`: the five
  invariants of the runs. `PinsMatchLists` is a sum over transactions and a count over
  frames; each action changes one summand. To be kept it needs `OneFrame` (no block in two
  frames) and `ListsAgree` (the frame a transaction has listed holds that block).
  `SavedIsOnDisk` needs `UnmarkedIsClean` (a frame without `_txnum` equals the disk, unless
  its page has just been written) and `WrittenIsKnown` (who wrote a page is the one its
  frame names): without the second, the mark of another transaction would hide a page
  from flushAll.
- `MemoryImplemented`: every step of the pool is a step of PagedMemory or changes nothing
  there. The content of a block is chosen from the frames in the mapping; the proof first
  shows that it is the page of the only frame that holds it, or what is on disk.

### LogMgr, for blocks and records of any size, any number of threads, records and crashes

The theorems assume `Quiet`, that `iterator()` does not run beside an append. The code does
not see to it, and without it `FlushedIsOnDisk` does not hold (section 5, 2): what is
proved is the log under one thread, or under several none of which rolls back.

- `TypeCorrect`, `InOrder`, `Durable`: from `AloneOK` (several threads may be inside the
  log only if all of them write the page as it is, for an iterator or a `flush(lsn)`),
  `RoomOK` (what an append found out about the page under the mutex is still so), `PagesOK`
  (a page is its records packed against the end, and its header the position of the last),
  `CountOK` (the counters), `HiddenOK` (the blocks up to the last one without a header hold
  `hidden` records) and `LayoutOK`, the heart: the blocks hold the records one after the
  other, the current page is ahead of its block by the records not flushed, and there is
  one case for each moment between two assignments of a change of block. `LogInOrder` alone
  says nothing of those moments, and would be lost after them.
- `StableLogImplemented`: every assignment is a step of StableLog or changes nothing there.
  StableLog's `unread` is what the file holds and an iterator does not return, which is
  `hidden` (`UnreadIs`).

What `LogIterator` reads of a block is a recursive function of the page; the lemmas about
it are inductions over the position in the block.

### Recovery, for any transactions, blocks, values, and any number of writes and crashes

- `CrashesAreSafe`: at every moment a crash leaves exactly what the commits on disk wrote.
  CrashSafe speaks of the stable log as it is. A flush makes it longer and leaves the disk
  alone, so that the invariant must say the same of every point up to which the log may
  become stable (`SurvivorsOK`). That undo restores the right value needs `OwnOK` and
  `LockedOK` (the records of an unfinished transaction in a block it has locked are the last
  ones of that block) and `SessionOK` (behind the last checkpoint a transaction number has
  begun once). The walk back through the log is `RecoveringOK` and, for a rollback,
  `Restored`: of the records passed, the oldest decides what the page is.
- `CommittedShows`: from `FreeOK` (nothing is left to undo in a block that is not locked)
  and `CleanOK` (a buffer without `_txnum` is as the disk).
- `CommitsAreDurable`, with `HistoryOK`; `TypeCorrect`.
- `StoreImplemented`: what the store shows is what the commits in the whole log have
  written, and what it keeps what those in the stable log have (`StoreIs`, from the two
  theorems above). So a step that leaves the commits alone changes nothing that is shown,
  whatever it does to pages, and what is kept becomes what is shown when the log is flushed
  (`KeptGoes`). That leaves for each action what it does to one transaction's `work` and
  state (`WorkGoes`, `EndsGo`), one lemma per action. A write needs that its block is
  locked, an undo as well (`UndoesOwn`), and values that are of the store (`ContentsOK`).
  The run has one transaction per session; that two do not disturb each other is in the
  theorem.

All of it is about int blocks that no abandoned transaction has touched, as the
properties are: strings are not restored (section 5).

### Records, for any transactions, old files, slots and contents, a finite set of scans, and any number of operations

- `PinsBalance`: by counting; each action changes the page or the state of one scan, and
  the pins of one block or two. PinsBalanced says nothing of the blocks in `twice`; there
  `PinsOK` still bounds the pins by the scans that are on the block, open or closed.
- `TypeCorrect`: that the file ends at its bound needs to know which insertions can still
  append: an insertion that has appended finds a slot in its new block, which nobody else
  can have locked (`Fresh`), so that each insertion appends once (`GrowthOK`, which counts
  the others, `Growers`). The first block of an empty file is one more.
- `CommittedStay`: CommittedRecords as it stands is lost in a rollback, because it says of
  each transaction what undoing it alone would leave. The invariant has one file, `w`, that
  is left when all running transactions are taken back (`TakenBack`): it agrees with the
  present one where nobody has logged a change, with each transaction's undo where that one
  has, and its records are the committed ones. It needs that what is logged is locked
  (`UndoOK`) and that exclusive locks exclude (`LocksOK`). `RollbackTakesBack` and
  `CommitTakesBack` are the two ends of a transaction.
- `ScansComplete`: `SeenOK` says the same of a scan on its way: it has returned the records
  before its slot, and has locked the blocks it has passed; at the end it has locked the
  end of the file as well. A lock held keeps the records of a block as they are and the
  file at its length.

`Undone` is a recursive function: undoing a log leaves in each slot what the oldest record
about it says, and the rest of the file alone (`UndoneIs`, `UndoneSlots`, by induction over
the log), and a write that is logged does not change what the undo leaves
(`UndoneAfterWrite`).

### BTree, for leaves of two records or more, directory pages of three or more, any keys and RIDs, and any number of operations

- `TreeHolds`: until an operation is misled or a leaf is cut from its chain (`spoilt`),
  the directory is a tree over the leaves, in the order of the keys
  (DirectoryIsTree): every block but the root and every leaf that begins a chain is the
  child of exactly one slot, children are one level lower, and what is below a slot lies
  between its key and the next. Assumed are a least key, which the root's first entry has
  (INT_MIN), and room for a record beside the ones a split leaves in a page.

DirectoryIsTree is not inductive: it does not say that what is inserted next will go where
it belongs. The invariant (`Tree`) gives each directory block the set of keys that are
searched in it, `own`. The root owns all integers; a child, directory block or leaf, has
the part of its parent's set from its slot's key up to the next slot's (`PartOf`,
`KidOK`); the keys in a page are from its set and increase (`KeysIn`, `Sorted`). With
that, a walk for a key reads at each block a set the key is in (`PathIs`), so that it
comes to an end after as many steps as there are levels (`Ends` holds), and ends
at the leaf that owns the key. The change of a leaf comes in four kinds (`LeafInsertIs`):
in place, cut into a chain, its chain moved to a block of its own, divided at a key.
Only the last two send an entry up; that entry's key divides the leaf's set, and putting
the entry into the block above divides the part of its slot at the same key
(`LeafDivide`). When this block is full, it is divided at its own middle entry, and so on
upwards (`DirDivide`), to a root that becomes two blocks one level lower (`GrownIs`).
What a slot pointed to before it still points to: the slots of the new directory
are mapped to those of the old one (`Moves`, `OnlyStays`), whence nothing has two parents.

A root without its first entry (`rt` is false) is a tree with one more slot, -1, which
lies on the page's header. Its child is the header's field, 0: the first leaf. This holds
while the root is at level 0 (section 5, 7).

- `LookupHolds`: a search finds the entries of its key, all of them and nothing else
  (LookupIsRight). That the walk ends at the leaf that owns the key is the tree. The rest is
  about the leaves' records: they are the entries, each once (`Holds`); an overflow block
  has one key and is younger than the blocks behind it (`Chains`), so that a chain comes to
  an end; and the RID an empty overflow block still shows is not in use behind it
  (`Hollow`). `Returns` is what the cursors of a search give. An insertion or a removal
  moves each record to one place (one lemma for each of the four kinds of change), and so
  keeps all three.

LookupIsRight speaks of keys no operation has cut off from their chain, after which the
leaf's record and its overflow block no longer fit together, while the directory stays a
tree. The invariant has both: `Indexed` says that there is a file that `Fits`, one with the
same leaves but for empty ones that were cut off, over which the directory is a tree. It
is claimed until an operation is misled by an unused slot (`astray`), and
`CutOffKeys(leaf) \subseteq spoilt` says which keys are cut off.

### Database, for any tables, schemas, indexes, values, slots, statements and crashes

- `LayoutsAlwaysFit`: offsets are a recursive function of the schema; a field begins where
  the one before ends, which is after all before it (`OffsetFacts`, `OffsetGrows`). The
  layout read is that of the schema because the catalogs have one row of the table and its
  fields in order (`CatalogsOK`, `TablesOK`; `RowsOf` is a scan of a catalog, and a table's
  rows do not depend on the rows of others, `RowsOfOthers`).
- `IndexesMatch`: an index of an int field agrees with the records of its table. To be kept
  by a change it needs that a record has the fields of its layout (`SlotsOK`), that a new
  index's name has no entries yet (`EntriesOK`), and that the index of a table that is
  created later is empty (`IndexesOK`). One lemma says of any change of records that the
  indexes follow if they gain and lose what the change does (`ChangeKeeps`); INSERT,
  DELETE and UPDATE are shown to be such changes (`InsertIndexed`, `DeleteIndexed`,
  `ModifyIndexed`). The undo of a failed or interrupted statement keeps it
  (`UndoneKeeps`): an int field is no string (`TypesDiffer`), and no key that undo empties
  is in the file of a sound index (`SoundKeys`). Nothing is claimed of string indexes.
- `Starts`: from `StartOK` and `CatalogsOK`: nothing is stored before the first start has
  committed, and then each catalog has its own row. It assumes a log that can be read.
- `TypeCorrect`.

### What stays with TLC

- Liveness (`RequestsEnd`, `PinsEnd`, `RecoveryEnds`, `OperationsEnd`): beyond the prover.
- BTree's `TypeOK`: that no page holds more records than it has room for, also where an
  operation was misled.
- Parser and Query: the grammar and the tree of scans are written with recursive operators,
  which the prover cannot handle, and what they compute for every input is an induction
  over data.
- The log while a rollback runs beside an append, undo of strings: there the properties do
  not hold, and no run claims them.

The proofs never need an induction rule with a predicate as parameter. Where one
is needed, `NatLemmas` has it for a set of numbers: the least number of a set, and a
recursive function as the choice of a function that satisfies its equation, which
`RecursionExists` shows to exist.

## 5. What the work showed

One statement of the repository fails in a run:

- `SetStringRecord` does not read the string where it wrote it; undo empties strings,
  and short ones end the process (`recovery_strings`).

The rest are facts of the code that the models rely on or exclude by name; a
reader of a property should know them.

Below the transactions:

1. `ConcurrencyMgr` notes a lock before it has it; after a timeout, `release()` gives
   back the lock of another transaction (`clobbered`, `lost`).
2. `LogMgr::iterator()` flushes without the mutex, also when `doRollback` calls it beside
   the appends of other threads; a record can be counted as saved that is not on disk
   (`Quiet`).
3. A crash inside `appendNewBlock` leaves a log block with a boundary of 0 (`hidden`).
   Recovery comes to it at every later start and ends the process; the records before it
   are on disk and out of reach.
4. A transaction destroyed without rollback is undone at the next start, over whatever
   was committed in between (`tainted`).

Record files and indexes:

5. `TableScan::close()` twice takes a pin away from another scan (`twice`).
6. A slot larger than a block makes `insert()` append blocks for ever (an assumption).
7. The directory search compares a slot that may not be in use (BTreeDir.cpp:65), and
   may follow an old child (`astray`). In an upper page whose keys are all below 0 the slot
   behind them can hold zeros: a search for 0 then goes to block 0, the root, and never
   ends. Below the first entry of a root that lacks INT_MIN (its creating transaction was
   rolled back) the child is the header's flag, which in an upper page is its level.
8. An overflow block whose key differs from its leaf's first key cannot be reached
   (BTreeLeaf.cpp:40, 89-101); an empty overflow block returns its stale first slot
   (`spoilt`, `hollow`). Lookups of other keys may then miss entries too, and removals
   may leave a block with a number of records below zero.
9. `BTreePage::split` keeps a pin on the new block until the transaction ends.
10. `createIndex` does not index the records that are there; of two indexes on a field
    only the newer is maintained; two indexes of one name share a file (`Sound`). It does
    not look at the table either: an index on a field the table lacks makes every later
    INSERT, DELETE and UPDATE of the table throw (IndexInfo.cpp:43), and an entry in one on
    a BOOL field, whose keys are VARCHAR, ends the process (`IndexesFit`, `Changes`).
    Keys of a string index are lost when a statement is undone that moved them (`Undone`).

Queries:

11. UPDATE's value is never parsed (Parser.cpp:235; README.md:41 names UPDATE as
    supported): the statement throws when it meets a record.
12. A forgotten space behind `)` or `=` can drop text silently; what stands behind the
    end of a statement is never looked at. The message of `eatDelimiter` adds a
    character to a pointer (Lexer.cpp:45).
13. A view with a WHERE cannot be queried: its text is stored without the spaces and the
    quotes the tokenizer needs.
14. A grouped view or subquery leaves its aggregates in the outer query's list.
15. An empty left operand of a product, and sorting or grouping no rows, leave the
    defined behaviour of the language (`Filled`).
16. ORDER BY on a field that is not selected throws as soon as two rows are compared
    that agree in the fields before it.

The client's side:

17. A crash during the first start leaves a directory that cannot be opened (`formed`).
    After the first commit every start succeeds as long as the log can be read; it cannot
    once a string of one to three characters has been overwritten, even by a statement
    that committed, or a crash met the growing log (`badLog`). No start writes a
    checkpoint behind such a record, so that every later start ends at it.
18. A second `createTable` of a name mixes two layouts; a statement on a table that does
    not exist, or with a value that is not of its field's type, ends the process; tables whose name begins with `temp` are emptied at the
    start (FileMgr.cpp:15-19); insert leaves a removed record's values in the fields it
    does not list; a string is not checked against its field's length.
19. After an exception in a result set, `close()` uses a transaction that was destroyed
    (`DeadScan`). A failed statement is reported as 0 rows: Statement.cpp:26 builds
    an exception and does not throw it.

## 6. Not modelled, and the plan

Left out, and why:

- `MergeJoinPlan`, `MergeJoinScan`, `BasicUpdatePlanner`: nothing in the program builds them.
- Cost estimates and the numbers of `StatMgr`: no plan is chosen by them.
- The order of VARCHAR keys in a leaf, and so which of them a statement moves (left open in
  Database), characters of a text, the widths of ints.
- The file layer's cache of open files, torn writes of a block (the code takes a block
  write as atomic), printing.
- Index operations of two transactions at once, and the undo of a half-done one: the
  block locks are held to the end, so that both reduce to LockContract and Recovery,
  but for deadlocks, which end by timeout as everywhere.
- The unlogged writes of `format` together with a crash.

Plan, in this order:

1. Recovery with `format`, `size` and `append`.
2. Records and BTree in one module: the undo of an insertion that splits.
