------------------------------- MODULE LogMgr -------------------------------
(***************************************************************************)
(* The write-ahead log: LogMgr and LogIterator (src/logging) over the      *)
(* blocks of one file (src/file/FileMgr.cpp).                              *)
(*                                                                         *)
(* append and flush(lsn) hold LogMgr::_mutex throughout; iterator() calls  *)
(* the private flush() without it.  Every assignment to _logPage,          *)
(* _currBlk, the two counters and the file is therefore a step of its own. *)
(* The process may crash between any two of them; what FileMgr has written *)
(* stays.                                                                  *)
(*                                                                         *)
(* Sizes are counted in units: the header (the boundary) takes one, and a  *)
(* record with its length prefix takes the size given.  A record is known  *)
(* by its position in the log since the database was created.              *)
(***************************************************************************)
EXTENDS Integers, Sequences, SequencesExt

CONSTANTS Threads,
          BlockSize,    \* units in a block, the header included
          Sizes,        \* sizes of records
          MaxRecords,   \* bound: records appended in all
          MaxCrashes,   \* bound: crashes
          Quiet         \* iterator() does not run beside an append

ASSUME BlockSizeAssumption == BlockSize \in Nat \ {0, 1}
ASSUME SizesAssumption == Sizes \subseteq 1 .. BlockSize - 1
ASSUME QuietAssumption == Quiet \in BOOLEAN
ASSUME ThreadsAssumption == Threads # {}
ASSUME BoundsAssumption == MaxRecords \in Nat /\ MaxCrashes \in Nat

VARIABLES
    disk,          \* the blocks of the log file
    logPage,       \* _logPage
    currBlk,       \* _currBlk, counted from 1
    latestLsn,     \* _latestLsn
    lastSaveLsn,   \* _lastSaveLsn
    pc,            \* what each thread is about to do
    mutex,         \* the holder of _mutex, or {}
    log,           \* history: the sizes of the records of the log, in order
    base,          \* history: Len(log) when the process started
    promised,      \* history: flush(lsn) has returned for log[1 .. promised]
    hidden,        \* history: Len(log) when a crash last left a block without header
    crashes

vars == <<disk, logPage, currBlk, latestLsn, lastSaveLsn, pc, mutex, log, base,
          promised, hidden, crashes>>
counters == <<latestLsn, lastSaveLsn>>
history == <<log, base, promised, hidden, crashes>>

(* A page: its boundary, and the record that starts at each position, if   *)
(* any.  Position 0 is the header.                                         *)
Positions == 1 .. BlockSize - 1
NoRec == [id |-> 0, size |-> 0]
ZeroPage == [boundary |-> 0, body |-> [p \in Positions |-> NoRec]]

Idle == [op |-> "idle"]
Main == CHOOSE t \in Threads : TRUE    \* the thread that runs the constructor
-----------------------------------------------------------------------------
(* LogIterator: the records of a block, from its boundary up.              *)
PageRecords(p) ==
    LET from[pos \in 0 .. BlockSize] ==
          IF pos \in Positions /\ p.body[pos].size > 0
            THEN <<p.body[pos].id>> \o from[pos + p.body[pos].size]
            ELSE <<>>
    IN  from[p.boundary]

(* A block that never got its header: the iterator starts at position 0    *)
(* and returns records of length 0, of which createLogRecord makes nothing *)
(* (Page::getInt ends the process).  It does not get past such a block.    *)
Headless(p) == p.boundary = 0

(* What the blocks hold, oldest first, so that it compares with log; and   *)
(* what an iterator that starts at the last of them returns.               *)
Held(pages) == FlattenSeq([i \in DOMAIN pages |-> Reverse(PageRecords(pages[i]))])
Iterated(pages) ==
    FlattenSeq([i \in DOMAIN pages |->
      IF \E j \in i .. Len(pages) : Headless(pages[j]) THEN <<>>
      ELSE Reverse(PageRecords(pages[i]))])

OnDisk == Held(disk)
-----------------------------------------------------------------------------
(* LogMgr::LogMgr: an empty file gets its first block, otherwise the last  *)
(* block is read into _logPage.                                            *)

Boot(d) ==
    /\ latestLsn' = 0
    /\ lastSaveLsn' = 0
    /\ mutex' = {}
    /\ IF d = <<>>
         THEN /\ pc' = [t \in Threads |-> IF t = Main THEN [op |-> "grow", size |-> 0]
                                          ELSE [op |-> "start"]]
              /\ logPage' = ZeroPage
              /\ currBlk' = 1
         ELSE /\ pc' = [t \in Threads |-> Idle]
              /\ logPage' = d[Len(d)]
              /\ currBlk' = Len(d)

Init ==
    /\ disk = <<>>
    /\ logPage = ZeroPage
    /\ currBlk = 1
    /\ latestLsn = 0
    /\ lastSaveLsn = 0
    /\ pc = [t \in Threads |-> IF t = Main THEN [op |-> "grow", size |-> 0]
                               ELSE [op |-> "start"]]
    /\ mutex = {}
    /\ log = <<>>
    /\ base = 0
    /\ promised = 0
    /\ hidden = 0
    /\ crashes = 0

Goto(t, s) == pc' = [pc EXCEPT ![t] = s]
At(t, op) == pc[t].op = op
-----------------------------------------------------------------------------
(* LogMgr::flush(): two assignments, on behalf of append ("append"),       *)
(* flush(lsn) ("flush") and iterator() ("iterate").                        *)

WritePage(t) ==
    /\ At(t, "write")
    /\ disk' = [disk EXCEPT ![currBlk] = logPage]
    /\ Goto(t, [pc[t] EXCEPT !.op = "save"])
    /\ UNCHANGED <<logPage, currBlk, counters, mutex, history>>

SaveLsn(t) ==
    /\ At(t, "save")
    /\ lastSaveLsn' = latestLsn
    /\ \/ /\ pc[t].from = "append"
          /\ Goto(t, [op |-> "grow", size |-> pc[t].size])
          /\ UNCHANGED <<mutex, promised>>
       \/ /\ pc[t].from = "flush"
          /\ Goto(t, Idle)
          /\ mutex' = {}
          /\ promised' = IF base + pc[t].lsn > promised THEN base + pc[t].lsn
                         ELSE promised
       \/ /\ pc[t].from = "iterate"
          /\ Goto(t, Idle)
          /\ UNCHANGED <<mutex, promised>>
    /\ UNCHANGED <<disk, logPage, currBlk, latestLsn, log, base, hidden, crashes>>

(* LogMgr::flush(int lsn).                                                 *)
(* Mutant: the comparison is the wrong way round.                          *)
NeedsFlushSwapped(lsn) == lsn <= lastSaveLsn
NeedsFlush(lsn) == lsn >= lastSaveLsn

Flush(t, lsn) ==
    /\ pc[t] = Idle /\ mutex = {}
    /\ IF NeedsFlush(lsn)
         THEN /\ mutex' = {t}
              /\ Goto(t, [op |-> "write", from |-> "flush", lsn |-> lsn])
              /\ UNCHANGED promised
         ELSE /\ promised' = IF base + lsn > promised THEN base + lsn
                             ELSE promised
              /\ UNCHANGED <<mutex, pc>>
    /\ UNCHANGED <<disk, logPage, currBlk, counters, log, base, hidden, crashes>>

(* The two that Quiet keeps apart.                                         *)
Iterating == \E u \in Threads : pc[u].op \in {"write", "save"}
                               /\ pc[u].from = "iterate"
Appending == \E u \in Threads :
    \/ pc[u].op \in {"grow", "reset", "writeNew", "setCurr",
                     "setBytes", "setHeader", "count"}
    \/ pc[u].op \in {"write", "save"} /\ pc[u].from = "append"

(* LogMgr::iterator: the private flush() without the mutex.                *)
Iterate(t) ==
    /\ pc[t] = Idle
    /\ Quiet => ~Appending
    /\ Goto(t, [op |-> "write", from |-> "iterate"])
    /\ UNCHANGED <<disk, logPage, currBlk, counters, mutex, history>>
-----------------------------------------------------------------------------
(* LogMgr::append.                                                         *)

(* Mutant: every record is said to fit.                                    *)
FitsAlways(size) == TRUE
Fits(size) == logPage.boundary - size >= 1

EnterAppend(t, size) ==
    /\ pc[t] = Idle /\ mutex = {}
    /\ Quiet => ~Iterating
    /\ Len(log) < MaxRecords
    /\ mutex' = {t}
    /\ Goto(t, IF Fits(size) THEN [op |-> "setBytes", size |-> size]
               ELSE [op |-> "write", from |-> "append", size |-> size])
    /\ UNCHANGED <<disk, logPage, currBlk, counters, history>>

(* appendNewBlock: FileMgr::append, the new header, FileMgr::write.  The   *)
(* constructor runs it too (size 0), with no other thread about.           *)
Grow(t) ==
    /\ At(t, "grow")
    /\ disk' = Append(disk, ZeroPage)
    /\ Goto(t, [pc[t] EXCEPT !.op = "reset"])
    /\ UNCHANGED <<logPage, currBlk, counters, mutex, history>>

ResetHeader(t) ==
    /\ At(t, "reset")
    /\ logPage' = [logPage EXCEPT !.boundary = BlockSize]
    /\ Goto(t, [pc[t] EXCEPT !.op = "writeNew"])
    /\ UNCHANGED <<disk, currBlk, counters, mutex, history>>

(* Mutant: the emptied page goes to the old block.                         *)
WriteNewOld(t) ==
    /\ At(t, "writeNew")
    /\ disk' = [disk EXCEPT ![currBlk] = logPage]
    /\ Goto(t, [pc[t] EXCEPT !.op = "setCurr"])
    /\ UNCHANGED <<logPage, currBlk, counters, mutex, history>>

WriteNew(t) ==
    /\ At(t, "writeNew")
    /\ disk' = [disk EXCEPT ![Len(disk)] = logPage]
    /\ Goto(t, [pc[t] EXCEPT !.op = "setCurr"])
    /\ UNCHANGED <<logPage, currBlk, counters, mutex, history>>

(* Mutant: the new block does not become the current one.                  *)
SetCurrKeeps(t) ==
    /\ At(t, "setCurr")
    /\ pc' = IF pc[t].size = 0 THEN [u \in Threads |-> Idle]
             ELSE [pc EXCEPT ![t] = [op |-> "setBytes", size |-> pc[t].size]]
    /\ UNCHANGED <<disk, logPage, currBlk, counters, mutex, history>>

SetCurr(t) ==
    /\ At(t, "setCurr")
    /\ currBlk' = Len(disk)
    /\ pc' = IF pc[t].size = 0 THEN [u \in Threads |-> Idle]
             ELSE [pc EXCEPT ![t] = [op |-> "setBytes", size |-> pc[t].size]]
    /\ UNCHANGED <<disk, logPage, counters, mutex, history>>

SetBytes(t) ==
    LET recPos == logPage.boundary - pc[t].size IN
    /\ At(t, "setBytes")
    /\ logPage' = [logPage EXCEPT !.body[recPos] =
                     [id |-> Len(log) + 1, size |-> pc[t].size]]
    /\ Goto(t, [pc[t] EXCEPT !.op = "setHeader"])
    /\ UNCHANGED <<disk, currBlk, counters, mutex, history>>

SetHeader(t) ==
    /\ At(t, "setHeader")
    /\ logPage' = [logPage EXCEPT !.boundary = @ - pc[t].size]
    /\ log' = Append(log, pc[t].size)
    /\ Goto(t, [pc[t] EXCEPT !.op = "count"])
    /\ UNCHANGED <<disk, currBlk, counters, mutex, base, promised, hidden, crashes>>

CountLsn(t) ==
    /\ At(t, "count")
    /\ latestLsn' = latestLsn + 1
    /\ Goto(t, Idle)
    /\ mutex' = {}
    /\ UNCHANGED <<disk, logPage, currBlk, lastSaveLsn, history>>
-----------------------------------------------------------------------------
(* The process dies and is started again on what the file holds.  If the   *)
(* file had grown and the new block had no header yet, all that is in the  *)
(* file then is out of every later iterator's reach.                       *)
HeaderMissing == \E t \in Threads : pc[t].op \in {"reset", "writeNew"}

Crash ==
    /\ crashes < MaxCrashes
    /\ crashes' = crashes + 1
    /\ Boot(disk)
    /\ log' = SubSeq(log, 1, Len(OnDisk))
    /\ base' = Len(log')
    /\ hidden' = IF HeaderMissing THEN Len(log') ELSE hidden
    /\ UNCHANGED <<disk, promised>>

Step(t) ==
    \/ WritePage(t) \/ SaveLsn(t)
    \/ Grow(t) \/ ResetHeader(t) \/ WriteNew(t) \/ SetCurr(t)
    \/ SetBytes(t) \/ SetHeader(t) \/ CountLsn(t)

Next ==
    \/ \E t \in Threads :
         \/ Step(t)
         \/ Iterate(t)
         \/ \E size \in Sizes : EnterAppend(t, size)
         \/ \E lsn \in -1 .. latestLsn : Flush(t, lsn)
    \/ Crash

Spec == Init /\ [][Next]_vars
-----------------------------------------------------------------------------
(* Properties.                                                             *)

States ==
    [op : {"idle", "start"}]
    \cup [op : {"write", "save"}, from : {"append"}, size : Sizes]
    \cup [op : {"write", "save"}, from : {"flush"}, lsn : -1 .. latestLsn]
    \cup [op : {"write", "save"}, from : {"iterate"}]
    \cup [op : {"grow", "reset", "writeNew", "setCurr"}, size : Sizes \cup {0}]
    \cup [op : {"setBytes", "setHeader", "count"}, size : Sizes]
Pages == [boundary : 0 .. BlockSize,
          body : [Positions -> [id : 0 .. MaxRecords, size : 0 .. BlockSize]]]

TypeOK ==
    /\ disk \in Seq(Pages)
    /\ logPage \in Pages
    /\ currBlk \in 1 .. MaxRecords + MaxCrashes + 1
    /\ latestLsn \in 0 .. MaxRecords /\ lastSaveLsn \in 0 .. MaxRecords
    /\ pc \in [Threads -> States]
    /\ mutex = {} \/ \E t \in Threads : mutex = {t}
    /\ log \in Seq(Sizes) /\ Len(log) <= MaxRecords
    /\ base \in 0 .. Len(log) /\ promised \in 0 .. Len(log)
    /\ hidden \in 0 .. Len(log)

(* The blocks hold the records of the log without a gap, a repetition or a *)
(* change of order, however they were filled, grown, rewritten and cut off *)
(* by crashes.  An iterator begun between calls returns the records of the *)
(* log from the first to the last: all of them, unless a crash once fell   *)
(* between the growth of the file and the new header, and then all that    *)
(* were appended since.                                                    *)
LogInOrder ==
    /\ \A i \in DOMAIN OnDisk : OnDisk[i] = i
    /\ (\A t \in Threads : pc[t] = Idle) =>
          Iterated([i \in 1 .. currBlk |-> IF i = currBlk THEN logPage
                                          ELSE disk[i]])
            = [i \in 1 .. Len(log) - hidden |-> hidden + i]

(* Write-ahead logging rests on this: flush(lsn) returns only when record  *)
(* lsn is in a block of the file, and no later write or crash takes it     *)
(* back; nor does _lastSaveLsn, by which it decides, ever claim a record   *)
(* that is not.                                                            *)
FlushedIsOnDisk ==
    /\ promised <= Len(OnDisk)
    /\ base + lastSaveLsn <= Len(OnDisk)

(* The log refines an append-only sequence with a stable prefix, of which  *)
(* only a crash can hide what is stable from the readers.  What is hidden  *)
(* is what the file holds and an iterator over it, from the current block, *)
(* does not return.                                                        *)
Unread == IF disk = <<>> THEN 0
          ELSE Len(OnDisk) - Len(Iterated([i \in 1 .. currBlk |-> disk[i]]))
Stable == INSTANCE StableLog WITH
            Records <- Sizes, stable <- Len(OnDisk), unread <- Unread
ImplementsStableLog == Stable!Spec
=============================================================================
