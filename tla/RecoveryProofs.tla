--------------------------- MODULE RecoveryProofs ---------------------------
(***************************************************************************)
(* Theorems about Recovery, for every set of blocks and contents and every *)
(* number of transactions, writes and crashes: the types, the atomicity of *)
(* transactions in the face of a crash at any moment, what a block shows   *)
(* outside recovery, the durability of acknowledged commits, and that all  *)
(* of it is a store in which a commit is one step.                         *)
(***************************************************************************)
EXTENDS Recovery, NatLemmas, TLAPS

(* What the proofs need to know of the transaction numbers.                *)
LEMMA TxNumbers ==
  /\ Boot = 1 /\ NoTx = 0 /\ Boot \in Txs /\ Boot \notin Users
  /\ Users \subseteq Txs /\ NoTx \notin Txs /\ Txs = {Boot} \cup Users
  /\ Txs \subseteq Nat
  BY BoundsAssumption DEF Boot, NoTx, Txs, Users

-----------------------------------------------------------------------------
(* The inductive invariant.                                                *)

(* No checkpoint is behind record i.                                       *)
Fresh(i) == \A j \in i .. Len(log) : log[j].op # "CHECKPOINT"

(* The boot transaction has not written its checkpoint yet.                *)
Recovering == \/ At(Boot, "recovering")
              \/ At(Boot, "flushing") /\ tx[Boot].with = "CHECKPOINT"
Settled == ~Recovering /\ ~At(Boot, "exited")

(* The states a transaction can be in.                                     *)
StatesOK ==
    /\ tx[Boot].st \in {"recovering", "flushing", "closing", "over", "exited"}
    /\ tx[Boot].st \in {"flushing", "closing"} =>
         tx[Boot].with \in {"CHECKPOINT", "COMMIT"}
    /\ \A n \in Users :
         /\ tx[n].st # "recovering"
         /\ tx[n].st \in {"flushing", "closing"} =>
              tx[n].with \in {"COMMIT", "ROLLBACK"}
         /\ At(n, "exited") <=> At(Boot, "exited")
         /\ At(n, "undoing") => tx[n].pos <= stable
    /\ (~IsUp /\ ~At(Boot, "exited")) =>
         /\ \A n \in Users : At(n, "none")
         /\ \A b \in Blocks : xlock[b] = NoTx
    /\ Recovering => stable = Len(log)

(* A commit has its record in the log, also while it is being flushed.     *)
HistoryOK ==
    /\ \A c \in commits : c.at \in 1 .. Len(log)
    /\ \A n \in Users : (At(n, "closing") /\ tx[n].with = "COMMIT") =>
          \E c \in commits : c.at = tx[n].lsn

(* Between two checkpoints a transaction number starts once, and first.    *)
SessionOK ==
    \A i \in 1 .. Len(log) : (log[i].op = "START" /\ log[i].tx # Boot) =>
        \A j \in 1 .. i - 1 : log[j].tx = log[i].tx =>
            \E k \in j .. i : log[k].op = "CHECKPOINT"

(* A transaction that has not begun has no record behind the checkpoint.   *)
NoneOK ==
    Settled => \A n \in Users : At(n, "none") =>
        \A j \in 1 .. Len(log) : log[j].tx = n => ~Fresh(j)

(* A rollback finds the START record it goes back to.                      *)
StartOK ==
    \A n \in Users : Live(n) =>
        \E s \in 1 .. Len(log) : /\ log[s] = Rec("START", n)
                                 /\ Fresh(s)
                                 /\ At(n, "undoing") => s <= tx[n].pos

(* What a live transaction has logged, it has locked, and it has no end.   *)
OwnOK ==
    \A n \in Users : Live(n) =>
        \A j \in 1 .. Len(log) : (log[j].tx = n /\ Fresh(j)) =>
            /\ log[j].op \in {"START", "SET"}
            /\ log[j].op = "SET" => xlock[log[j].blk] = n

(* finished holds the ends that the iterator has passed.                   *)
FinishedOK ==
    At(Boot, "recovering") =>
      LET passed == tx[Boot].pos + 1 .. Len(log) IN
      /\ \A j \in passed : log[j].op # "CHECKPOINT"
      /\ \A m \in Txs : m \in finished <=> \E j \in passed : Closes(log[j], m)

(* The records of b that recovery would undo if all of the log survived.    *)
Todo(b) == Losers(b, Len(log))

(* The records of b behind position p that are to be undone, and that b    *)
(* has the oldest content they remember.                                   *)
Undone(b, p) == {i \in Todo(b) : i > p}
Restored(b, p) == Undone(b, p) # {} => buf[b].page = log[Least(Undone(b, p))].old

(* CrashSafe wherever the stable log may end, at this moment or later.     *)
SurvivorsOK ==
    \A b \in Ints : \A k \in stable .. Len(log) : Survives(b, k) = Truth(b, k)

(* A buffer without a transaction is as the disk.                          *)
CleanOK == \A b \in Blocks : buf[b].txnum = NoTx => buf[b].page = disk[b]

(* Recovery has restored what it has passed, and touched nothing else.     *)
RecoveredTo(p) ==
    \A b \in Ints : /\ Restored(b, p)
                    /\ Undone(b, p) = {} => buf[b].txnum = NoTx
                    /\ buf[b].txnum \in {NoTx, Boot}
RecoveringOK ==
    /\ At(Boot, "recovering") => RecoveredTo(tx[Boot].pos)
    /\ (At(Boot, "flushing") /\ tx[Boot].with = "CHECKPOINT") => RecoveredTo(0)

(* Nothing is to be undone in a block that is not locked.                  *)
NothingLeft(b) == Todo(b) = {} /\ buf[b].txnum = NoTx
FreeOK == Settled => \A b \in Ints : xlock[b] = NoTx => NothingLeft(b)

(* What is to be undone in a locked block is its owner's; the block may be *)
(* written to disk only with one of the records that remember it.          *)
OwnersWork(b, n) ==
    /\ Todo(b) # {}
    /\ \A i \in Todo(b) : log[i].tx = n
    /\ buf[b].txnum \in {NoTx, n}
    /\ buf[b].txnum = n =>
         \E i \in Todo(b) : i <= buf[b].lsn \/ i <= stable
OwnerOK(b, n) ==
    /\ n \in Users
    /\ Live(n) \/ At(n, "closing")
    /\ b \in Ints =>
         /\ At(n, "closing") => NothingLeft(b)
         /\ Live(n) => OwnersWork(b, n)
         /\ At(n, "undoing") => Restored(b, tx[n].pos)
         /\ (At(n, "flushing") /\ tx[n].with = "ROLLBACK") => Restored(b, 0)
LockedOK ==
    ~At(Boot, "exited") =>
        \A b \in Blocks : xlock[b] # NoTx => OwnerOK(b, xlock[b])

(* A logged write that is still to be made has its block locked.           *)
WritingOK ==
    \A n \in Users : At(n, "writing") =>
        /\ xlock[tx[n].blk] = n
        /\ tx[n].blk \in Ints => tx[n].lsn \in Todo(tx[n].blk)

IInv ==
    /\ TypeOK /\ StatesOK /\ HistoryOK /\ AckedSurvives
    /\ SessionOK /\ NoneOK /\ StartOK /\ OwnOK /\ FinishedOK
    /\ SurvivorsOK /\ CleanOK /\ RecoveringOK /\ FreeOK /\ LockedOK /\ WritingOK

-----------------------------------------------------------------------------
(* The log as a sequence, and the fields of a transaction's state.         *)

(* The log as a sequence of records, at least one of them stable.          *)
LEMMA LogFacts ==
  ASSUME TypeOK
  PROVE  /\ Len(log) \in Nat
         /\ \A i \in 1 .. Len(log) : log[i] \in Records
         /\ stable \in 1 .. Len(log)
  BY DEF TypeOK

(* What a transaction keeps in each of its states.                         *)
LEMMA TxFields ==
  ASSUME TypeOK, NEW n \in Txs
  PROVE  /\ At(n, "writing") => /\ tx[n].blk \in Blocks /\ tx[n].val \in Vals
                                /\ tx[n].lsn \in 1 .. Len(log)
         /\ At(n, "flushing") => tx[n].with \in {"COMMIT", "ROLLBACK", "CHECKPOINT"}
         /\ At(n, "closing") => /\ tx[n].with \in {"COMMIT", "ROLLBACK", "CHECKPOINT"}
                                /\ tx[n].lsn \in 1 .. Len(log)
         /\ tx[n].st \in {"undoing", "recovering"} => tx[n].pos \in 0 .. Len(log)
<1>1. tx[n] \in TxStates
  BY DEF TypeOK
<1> QED BY <1>1 DEF TxStates, At

(* The fields of a log record.                                             *)
LEMMA RecordFields ==
  ASSUME NEW r \in Records
  PROVE  /\ r.op \in {"START", "SET", "COMMIT", "ROLLBACK", "CHECKPOINT"}
         /\ r.tx \in Txs
         /\ r.op = "SET" => r.tx \in Users /\ r.blk \in Blocks /\ r.old \in Nat
  BY TxNumbers DEF Records

(* The records that the steps make are log records.                        *)
LEMMA MadeRecords ==
  /\ \A n \in Txs, op \in {"START", "COMMIT", "ROLLBACK", "CHECKPOINT"} :
        /\ Rec(op, n) \in Records
        /\ Rec(op, n).op = op /\ Rec(op, n).tx = n
  /\ \A n \in Users, b \in Blocks, old \in Nat :
        /\ SetRec(n, b, old) \in Records
        /\ SetRec(n, b, old).op = "SET" /\ SetRec(n, b, old).tx = n
        /\ SetRec(n, b, old).blk = b /\ SetRec(n, b, old).old = old
  BY DEF Records, Rec, SetRec

(* The log after an append.                                                *)
LEMMA Appended ==
  ASSUME TypeOK, NEW r \in Records, AppendRec(r)
  PROVE  /\ log' \in Seq(Records)
         /\ Len(log') = Len(log) + 1
         /\ \A i \in 1 .. Len(log) : log'[i] = log[i]
         /\ log'[Len(log) + 1] = r
         /\ stable' \in 1 .. Len(log')
         /\ stable <= stable'
  BY DEF TypeOK, AppendRec

(* The log after a crash and the START record of the next session.         *)
LEMMA Truncated ==
  ASSUME TypeOK, Restart
  PROVE  /\ log' \in Seq(Records)
         /\ Len(log') = stable + 1 /\ stable' = stable + 1
         /\ \A i \in 1 .. stable : log'[i] = log[i]
         /\ log'[stable + 1] = Rec("START", Boot)
<1>1. /\ SubSeq(log, 1, stable) \in Seq(Records)
      /\ Len(SubSeq(log, 1, stable)) = stable
      /\ \A i \in 1 .. stable : SubSeq(log, 1, stable)[i] = log[i]
  BY DEF TypeOK
<1>2. Rec("START", Boot) \in Records
  BY MadeRecords, TxNumbers
<1>3. log' = Append(SubSeq(log, 1, stable), Rec("START", Boot)) /\ stable' = Len(log')
  BY DEF Restart
<1>4. stable \in Nat
  BY DEF TypeOK
<1> QED BY <1>1, <1>2, <1>3, <1>4

(* Longer logs have more positions.                                        *)
LEMMA TypesGrow ==
  ASSUME TypeOK, Len(log') \in Nat, Len(log) <= Len(log')
  PROVE  /\ tx \in [Txs -> TxStates']
         /\ buf \in [Blocks -> [page : Nat, txnum : Txs \cup {NoTx}, lsn : 0 .. Len(log')]]
<1>1. 0 .. Len(log) \subseteq 0 .. Len(log') /\ 1 .. Len(log) \subseteq 1 .. Len(log')
  BY DEF TypeOK
<1>2. TxStates \subseteq TxStates'
  BY <1>1 DEF TxStates
<1> QED BY <1>1, <1>2 DEF TypeOK

(* What a record gives back when it is undone is a content of a block.     *)
LEMMA ReadBackIsNat ==
  \A b \in Blocks, old \in Nat : ReadBack(b, old) \in Nat
<1>1. \A len \in Nat : FoundLength(len) \in Nat
  BY DEF FoundLength, Shift
<1> QED BY <1>1 DEF ReadBack

(* The least element of a set of positions.                                *)
LEMMA LeastIs ==
  ASSUME NEW S, S \subseteq Nat, S # {}
  PROVE  Least(S) \in S /\ \A j \in S : Least(S) <= j
<1>1. \E i \in S : \A j \in S : i <= j
  BY LeastExists
<1> QED BY <1>1 DEF Least

(* It stays the least when greater positions are added or removed.         *)
LEMMA LeastStays ==
  ASSUME NEW S, NEW T, S \subseteq Nat, T \subseteq Nat, NEW i \in S, i \in T,
         \A j \in Nat : j <= i => (j \in S <=> j \in T)
  PROVE  Least(S) = Least(T)
<1>1. /\ Least(S) \in S /\ \A j \in S : Least(S) <= j
      /\ Least(T) \in T /\ \A j \in T : Least(T) <= j
  BY LeastIs
<1>2. Least(S) \in Nat /\ Least(T) \in Nat /\ i \in Nat /\ Least(S) <= i /\ Least(T) <= i
  BY <1>1
<1>3. Least(S) \in T /\ Least(T) \in S
  BY <1>1, <1>2
<1>4. Least(S) <= Least(T) /\ Least(T) <= Least(S)
  BY <1>1, <1>3
<1> QED BY <1>2, <1>4

(* The record a rollback turns to: the next of its own, down to its START. *)
LEMMA NextOwnIs ==
  ASSUME TypeOK, StartOK, NEW n \in Users, At(n, "undoing")
  PROVE  /\ NextOwn(n) \in 1 .. tx[n].pos
         /\ log[NextOwn(n)].tx = n
         /\ \A j \in NextOwn(n) + 1 .. tx[n].pos : log[j].tx # n
<1> DEFINE p == tx[n].pos
           own == {i \in 1 .. p : log[i].tx = n}
<1>1. p \in Nat /\ p <= Len(log) /\ Len(log) \in Nat
  BY TxNumbers, TxFields, LogFacts DEF At
<1>2. PICK s \in 1 .. Len(log) : log[s] = Rec("START", n) /\ s <= p
  BY DEF StartOK, Live, At
<1>3. own \subseteq Nat /\ own # {} /\ \A i \in own : i <= p
  BY <1>1, <1>2, MadeRecords, TxNumbers
<1> HIDE DEF p, own
<1>4. PICK i \in own : \A j \in own : j <= i
  BY <1>1, <1>3, GreatestExists
<1>5. i \in 1 .. p /\ log[i].tx = n /\ \A j \in i + 1 .. p : log[j].tx # n
  <2>1. i \in 1 .. p /\ log[i].tx = n
    BY <1>4 DEF own
  <2>2. ASSUME NEW j \in i + 1 .. p, log[j].tx = n PROVE FALSE
    <3>1. j \in own
      BY <1>1, <2>1, <2>2 DEF own
    <3> QED BY <1>1, <1>4, <2>1, <3>1
  <2> QED BY <2>1, <2>2
<1> QED BY <1>5 DEF NextOwn, p

-----------------------------------------------------------------------------
(* Type correctness.                                                       *)

(* Buffer::flush writes a page to the disk, after the log.                 *)
LEMMA FlushTypes ==
  ASSUME TypeOK, NEW b \in Blocks, FlushBuffer(b)
  PROVE  /\ stable' \in {stable, Len(log)}
         /\ disk' \in [Blocks -> Nat]
         /\ buf' \in [Blocks -> [page : Nat, txnum : Txs \cup {NoTx}, lsn : 0 .. Len(log)]]
  BY DEF TypeOK, FlushBuffer, FlushLog

(* A transaction that goes to a state of the new log.                      *)
LEMMA GotoTypes ==
  ASSUME TypeOK, NEW n \in Txs, NEW s \in TxStates', Goto(n, s),
         Len(log') \in Nat, Len(log) <= Len(log')
  PROVE  tx' \in [Txs -> TxStates']
  BY TypesGrow DEF Goto

(* Undoing a record changes a buffer, to a content.                        *)
LEMMA UndoTypes ==
  ASSUME TypeOK, NEW n \in Txs, NEW i \in 1 .. Len(log), log[i].op = "SET", Undo(n, log[i])
  PROVE  buf' \in [Blocks -> [page : Nat, txnum : Txs \cup {NoTx}, lsn : 0 .. Len(log)]]
<1>1. log[i].blk \in Blocks /\ log[i].old \in Nat
  BY LogFacts, RecordFields
<1>2. ReadBack(log[i].blk, log[i].old) \in Nat
  BY <1>1, ReadBackIsNat
<1> QED BY <1>1, <1>2 DEF Undo, TypeOK

(* Begin keeps the types: the START record and the new state.              *)
LEMMA BeginTypes == ASSUME TypeOK, NEW n \in Users, Begin(n) PROVE TypeOK'
<1>0. n \in Txs
  BY TxNumbers
<1>1. Rec("START", n) \in Records
  BY MadeRecords, TxNumbers
<1>2. AppendRec(Rec("START", n))
  BY DEF Begin
<1>3. /\ log' \in Seq(Records) /\ Len(log') = Len(log) + 1 /\ Len(log) \in Nat
      /\ stable' \in 1 .. Len(log')
  BY <1>1, <1>2, Appended, LogFacts
<1>4. tx' \in [Txs -> TxStates']
  <2>1. [st |-> "active"] \in TxStates'
    BY DEF TxStates
  <2> QED BY <1>0, <1>3, <2>1, GotoTypes DEF Begin
<1> QED BY <1>3, <1>4, TypesGrow DEF Begin, TypeOK, history

(* LogWrite keeps the types: the SET record, the lock, the state.          *)
LEMMA LogWriteTypes ==
  ASSUME TypeOK, NEW n \in Users, NEW b \in Blocks, NEW v \in Vals, LogWrite(n, b, v)
  PROVE  TypeOK'
<1>0. n \in Txs
  BY TxNumbers
<1>1. SetRec(n, b, buf[b].page) \in Records
  BY MadeRecords DEF TypeOK
<1>2. AppendRec(SetRec(n, b, buf[b].page))
  BY DEF LogWrite
<1>3. /\ log' \in Seq(Records) /\ Len(log') = Len(log) + 1 /\ Len(log) \in Nat
      /\ stable' \in 1 .. Len(log')
  BY <1>1, <1>2, Appended, LogFacts
<1>4. tx' \in [Txs -> TxStates']
  <2>1. [st |-> "writing", blk |-> b, val |-> v, lsn |-> NextLsn] \in TxStates'
    BY <1>3 DEF TxStates, NextLsn
  <2> QED BY <1>0, <1>3, <2>1, GotoTypes DEF LogWrite
<1>5. xlock' \in [Blocks -> Txs \cup {NoTx}]
  BY TxNumbers DEF LogWrite, TypeOK
<1> QED BY <1>3, <1>4, <1>5, TypesGrow DEF LogWrite, TypeOK, history

(* ApplyWrite keeps the types: the page and the LSN of its buffer.         *)
LEMMA ApplyWriteTypes == ASSUME TypeOK, NEW n \in Users, ApplyWrite(n) PROVE TypeOK'
<1>0. n \in Txs
  BY TxNumbers
<1>1. /\ tx[n].blk \in Blocks /\ tx[n].val \in Nat /\ tx[n].lsn \in 0 .. Len(log)
  <2>1. At(n, "writing")
    BY DEF ApplyWrite
  <2>2. tx[n].blk \in Blocks /\ tx[n].val \in Vals /\ tx[n].lsn \in 1 .. Len(log)
    BY <1>0, <2>1, TxFields
  <2>3. Vals \subseteq Nat
    BY ValsAssumption
  <2>4. Len(log) \in Nat
    BY LogFacts
  <2>5. tx[n].val \in Nat
    BY <2>2, <2>3
  <2>6. \A lsn \in 1 .. Len(log) : lsn \in 0 .. Len(log)
    BY <2>4
  <2> QED BY <2>2, <2>5, <2>6
<1>2. buf' \in [Blocks -> [page : Nat, txnum : Txs \cup {NoTx}, lsn : 0 .. Len(log)]]
  BY <1>1, TxNumbers DEF ApplyWrite, TypeOK
<1>3. tx' \in [Txs -> TxStates']
  <2>1. [st |-> "active"] \in TxStates'
    BY DEF TxStates
  <2> QED BY <1>0, <2>1, GotoTypes, LogFacts DEF ApplyWrite
<1> QED BY <1>2, <1>3 DEF ApplyWrite, TypeOK, history

(* The states of a transaction depend on the log alone.                    *)
LEMMA SameTxStates == UNCHANGED log => TxStates' = TxStates
  BY DEF TxStates

(* A flush by itself keeps the types.                                      *)
LEMMA FlushBufferTypes ==
  ASSUME TypeOK, NEW b \in Blocks, FlushBuffer(b),
         UNCHANGED <<log, tx, xlock, finished, history>>
  PROVE  TypeOK'
<1>1. /\ log' = log /\ tx' = tx /\ xlock' = xlock /\ finished' = finished
      /\ tainted' = tainted
  BY DEF history
<1>2. /\ stable' \in {stable, Len(log)}
      /\ disk' \in [Blocks -> Nat]
      /\ buf' \in [Blocks -> [page : Nat, txnum : Txs \cup {NoTx}, lsn : 0 .. Len(log)]]
  BY FlushTypes
<1>3. stable' \in 1 .. Len(log')
  <2>1. stable \in 1 .. Len(log) /\ Len(log) \in Nat
    BY LogFacts DEF TypeOK
  <2> QED BY <1>1, <1>2, <2>1
<1>4. tx' \in [Txs -> TxStates']
  BY <1>1, SameTxStates DEF TypeOK
<1> QED BY <1>1, <1>2, <1>3, <1>4 DEF TypeOK

(* Close keeps the types: the closing record and the flushed log.          *)
LEMMA CloseTypes == ASSUME TypeOK, NEW n \in Txs, Close(n) PROVE TypeOK'
<1>1. tx[n].with \in {"COMMIT", "ROLLBACK", "CHECKPOINT"}
  BY TxFields DEF Close
<1>2. Rec(tx[n].with, n) \in Records /\ AppendRec(Rec(tx[n].with, n))
  BY <1>1, MadeRecords DEF Close
<1>3. /\ log' \in Seq(Records) /\ Len(log') = Len(log) + 1 /\ Len(log) \in Nat
      /\ stable' \in 1 .. Len(log')
  BY <1>2, Appended, LogFacts
<1>4. tx' \in [Txs -> TxStates']
  <2>1. [st |-> "closing", with |-> tx[n].with, lsn |-> NextLsn] \in TxStates'
    BY <1>1, <1>3 DEF TxStates, NextLsn
  <2> QED BY <1>3, <2>1, GotoTypes DEF Close
<1> QED BY <1>3, <1>4, TypesGrow DEF Close, TypeOK

(* End keeps the types: locks released, the transaction over.              *)
LEMMA EndTypes == ASSUME TypeOK, NEW n \in Txs, End(n) PROVE TypeOK'
<1>1. stable' \in {stable, Len(log)}
  BY DEF End, FlushLog
<1>2. tx' \in [Txs -> TxStates']
  <2>1. /\ [st |-> "flushing", with |-> "COMMIT"] \in TxStates'
        /\ [st |-> "over"] \in TxStates'
    BY DEF TxStates
  <2> QED BY <2>1, GotoTypes, LogFacts DEF End
<1>3. xlock' \in [Blocks -> Txs \cup {NoTx}]
  BY DEF End, Release, TypeOK
<1> QED BY <1>1, <1>2, <1>3, LogFacts DEF End, TypeOK

(* Commit keeps the types.                                                 *)
LEMMA CommitTypes == ASSUME TypeOK, NEW n \in Users, Commit(n) PROVE TypeOK'
<1>0. n \in Txs
  BY TxNumbers
<1>1. [st |-> "flushing", with |-> "COMMIT"] \in TxStates'
  BY DEF TxStates
<1>2. tx' \in [Txs -> TxStates']
  BY <1>0, <1>1, GotoTypes, LogFacts DEF Commit
<1> QED BY <1>2 DEF Commit, TypeOK, history

(* Rollback keeps the types: it starts at the end of the log.              *)
LEMMA RollbackTypes == ASSUME TypeOK, NEW n \in Users, Rollback(n) PROVE TypeOK'
<1>0. n \in Txs
  BY TxNumbers
<1>1. [st |-> "undoing", pos |-> Len(log)] \in TxStates'
  BY LogFacts DEF TxStates, Rollback
<1>2. tx' \in [Txs -> TxStates']
  BY <1>0, <1>1, GotoTypes, LogFacts DEF Rollback
<1> QED BY <1>2, LogFacts DEF Rollback, TypeOK, history

(* Abandon keeps the types.                                                *)
LEMMA AbandonTypes == ASSUME TypeOK, NEW n \in Users, Abandon(n) PROVE TypeOK'
<1>0. n \in Txs
  BY TxNumbers
<1>1. [st |-> "over"] \in TxStates'
  BY DEF TxStates
<1>2. tx' \in [Txs -> TxStates']
  BY <1>0, <1>1, GotoTypes, LogFacts DEF Abandon
<1> QED BY <1>2, TxNumbers DEF Abandon, Release, Wrote, TypeOK

(* Exit keeps the types.                                                   *)
LEMMA ExitTypes == ASSUME TypeOK, NEW n \in Txs, Exit(n) PROVE TypeOK'
  BY DEF Exit, TypeOK, history, TxStates

(* Crash keeps the types: the log is cut and the next START appended.      *)
LEMMA CrashTypes == ASSUME TypeOK, Crash PROVE TypeOK'
<1>1. /\ log' \in Seq(Records) /\ Len(log') = stable + 1 /\ stable' = stable + 1
      /\ stable \in Nat
  BY Truncated DEF Crash, TypeOK
<1>2. tx' \in [Txs -> TxStates']
  <2>1. [st |-> "recovering", pos |-> Len(log')] \in TxStates'
    BY <1>1 DEF TxStates
  <2>2. [st |-> "none"] \in TxStates'
    BY DEF TxStates
  <2> QED BY <2>1, <2>2 DEF Crash, Restart, NotBegun
<1>3. buf' \in [Blocks -> [page : Nat, txnum : Txs \cup {NoTx}, lsn : 0 .. Len(log')]]
  BY <1>1 DEF Crash, Restart, Clean, TypeOK
<1> QED BY <1>1, <1>2, <1>3 DEF Crash, Restart, TypeOK

(* UndoOne keeps the types: the record it finds is in the log.             *)
LEMMA UndoOneTypes == ASSUME IInv, NEW n \in Users, UndoOne(n) PROVE TypeOK'
<1> DEFINE i == NextOwn(n)
<1>0. n \in Txs /\ TypeOK
  BY TxNumbers DEF IInv
<1>1. i \in 1 .. tx[n].pos /\ tx[n].pos \in 0 .. Len(log)
  <2>1. At(n, "undoing") /\ tx[n].st = "undoing"
    BY DEF UndoOne, At
  <2> QED BY <1>0, <2>1, NextOwnIs, TxFields DEF IInv
<1>2. i \in 1 .. Len(log) /\ i - 1 \in 0 .. Len(log)
  BY <1>0, <1>1, LogFacts
<1> HIDE DEF i
<1>3. /\ [st |-> "flushing", with |-> "ROLLBACK"] \in TxStates'
      /\ [st |-> "undoing", pos |-> i - 1] \in TxStates'
  BY <1>2 DEF TxStates, UndoOne
<1>4. tx' \in [Txs -> TxStates']
  BY <1>0, <1>3, GotoTypes, LogFacts DEF UndoOne, i
<1>5. buf' \in [Blocks -> [page : Nat, txnum : Txs \cup {NoTx}, lsn : 0 .. Len(log)]]
  BY <1>0, <1>2, UndoTypes DEF UndoOne, TypeOK, i
<1> QED BY <1>0, <1>4, <1>5 DEF UndoOne, TypeOK, history

(* RecoverOne keeps the types: the iterator stays in the log.              *)
LEMMA RecoverOneTypes == ASSUME TypeOK, RecoverOne PROVE TypeOK'
<1> DEFINE i == tx[Boot].pos
<1>0. Boot \in Txs
  BY TxNumbers
<1>1. i \in 0 .. Len(log) /\ (i # 0 => i \in 1 .. Len(log) /\ i - 1 \in 0 .. Len(log))
  BY <1>0, TxFields, LogFacts DEF RecoverOne, At
<1> HIDE DEF i
<1>2. CASE i = 0
  <2>1. Goto(Boot, [st |-> "flushing", with |-> "CHECKPOINT"]) /\ UNCHANGED <<buf, finished>>
    BY <1>2 DEF RecoverOne, i
  <2>2. [st |-> "flushing", with |-> "CHECKPOINT"] \in TxStates'
    BY DEF TxStates
  <2>3. tx' \in [Txs -> TxStates']
    BY <1>0, <2>1, <2>2, GotoTypes, LogFacts DEF RecoverOne
  <2> QED BY <2>1, <2>3 DEF RecoverOne, TypeOK, history
<1>3. CASE i # 0
  <2>1. /\ [st |-> "flushing", with |-> "CHECKPOINT"] \in TxStates'
        /\ [st |-> "recovering", pos |-> i - 1] \in TxStates'
    BY <1>1, <1>3 DEF TxStates, RecoverOne
  <2>2. tx' \in [Txs -> TxStates']
    BY <1>0, <1>3, <2>1, GotoTypes, LogFacts DEF RecoverOne, i
  <2>3. log[i].tx \in Txs
    BY <1>1, <1>3, LogFacts, RecordFields
  <2>4. finished' \subseteq Txs
    BY <1>3, <2>3 DEF RecoverOne, TypeOK, i
  <2>5. buf' \in [Blocks -> [page : Nat, txnum : Txs \cup {NoTx}, lsn : 0 .. Len(log)]]
    <3>1. UNCHANGED buf \/ (log[i].op = "SET" /\ Undo(Boot, log[i]))
      BY <1>3 DEF RecoverOne, i
    <3> QED BY <1>0, <1>1, <1>3, <3>1, UndoTypes DEF TypeOK
  <2> QED BY <2>2, <2>4, <2>5 DEF RecoverOne, TypeOK, history
<1> QED BY <1>2, <1>3

-----------------------------------------------------------------------------
(* What is to be undone depends on the log alone.                          *)

(* What recovery undoes are SET records of the block.                      *)
LEMMA LosersRange ==
  ASSUME NEW b, NEW k \in Nat
  PROVE  /\ Losers(b, k) \subseteq 1 .. k
         /\ Losers(b, k) \subseteq Nat
         /\ \A i \in Losers(b, k) : log[i].op = "SET" /\ log[i].blk = b
  BY DEF Losers

(* The same of all of the log.                                             *)
LEMMA TodoRange ==
  ASSUME TypeOK, NEW b
  PROVE  /\ Todo(b) \subseteq 1 .. Len(log)
         /\ Todo(b) \subseteq Nat
         /\ \A i \in Todo(b) : log[i].op = "SET" /\ log[i].blk = b
  BY LosersRange, LogFacts DEF Todo

(* The part of the log up to k decides about Losers(b, k).                 *)
LEMMA LosersPrefix ==
  ASSUME NEW b, NEW m \in Nat, \A i \in 1 .. m : log'[i] = log[i], NEW k \in 0 .. m
  PROVE  Losers(b, k)' = Losers(b, k)
<1>1. \A i \in 1 .. k : log'[i] = log[i]
  OBVIOUS
<1>2. \A i \in 1 .. k : \A j \in i .. k : j \in 1 .. k
  OBVIOUS
<1>3. \A i \in 1 .. k : Ended(i, k)' <=> Ended(i, k)
  BY <1>1, <1>2 DEF Ended, Closes
<1> QED BY <1>1, <1>3 DEF Losers

(* As long as the log stays, so does what is to be undone.                 *)
LEMMA TodoSame ==
  ASSUME UNCHANGED log, NEW b
  PROVE  /\ Todo(b)' = Todo(b)
         /\ \A k : Losers(b, k)' = Losers(b, k)
         /\ \A p : Undone(b, p)' = Undone(b, p)
  BY DEF Todo, Losers, Ended, Closes, Undone

(* What one more record changes.                                           *)
LEMMA LosersAppended ==
  ASSUME NEW b, NEW m \in Nat, \A i \in 1 .. m : log'[i] = log[i],
         NEW r, log'[m + 1] = r
  PROVE  \A i : i \in Losers(b, m + 1)' <=>
                 \/ i \in Losers(b, m) /\ r.op # "CHECKPOINT" /\ ~Closes(r, log[i].tx)
                 \/ i = m + 1 /\ r.op = "SET" /\ r.blk = b
<1>1. \A i \in 1 .. m : \A j \in i .. m : j \in 1 .. m
  OBVIOUS
<1>2. ASSUME NEW i \in 1 .. m
      PROVE  Ended(i, m + 1)' <=> \/ Ended(i, m) \/ r.op = "CHECKPOINT"
                                  \/ Closes(r, log[i].tx)
  <2>1. i .. m + 1 = (i .. m) \cup {m + 1}
    OBVIOUS
  <2>2. \A j \in i .. m : log'[j] = log[j]
    BY <1>1
  <2>3. log'[i] = log[i]
    OBVIOUS
  <2> QED BY <2>1, <2>2, <2>3 DEF Ended, Closes
<1>3. Ended(m + 1, m + 1)' <=> r.op = "CHECKPOINT" \/ Closes(r, r.tx)
  <2>1. m + 1 .. m + 1 = {m + 1}
    OBVIOUS
  <2> QED BY <2>1 DEF Ended, Closes
<1>4. r.op = "SET" => ~Ended(m + 1, m + 1)'
  BY <1>3 DEF Closes
<1>5. 1 .. m + 1 = (1 .. m) \cup {m + 1} /\ m + 1 \notin 1 .. m
  OBVIOUS
<1>6. ASSUME NEW i \in 1 .. m
      PROVE  i \in Losers(b, m + 1)' <=>
               i \in Losers(b, m) /\ r.op # "CHECKPOINT" /\ ~Closes(r, log[i].tx)
  BY <1>2, <1>5 DEF Losers
<1>7. m + 1 \in Losers(b, m + 1)' <=> r.op = "SET" /\ r.blk = b
  BY <1>4, <1>5 DEF Losers
<1>8. Losers(b, m + 1)' \subseteq 1 .. m + 1 /\ Losers(b, m) \subseteq 1 .. m
  BY DEF Losers
<1> QED BY <1>5, <1>6, <1>7, <1>8

(* A record to be undone at the end was so ever since it was written.      *)
LEMMA LosersEarlier ==
  ASSUME NEW b, NEW m \in Nat, NEW i \in Losers(b, m), NEW k \in i .. m
  PROVE  i \in Losers(b, k)
<1>1. i \in 1 .. m /\ log[i].op = "SET" /\ log[i].blk = b /\ ~Ended(i, m)
  BY DEF Losers
<1>2. \A j \in i .. k : j \in i .. m
  BY <1>1
<1>3. ~Ended(i, k) /\ i \in 1 .. k
  BY <1>1, <1>2 DEF Ended
<1> QED BY <1>1, <1>3 DEF Losers

(* What is committed is decided by the commit records up to k.             *)
LEMMA TruthSame ==
  ASSUME NEW b, NEW k, NEW l, Writers(b, l)' = Writers(b, k)
  PROVE  Truth(b, l)' = Truth(b, k)
  BY DEF Truth

(* Commits behind position m leave what holds up to m as it is.            *)
LEMMA TruthGrows ==
  ASSUME NEW b, NEW m \in Nat, \A c \in commits : c.at \in 1 .. m,
         NEW C, commits' = commits \cup C,
         \A c \in C : c.at = m + 1
  PROVE  /\ \A k \in 0 .. m : Truth(b, k)' = Truth(b, k)
         /\ (\A c \in C : b \notin DOMAIN c.wrote) => Truth(b, m + 1)' = Truth(b, m)
<1>1. ASSUME NEW k \in 0 .. m PROVE Truth(b, k)' = Truth(b, k)
  <2>1. Writers(b, k)' = Writers(b, k)
    BY DEF Writers
  <2> QED BY <2>1, TruthSame
<1>2. ASSUME \A c \in C : b \notin DOMAIN c.wrote PROVE Truth(b, m + 1)' = Truth(b, m)
  <2>1. Writers(b, m + 1)' = Writers(b, m)
    BY <1>2 DEF Writers
  <2> QED BY <2>1, TruthSame
<1> QED BY <1>1, <1>2

(* The latest commit decides.                                              *)
LEMMA TruthOfLast ==
  ASSUME NEW b, NEW m \in Nat, \A c \in commits : c.at \in 1 .. m,
         NEW d, commits' = commits \cup {d}, d.at = m + 1, b \in DOMAIN d.wrote
  PROVE  Truth(b, m + 1)' = d.wrote[b]
<1> DEFINE W == Writers(b, m + 1)'
           Last == CHOOSE c \in W : \A e \in W : e.at <= c.at
<1>1. d \in W /\ \A c \in W : c = d \/ c.at \in 1 .. m
  BY DEF Writers
<1>2. \A c \in W : c.at <= d.at
  BY <1>1
<1>3. \A c \in W : d.at <= c.at => c = d
  BY <1>1
<1>4. Truth(b, m + 1)' = Last.wrote[b]
  BY <1>1 DEF Truth
<1> HIDE DEF W
<1>5. Last \in W /\ \A e \in W : e.at <= Last.at
  BY <1>1, <1>2
<1> HIDE DEF Last
<1>6. Last = d
  BY <1>1, <1>3, <1>5
<1> QED BY <1>4, <1>6

(* What survives depends on the records to undo and on the disk.           *)
LEMMA SurvivesSame ==
  ASSUME NEW b, NEW k \in Nat, NEW l, Losers(b, l)' = Losers(b, k),
         \A i \in Losers(b, k) : log'[i] = log[i],
         Losers(b, k) = {} => disk'[b] = disk[b]
  PROVE  Survives(b, l)' = Survives(b, k)
<1>1. CASE Losers(b, k) = {}
  BY <1>1 DEF Survives
<1>2. CASE Losers(b, k) # {}
  <2>1. Least(Losers(b, k)) \in Losers(b, k)
    BY <1>2, LosersRange, LeastIs
  <2> QED BY <1>2, <2>1 DEF Survives
<1> QED BY <1>1, <1>2

(* What is restored depends on the log and on the page.                    *)
LEMMA RestoredSame ==
  ASSUME TypeOK, UNCHANGED log, NEW b, buf'[b].page = buf[b].page
  PROVE  /\ Todo(b)' = Todo(b)
         /\ \A p : Undone(b, p)' = Undone(b, p)
         /\ \A p : Restored(b, p)' <=> Restored(b, p)
  BY TodoSame DEF Restored

(* Where the last checkpoint is depends on the log alone.                  *)
LEMMA FreshSame ==
  UNCHANGED log => \A i : Fresh(i)' <=> Fresh(i)
  BY DEF Fresh

-----------------------------------------------------------------------------
(* Steps that leave the log as it is.                                      *)

(* A page may be written at any time: as long as something is to be undone *)
(* in it, one of the records that tell what is on the disk.                *)
LEMMA FlushedIsRemembered ==
  ASSUME IInv, NEW b \in Ints, buf[b].txnum # NoTx, ~At(Boot, "exited"), FlushBuffer(b)
  PROVE  \E i \in Todo(b) : i <= stable'
<1>0. /\ Todo(b) \subseteq 1 .. Len(log) /\ Len(log) \in Nat /\ stable \in 1 .. Len(log)
      /\ b \in Blocks /\ buf[b].lsn \in 0 .. Len(log)
  BY TodoRange, LogFacts DEF IInv, Ints, TypeOK
<1>1. \/ stable' = IF buf[b].lsn >= stable THEN Len(log) ELSE stable
      \/ stable' = Len(log)
  BY DEF FlushBuffer, FlushLog
<1>2. CASE Recovering
  <2>1. \E p : Undone(b, p) # {}
    BY <1>2 DEF IInv, Recovering, RecoveringOK, RecoveredTo
  <2>2. stable = Len(log)
    BY <1>2 DEF IInv, StatesOK
  <2> QED BY <1>0, <1>1, <2>1, <2>2 DEF Undone
<1>3. CASE ~Recovering
  <2>1. xlock[b] # NoTx
    BY <1>3 DEF IInv, FreeOK, NothingLeft, Settled
  <2>2. OwnersWork(b, xlock[b])
    BY <1>0, <2>1 DEF IInv, LockedOK, OwnerOK, NothingLeft
  <2>3. \E i \in Todo(b) : i <= buf[b].lsn \/ i <= stable
    BY <2>2 DEF OwnersWork
  <2> QED BY <1>0, <1>1, <2>3
<1> QED BY <1>2, <1>3

(* A longer stable log disturbs no state of a transaction.                 *)
LEMMA StatesGrow ==
  ASSUME TypeOK, StatesOK, UNCHANGED <<log, tx, xlock>>, stable' \in Nat,
         stable <= stable', stable = Len(log) => stable' = Len(log)
  PROVE  StatesOK'
<1>1. \A n \in Users : At(n, "undoing") => tx[n].pos \in Nat
  BY TxFields, TxNumbers, LogFacts DEF At
<1>2. \A n \in Users : At(n, "undoing") => tx[n].pos <= stable'
  BY <1>1, LogFacts DEF StatesOK
<1> QED BY <1>2 DEF StatesOK, At, IsUp, Recovering

(* A longer stable log disturbs no acknowledged commit.                    *)
LEMMA AckedGrows ==
  ASSUME TypeOK, HistoryOK, AckedSurvives, UNCHANGED acked, commits \subseteq commits',
         stable' \in Nat, stable <= stable'
  PROVE  AckedSurvives'
<1> SUFFICES ASSUME NEW p \in acked PROVE p <= stable' /\ \E c \in commits' : c.at = p
  BY DEF AckedSurvives
<1>1. PICK c \in commits : c.at = p /\ p <= stable
  BY DEF AckedSurvives
<1>2. p \in Nat
  BY <1>1, LogFacts DEF HistoryOK
<1> QED BY <1>1, <1>2, LogFacts

(* Buffer::flush of any page at any time keeps the invariant.              *)
LEMMA FlushKeeps ==
  ASSUME IInv, NEW b \in Blocks, buf[b].txnum # NoTx, ~At(Boot, "exited"),
         FlushBuffer(b), UNCHANGED <<log, tx, xlock, finished, history>>
  PROVE  IInv'
<1>0. /\ TypeOK /\ Len(log) \in Nat /\ stable \in 1 .. Len(log)
      /\ stable' \in {stable, Len(log)}
      /\ UNCHANGED <<commits, acked, tainted>>
  BY LogFacts, FlushTypes DEF IInv, history
<1>1. TypeOK'
  BY FlushBufferTypes DEF IInv
<1>2. /\ \A c \in Blocks : /\ buf'[c].page = buf[c].page
                           /\ buf'[c].lsn = buf[c].lsn
                           /\ buf'[c].txnum = IF c = b THEN NoTx ELSE buf[c].txnum
                           /\ disk'[c] = IF c = b THEN buf[b].page ELSE disk[c]
      /\ Ints' = Ints /\ Ints \subseteq Blocks
  BY <1>0 DEF FlushBuffer, TypeOK, Ints
<1>3. \A c \in Blocks : /\ Todo(c)' = Todo(c)
                        /\ \A p : Undone(c, p)' = Undone(c, p)
                        /\ \A p : Restored(c, p)' <=> Restored(c, p)
                        /\ \A k : Losers(c, k)' = Losers(c, k)
  BY <1>0, <1>2, RestoredSame, TodoSame
<1>4. (StatesOK /\ HistoryOK /\ AckedSurvives)'
  <2>1. stable <= stable' /\ (stable = Len(log) => stable' = Len(log))
    BY <1>0
  <2>2. StatesOK'
    BY <1>0, <2>1, StatesGrow DEF IInv, history
  <2>3. HistoryOK'
    BY <1>0 DEF IInv, HistoryOK, At
  <2>4. AckedSurvives'
    BY <1>0, <2>1, AckedGrows DEF IInv
  <2> QED BY <2>2, <2>3, <2>4
<1>5. (SessionOK /\ NoneOK /\ StartOK /\ OwnOK /\ FinishedOK)'
  BY <1>0, FreshSame DEF IInv, SessionOK, NoneOK, StartOK, OwnOK, FinishedOK, At, Live,
                         Settled, Recovering, Closes
<1>6. SurvivorsOK'
  <2> SUFFICES ASSUME NEW c \in Ints, NEW k \in stable' .. Len(log)
               PROVE  Survives(c, k)' = Truth(c, k)'
    BY <1>0, <1>2 DEF SurvivorsOK
  <2>1. k \in stable .. Len(log) /\ k \in Nat
    BY <1>0
  <2>2. Truth(c, k)' = Truth(c, k)
    BY <1>0 DEF Truth, Writers
  <2>3. Losers(c, k) = {} => disk'[c] = disk[c]
    <3> SUFFICES ASSUME c = b PROVE Losers(c, k) # {}
      BY <1>2
    <3>1. PICK i \in Todo(b) : i <= stable'
      BY FlushedIsRemembered
    <3>2. i \in Losers(b, Len(log)) /\ i \in 1 .. Len(log)
      BY <1>0, TodoRange DEF Todo
    <3>3. k \in i .. Len(log)
      BY <1>0, <3>1, <3>2
    <3> QED BY <1>0, <3>2, <3>3, LosersEarlier
  <2>4. Survives(c, k)' = Survives(c, k)
    BY <1>2, <1>3, <2>1, <2>3, SurvivesSame
  <2> QED BY <2>1, <2>2, <2>4 DEF IInv, SurvivorsOK
<1>7. CleanOK'
  BY <1>2 DEF IInv, CleanOK
<1>8. RecoveringOK'
  BY <1>2, <1>3 DEF IInv, RecoveringOK, RecoveredTo, At
<1>9. FreeOK'
  BY <1>2, <1>3 DEF IInv, FreeOK, NothingLeft, Settled, Recovering, At
<1>10. LockedOK'
  <2> SUFFICES ASSUME ~At(Boot, "exited"), NEW c \in Blocks, xlock[c] # NoTx,
                      NEW n \in Txs, n = xlock[c]
               PROVE  OwnerOK(c, n)'
    BY DEF LockedOK, At, IInv, TypeOK
  <2>1. OwnerOK(c, n)
    BY DEF IInv, LockedOK
  <2>2. OwnersWork(c, n) => OwnersWork(c, n)'
    <3>1. \A i \in Todo(c) : i <= stable => i <= stable'
      BY <1>0, TodoRange
    <3> QED BY <1>0, <1>2, <1>3, <3>1 DEF OwnersWork
  <2>3. NothingLeft(c) => NothingLeft(c)'
    BY <1>2, <1>3 DEF NothingLeft
  <2> QED BY <1>2, <1>3, <2>1, <2>2, <2>3 DEF OwnerOK, Live, At
<1>11. WritingOK'
  BY <1>2, <1>3 DEF IInv, WritingOK, At, TypeOK
<1> QED BY <1>1, <1>4, <1>5, <1>6, <1>7, <1>8, <1>9, <1>10, <1>11 DEF IInv

(* A transaction of a session is under way only when the database is open. *)
LEMMA UserIsUp ==
  ASSUME IInv, NEW n \in Users, tx[n].st \notin {"none", "exited"}
  PROVE  IsUp /\ Settled /\ ~At(Boot, "exited") /\ ~Recovering /\ n \in Txs /\ n # Boot
<1>1. n \in Txs /\ n # Boot
  BY TxNumbers
<1>2. ~At(Boot, "exited")
  BY DEF IInv, StatesOK, At
<1>3. IsUp
  BY <1>2 DEF IInv, StatesOK, At
<1> QED BY <1>1, <1>2, <1>3 DEF IsUp, Settled, Recovering, At

(* One transaction goes to a state, the others stay.                       *)
LEMMA GotoDoes ==
  ASSUME TypeOK, NEW n \in Txs, NEW s, Goto(n, s)
  PROVE  tx'[n] = s /\ \A m \in Txs : m # n => tx'[m] = tx[m]
  BY DEF TypeOK, Goto

(* A step that changes neither records nor pages nor commits.              *)
LEMMA QuietKeeps ==
  ASSUME IInv, UNCHANGED <<log, disk, buf, commits>>, stable' \in {stable, Len(log)},
         tainted \subseteq tainted'
  PROVE  SurvivorsOK' /\ CleanOK' /\ SessionOK'
<1>1. SurvivorsOK'
  <2>1. Ints' \subseteq Ints
    BY DEF Ints
  <2>2. \A k \in stable' .. Len(log) : k \in stable .. Len(log)
    BY LogFacts DEF IInv
  <2>3. \A b, k : Survives(b, k)' = Survives(b, k) /\ Truth(b, k)' = Truth(b, k)
    BY TodoSame DEF Survives, Truth, Writers
  <2> QED BY <2>1, <2>2, <2>3 DEF IInv, SurvivorsOK
<1>2. CleanOK' /\ SessionOK'
  BY DEF IInv, CleanOK, SessionOK
<1> QED BY <1>1, <1>2

(* Commit keeps the invariant: the pages are still to be flushed.          *)
LEMMA CommitKeeps == ASSUME IInv, NEW n \in Users, Commit(n) PROVE IInv'
<1>0. /\ TypeOK /\ n \in Txs /\ n # Boot /\ At(n, "active") /\ IsUp /\ Settled
      /\ ~At(Boot, "exited") /\ ~Recovering /\ Boot \in Txs /\ Users \subseteq Txs
  BY UserIsUp, TxNumbers DEF IInv, Commit, At
<1>1. TypeOK'
  BY <1>0, CommitTypes
<1>2. /\ tx'[n] = [st |-> "flushing", with |-> "COMMIT"]
      /\ \A m \in Txs : m # n => tx'[m] = tx[m]
      /\ UNCHANGED <<log, stable, disk, buf, xlock, finished, commits, acked, tainted>>
  BY <1>0, GotoDoes DEF Commit, history
<1>3. SurvivorsOK' /\ CleanOK' /\ SessionOK'
  BY <1>2, QuietKeeps
<1>4. StatesOK'
  BY <1>0, <1>2 DEF IInv, StatesOK, At, IsUp, Recovering
<1>5. HistoryOK' /\ AckedSurvives'
  BY <1>0, <1>2 DEF IInv, HistoryOK, AckedSurvives, At
<1>6. NoneOK' /\ StartOK' /\ OwnOK' /\ FinishedOK'
  BY <1>0, <1>2, FreshSame DEF IInv, NoneOK, StartOK, OwnOK, FinishedOK, At, Live, Settled,
                               Recovering, IsUp
<1>7. \A b : /\ Todo(b)' = Todo(b)
             /\ NothingLeft(b)' <=> NothingLeft(b)
             /\ \A m : OwnersWork(b, m)' <=> OwnersWork(b, m)
             /\ \A p : Restored(b, p)' <=> Restored(b, p)
  BY <1>2, TodoSame DEF NothingLeft, OwnersWork, Restored
<1>8. Ints' = Ints
  BY <1>2 DEF Ints
<1>9. RecoveringOK' /\ FreeOK'
  BY <1>0, <1>2, <1>7, <1>8 DEF IInv, RecoveringOK, FreeOK, Settled, Recovering, At, IsUp
<1>10. LockedOK'
  <2> SUFFICES ASSUME NEW b \in Blocks, xlock[b] # NoTx, NEW m \in Txs, m = xlock[b]
               PROVE  OwnerOK(b, m)'
    BY <1>2 DEF LockedOK, IInv, TypeOK
  <2>1. OwnerOK(b, m)
    BY <1>0 DEF IInv, LockedOK
  <2> QED BY <1>0, <1>2, <1>7, <1>8, <2>1 DEF OwnerOK, Live, At
<1>11. WritingOK'
  BY <1>0, <1>2, <1>7, <1>8 DEF IInv, WritingOK, At
<1> QED BY <1>1, <1>3, <1>4, <1>5, <1>6, <1>9, <1>10, <1>11 DEF IInv

(* What these steps leave as it is of a block.                             *)
LEMMA BlocksSame ==
  ASSUME TypeOK, UNCHANGED <<log, buf>>, stable' \in {stable, Len(log)}
  PROVE  \A b : /\ Todo(b)' = Todo(b)
                /\ NothingLeft(b)' <=> NothingLeft(b)
                /\ \A m : OwnersWork(b, m) => OwnersWork(b, m)'
                /\ \A p : Undone(b, p)' = Undone(b, p)
                /\ \A p : Restored(b, p)' <=> Restored(b, p)
<1> SUFFICES ASSUME NEW b
             PROVE  /\ Todo(b)' = Todo(b)
                    /\ NothingLeft(b)' <=> NothingLeft(b)
                    /\ \A m : OwnersWork(b, m) => OwnersWork(b, m)'
                    /\ \A p : Undone(b, p)' = Undone(b, p)
                    /\ \A p : Restored(b, p)' <=> Restored(b, p)
  OBVIOUS
<1>1. /\ Todo(b)' = Todo(b)
      /\ NothingLeft(b)' <=> NothingLeft(b)
      /\ \A p : Undone(b, p)' = Undone(b, p)
      /\ \A p : Restored(b, p)' <=> Restored(b, p)
  BY TodoSame DEF NothingLeft, Restored
<1>2. \A i \in Todo(b) : i <= stable => i <= stable'
  BY TodoRange, LogFacts
<1>3. \A m : OwnersWork(b, m) => OwnersWork(b, m)'
  BY <1>1, <1>2 DEF OwnersWork
<1> QED BY <1>1, <1>3

(* Rollback keeps the invariant: nothing has been undone yet.              *)
LEMMA RollbackKeeps == ASSUME IInv, NEW n \in Users, Rollback(n) PROVE IInv'
<1>0. /\ TypeOK /\ n \in Txs /\ n # Boot /\ At(n, "active") /\ IsUp /\ Settled
      /\ ~At(Boot, "exited") /\ ~Recovering /\ Boot \in Txs /\ Users \subseteq Txs
  BY UserIsUp, TxNumbers DEF IInv, Rollback, At
<1>1. TypeOK'
  BY <1>0, RollbackTypes
<1>2. /\ tx'[n] = [st |-> "undoing", pos |-> Len(log)]
      /\ \A m \in Txs : m # n => tx'[m] = tx[m]
      /\ UNCHANGED <<log, disk, buf, xlock, finished, commits, acked, tainted>>
      /\ stable' = Len(log) /\ stable <= stable' /\ Len(log) \in Nat
  BY <1>0, GotoDoes, LogFacts DEF Rollback, history
<1>3. SurvivorsOK' /\ CleanOK' /\ SessionOK'
  BY <1>2, QuietKeeps
<1>4. StatesOK'
  <2>1. \A m \in Users : At(m, "undoing") => tx[m].pos <= stable'
    BY <1>0, <1>2, TxFields DEF At
  <2> QED BY <1>0, <1>2, <2>1 DEF IInv, StatesOK, At, IsUp, Recovering
<1>5. HistoryOK' /\ AckedSurvives'
  BY <1>0, <1>2, AckedGrows DEF IInv, HistoryOK, At
<1>6. NoneOK' /\ StartOK' /\ OwnOK' /\ FinishedOK'
  BY <1>0, <1>2, FreshSame DEF IInv, NoneOK, StartOK, OwnOK, FinishedOK, At, Live, Settled,
                               Recovering, IsUp
<1>7. \A b : /\ Todo(b)' = Todo(b)
             /\ NothingLeft(b)' <=> NothingLeft(b)
             /\ \A m : OwnersWork(b, m) => OwnersWork(b, m)'
             /\ \A p : Restored(b, p)' <=> Restored(b, p)
  BY <1>0, <1>2, BlocksSame
<1>8. Ints' = Ints
  BY <1>2 DEF Ints
<1>9. RecoveringOK' /\ FreeOK'
  BY <1>0, <1>2, <1>7, <1>8 DEF IInv, RecoveringOK, FreeOK, Settled, Recovering, At, IsUp
<1>10. LockedOK'
  <2> SUFFICES ASSUME NEW b \in Blocks, xlock[b] # NoTx, NEW m \in Txs, m = xlock[b]
               PROVE  OwnerOK(b, m)'
    BY <1>2 DEF LockedOK, IInv, TypeOK
  <2>1. OwnerOK(b, m)
    BY <1>0 DEF IInv, LockedOK
  <2>2. CASE m = n
    <3>1. Restored(b, tx'[n].pos)
      <4>1. Undone(b, Len(log)) = {}
        BY <1>0, <1>2, TodoRange DEF Undone
      <4> QED BY <1>2, <4>1 DEF Restored
    <3>2. Live(n) /\ ~At(n, "closing") /\ Live(n)' /\ ~At(n, "closing")' /\ ~At(n, "flushing")'
      BY <1>0, <1>2 DEF Live, At
    <3>3. b \in Ints => OwnersWork(b, n)'
      BY <1>7, <2>1, <2>2, <3>2 DEF OwnerOK
    <3>4. Restored(b, tx[n].pos)'
      BY <1>7, <3>1
    <3> QED BY <1>8, <2>1, <2>2, <3>2, <3>3, <3>4 DEF OwnerOK
  <2>3. CASE m # n
    BY <1>0, <1>2, <1>7, <1>8, <2>1, <2>3 DEF OwnerOK, Live, At
  <2> QED BY <2>2, <2>3
<1>11. WritingOK'
  BY <1>0, <1>2, <1>7, <1>8 DEF IInv, WritingOK, At
<1> QED BY <1>1, <1>3, <1>4, <1>5, <1>6, <1>9, <1>10, <1>11 DEF IInv

(* Exit keeps the invariant: only what is on disk matters now.             *)
LEMMA ExitKeeps == ASSUME IInv, NEW n \in Txs, Exit(n) PROVE IInv'
<1>0. TypeOK /\ Boot \in Txs /\ Users \subseteq Txs
  BY TxNumbers DEF IInv
<1>1. TypeOK'
  BY <1>0, ExitTypes
<1>2. /\ \A m \in Txs : tx'[m] = [st |-> "exited"]
      /\ UNCHANGED <<log, stable, disk, buf, xlock, finished, commits, acked, tainted>>
  BY DEF Exit, history
<1>3. SurvivorsOK' /\ CleanOK' /\ SessionOK'
  BY <1>2, QuietKeeps
<1>4. StatesOK' /\ HistoryOK' /\ AckedSurvives'
  BY <1>0, <1>2 DEF IInv, StatesOK, HistoryOK, AckedSurvives, At, IsUp, Recovering
<1>5. NoneOK' /\ StartOK' /\ OwnOK' /\ FinishedOK'
  BY <1>0, <1>2 DEF NoneOK, StartOK, OwnOK, FinishedOK, At, Live, Settled
<1>6. RecoveringOK' /\ FreeOK' /\ LockedOK' /\ WritingOK'
  BY <1>0, <1>2 DEF RecoveringOK, FreeOK, LockedOK, WritingOK, Settled, At
<1> QED BY <1>1, <1>3, <1>4, <1>5, <1>6 DEF IInv

(* Abandon keeps the invariant: the blocks it leaves are excepted.         *)
LEMMA AbandonKeeps == ASSUME IInv, NEW n \in Users, Abandon(n) PROVE IInv'
<1>0. /\ TypeOK /\ n \in Txs /\ n # Boot /\ Live(n) /\ ~At(n, "closing") /\ IsUp /\ Settled
      /\ ~At(Boot, "exited") /\ ~Recovering /\ Boot \in Txs /\ Users \subseteq Txs
  BY UserIsUp, TxNumbers DEF IInv, Abandon, At, Live
<1>1. TypeOK'
  BY <1>0, AbandonTypes
<1>2. /\ tx'[n] = [st |-> "over"]
      /\ \A m \in Txs : m # n => tx'[m] = tx[m]
      /\ UNCHANGED <<log, stable, disk, buf, finished, commits, acked>>
      /\ \A b \in Blocks : xlock'[b] = IF xlock[b] = n THEN NoTx ELSE xlock[b]
      /\ tainted' = tainted \cup {b \in Blocks : xlock[b] = n}
  BY <1>0, GotoDoes DEF Abandon, Release, Wrote, TypeOK
<1>3. SurvivorsOK' /\ CleanOK' /\ SessionOK'
  BY <1>2, QuietKeeps
<1>4. StatesOK'
  BY <1>0, <1>2 DEF IInv, StatesOK, At, IsUp, Recovering
<1>5. HistoryOK' /\ AckedSurvives'
  BY <1>0, <1>2 DEF IInv, HistoryOK, AckedSurvives, At
<1>6. NoneOK' /\ StartOK' /\ FinishedOK'
  BY <1>0, <1>2, FreshSame DEF IInv, NoneOK, StartOK, FinishedOK, At, Live, Settled,
                               Recovering, IsUp
<1>7. OwnOK'
  <2> SUFFICES ASSUME NEW m \in Users, Live(m)', NEW j \in 1 .. Len(log), log[j].tx = m, Fresh(j)
               PROVE  /\ log[j].op \in {"START", "SET"}
                      /\ log[j].op = "SET" => xlock'[log[j].blk] = m
    BY <1>2, FreshSame DEF OwnOK
  <2>1. m # n /\ Live(m)
    BY <1>0, <1>2 DEF Live
  <2>2. log[j].op = "SET" => log[j].blk \in Blocks
    BY <1>0, LogFacts, RecordFields
  <2> QED BY <1>2, <2>1, <2>2 DEF IInv, OwnOK
<1>8. \A b : /\ Todo(b)' = Todo(b)
             /\ NothingLeft(b)' <=> NothingLeft(b)
             /\ \A m : OwnersWork(b, m) => OwnersWork(b, m)'
             /\ \A p : Restored(b, p)' <=> Restored(b, p)
  BY <1>0, <1>2, BlocksSame
<1>9. Ints' \subseteq Ints /\ \A b \in Ints' : xlock[b] # n /\ b \in Blocks
  BY <1>2 DEF Ints
<1>10. RecoveringOK' /\ FreeOK'
  BY <1>0, <1>2, <1>8, <1>9 DEF IInv, RecoveringOK, FreeOK, Settled, Recovering, At, IsUp
<1>11. LockedOK'
  <2> SUFFICES ASSUME NEW b \in Blocks, xlock'[b] # NoTx, NEW m \in Txs, m = xlock'[b]
               PROVE  OwnerOK(b, m)'
    BY <1>1 DEF LockedOK, TypeOK
  <2>1. OwnerOK(b, m) /\ m # n
    BY <1>0, <1>2, TxNumbers DEF IInv, LockedOK
  <2> QED BY <1>0, <1>2, <1>8, <1>9, <2>1 DEF OwnerOK, Live, At
<1>12. WritingOK'
  BY <1>0, <1>2, <1>8, <1>9, TxFields DEF IInv, WritingOK, At
<1> QED BY <1>1, <1>3, <1>4, <1>5, <1>6, <1>7, <1>10, <1>11, <1>12 DEF IInv

(* The end of a transaction gives up only blocks with nothing to be undone. *)
LEMMA EndKeeps == ASSUME IInv, NEW n \in Txs, End(n) PROVE IInv'
<1>0. /\ TypeOK /\ At(n, "closing") /\ Boot \in Txs /\ Users \subseteq Txs /\ Boot \notin Users
      /\ Len(log) \in Nat /\ stable \in 1 .. Len(log) /\ tx[n].lsn \in 1 .. Len(log)
      /\ n # Boot => n \in Users
  <2>1. TypeOK /\ At(n, "closing")
    BY DEF IInv, End
  <2> QED BY <2>1, TxFields, LogFacts, TxNumbers
<1>1. TypeOK'
  BY <1>0, EndTypes
<1>2. /\ n # Boot => tx'[n] = [st |-> "over"]
      /\ n = Boot => \/ tx[n].with = "COMMIT" /\ tx'[n] = [st |-> "over"]
                     \/ tx[n].with = "CHECKPOINT" /\ tx'[n] = [st |-> "flushing", with |-> "COMMIT"]
      /\ \A m \in Txs : m # n => tx'[m] = tx[m]
      /\ UNCHANGED <<log, disk, buf, finished, commits, tainted>>
      /\ stable' \in {stable, Len(log)} /\ stable <= stable' /\ tx[n].lsn <= stable'
      /\ stable = Len(log) => stable' = Len(log)
      /\ \A b \in Blocks : xlock'[b] = IF xlock[b] = n THEN NoTx ELSE xlock[b]
  <2>1. /\ tx'[n] = IF tx[n].with = "CHECKPOINT" THEN [st |-> "flushing", with |-> "COMMIT"]
                    ELSE [st |-> "over"]
        /\ \A m \in Txs : m # n => tx'[m] = tx[m]
    BY <1>0, GotoDoes DEF End
  <2>2. /\ n # Boot => tx[n].with # "CHECKPOINT"
        /\ n = Boot => tx[n].with \in {"CHECKPOINT", "COMMIT"}
    BY <1>0 DEF IInv, StatesOK, At
  <2>3. /\ stable' \in {stable, Len(log)} /\ stable <= stable' /\ tx[n].lsn <= stable'
        /\ stable = Len(log) => stable' = Len(log)
    BY <1>0 DEF End, FlushLog
  <2> QED BY <2>1, <2>2, <2>3 DEF End, Release
<1>3. SurvivorsOK' /\ CleanOK' /\ SessionOK'
  BY <1>2, QuietKeeps
<1>4. Settled /\ Settled' /\ ~At(Boot, "exited") /\ ~At(Boot, "exited")' /\ ~Recovering'
      /\ (n # Boot => IsUp /\ IsUp') /\ (n = Boot => ~IsUp)
  <2>1. CASE n = Boot
    BY <1>0, <1>2, <2>1 DEF Settled, Recovering, At, IsUp
  <2>2. CASE n # Boot
    <3>1. Settled /\ ~At(Boot, "exited") /\ IsUp /\ ~Recovering
      BY <1>0, <2>2, UserIsUp DEF At
    <3> QED BY <1>0, <1>2, <2>2, <3>1 DEF Settled, Recovering, At, IsUp
  <2> QED BY <2>1, <2>2
<1>5. StatesOK'
  <2>1. \A m \in Users : At(m, "undoing") => tx[m].pos \in Nat
    BY <1>0, TxFields DEF At
  <2>2. \A m \in Users : At(m, "undoing") => tx[m].pos <= stable'
    BY <1>0, <1>2, <2>1 DEF IInv, StatesOK
  <2>3. /\ \A m \in Users : /\ tx'[m].st # "recovering"
                            /\ tx'[m].st \in {"flushing", "closing"} =>
                                 tx'[m].with \in {"COMMIT", "ROLLBACK"}
                            /\ ~At(m, "exited")'
                            /\ At(m, "undoing")' => tx'[m].pos <= stable'
    BY <1>0, <1>2, <1>4, <2>2 DEF IInv, StatesOK, At
  <2>4. /\ tx'[Boot].st \in {"recovering", "flushing", "closing", "over", "exited"}
        /\ tx'[Boot].st \in {"flushing", "closing"} =>
             tx'[Boot].with \in {"CHECKPOINT", "COMMIT"}
    BY <1>0, <1>2 DEF IInv, StatesOK
  <2>5. ~IsUp' => /\ \A m \in Users : At(m, "none")'
                  /\ \A b \in Blocks : xlock'[b] = NoTx
    BY <1>0, <1>2, <1>4 DEF IInv, StatesOK, At
  <2> QED BY <1>4, <2>3, <2>4, <2>5 DEF StatesOK
<1>6. HistoryOK'
  BY <1>0, <1>2 DEF IInv, HistoryOK, At
<1>7. AckedSurvives'
  <2> SUFFICES ASSUME NEW p \in acked' PROVE p <= stable' /\ \E c \in commits : c.at = p
    BY <1>2 DEF AckedSurvives
  <2>1. CASE p \in acked
    <3>1. PICK c \in commits : c.at = p /\ p <= stable
      BY <2>1 DEF IInv, AckedSurvives
    <3>2. p \in Nat
      BY <3>1, <1>0 DEF IInv, HistoryOK
    <3> QED BY <1>0, <1>2, <3>1, <3>2
  <2>2. CASE p \notin acked
    BY <1>0, <1>2, <2>2 DEF End, IInv, HistoryOK
  <2> QED BY <2>1, <2>2
<1>8. NoneOK' /\ StartOK' /\ FinishedOK'
  BY <1>0, <1>2, <1>4, FreshSame DEF IInv, NoneOK, StartOK, FinishedOK, At, Live, Recovering
<1>9. OwnOK'
  <2> SUFFICES ASSUME NEW m \in Users, Live(m)', NEW j \in 1 .. Len(log), log[j].tx = m, Fresh(j)
               PROVE  /\ log[j].op \in {"START", "SET"}
                      /\ log[j].op = "SET" => xlock'[log[j].blk] = m
    BY <1>2, FreshSame DEF OwnOK
  <2>1. m # n /\ Live(m)
    BY <1>0, <1>2 DEF Live
  <2>2. log[j].op = "SET" => log[j].blk \in Blocks
    BY <1>0, LogFacts, RecordFields
  <2> QED BY <1>2, <2>1, <2>2 DEF IInv, OwnOK
<1>10. \A b : /\ Todo(b)' = Todo(b)
              /\ NothingLeft(b)' <=> NothingLeft(b)
              /\ \A m : OwnersWork(b, m) => OwnersWork(b, m)'
              /\ \A p : Restored(b, p)' <=> Restored(b, p)
  BY <1>0, <1>2, BlocksSame
<1>11. Ints' = Ints /\ Ints \subseteq Blocks
  BY <1>2 DEF Ints
<1>12. RecoveringOK'
  BY <1>4 DEF RecoveringOK, Recovering
<1>13. FreeOK'
  <2> SUFFICES ASSUME NEW b \in Ints, xlock'[b] = NoTx PROVE NothingLeft(b)
    BY <1>10, <1>11 DEF FreeOK
  <2>1. CASE xlock[b] = NoTx
    BY <1>4, <2>1 DEF IInv, FreeOK
  <2>2. CASE xlock[b] # NoTx
    <3>1. xlock[b] = n
      BY <1>2, <1>11, <2>2
    <3> QED BY <1>0, <1>4, <1>11, <2>2, <3>1 DEF IInv, LockedOK, OwnerOK
  <2> QED BY <2>1, <2>2
<1>14. LockedOK'
  <2> SUFFICES ASSUME NEW b \in Blocks, xlock'[b] # NoTx, NEW m \in Txs, m = xlock'[b]
               PROVE  OwnerOK(b, m)'
    BY <1>1 DEF LockedOK, TypeOK
  <2>1. OwnerOK(b, m) /\ m # n
    BY <1>2, <1>4, TxNumbers DEF IInv, LockedOK
  <2> QED BY <1>0, <1>2, <1>10, <1>11, <2>1 DEF OwnerOK, Live, At
<1>15. WritingOK'
  BY <1>0, <1>2, <1>10, <1>11, TxFields DEF IInv, WritingOK, At
<1> QED BY <1>1, <1>3, <1>5, <1>6, <1>7, <1>8, <1>9, <1>12, <1>13, <1>14, <1>15 DEF IInv

-----------------------------------------------------------------------------
(* Steps that change pages in the pool.                                    *)

(* The disk is as before, and so is what would be recovered from it.       *)
LEMMA DiskKeeps ==
  ASSUME IInv, UNCHANGED <<log, stable, disk, commits, tainted>>
  PROVE  SurvivorsOK' /\ SessionOK' /\ Ints' = Ints
<1>1. Ints' = Ints
  BY DEF Ints
<1>2. \A b, k : Survives(b, k)' = Survives(b, k) /\ Truth(b, k)' = Truth(b, k)
  BY TodoSame DEF Survives, Truth, Writers
<1>3. SurvivorsOK'
  BY <1>1, <1>2 DEF IInv, SurvivorsOK
<1>4. SessionOK'
  BY DEF IInv, SessionOK
<1> QED BY <1>1, <1>3, <1>4

(* ApplyWrite keeps the invariant: the record was logged before.           *)
LEMMA ApplyWriteKeeps == ASSUME IInv, NEW n \in Users, ApplyWrite(n) PROVE IInv'
<1> DEFINE c == tx[n].blk
<1>0. /\ TypeOK /\ n \in Txs /\ n # Boot /\ At(n, "writing") /\ IsUp /\ Settled
      /\ ~At(Boot, "exited") /\ ~Recovering /\ Boot \in Txs /\ Users \subseteq Txs /\ n # NoTx
  BY UserIsUp, TxNumbers DEF IInv, ApplyWrite, At
<1>1. TypeOK'
  BY <1>0, ApplyWriteTypes
<1>2. /\ tx'[n] = [st |-> "active"]
      /\ \A m \in Txs : m # n => tx'[m] = tx[m]
      /\ UNCHANGED <<log, stable, disk, xlock, finished, commits, acked, tainted>>
  BY <1>0, GotoDoes DEF ApplyWrite, history
<1>3. /\ c \in Blocks /\ tx[n].lsn \in 1 .. Len(log) /\ xlock[c] = n
      /\ c \in Ints => tx[n].lsn \in Todo(c)
  BY <1>0, TxFields DEF IInv, WritingOK
<1>4. /\ buf'[c].txnum = n /\ buf'[c].lsn = tx[n].lsn
      /\ \A b \in Blocks : b # c => buf'[b] = buf[b]
  BY <1>0, <1>3 DEF ApplyWrite, TypeOK
<1> HIDE DEF c
<1>5. SurvivorsOK' /\ SessionOK' /\ Ints' = Ints /\ Ints \subseteq Blocks
  BY <1>2, DiskKeeps DEF Ints
<1>6. CleanOK'
  BY <1>0, <1>2, <1>4 DEF IInv, CleanOK
<1>7. StatesOK' /\ HistoryOK' /\ AckedSurvives'
  BY <1>0, <1>2 DEF IInv, StatesOK, HistoryOK, AckedSurvives, At, IsUp, Recovering
<1>8. NoneOK' /\ StartOK' /\ OwnOK' /\ FinishedOK'
  BY <1>0, <1>2, FreshSame DEF IInv, NoneOK, StartOK, OwnOK, FinishedOK, At, Live, Settled,
                               Recovering, IsUp
<1>9. \A b \in Blocks :
         /\ Todo(b)' = Todo(b)
         /\ b # c => /\ NothingLeft(b)' <=> NothingLeft(b)
                     /\ \A m : OwnersWork(b, m)' <=> OwnersWork(b, m)
                     /\ \A p : Restored(b, p)' <=> Restored(b, p)
  BY <1>2, <1>4, TodoSame DEF NothingLeft, OwnersWork, Restored
<1>10. RecoveringOK'
  BY <1>0, <1>2 DEF RecoveringOK, Recovering, At, IsUp
<1>11. FreeOK'
  BY <1>0, <1>2, <1>3, <1>5, <1>9 DEF IInv, FreeOK
<1>12. LockedOK'
  <2> SUFFICES ASSUME NEW b \in Blocks, xlock[b] # NoTx, NEW m \in Txs, m = xlock[b]
               PROVE  OwnerOK(b, m)'
    BY <1>2 DEF LockedOK, IInv, TypeOK
  <2>1. OwnerOK(b, m)
    BY <1>0 DEF IInv, LockedOK
  <2>2. CASE b = c
    <3>1. m = n /\ Live(n)
      BY <1>0, <1>3, <2>2 DEF Live, At
    <3>2. b \in Ints => OwnersWork(b, n)
      BY <2>1, <3>1 DEF OwnerOK
    <3>3. \A i \in Nat : i <= i
      OBVIOUS
    <3>4. b \in Ints => OwnersWork(b, n)'
      BY <1>0, <1>2, <1>3, <1>4, <1>9, <2>2, <3>2, <3>3 DEF OwnersWork
    <3>5. Live(n)' /\ ~At(n, "closing")' /\ ~At(n, "undoing")' /\ ~At(n, "flushing")'
      BY <1>2 DEF Live, At
    <3> QED BY <1>5, <3>1, <3>4, <3>5 DEF OwnerOK
  <2>3. CASE b # c
    <3>1. CASE m = n
      <4>1. Live(n) /\ Live(n)' /\ ~At(n, "closing")' /\ ~At(n, "undoing")' /\ ~At(n, "flushing")'
        BY <1>0, <1>2 DEF Live, At
      <4> QED BY <1>5, <1>9, <2>1, <2>3, <3>1, <4>1 DEF OwnerOK
    <3>2. CASE m # n
      BY <1>2, <1>5, <1>9, <2>1, <2>3, <3>2 DEF OwnerOK, Live, At
    <3> QED BY <3>1, <3>2
  <2> QED BY <2>2, <2>3
<1>13. WritingOK'
  BY <1>0, <1>2, <1>5, <1>9, TxFields DEF IInv, WritingOK, At
<1> QED BY <1>1, <1>5, <1>6, <1>7, <1>8, <1>10, <1>11, <1>12, <1>13 DEF IInv

(* Going one record back, from position p to i.                            *)
LEMMA UndoRestores ==
  ASSUME TypeOK, UNCHANGED log, NEW b, NEW p \in Nat, NEW i \in 1 .. p,
         \A j \in Todo(b) : j > p \/ j <= i,
         buf'[b].page = IF i \in Todo(b) THEN log[i].old ELSE buf[b].page,
         Restored(b, p)
  PROVE  /\ Restored(b, i - 1)'
         /\ Undone(b, i - 1)' = Undone(b, p) \cup ({i} \cap Todo(b))
<1>1. Todo(b)' = Todo(b) /\ Todo(b) \subseteq Nat
  BY TodoSame, TodoRange
<1>2. Undone(b, i - 1)' = {j \in Todo(b) : j > i - 1}
  BY <1>1 DEF Undone
<1>3. Undone(b, i - 1)' = Undone(b, p) \cup ({i} \cap Todo(b))
  BY <1>1, <1>2 DEF Undone
<1>4. Restored(b, i - 1)'
  <2>1. CASE i \in Todo(b)
    <3>1. Least({j \in Todo(b) : j > i - 1}) = i
      <4> DEFINE S == {j \in Todo(b) : j > i - 1}
      <4>1. S \subseteq Nat /\ i \in S /\ i \in Nat /\ \A j \in S : i <= j
        BY <1>1, <2>1
      <4> HIDE DEF S
      <4>2. Least(S) \in S /\ \A j \in S : Least(S) <= j
        BY <4>1, LeastIs
      <4>3. Least(S) \in Nat /\ Least(S) <= i /\ i <= Least(S)
        BY <4>1, <4>2
      <4>4. Least(S) = i
        BY <4>1, <4>3
      <4> QED BY <4>4 DEF S
    <3> QED BY <1>2, <2>1, <3>1 DEF Restored
  <2>2. CASE i \notin Todo(b)
    <3>1. Undone(b, i - 1)' = Undone(b, p)
      BY <1>3, <2>2
    <3> QED BY <2>2, <3>1 DEF Restored
  <2> QED BY <2>1, <2>2
<1> QED BY <1>3, <1>4

(* A record that nothing ends and no checkpoint follows is to be undone.   *)
LEMMA InTodo ==
  ASSUME TypeOK, NEW i \in 1 .. Len(log), log[i].op = "SET",
         \A j \in i .. Len(log) : log[j].op # "CHECKPOINT" /\ ~Closes(log[j], log[i].tx)
  PROVE  i \in Todo(log[i].blk)
  BY DEF Todo, Losers, Ended

(* Undoing a record changes the buffer of its block, and its owner.        *)
LEMMA UndoDoes ==
  ASSUME TypeOK, NEW n, NEW r, r.blk \in Blocks, Undo(n, r)
  PROVE  /\ buf'[r.blk].page = ReadBack(r.blk, r.old)
         /\ buf'[r.blk].txnum = n
         /\ buf'[r.blk].lsn = buf[r.blk].lsn
         /\ \A b \in Blocks : b # r.blk => buf'[b] = buf[b]
<1>1. /\ buf \in [Blocks -> [page : Nat, txnum : Txs \cup {NoTx}, lsn : 0 .. Len(log)]]
      /\ buf' = [buf EXCEPT ![r.blk].page = ReadBack(r.blk, r.old), ![r.blk].txnum = n]
  BY DEF TypeOK, Undo
<1> QED BY <1>1

(* UndoOne keeps the invariant: one more record of its own is restored.    *)
LEMMA UndoOneKeeps == ASSUME IInv, NEW n \in Users, UndoOne(n) PROVE IInv'
<1> DEFINE p == tx[n].pos
<1>0. /\ TypeOK /\ n \in Txs /\ n # Boot /\ At(n, "undoing") /\ Live(n) /\ IsUp /\ Settled
      /\ ~At(Boot, "exited") /\ ~Recovering /\ Boot \in Txs /\ Users \subseteq Txs /\ n # NoTx
  <2>1. TypeOK /\ At(n, "undoing") /\ Live(n) /\ tx[n].st \notin {"none", "exited"}
    BY DEF IInv, UndoOne, At, Live
  <2> QED BY <2>1, UserIsUp, TxNumbers
<1>1. TypeOK'
  BY UndoOneTypes
<1>2. /\ p \in Nat /\ p <= Len(log) /\ p <= stable
      /\ Len(log) \in Nat /\ stable \in 1 .. Len(log)
  BY <1>0, TxFields, LogFacts DEF IInv, StatesOK, At
<1>3. PICK i \in 1 .. p : /\ i = NextOwn(n) /\ log[i].tx = n
                          /\ \A j \in i + 1 .. p : log[j].tx # n
  BY <1>0, NextOwnIs DEF IInv
<1>4. PICK s \in 1 .. Len(log) : /\ log[s] = Rec("START", n) /\ Fresh(s) /\ s <= p
  BY <1>0 DEF IInv, StartOK
<1>5. /\ i \in 1 .. Len(log) /\ s <= i /\ Fresh(i)
      /\ log[s].op = "START" /\ log[s].tx = n
  <2>1. log[s].op = "START" /\ log[s].tx = n
    BY <1>0, <1>4, MadeRecords
  <2>2. s <= i /\ i \in 1 .. Len(log)
    BY <1>2, <1>3, <1>4, <2>1
  <2>3. \A j \in i .. Len(log) : j \in s .. Len(log)
    BY <1>2, <1>4, <2>2
  <2> QED BY <1>4, <2>1, <2>2, <2>3 DEF Fresh
<1>6. /\ \/ /\ log[i].op = "START"
            /\ Goto(n, [st |-> "flushing", with |-> "ROLLBACK"])
            /\ UNCHANGED buf
         \/ /\ log[i].op = "SET"
            /\ Undo(n, log[i])
            /\ Goto(n, [st |-> "undoing", pos |-> i - 1])
      /\ UNCHANGED <<log, stable, disk, xlock, finished, commits, acked, tainted>>
  BY <1>3 DEF UndoOne, history
<1>7. SurvivorsOK' /\ SessionOK' /\ Ints' = Ints /\ Ints \subseteq Blocks
  BY <1>6, DiskKeeps DEF Ints
<1>8. \A b \in Ints : xlock[b] = n =>
         /\ \A j \in Todo(b) : (j > p \/ j <= i) /\ j \in Nat
         /\ OwnersWork(b, n) /\ Restored(b, p)
  <2> SUFFICES ASSUME NEW b \in Ints, xlock[b] = n
               PROVE  /\ \A j \in Todo(b) : (j > p \/ j <= i) /\ j \in Nat
                      /\ OwnersWork(b, n) /\ Restored(b, p)
    OBVIOUS
  <2>1. OwnersWork(b, n) /\ Restored(b, p)
    BY <1>0, <1>7 DEF IInv, LockedOK, OwnerOK
  <2>2. \A j \in Todo(b) : j \in Nat /\ log[j].tx = n
    BY <1>0, <2>1, TodoRange DEF OwnersWork
  <2> QED BY <1>2, <1>3, <2>1, <2>2
<1>9. \A b \in Blocks : Todo(b)' = Todo(b)
  BY <1>6, TodoSame
<1> HIDE DEF p
<1>10. CASE log[i].op = "START"
  <2>1. /\ tx'[n] = [st |-> "flushing", with |-> "ROLLBACK"]
        /\ \A m \in Txs : m # n => tx'[m] = tx[m]
        /\ UNCHANGED buf
    BY <1>0, <1>6, <1>10, GotoDoes
  <2>2. CleanOK' /\ StatesOK' /\ HistoryOK' /\ AckedSurvives'
    BY <1>0, <1>6, <2>1 DEF IInv, CleanOK, StatesOK, HistoryOK, AckedSurvives, At, IsUp,
                            Recovering
  <2>3. NoneOK' /\ StartOK' /\ OwnOK' /\ FinishedOK'
    BY <1>0, <1>6, <2>1, FreshSame DEF IInv, NoneOK, StartOK, OwnOK, FinishedOK, At, Live,
                                       Settled, Recovering, IsUp
  <2>4. \A b \in Blocks : /\ NothingLeft(b)' <=> NothingLeft(b)
                          /\ \A m : OwnersWork(b, m)' <=> OwnersWork(b, m)
                          /\ \A q : Restored(b, q)' <=> Restored(b, q)
    BY <1>6, <1>9, <2>1, TodoSame DEF NothingLeft, OwnersWork, Restored
  <2>5. RecoveringOK' /\ FreeOK'
    BY <1>0, <1>6, <1>7, <2>1, <2>4 DEF IInv, RecoveringOK, FreeOK, Settled, Recovering, At,
                                        IsUp
  <2>6. LockedOK'
    <3> SUFFICES ASSUME NEW b \in Blocks, xlock[b] # NoTx, NEW m \in Txs, m = xlock[b]
                 PROVE  OwnerOK(b, m)'
      BY <1>6 DEF LockedOK, IInv, TypeOK
    <3>1. OwnerOK(b, m)
      BY <1>0 DEF IInv, LockedOK
    <3>2. CASE m # n
      BY <1>0, <1>7, <2>1, <2>4, <3>1, <3>2 DEF OwnerOK, Live, At
    <3>3. CASE m = n
      <4>1. ASSUME b \in Ints PROVE Restored(b, 0)
(* Behind the START record there is nothing left.                          *)
        <5>1. \A j \in Todo(b) : j > p /\ j \in Nat
          <6> SUFFICES ASSUME NEW j \in Todo(b), j <= i PROVE FALSE
            BY <1>8, <3>3, <4>1
          <6>1. j \in 1 .. Len(log) /\ log[j].op = "SET" /\ log[j].tx = n
            BY <1>0, <1>8, <3>3, <4>1, TodoRange DEF OwnersWork
          <6>2. j \in 1 .. i - 1
            BY <1>5, <1>10, <6>1
          <6>3. PICK k \in j .. i : log[k].op = "CHECKPOINT"
            BY <1>0, <1>3, <1>5, <1>10, <6>1, <6>2 DEF IInv, SessionOK
          <6>4. k \in j .. Len(log)
            BY <1>5, <6>2, <6>3
          <6> QED BY <6>3, <6>4 DEF Todo, Losers, Ended
        <5>2. Undone(b, 0) = Todo(b) /\ Undone(b, p) = Todo(b)
          BY <1>2, <5>1 DEF Undone
        <5>3. Restored(b, p)
          BY <1>8, <3>3, <4>1
        <5> QED BY <5>2, <5>3 DEF Restored
      <4>2. Live(n)' /\ ~At(n, "closing")' /\ ~At(n, "undoing")'
        BY <2>1 DEF Live, At
      <4>3. b \in Ints => OwnersWork(b, n)' /\ Restored(b, 0)'
        BY <1>8, <2>4, <3>3, <4>1
      <4> QED BY <1>7, <3>1, <3>3, <4>2, <4>3 DEF OwnerOK
    <3> QED BY <3>2, <3>3
  <2>7. WritingOK'
    BY <1>0, <1>6, <1>7, <1>9, <2>1, TxFields DEF IInv, WritingOK, At
  <2> QED BY <1>1, <1>7, <2>2, <2>3, <2>5, <2>6, <2>7 DEF IInv
<1>11. CASE log[i].op = "SET"
  <2> DEFINE c == log[i].blk
  <2>1. /\ tx'[n] = [st |-> "undoing", pos |-> i - 1]
        /\ \A m \in Txs : m # n => tx'[m] = tx[m]
    BY <1>0, <1>6, <1>11, GotoDoes
  <2>2. c \in Blocks /\ xlock[c] = n
    BY <1>0, <1>3, <1>5, <1>11, LogFacts, RecordFields DEF IInv, OwnOK
  <2>3. i \in Todo(c)
    <3>1. ASSUME NEW j \in i .. Len(log)
          PROVE  log[j].op # "CHECKPOINT" /\ ~Closes(log[j], log[i].tx)
      <4>1. j \in 1 .. Len(log) /\ log[j].op # "CHECKPOINT"
        BY <1>5 DEF Fresh
      <4>2. Fresh(j)
        <5>1. \A k \in j .. Len(log) : k \in i .. Len(log)
          BY <1>5
        <5> QED BY <1>5, <5>1 DEF Fresh
      <4> QED BY <1>0, <1>3, <4>1, <4>2 DEF IInv, OwnOK, Closes
    <3> QED BY <1>0, <1>5, <1>11, <3>1, InTodo
  <2>4. /\ buf'[c].page = ReadBack(c, log[i].old)
        /\ buf'[c].txnum = n /\ buf'[c].lsn = buf[c].lsn
        /\ \A b \in Blocks : b # c => buf'[b] = buf[b]
    <3>1. Undo(n, log[i])
      BY <1>6, <1>11
    <3> QED BY <1>0, <2>2, <3>1, UndoDoes
  <2>5. \A b \in Ints : i \in Todo(b) <=> b = c
    BY <1>0, <2>3, TodoRange
  <2>6. c \in Ints => buf'[c].page = log[i].old
    BY <2>4 DEF ReadBack, Ints
  <2> HIDE DEF c
  <2>7. CleanOK'
    BY <1>0, <1>6, <2>2, <2>4 DEF IInv, CleanOK
  <2>8. StatesOK' /\ HistoryOK' /\ AckedSurvives'
    <3>1. i - 1 <= stable
      BY <1>2, <1>3
    <3> QED BY <1>0, <1>6, <2>1, <3>1 DEF IInv, StatesOK, HistoryOK, AckedSurvives, At, IsUp,
                                          Recovering
  <2>9. NoneOK' /\ OwnOK' /\ FinishedOK'
    BY <1>0, <1>6, <2>1, FreshSame DEF IInv, NoneOK, OwnOK, FinishedOK, At, Live,
                                       Settled, Recovering, IsUp
  <2>10. StartOK'
    <3>1. s <= i - 1
      <4>1. s # i
        BY <1>5, <1>11
      <4> QED BY <1>5, <4>1
    <3> QED BY <1>0, <1>4, <1>6, <2>1, <3>1, FreshSame DEF IInv, StartOK, At, Live
  <2>11. \A b \in Blocks : b # c => /\ NothingLeft(b)' <=> NothingLeft(b)
                                    /\ \A m : OwnersWork(b, m)' <=> OwnersWork(b, m)
                                    /\ \A q : Restored(b, q)' <=> Restored(b, q)
    BY <1>6, <1>9, <2>4, TodoSame DEF NothingLeft, OwnersWork, Restored
  <2>12. RecoveringOK' /\ FreeOK'
    <3>1. RecoveringOK'
      BY <1>0, <2>1 DEF RecoveringOK, Recovering, At, IsUp
    <3>2. FreeOK'
      BY <1>0, <1>6, <1>7, <2>1, <2>2, <2>11 DEF IInv, FreeOK
    <3> QED BY <3>1, <3>2
  <2>13. LockedOK'
    <3> SUFFICES ASSUME NEW b \in Blocks, xlock[b] # NoTx, NEW m \in Txs, m = xlock[b]
                 PROVE  OwnerOK(b, m)'
      BY <1>6 DEF LockedOK, IInv, TypeOK
    <3>1. OwnerOK(b, m)
      BY <1>0 DEF IInv, LockedOK
    <3>2. CASE m # n
      <4>1. b # c
        BY <2>2, <3>2
      <4> QED BY <1>0, <1>7, <2>1, <2>11, <3>1, <3>2, <4>1 DEF OwnerOK, Live, At
    <3>3. CASE m = n
      <4>1. ASSUME b \in Ints PROVE Restored(b, i - 1)'
        <5>1. buf'[b].page = IF i \in Todo(b) THEN log[i].old ELSE buf[b].page
          BY <2>4, <2>5, <2>6, <4>1
        <5>2. (\A j \in Todo(b) : j > p \/ j <= i) /\ Restored(b, p)
          BY <1>8, <3>3, <4>1
        <5> QED BY <1>0, <1>2, <1>3, <1>6, <5>1, <5>2, UndoRestores
      <4>2. ASSUME b \in Ints PROVE OwnersWork(b, n)'
        <5>1. OwnersWork(b, n)
          BY <1>8, <3>3, <4>2
        <5>2. CASE b = c
          <6>1. i <= stable
            BY <1>2, <1>3
          <6> QED BY <1>6, <1>9, <2>2, <2>3, <2>4, <5>1, <5>2, <6>1 DEF OwnersWork
        <5>3. CASE b # c
          BY <2>11, <5>1, <5>3
        <5> QED BY <5>2, <5>3
      <4>3. Restored(b, i - 1)' => Restored(b, tx[n].pos)'
        BY <2>1
      <4>4. Live(n)' /\ ~At(n, "closing")' /\ ~At(n, "flushing")'
        BY <2>1 DEF Live, At
      <4> QED BY <1>7, <3>1, <3>3, <4>1, <4>2, <4>3, <4>4 DEF OwnerOK
    <3> QED BY <3>2, <3>3
  <2>14. WritingOK'
    BY <1>0, <1>6, <1>7, <1>9, <2>1, TxFields DEF IInv, WritingOK, At
  <2> QED BY <1>1, <1>7, <2>7, <2>8, <2>9, <2>10, <2>12, <2>13, <2>14 DEF IInv
<1> QED BY <1>6, <1>10, <1>11

(* What a step of the iterator does, case by case.                         *)
LEMMA RecoverCases ==
  ASSUME TypeOK, RecoverOne, NEW i, i = tx[Boot].pos
  PROVE  \/ /\ i = 0 \/ log[i].op = "CHECKPOINT"
            /\ Goto(Boot, [st |-> "flushing", with |-> "CHECKPOINT"])
            /\ UNCHANGED <<buf, finished>>
         \/ /\ i # 0 /\ Goto(Boot, [st |-> "recovering", pos |-> i - 1])
            /\ \/ /\ log[i].op \in {"COMMIT", "ROLLBACK"}
                  /\ finished' = finished \cup {log[i].tx}
                  /\ UNCHANGED buf
               \/ /\ log[i].op = "START" \/ (log[i].op = "SET" /\ log[i].tx \in finished)
                  /\ UNCHANGED <<buf, finished>>
               \/ /\ log[i].op = "SET" /\ log[i].tx \notin finished
                  /\ Undo(Boot, log[i])
                  /\ UNCHANGED finished
<1>1. CASE i = 0
  BY <1>1 DEF RecoverOne
<1>2. CASE i # 0
  <2> DEFINE op == log[i].op
  <2>1. \/ /\ op \in {"NONE", "CHECKPOINT"}
           /\ Goto(Boot, [st |-> "flushing", with |-> "CHECKPOINT"])
           /\ UNCHANGED <<buf, finished>>
        \/ /\ op \in {"COMMIT", "ROLLBACK"}
           /\ finished' = finished \cup {log[i].tx}
           /\ Goto(Boot, [st |-> "recovering", pos |-> i - 1])
           /\ UNCHANGED buf
        \/ /\ op \in {"START", "SET"}
           /\ op = "START" \/ log[i].tx \in finished
           /\ Goto(Boot, [st |-> "recovering", pos |-> i - 1])
           /\ UNCHANGED <<buf, finished>>
        \/ /\ op = "SET"
           /\ log[i].tx \notin finished
           /\ Undo(Boot, log[i])
           /\ Goto(Boot, [st |-> "recovering", pos |-> i - 1])
           /\ UNCHANGED finished
    BY <1>2, Zenon DEF RecoverOne
  <2>2. op # "NONE"
    <3>1. i \in 1 .. Len(log)
      BY <1>2, TxFields, TxNumbers, LogFacts DEF RecoverOne, At
    <3> QED BY <3>1, LogFacts, RecordFields
  <2> QED BY <1>2, <2>1, <2>2
<1> QED BY <1>1, <1>2

(* While the database is being opened, nothing is said of transactions and *)
(* locks.                                                                  *)
LEMMA OpeningKeeps ==
  ASSUME IInv, UNCHANGED <<log, stable, disk, xlock, commits, acked, tainted>>,
         Recovering, Recovering', \A n \in Users : tx'[n] = tx[n],
         tx'[Boot].st \in {"recovering", "flushing"}
  PROVE  /\ StatesOK' /\ HistoryOK' /\ AckedSurvives'
         /\ NoneOK' /\ StartOK' /\ OwnOK'
         /\ FreeOK' /\ LockedOK' /\ WritingOK'
<1>1. ~IsUp /\ ~IsUp' /\ ~At(Boot, "exited") /\ ~At(Boot, "exited")' /\ ~Settled /\ ~Settled'
  BY DEF Recovering, IsUp, At, Settled
<1>2. /\ \A n \in Users : At(n, "none") /\ At(n, "none")'
      /\ \A b \in Blocks : xlock[b] = NoTx
      /\ stable = Len(log)
  BY <1>1 DEF IInv, StatesOK, At
<1>3. StatesOK'
  BY <1>1, <1>2 DEF StatesOK, At, Recovering
<1>4. HistoryOK' /\ AckedSurvives'
  BY <1>2 DEF IInv, HistoryOK, AckedSurvives, At
<1>5. NoneOK' /\ StartOK' /\ OwnOK'
  BY <1>1, <1>2 DEF NoneOK, StartOK, OwnOK, Live, At
<1>6. FreeOK' /\ LockedOK' /\ WritingOK'
  BY <1>1, <1>2 DEF FreeOK, LockedOK, WritingOK, At
<1> QED BY <1>3, <1>4, <1>5, <1>6

(* RecoverOne keeps the invariant: one more record is passed.              *)
LEMMA RecoverOneKeeps == ASSUME IInv, RecoverOne PROVE IInv'
<1>0. /\ TypeOK /\ Boot \in Txs /\ Users \subseteq Txs /\ Boot \notin Users /\ Boot # NoTx
      /\ Len(log) \in Nat
  BY TxNumbers, LogFacts DEF IInv
<1>1. /\ At(Boot, "recovering") /\ Recovering
      /\ UNCHANGED <<log, stable, disk, xlock, commits, acked, tainted>>
  BY DEF RecoverOne, Recovering, history
<1>2. PICK i \in 0 .. Len(log) : i = tx[Boot].pos
  BY <1>0, <1>1, TxFields DEF At
<1>3. TypeOK'
  BY <1>0, RecoverOneTypes
<1>4. SurvivorsOK' /\ SessionOK' /\ Ints' = Ints /\ Ints \subseteq Blocks
  BY <1>1, DiskKeeps DEF Ints
<1>5. \A b \in Blocks : Todo(b)' = Todo(b)
  BY <1>1, TodoSame
<1>6. \A b \in Ints : /\ Restored(b, i) /\ (Undone(b, i) = {} => buf[b].txnum = NoTx)
                      /\ buf[b].txnum \in {NoTx, Boot}
  BY <1>1, <1>2 DEF IInv, RecoveringOK, RecoveredTo
<1>7. /\ \A j \in i + 1 .. Len(log) : log[j].op # "CHECKPOINT"
      /\ \A m \in Txs : m \in finished <=> \E j \in i + 1 .. Len(log) : Closes(log[j], m)
  BY <1>1, <1>2 DEF IInv, FinishedOK
<1>8. CASE /\ i = 0 \/ log[i].op = "CHECKPOINT"
           /\ Goto(Boot, [st |-> "flushing", with |-> "CHECKPOINT"])
           /\ UNCHANGED <<buf, finished>>
  <2>1. /\ tx'[Boot] = [st |-> "flushing", with |-> "CHECKPOINT"]
        /\ \A m \in Txs : m # Boot => tx'[m] = tx[m]
    BY <1>0, <1>8, GotoDoes
  <2>2. Recovering' /\ ~At(Boot, "recovering")'
    BY <2>1 DEF Recovering, At
  <2>3. FinishedOK' /\ CleanOK'
    BY <1>1, <1>8, <2>2 DEF FinishedOK, IInv, CleanOK
  <2>4. RecoveringOK'
    <3> SUFFICES ASSUME NEW b \in Ints
                 PROVE  Restored(b, 0)' /\ (Undone(b, 0)' = {} => buf[b].txnum = NoTx)
      BY <1>4, <1>6, <1>8, <2>2 DEF RecoveringOK, RecoveredTo
    <3>1. ASSUME NEW j \in Todo(b) PROVE j > i /\ j \in Nat
      <4>1. j \in 1 .. Len(log) /\ ~Ended(j, Len(log))
        BY <1>0, TodoRange DEF Todo, Losers
      <4>2. CASE i = 0
        BY <4>1, <4>2
      <4>3. CASE i # 0
        <5> SUFFICES ASSUME j <= i PROVE FALSE
          BY <4>1
        <5>1. i \in j .. Len(log)
          BY <4>1
        <5> QED BY <1>8, <4>1, <4>3, <5>1 DEF Ended
      <4> QED BY <4>2, <4>3
    <3>2. Undone(b, 0) = Undone(b, i)
      BY <3>1 DEF Undone
    <3>3. Restored(b, 0) /\ (Undone(b, 0) = {} => buf[b].txnum = NoTx)
      BY <1>6, <3>2 DEF Restored
    <3> QED BY <1>0, <1>1, <1>4, <1>8, <3>3, RestoredSame
  <2> QED BY <1>0, <1>1, <1>3, <1>4, <2>1, <2>2, <2>3, <2>4, OpeningKeeps DEF IInv
<1>9. CASE /\ i # 0 /\ Goto(Boot, [st |-> "recovering", pos |-> i - 1])
           /\ \/ /\ log[i].op \in {"COMMIT", "ROLLBACK"}
                 /\ finished' = finished \cup {log[i].tx}
                 /\ UNCHANGED buf
              \/ /\ log[i].op = "START" \/ (log[i].op = "SET" /\ log[i].tx \in finished)
                 /\ UNCHANGED <<buf, finished>>
              \/ /\ log[i].op = "SET" /\ log[i].tx \notin finished
                 /\ Undo(Boot, log[i])
                 /\ UNCHANGED finished
  <2>1. /\ tx'[Boot] = [st |-> "recovering", pos |-> i - 1]
        /\ \A m \in Txs : m # Boot => tx'[m] = tx[m]
    BY <1>0, <1>9, GotoDoes
  <2>2. /\ Recovering' /\ At(Boot, "recovering")' /\ ~(At(Boot, "flushing")')
        /\ i \in 1 .. Len(log) /\ i - 1 \in Nat
    BY <1>9, <2>1 DEF Recovering, At
  <2>3. log[i].tx \in Txs /\ (log[i].op = "SET" => log[i].blk \in Blocks)
    BY <1>0, <2>2, LogFacts, RecordFields
  <2>4. i - 1 + 1 .. Len(log) = {i} \cup (i + 1 .. Len(log))
    BY <1>0, <2>2
  <2>5. FinishedOK'
    <3>1. \A j \in i - 1 + 1 .. Len(log) : log[j].op # "CHECKPOINT"
      BY <1>7, <1>9, <2>4
    <3>2. ASSUME NEW m \in Txs
          PROVE  m \in finished' <=> \E j \in i - 1 + 1 .. Len(log) : Closes(log[j], m)
      <4>1. m \in finished' <=> m \in finished \/ Closes(log[i], m)
        BY <1>9 DEF Closes
      <4> QED BY <1>7, <2>4, <4>1
    <3> QED BY <1>1, <2>1, <3>1, <3>2 DEF FinishedOK, Closes
  <2>6. log[i].op = "SET" =>
          (i \in Todo(log[i].blk) <=> log[i].tx \notin finished)
    <3> SUFFICES ASSUME log[i].op = "SET"
                 PROVE  i \in Todo(log[i].blk) <=> log[i].tx \notin finished
      OBVIOUS
    <3>1. CASE log[i].tx \in finished
      <4>1. PICK j \in i + 1 .. Len(log) : Closes(log[j], log[i].tx)
        BY <1>7, <2>3, <3>1
      <4>2. j \in i .. Len(log)
        BY <4>1
      <4>3. Ended(i, Len(log))
        BY <4>1, <4>2 DEF Ended
      <4> QED BY <3>1, <4>3 DEF Todo, Losers
    <3>2. CASE log[i].tx \notin finished
      <4>1. i .. Len(log) = {i} \cup (i + 1 .. Len(log))
        BY <1>0, <2>2
      <4>2. \A j \in i .. Len(log) :
               log[j].op # "CHECKPOINT" /\ ~Closes(log[j], log[i].tx)
        BY <1>7, <2>3, <3>2, <4>1 DEF Closes
      <4> QED BY <1>0, <2>2, <3>2, <4>2, InTodo
    <3> QED BY <3>1, <3>2
  <2>7. \A b \in Ints : i \in Todo(b) => log[i].op = "SET" /\ log[i].blk = b
    BY <1>0, TodoRange
  <2>8. ASSUME NEW b \in Ints
        PROVE  /\ buf'[b].page = IF i \in Todo(b) THEN log[i].old ELSE buf[b].page
               /\ i \notin Todo(b) => buf'[b].txnum = buf[b].txnum
               /\ buf'[b].txnum \in {buf[b].txnum, Boot}
    <3>1. CASE UNCHANGED buf /\ (log[i].op = "SET" => log[i].tx \in finished)
      <4>1. i \notin Todo(b)
        BY <2>6, <2>7, <3>1
      <4> QED BY <3>1, <4>1
    <3>2. CASE log[i].op = "SET" /\ log[i].tx \notin finished /\ Undo(Boot, log[i])
      <4>1. /\ buf'[log[i].blk].page = ReadBack(log[i].blk, log[i].old)
            /\ buf'[log[i].blk].txnum = Boot
            /\ \A c \in Blocks : c # log[i].blk => buf'[c] = buf[c]
        BY <1>0, <2>3, <3>2, UndoDoes
      <4>2. CASE b = log[i].blk
        <5>1. i \in Todo(b) /\ ReadBack(b, log[i].old) = log[i].old
          BY <2>6, <3>2, <4>2 DEF ReadBack, Ints
        <5> QED BY <4>1, <4>2, <5>1
      <4>3. CASE b # log[i].blk
        <5>1. i \notin Todo(b) /\ buf'[b] = buf[b]
          BY <1>4, <2>7, <4>1, <4>3
        <5> QED BY <5>1
      <4> QED BY <4>2, <4>3
    <3> QED BY <1>9, <3>1, <3>2
  <2>9. CleanOK'
    <3>1. CASE UNCHANGED buf
      BY <1>1, <3>1 DEF IInv, CleanOK
    <3>2. CASE log[i].op = "SET" /\ Undo(Boot, log[i])
      <4>1. /\ buf'[log[i].blk].txnum = Boot
            /\ \A c \in Blocks : c # log[i].blk => buf'[c] = buf[c]
        BY <1>0, <2>3, <3>2, UndoDoes
      <4> QED BY <1>0, <1>1, <4>1 DEF IInv, CleanOK
    <3> QED BY <1>9, <3>1, <3>2
  <2>10. RecoveringOK'
    <3>1. ASSUME NEW b \in Ints
          PROVE  /\ Restored(b, i - 1)' /\ (Undone(b, i - 1)' = {} => buf'[b].txnum = NoTx)
                 /\ buf'[b].txnum \in {NoTx, Boot}
      <4>1. \A j \in Todo(b) : j > i \/ j <= i
        BY <1>0, TodoRange
      <4>2. /\ Restored(b, i - 1)'
            /\ Undone(b, i - 1)' = Undone(b, i) \cup ({i} \cap Todo(b))
        <5>1. i \in Nat /\ i \in 1 .. i
          BY <2>2
        <5> QED BY <1>0, <1>1, <1>6, <2>8, <4>1, <5>1, UndoRestores
      <4> QED BY <1>6, <2>8, <4>2
    <3> QED BY <1>4, <2>1, <2>2, <3>1 DEF RecoveringOK, RecoveredTo
  <2> QED BY <1>0, <1>1, <1>3, <1>4, <2>1, <2>2, <2>5, <2>9, <2>10, OpeningKeeps DEF IInv
<1> QED BY <1>0, <1>2, <1>8, <1>9, RecoverCases

-----------------------------------------------------------------------------
(* Steps that append to the log.                                           *)

(* What one more record changes in what is to be undone.                   *)
LEMMA TodoAppended ==
  ASSUME TypeOK, NEW r \in Records, AppendRec(r), NEW b
  PROVE  /\ \A i : i \in Todo(b)' <=>
                   \/ i \in Todo(b) /\ r.op # "CHECKPOINT" /\ ~Closes(r, log[i].tx)
                   \/ i = Len(log) + 1 /\ r.op = "SET" /\ r.blk = b
         /\ \A k \in 0 .. Len(log) : Losers(b, k)' = Losers(b, k)
<1>1. PICK m \in Nat : m = Len(log)
  BY LogFacts
<1>2. /\ \A i \in 1 .. m : log'[i] = log[i]
      /\ log'[m + 1] = r /\ Len(log') = m + 1
  BY <1>1, Appended
<1>3. \A i : i \in Losers(b, m + 1)' <=>
              \/ i \in Losers(b, m) /\ r.op # "CHECKPOINT" /\ ~Closes(r, log[i].tx)
              \/ i = m + 1 /\ r.op = "SET" /\ r.blk = b
  BY <1>2, LosersAppended
<1>4. Todo(b)' = Losers(b, m + 1)' /\ Todo(b) = Losers(b, m)
  BY <1>1, <1>2 DEF Todo
<1>5. \A k \in 0 .. m : Losers(b, k)' = Losers(b, k)
  BY <1>2, LosersPrefix
<1> QED BY <1>1, <1>3, <1>4, <1>5

(* Records that do not touch the work left in b.                           *)
LEMMA AppendSame ==
  ASSUME TypeOK, NEW r \in Records, AppendRec(r), NEW b,
         buf'[b] = buf[b], Todo(b)' = Todo(b)
  PROVE  /\ NothingLeft(b)' <=> NothingLeft(b)
         /\ \A n : OwnersWork(b, n) => OwnersWork(b, n)'
         /\ \A p : Undone(b, p)' = Undone(b, p)
         /\ \A p : Restored(b, p)' <=> Restored(b, p)
<1>1. /\ \A i \in 1 .. Len(log) : log'[i] = log[i]
      /\ stable <= stable' /\ stable \in Nat /\ stable' \in Nat
  BY Appended, LogFacts
<1>2. Todo(b) \subseteq Nat /\ \A i \in Todo(b) : log'[i] = log[i] /\ (i <= stable => i <= stable')
  BY <1>1, TodoRange
<1>3. /\ NothingLeft(b)' <=> NothingLeft(b)
      /\ \A p : Undone(b, p)' = Undone(b, p)
  BY DEF NothingLeft, Undone
<1>4. \A n : OwnersWork(b, n) => OwnersWork(b, n)'
  BY <1>2 DEF OwnersWork
<1>5. \A p : Restored(b, p)' <=> Restored(b, p)
  <2> SUFFICES ASSUME NEW p, Undone(b, p) # {}
               PROVE  log'[Least(Undone(b, p))] = log[Least(Undone(b, p))]
    BY <1>3 DEF Restored
  <2>1. Undone(b, p) \subseteq Todo(b) /\ Undone(b, p) \subseteq Nat
    BY <1>2 DEF Undone
  <2>2. Least(Undone(b, p)) \in Undone(b, p)
    BY <2>1, LeastIs
  <2> QED BY <1>2, <2>1, <2>2
<1> QED BY <1>3, <1>4, <1>5

(* Only a checkpoint puts an end to what is fresh.                         *)
LEMMA FreshAppended ==
  ASSUME TypeOK, NEW r \in Records, AppendRec(r), NEW i \in 1 .. Len(log)
  PROVE  Fresh(i)' <=> Fresh(i) /\ r.op # "CHECKPOINT"
<1>1. /\ Len(log) \in Nat /\ Len(log') = Len(log) + 1
      /\ \A j \in 1 .. Len(log) : log'[j] = log[j]
      /\ log'[Len(log) + 1] = r
  BY Appended, LogFacts
<1>2. i .. Len(log') = (i .. Len(log)) \cup {Len(log) + 1}
  BY <1>1
<1> QED BY <1>1, <1>2 DEF Fresh

(* A record is in order, and the disk would be recovered as before, if it  *)
(* is so for the log that ends with this record.                           *)
LEMMA AppendKeeps ==
  ASSUME IInv, NEW r \in Records, AppendRec(r), UNCHANGED <<disk, tainted>>,
         NEW m \in Nat, m = Len(log),
         NEW C, commits' = commits \cup C, \A c \in C : c.at = m + 1,
         \A b \in Ints : Survives(b, m + 1)' = Truth(b, m + 1)',
         (r.op = "START" /\ r.tx # Boot) =>
            \A j \in 1 .. m : log[j].tx = r.tx => ~Fresh(j)
  PROVE  /\ SurvivorsOK' /\ SessionOK' /\ Ints' = Ints /\ Ints \subseteq Blocks
         /\ \A c \in commits' : c.at \in 1 .. Len(log')
<1>0. /\ TypeOK /\ Len(log') = m + 1 /\ stable' \in 1 .. m + 1 /\ stable <= stable'
      /\ stable \in 1 .. m
      /\ \A i \in 1 .. m : log'[i] = log[i]
      /\ log'[m + 1] = r
      /\ Ints' = Ints
      /\ \A c \in commits : c.at \in 1 .. m
  BY Appended, LogFacts DEF IInv, Ints, HistoryOK
<1>1. SurvivorsOK'
  <2> SUFFICES ASSUME NEW b \in Ints, NEW k \in stable' .. m + 1
               PROVE  Survives(b, k)' = Truth(b, k)'
    BY <1>0 DEF SurvivorsOK
  <2>1. CASE k = m + 1
    BY <2>1
  <2>2. CASE k # m + 1
    <3>1. k \in stable .. m /\ k \in Nat /\ k \in 0 .. m
      BY <1>0, <2>2
    <3>2. Truth(b, k)' = Truth(b, k)
      BY <1>0, <3>1, TruthGrows
    <3>3. Losers(b, k)' = Losers(b, k)
      BY <1>0, <3>1, LosersPrefix
    <3>4. \A i \in Losers(b, k) : log'[i] = log[i]
      BY <1>0, <3>1, LosersRange
    <3>5. Survives(b, k)' = Survives(b, k)
      BY <3>1, <3>3, <3>4, SurvivesSame
    <3> QED BY <3>1, <3>2, <3>5 DEF IInv, SurvivorsOK
  <2> QED BY <2>1, <2>2
<1>2. SessionOK'
  <2> SUFFICES ASSUME NEW i \in 1 .. m + 1, log'[i].op = "START", log'[i].tx # Boot,
                      NEW j \in 1 .. i - 1, log'[j].tx = log'[i].tx
               PROVE  \E k \in j .. i : log'[k].op = "CHECKPOINT"
    BY <1>0 DEF SessionOK
  <2>1. CASE i \in 1 .. m
    <3>1. \E k \in j .. i : log[k].op = "CHECKPOINT"
      BY <1>0, <2>1 DEF IInv, SessionOK
    <3>2. \A k \in j .. i : log'[k] = log[k]
      BY <1>0, <2>1
    <3> QED BY <3>1, <3>2
  <2>2. CASE i = m + 1
    <3>1. j \in 1 .. m /\ log[j].tx = r.tx
      BY <1>0, <2>2
    <3>2. ~Fresh(j)
      BY <1>0, <2>2, <3>1
    <3>3. PICK k \in j .. m : log[k].op = "CHECKPOINT"
      BY <3>2 DEF Fresh
    <3>4. k \in j .. i /\ log'[k] = log[k]
      BY <1>0, <2>2, <3>1, <3>3
    <3> QED BY <3>3, <3>4
  <2> QED BY <2>1, <2>2
<1>3. \A c \in commits' : c.at \in 1 .. Len(log')
  BY <1>0
<1> QED BY <1>0, <1>1, <1>2, <1>3 DEF Ints

(* A block that the new record does not concern survives as before.        *)
LEMMA SurvivesOn ==
  ASSUME IInv, NEW r \in Records, AppendRec(r), UNCHANGED disk,
         NEW m \in Nat, m = Len(log), NEW b \in Ints, Todo(b)' = Todo(b),
         NEW C, commits' = commits \cup C, \A c \in C : c.at = m + 1,
         \A c \in C : b \notin DOMAIN c.wrote
  PROVE  Survives(b, m + 1)' = Truth(b, m + 1)'
<1>1. /\ TypeOK /\ Len(log') = m + 1 /\ \A i \in 1 .. m : log'[i] = log[i]
      /\ \A c \in commits : c.at \in 1 .. m
  BY Appended DEF IInv, HistoryOK
<1>2. Losers(b, m + 1)' = Losers(b, m)
  BY <1>1 DEF Todo
<1>3. \A i \in Losers(b, m) : log'[i] = log[i]
  BY <1>1, LosersRange
<1>4. Survives(b, m + 1)' = Survives(b, m)
  BY <1>2, <1>3, SurvivesSame
<1>5. Truth(b, m + 1)' = Truth(b, m)
  BY <1>1, TruthGrows
<1>6. m \in stable .. Len(log)
  BY <1>1, LogFacts
<1> QED BY <1>4, <1>5, <1>6 DEF IInv, SurvivorsOK

(* Begin keeps the invariant: its number is not used in this session.      *)
LEMMA BeginKeeps == ASSUME IInv, NEW n \in Users, Begin(n) PROVE IInv'
<1> DEFINE r == Rec("START", n)
<1>0. /\ TypeOK /\ n \in Txs /\ n # Boot /\ At(n, "none") /\ IsUp /\ Settled
      /\ ~At(Boot, "exited") /\ ~Recovering /\ Boot \in Txs /\ Users \subseteq Txs /\ n # NoTx
  BY TxNumbers DEF IInv, Begin, IsUp, At, Settled, Recovering
<1>1. TypeOK'
  BY <1>0, BeginTypes
<1>2. r \in Records /\ r.op = "START" /\ r.tx = n /\ AppendRec(r)
  BY <1>0, MadeRecords DEF Begin
<1>3. PICK m \in Nat : m = Len(log)
  BY <1>0, LogFacts
<1>4. /\ tx'[n] = [st |-> "active"]
      /\ \A q \in Txs : q # n => tx'[q] = tx[q]
      /\ UNCHANGED <<disk, buf, xlock, finished, commits, acked, tainted>>
  BY <1>0, GotoDoes DEF Begin, history
<1> HIDE DEF r
<1>5. /\ Len(log') = m + 1 /\ stable' \in 1 .. m + 1 /\ stable <= stable' /\ stable \in 1 .. m
      /\ \A i \in 1 .. m : log'[i] = log[i]
      /\ log'[m + 1] = r
      /\ \A i \in 1 .. m : Fresh(i)' <=> Fresh(i)
  BY <1>0, <1>2, <1>3, Appended, LogFacts, FreshAppended
<1>6. \A j \in 1 .. m : log[j].tx = n => ~Fresh(j)
  BY <1>0, <1>3 DEF IInv, NoneOK
<1>7. \A b : Todo(b)' = Todo(b)
  <2> SUFFICES ASSUME NEW b PROVE Todo(b)' = Todo(b)
    OBVIOUS
  <2>1. \A i : ~Closes(r, log[i].tx)
    BY <1>2 DEF Closes
  <2>2. \A i : i \in Todo(b)' <=> i \in Todo(b)
    BY <1>0, <1>2, <2>1, TodoAppended
  <2> QED BY <2>2
<1>8. \A b : /\ NothingLeft(b)' <=> NothingLeft(b)
             /\ \A q : OwnersWork(b, q) => OwnersWork(b, q)'
             /\ \A p : Restored(b, p)' <=> Restored(b, p)
  BY <1>0, <1>2, <1>4, <1>7, AppendSame
<1>9. SurvivorsOK' /\ SessionOK' /\ Ints' = Ints /\ Ints \subseteq Blocks
  <2> DEFINE C == {}
  <2>1. commits' = commits \cup C /\ \A c \in C : c.at = m + 1
    BY <1>4
  <2>2. ASSUME NEW b \in Ints PROVE Survives(b, m + 1)' = Truth(b, m + 1)'
    <3>1. \A c \in C : b \notin DOMAIN c.wrote
      OBVIOUS
    <3> HIDE DEF C
    <3> QED BY <1>2, <1>3, <1>4, <1>7, <2>1, <3>1, SurvivesOn
  <2> HIDE DEF C
  <2> QED BY <1>2, <1>3, <1>4, <1>6, <2>1, <2>2, AppendKeeps
<1>10. CleanOK' /\ HistoryOK' /\ AckedSurvives'
  <2>1. AckedSurvives'
    BY <1>0, <1>4, <1>5, AckedGrows DEF IInv
  <2> QED BY <1>0, <1>3, <1>4, <1>5, <2>1 DEF IInv, CleanOK, HistoryOK, At
<1>11. StatesOK'
  <2>1. \A q \in Users : At(q, "undoing") => tx[q].pos \in Nat
    BY <1>0, TxFields DEF At
  <2>2. \A q \in Users : At(q, "undoing") => tx[q].pos <= stable'
    BY <1>5, <2>1 DEF IInv, StatesOK
  <2> QED BY <1>0, <1>4, <2>2 DEF IInv, StatesOK, At, IsUp, Recovering
<1>12. NoneOK'
  <2> SUFFICES ASSUME NEW q \in Users, q # n, At(q, "none"),
                      NEW j \in 1 .. m + 1, log'[j].tx = q
               PROVE  ~Fresh(j)'
    BY <1>0, <1>4, <1>5 DEF NoneOK, At
  <2>1. j \in 1 .. m /\ log[j].tx = q
    BY <1>2, <1>5
  <2> QED BY <1>0, <1>3, <1>5, <2>1 DEF IInv, NoneOK
<1>13. StartOK'
  <2> SUFFICES ASSUME NEW q \in Users, Live(q)'
               PROVE  \E s \in 1 .. m + 1 : /\ log'[s] = Rec("START", q)
                                            /\ Fresh(s)'
                                            /\ At(q, "undoing")' => s <= tx'[q].pos
    BY <1>5 DEF StartOK
  <2>1. CASE q = n
    <3>1. m + 1 .. m + 1 = {m + 1} /\ m + 1 \in 1 .. m + 1
      BY <1>3
    <3>2. Fresh(m + 1)'
      BY <1>2, <1>5, <3>1 DEF Fresh
    <3> QED BY <1>4, <1>5, <2>1, <3>1, <3>2 DEF r, At
  <2>2. CASE q # n
    <3>1. Live(q) /\ (At(q, "undoing")' <=> At(q, "undoing")) /\ tx'[q] = tx[q]
      BY <1>0, <1>4, <2>2 DEF Live, At
    <3>2. PICK s \in 1 .. m : /\ log[s] = Rec("START", q)
                              /\ Fresh(s)
                              /\ At(q, "undoing") => s <= tx[q].pos
      BY <1>3, <3>1 DEF IInv, StartOK
    <3> QED BY <1>5, <3>1, <3>2
  <2> QED BY <2>1, <2>2
<1>14. OwnOK'
  <2> SUFFICES ASSUME NEW q \in Users, Live(q)',
                      NEW j \in 1 .. m + 1, log'[j].tx = q, Fresh(j)'
               PROVE  /\ log'[j].op \in {"START", "SET"}
                      /\ log'[j].op = "SET" => xlock[log'[j].blk] = q
    BY <1>4, <1>5 DEF OwnOK
  <2>1. CASE j = m + 1
    BY <1>2, <1>5, <2>1
  <2>2. CASE j # m + 1
    <3>1. j \in 1 .. m /\ log'[j] = log[j] /\ log[j].tx = q /\ Fresh(j)
      BY <1>5, <2>2
    <3>2. q # n
      BY <1>6, <3>1
    <3>3. Live(q)
      BY <1>0, <1>4, <3>2 DEF Live
    <3> QED BY <1>3, <3>1, <3>3 DEF IInv, OwnOK
  <2> QED BY <2>1, <2>2
<1>15. FinishedOK' /\ RecoveringOK'
  BY <1>0, <1>4 DEF FinishedOK, RecoveringOK, At, IsUp
<1>16. FreeOK'
  BY <1>0, <1>4, <1>8, <1>9 DEF IInv, FreeOK
<1>17. LockedOK'
  <2> SUFFICES ASSUME NEW b \in Blocks, xlock[b] # NoTx, NEW q \in Txs, q = xlock[b]
               PROVE  OwnerOK(b, q)'
    BY <1>4 DEF LockedOK, IInv, TypeOK
  <2>1. OwnerOK(b, q)
    BY <1>0 DEF IInv, LockedOK
  <2>2. q # n
    BY <1>0, <2>1 DEF OwnerOK, Live, At
  <2> QED BY <1>0, <1>4, <1>8, <1>9, <2>1, <2>2 DEF OwnerOK, Live, At
<1>18. WritingOK'
  <2> SUFFICES ASSUME NEW q \in Users, At(q, "writing")'
               PROVE  /\ xlock'[tx'[q].blk] = q
                      /\ tx'[q].blk \in Ints => tx'[q].lsn \in Todo(tx[q].blk)
    BY <1>0, <1>4, <1>7, <1>9 DEF WritingOK, At
  <2>1. q # n /\ tx'[q] = tx[q] /\ At(q, "writing")
    BY <1>0, <1>4 DEF At
  <2> QED BY <1>4, <2>1 DEF IInv, WritingOK
<1> QED BY <1>1, <1>9, <1>10, <1>11, <1>12, <1>13, <1>14, <1>15, <1>16, <1>17, <1>18 DEF IInv

(* LogWrite keeps the invariant: the new record is its owner's work.       *)
LEMMA LogWriteKeeps ==
  ASSUME IInv, NEW n \in Users, NEW d \in Blocks, NEW v \in Vals, LogWrite(n, d, v)
  PROVE  IInv'
<1> DEFINE r == SetRec(n, d, buf[d].page)
<1>0. /\ TypeOK /\ n \in Txs /\ n # Boot /\ At(n, "active") /\ Live(n) /\ IsUp /\ Settled
      /\ ~At(Boot, "exited") /\ ~Recovering /\ Boot \in Txs /\ Users \subseteq Txs /\ n # NoTx
  BY UserIsUp, TxNumbers DEF IInv, LogWrite, At, Live
<1>1. TypeOK'
  BY <1>0, LogWriteTypes
<1>2. /\ r \in Records /\ r.op = "SET" /\ r.tx = n /\ r.blk = d /\ r.old = buf[d].page
      /\ AppendRec(r)
  <2>1. buf[d].page \in Nat
    BY <1>0 DEF TypeOK
  <2> QED BY <2>1, MadeRecords DEF LogWrite
<1>3. PICK m \in Nat : m = Len(log)
  BY <1>0, LogFacts
<1>4. /\ tx'[n] = [st |-> "writing", blk |-> d, val |-> v, lsn |-> m + 1]
      /\ \A q \in Txs : q # n => tx'[q] = tx[q]
      /\ UNCHANGED <<disk, buf, finished, commits, acked, tainted>>
      /\ xlock[d] \in {NoTx, n} /\ xlock'[d] = n
      /\ \A b \in Blocks : b # d => xlock'[b] = xlock[b]
  BY <1>0, <1>3, GotoDoes DEF LogWrite, history, NextLsn, TypeOK
<1> HIDE DEF r
<1>5. /\ Len(log') = m + 1 /\ stable' \in 1 .. m + 1 /\ stable <= stable' /\ stable \in 1 .. m
      /\ \A i \in 1 .. m : log'[i] = log[i]
      /\ log'[m + 1] = r
      /\ \A i \in 1 .. m : Fresh(i)' <=> Fresh(i)
  BY <1>0, <1>2, <1>3, Appended, LogFacts, FreshAppended
<1>6. /\ \A b : b # d => Todo(b)' = Todo(b)
      /\ \A i : i \in Todo(d)' <=> i \in Todo(d) \/ i = m + 1
  <2>1. \A i : ~Closes(r, log[i].tx)
    BY <1>2 DEF Closes
  <2>2. \A b, i : i \in Todo(b)' <=> i \in Todo(b) \/ (i = m + 1 /\ b = d)
    BY <1>0, <1>2, <1>3, <2>1, TodoAppended
  <2>3. ASSUME NEW b, b # d PROVE Todo(b)' = Todo(b)
    <3>1. \A i : i \in Todo(b)' <=> i \in Todo(b)
      BY <2>2, <2>3
    <3> QED BY <3>1
  <2> QED BY <2>2, <2>3
<1>7. Ints' = Ints /\ Ints \subseteq Blocks
  BY <1>4 DEF Ints
<1>8. \A b : b # d => /\ NothingLeft(b)' <=> NothingLeft(b)
                      /\ \A q : OwnersWork(b, q) => OwnersWork(b, q)'
                      /\ \A p : Restored(b, p)' <=> Restored(b, p)
  BY <1>0, <1>2, <1>4, <1>6, AppendSame
<1>9. /\ \A i \in Todo(d) : i \in 1 .. m /\ log'[i] = log[i]
      /\ Todo(d) \subseteq Nat /\ Todo(d)' \subseteq Nat
  BY <1>0, <1>3, <1>5, <1>6, TodoRange
(* Either d was free and the new record remembers what was committed, or   *)
(* n has an earlier record that does.                                      *)
<1>10. d \in Ints => \/ NothingLeft(d) /\ xlock[d] = NoTx
                     \/ OwnersWork(d, n) /\ xlock[d] = n
  <2> SUFFICES ASSUME d \in Ints
               PROVE  \/ NothingLeft(d) /\ xlock[d] = NoTx
                      \/ OwnersWork(d, n) /\ xlock[d] = n
    OBVIOUS
  <2>1. CASE xlock[d] = NoTx
    BY <1>0, <2>1 DEF IInv, FreeOK
  <2>2. CASE xlock[d] = n
    BY <1>0, <2>2 DEF IInv, LockedOK, OwnerOK
  <2> QED BY <1>4, <2>1, <2>2
<1>11. SurvivorsOK' /\ SessionOK'
  <2> DEFINE C == {}
  <2>1. commits' = commits \cup C /\ \A c \in C : c.at = m + 1
    BY <1>4
  <2>2. \A b : \A c \in C : b \notin DOMAIN c.wrote
    OBVIOUS
  <2> HIDE DEF C
  <2>3. ASSUME NEW b \in Ints, b # d PROVE Survives(b, m + 1)' = Truth(b, m + 1)'
    <3>1. Todo(b)' = Todo(b)
      BY <1>6, <2>3
    <3> QED BY <1>2, <1>3, <1>4, <2>1, <2>2, <3>1, SurvivesOn
  <2>4. ASSUME d \in Ints PROVE Survives(d, m + 1)' = Truth(d, m + 1)'
    <3>1. Truth(d, m + 1)' = Truth(d, m)
      BY <1>3, <2>1, <2>2, TruthGrows DEF IInv, HistoryOK
    <3>2. Survives(d, m) = Truth(d, m)
      BY <1>3, <1>5, <2>4 DEF IInv, SurvivorsOK
    <3>3. Todo(d) = Losers(d, m) /\ Todo(d)' = Losers(d, m + 1)'
      BY <1>3, <1>5 DEF Todo
    <3>4. CASE Todo(d) = {}
      <4>1. buf[d].page = disk[d]
        BY <1>10, <2>4, <3>4 DEF IInv, CleanOK, NothingLeft, OwnersWork
      <4>2. Todo(d)' = {m + 1}
        BY <1>6, <3>4
      <4>3. Least(Todo(d)') = m + 1
        BY <1>9, <4>2, LeastIs
      <4>4. Survives(d, m + 1)' = buf[d].page
        BY <1>2, <1>5, <3>3, <4>2, <4>3 DEF Survives
      <4> QED BY <3>1, <3>2, <3>3, <3>4, <4>1, <4>4 DEF Survives
    <3>5. CASE Todo(d) # {}
      <4>1. Least(Todo(d)) \in Todo(d)
        BY <1>9, <3>5, LeastIs
      <4>2. Least(Todo(d)') = Least(Todo(d))
        <5>1. PICK i \in Nat : i = Least(Todo(d))
          BY <1>9, <4>1
        <5>2. i \in Todo(d) /\ i \in Todo(d)' /\ i <= m
          BY <1>3, <1>6, <1>9, <4>1, <5>1
        <5>3. \A j \in Nat : j <= i => (j \in Todo(d) <=> j \in Todo(d)')
          BY <1>3, <1>6, <5>2
        <5> QED BY <1>9, <5>2, <5>3, LeastStays
      <4>3. Survives(d, m + 1)' = Survives(d, m)
        BY <1>6, <1>9, <3>3, <3>5, <4>1, <4>2 DEF Survives
      <4> QED BY <3>1, <3>2, <4>3
    <3> QED BY <3>4, <3>5
  <2>5. \A b \in Ints : Survives(b, m + 1)' = Truth(b, m + 1)'
    BY <2>3, <2>4
  <2> QED BY <1>2, <1>3, <1>4, <2>1, <2>5, AppendKeeps
<1>12. CleanOK' /\ HistoryOK' /\ AckedSurvives'
  <2>1. AckedSurvives'
    BY <1>0, <1>4, <1>5, AckedGrows DEF IInv
  <2> QED BY <1>0, <1>3, <1>4, <1>5, <2>1 DEF IInv, CleanOK, HistoryOK, At
<1>13. StatesOK'
  <2>1. \A q \in Users : At(q, "undoing") => tx[q].pos \in Nat
    BY <1>0, TxFields DEF At
  <2>2. \A q \in Users : At(q, "undoing") => tx[q].pos <= stable'
    BY <1>5, <2>1 DEF IInv, StatesOK
  <2> QED BY <1>0, <1>4, <2>2 DEF IInv, StatesOK, At, IsUp, Recovering
<1>14. NoneOK'
  <2> SUFFICES ASSUME NEW q \in Users, q # n, At(q, "none"),
                      NEW j \in 1 .. m + 1, log'[j].tx = q
               PROVE  ~Fresh(j)'
    BY <1>0, <1>4, <1>5 DEF NoneOK, At
  <2>1. j \in 1 .. m /\ log[j].tx = q
    BY <1>2, <1>5
  <2> QED BY <1>0, <1>3, <1>5, <2>1 DEF IInv, NoneOK
<1>15. StartOK'
  <2> SUFFICES ASSUME NEW q \in Users, Live(q)'
               PROVE  \E s \in 1 .. m + 1 : /\ log'[s] = Rec("START", q)
                                            /\ Fresh(s)'
                                            /\ At(q, "undoing")' => s <= tx'[q].pos
    BY <1>5 DEF StartOK
  <2>1. Live(q) /\ (At(q, "undoing")' => At(q, "undoing") /\ tx'[q] = tx[q])
    BY <1>0, <1>4 DEF Live, At
  <2>2. PICK s \in 1 .. m : /\ log[s] = Rec("START", q)
                            /\ Fresh(s)
                            /\ At(q, "undoing") => s <= tx[q].pos
    BY <1>3, <2>1 DEF IInv, StartOK
  <2> QED BY <1>5, <2>1, <2>2
<1>16. OwnOK'
  <2> SUFFICES ASSUME NEW q \in Users, Live(q)',
                      NEW j \in 1 .. m + 1, log'[j].tx = q, Fresh(j)'
               PROVE  /\ log'[j].op \in {"START", "SET"}
                      /\ log'[j].op = "SET" => xlock'[log'[j].blk] = q
    BY <1>5 DEF OwnOK
  <2>1. CASE j = m + 1
    BY <1>2, <1>4, <1>5, <2>1
  <2>2. CASE j # m + 1
    <3>1. j \in 1 .. m /\ log'[j] = log[j] /\ log[j].tx = q /\ Fresh(j) /\ Live(q)
      BY <1>0, <1>4, <1>5, <2>2 DEF Live, At
    <3>2. /\ log[j].op \in {"START", "SET"}
          /\ log[j].op = "SET" => xlock[log[j].blk] = q /\ log[j].blk \in Blocks
      BY <1>0, <1>3, <3>1, LogFacts, RecordFields DEF IInv, OwnOK
    <3>3. q # NoTx
      BY TxNumbers
    <3> QED BY <1>4, <3>1, <3>2, <3>3
  <2> QED BY <2>1, <2>2
<1>17. FinishedOK' /\ RecoveringOK'
  BY <1>0, <1>4 DEF FinishedOK, RecoveringOK, At, IsUp
<1>18. FreeOK'
  BY <1>0, <1>4, <1>7, <1>8 DEF IInv, FreeOK
<1>19. LockedOK'
  <2> SUFFICES ASSUME NEW b \in Blocks, xlock'[b] # NoTx, NEW q \in Txs, q = xlock'[b]
               PROVE  OwnerOK(b, q)'
    BY <1>1 DEF LockedOK, TypeOK
  <2>1. CASE b = d
    <3>1. q = n /\ Live(n)' /\ ~At(n, "closing")' /\ ~At(n, "undoing")' /\ ~At(n, "flushing")'
      BY <1>4, <2>1 DEF Live, At
    <3>2. ASSUME d \in Ints PROVE OwnersWork(d, n)'
      <4>1. \A i \in Todo(d)' : log'[i].tx = n
        BY <1>2, <1>5, <1>6, <1>9, <1>10, <3>2 DEF NothingLeft, OwnersWork
      <4>2. buf[d].txnum \in {NoTx, n}
        BY <1>10, <3>2 DEF NothingLeft, OwnersWork
      <4>3. buf[d].txnum = n => \E i \in Todo(d)' : i <= buf[d].lsn \/ i <= stable'
        <5>1. \A i \in Todo(d) : i <= stable => i <= stable'
          BY <1>5, <1>9
        <5> QED BY <1>0, <1>6, <1>10, <3>2, <5>1 DEF NothingLeft, OwnersWork
      <4>4. Todo(d)' # {}
        BY <1>6
      <4> QED BY <1>4, <4>1, <4>2, <4>3, <4>4 DEF OwnersWork
    <3> QED BY <1>7, <2>1, <3>1, <3>2 DEF OwnerOK
  <2>2. CASE b # d
    <3>1. OwnerOK(b, q)
      BY <1>0, <1>4, <2>2 DEF IInv, LockedOK
    <3>2. CASE q = n
      <4>1. Live(n)' /\ ~At(n, "closing")' /\ ~At(n, "undoing")' /\ ~At(n, "flushing")'
        BY <1>4 DEF Live, At
      <4> QED BY <1>0, <1>7, <1>8, <2>2, <3>1, <3>2, <4>1 DEF OwnerOK
    <3>3. CASE q # n
      BY <1>0, <1>4, <1>7, <1>8, <2>2, <3>1, <3>3 DEF OwnerOK, Live, At
    <3> QED BY <3>2, <3>3
  <2> QED BY <2>1, <2>2
<1>20. WritingOK'
  <2> SUFFICES ASSUME NEW q \in Users, At(q, "writing")'
               PROVE  /\ xlock'[tx'[q].blk] = q
                      /\ tx'[q].blk \in Ints => tx'[q].lsn \in Todo(tx[q].blk)'
    BY <1>7 DEF WritingOK
  <2>1. CASE q = n
    BY <1>4, <1>6, <2>1
  <2>2. CASE q # n
    <3>1. tx'[q] = tx[q] /\ At(q, "writing") /\ q # NoTx
      BY <1>0, <1>4, <2>2, TxNumbers DEF At
    <3>2. tx[q].blk \in Blocks /\ xlock[tx[q].blk] = q
      BY <1>0, <3>1, TxFields DEF IInv, WritingOK
    <3>3. tx[q].blk # d
      BY <1>4, <2>2, <3>1, <3>2
    <3> QED BY <1>4, <1>6, <3>1, <3>2, <3>3 DEF IInv, WritingOK
  <2> QED BY <2>1, <2>2
<1> QED BY <1>1, <1>11, <1>12, <1>13, <1>14, <1>15, <1>16, <1>17, <1>18, <1>19, <1>20
      DEF IInv

(* A closing record ends the work in the blocks of its transaction, and it *)
(* is written only when their pages are on disk.                           *)
LEMMA CloseKeeps == ASSUME IInv, NEW n \in Txs, Close(n) PROVE IInv'
<1> DEFINE w == tx[n].with
           r == Rec(w, n)
           C == IF w = "COMMIT" /\ n \in Users
                  THEN {[at |-> NextLsn, wrote |-> [b \in Wrote(n) |-> buf[b].page]]}
                  ELSE {}
<1>0. /\ TypeOK /\ At(n, "flushing") /\ Live(n) /\ Boot \in Txs /\ Users \subseteq Txs
      /\ Boot \notin Users /\ NoTx \notin Txs /\ (n # Boot => n \in Users)
      /\ \A b \in Blocks : buf[b].txnum # n
  <2>1. \A b \in Blocks : buf[b].txnum # n
    BY DEF Close, Dirty
  <2> QED BY <2>1, TxNumbers DEF IInv, Close, At, Live
<1>1. TypeOK'
  BY <1>0, CloseTypes
<1>2. PICK m \in Nat : m = Len(log)
  BY <1>0, LogFacts
<1>3. /\ w \in {"COMMIT", "ROLLBACK", "CHECKPOINT"}
      /\ n = Boot => w \in {"COMMIT", "CHECKPOINT"}
      /\ n # Boot => w \in {"COMMIT", "ROLLBACK"}
  BY <1>0, TxFields DEF IInv, StatesOK, At
<1>4. r \in Records /\ r.op = w /\ r.tx = n /\ AppendRec(r)
  BY <1>3, MadeRecords DEF Close
<1>5. /\ tx'[n] = [st |-> "closing", with |-> w, lsn |-> m + 1]
      /\ \A q \in Txs : q # n => tx'[q] = tx[q]
      /\ UNCHANGED <<disk, buf, xlock, finished, acked, tainted>>
      /\ commits' = commits \cup C
  <2>1. Goto(n, [st |-> "closing", with |-> w, lsn |-> m + 1])
    BY <1>2 DEF Close, NextLsn
  <2>2. commits' = commits \cup C
    BY DEF Close
  <2> QED BY <1>0, <2>1, <2>2, GotoDoes DEF Close
<1>6. /\ \A c \in C : c.at = m + 1 /\ c.wrote = [b \in Wrote(n) |-> buf[b].page]
      /\ C # {} <=> w = "COMMIT" /\ n \in Users
      /\ C # {} => C = {[at |-> m + 1, wrote |-> [b \in Wrote(n) |-> buf[b].page]]}
  <2> DEFINE d == [at |-> m + 1, wrote |-> [b \in Wrote(n) |-> buf[b].page]]
  <2>1. NextLsn = m + 1
    BY <1>2 DEF NextLsn
  <2>2. d.at = m + 1 /\ d.wrote = [b \in Wrote(n) |-> buf[b].page]
    OBVIOUS
  <2>3. C = IF w = "COMMIT" /\ n \in Users THEN {d} ELSE {}
    BY <2>1
  <2> HIDE DEF d, C, w
  <2>4. \A c \in C : c = d
    BY <2>3
  <2>5. (C # {} <=> w = "COMMIT" /\ n \in Users) /\ (C # {} => C = {d})
    BY <2>3
  <2> QED BY <2>2, <2>4, <2>5 DEF d, w
<1> HIDE DEF C, r
<1>7. /\ Len(log') = m + 1 /\ stable' \in 1 .. m + 1 /\ stable <= stable' /\ stable \in 1 .. m
      /\ \A i \in 1 .. m : log'[i] = log[i]
      /\ log'[m + 1] = r
      /\ \A i \in 1 .. m : Fresh(i)' <=> Fresh(i) /\ w # "CHECKPOINT"
  BY <1>0, <1>2, <1>4, Appended, LogFacts, FreshAppended
<1>8. \A b, i : i \in Todo(b)' <=>
                  i \in Todo(b) /\ w # "CHECKPOINT" /\ ~Closes(r, log[i].tx)
  <2>1. r.op # "SET"
    BY <1>3, <1>4
  <2> QED BY <1>0, <1>4, <2>1, TodoAppended
<1>9. Ints' = Ints /\ Ints \subseteq Blocks
  BY <1>5 DEF Ints
<1>10. /\ ~At(Boot, "exited") /\ ~At(Boot, "exited")' /\ ~Recovering' /\ Settled'
       /\ n # Boot => IsUp /\ IsUp' /\ Settled
       /\ n = Boot => /\ ~IsUp /\ \A q \in Users : At(q, "none") /\ ~Live(q)
                      /\ \A b \in Blocks : xlock[b] = NoTx
                      /\ (w = "CHECKPOINT" <=> Recovering)
  <2>1. CASE n = Boot
    <3>1. ~IsUp /\ ~At(Boot, "exited")
      BY <1>0, <2>1 DEF IsUp, At
    <3>2. /\ \A q \in Users : At(q, "none") /\ ~Live(q)
          /\ \A b \in Blocks : xlock[b] = NoTx
      BY <3>1 DEF IInv, StatesOK, Live, At
    <3> QED BY <1>0, <1>5, <2>1, <3>1, <3>2 DEF Recovering, Settled, At
  <2>2. CASE n # Boot
    <3>1. IsUp /\ Settled /\ ~At(Boot, "exited") /\ ~Recovering
      BY <1>0, <2>2, UserIsUp DEF At
    <3>2. tx'[Boot] = tx[Boot]
      BY <1>0, <1>5, <2>2
    <3> QED BY <2>2, <3>1, <3>2 DEF Recovering, Settled, At, IsUp
  <2> QED BY <2>1, <2>2
(* The blocks the record is about, and the others.                         *)
<1>11. \A b \in Ints :
          \/ /\ Todo(b)' = {} /\ buf[b].txnum = NoTx
             /\ buf[b].page = Truth(b, m)
             /\ n # Boot => xlock[b] = n
             /\ n = Boot => w = "CHECKPOINT"
          \/ /\ Todo(b)' = Todo(b) /\ xlock[b] # n
             /\ xlock[b] = NoTx => NothingLeft(b)
          \/ /\ Todo(b)' = {} /\ buf[b].txnum = NoTx
             /\ xlock[b] = n /\ n \in Users /\ w = "COMMIT"
  <2> SUFFICES ASSUME NEW b \in Ints
               PROVE  \/ /\ Todo(b)' = {} /\ buf[b].txnum = NoTx
                         /\ buf[b].page = Truth(b, m)
                         /\ n # Boot => xlock[b] = n
                         /\ n = Boot => w = "CHECKPOINT"
                      \/ /\ Todo(b)' = Todo(b) /\ xlock[b] # n
                         /\ xlock[b] = NoTx => NothingLeft(b)
                      \/ /\ Todo(b)' = {} /\ buf[b].txnum = NoTx
                         /\ xlock[b] = n /\ n \in Users /\ w = "COMMIT"
    OBVIOUS
  <2>1. Survives(b, m) = Truth(b, m) /\ b \in Blocks
    BY <1>2, <1>7, <1>9 DEF IInv, SurvivorsOK
  <2>2. /\ Todo(b) = Losers(b, m)
        /\ Undone(b, 0) = Todo(b)
    BY <1>0, <1>2, TodoRange DEF Todo, Undone
(* A block whose oldest record was restored, or that has none, is right    *)
(* when it is clean.                                                       *)
  <2>3. ASSUME Restored(b, 0) \/ Todo(b) = {}, buf[b].txnum = NoTx
        PROVE  buf[b].page = Truth(b, m)
    <3>1. CASE Todo(b) = {}
      BY <2>1, <2>2, <2>3, <3>1 DEF Survives, IInv, CleanOK
    <3>2. CASE Todo(b) # {}
      BY <2>1, <2>2, <2>3, <3>2 DEF Survives, Restored
    <3> QED BY <3>1, <3>2
  <2>4. CASE n = Boot /\ w = "CHECKPOINT"
    <3>1. Todo(b)' = {}
      BY <1>8, <2>4
    <3>2. Restored(b, 0) /\ buf[b].txnum \in {NoTx, Boot}
      BY <1>0, <2>4 DEF IInv, RecoveringOK, RecoveredTo
    <3>3. buf[b].txnum = NoTx
      BY <1>0, <2>1, <2>4, <3>2
    <3> QED BY <2>3, <2>4, <3>1, <3>2, <3>3
  <2>5. CASE n = Boot /\ w # "CHECKPOINT"
    <3>1. Settled /\ xlock[b] = NoTx
      BY <1>10, <2>1, <2>5 DEF Settled
    <3>2. NothingLeft(b)
      BY <3>1 DEF IInv, FreeOK
    <3>3. Todo(b)' = Todo(b)
      BY <1>8, <3>2 DEF NothingLeft
    <3> QED BY <1>0, <3>1, <3>2, <3>3
  <2>6. CASE n # Boot /\ xlock[b] = n
    <3>1. OwnersWork(b, n) /\ (w = "ROLLBACK" => Restored(b, 0))
      BY <1>0, <1>10, <2>1, <2>6 DEF IInv, LockedOK, OwnerOK
    <3>2. buf[b].txnum = NoTx
      BY <1>0, <2>1, <3>1 DEF OwnersWork
    <3>3. Todo(b)' = {}
      <4>1. \A i \in Todo(b) : Closes(r, log[i].tx)
        BY <1>3, <1>4, <2>6, <3>1 DEF OwnersWork, Closes
      <4> QED BY <1>8, <4>1
    <3> QED BY <1>0, <1>3, <2>3, <2>6, <3>1, <3>2, <3>3
  <2>7. CASE n # Boot /\ xlock[b] # n
    <3>1. \A i \in Todo(b) : log[i].tx # n
      <4>1. CASE xlock[b] = NoTx
        BY <1>10, <2>7, <4>1 DEF IInv, FreeOK, NothingLeft
      <4>2. CASE xlock[b] # NoTx
        BY <1>0, <1>10, <2>1, <2>7, <4>2 DEF IInv, LockedOK, OwnerOK, OwnersWork, NothingLeft
      <4> QED BY <4>1, <4>2
    <3>2. \A i : i \in Todo(b)' <=> i \in Todo(b)
      BY <1>3, <1>4, <1>8, <2>7, <3>1 DEF Closes
    <3>3. Todo(b)' = Todo(b)
      BY <3>2
    <3>4. xlock[b] = NoTx => NothingLeft(b)
      BY <1>10, <2>7 DEF IInv, FreeOK
    <3> QED BY <2>7, <3>3, <3>4
  <2> QED BY <2>4, <2>5, <2>6, <2>7
<1>12. \A b \in Ints : Todo(b)' = Todo(b) =>
             /\ NothingLeft(b)' <=> NothingLeft(b)
             /\ \A q : OwnersWork(b, q) => OwnersWork(b, q)'
             /\ \A p : Restored(b, p)' <=> Restored(b, p)
  BY <1>0, <1>4, <1>5, AppendSame
<1>13. ASSUME NEW b \in Ints PROVE Survives(b, m + 1)' = Truth(b, m + 1)'
  <2>1. b \in Blocks /\ \A c \in commits : c.at \in 1 .. m
    BY <1>2, <1>9 DEF IInv, HistoryOK
  <2>2. Losers(b, m + 1)' = Todo(b)'
    BY <1>7 DEF Todo
  <2>3. ASSUME Todo(b)' = {}, buf[b].txnum = NoTx PROVE Survives(b, m + 1)' = buf[b].page
    BY <1>5, <2>1, <2>2, <2>3 DEF Survives, IInv, CleanOK
  <2>4. CASE C = {} \/ xlock[b] # n
    <3>1. \A c \in C : b \notin DOMAIN c.wrote
      BY <1>6, <2>4 DEF Wrote
    <3>2. Truth(b, m + 1)' = Truth(b, m)
      BY <1>5, <1>6, <2>1, <3>1, TruthGrows
    <3>3. Todo(b)' = Todo(b) => Survives(b, m + 1)' = Truth(b, m + 1)'
      BY <1>2, <1>4, <1>5, <1>6, <3>1, SurvivesOn
    <3>4. \/ Todo(b)' = Todo(b)
          \/ Todo(b)' = {} /\ buf[b].txnum = NoTx /\ buf[b].page = Truth(b, m)
      BY <1>6, <1>11, <2>4
    <3> QED BY <2>3, <3>2, <3>3, <3>4
  <2>5. CASE C # {} /\ xlock[b] = n
    <3>1. b \in Wrote(n)
      BY <2>1, <2>5 DEF Wrote
    <3>2. PICK d : C = {d} /\ d.at = m + 1 /\ b \in DOMAIN d.wrote
                   /\ d.wrote[b] = buf[b].page
      BY <1>6, <2>5, <3>1
    <3>3. Truth(b, m + 1)' = buf[b].page
      BY <1>5, <2>1, <3>2, TruthOfLast
    <3>4. Todo(b)' = {} /\ buf[b].txnum = NoTx
      BY <1>11, <2>5
    <3> QED BY <2>3, <3>3, <3>4
  <2> QED BY <2>4, <2>5
<1>14. SurvivorsOK' /\ SessionOK' /\ \A c \in commits' : c.at \in 1 .. Len(log')
  <2>1. r.op # "START"
    BY <1>3, <1>4
  <2>2. \A b \in Ints : Survives(b, m + 1)' = Truth(b, m + 1)'
    BY <1>13
  <2>3. \A c \in C : c.at = m + 1
    BY <1>6
  <2>4. UNCHANGED <<disk, tainted>> /\ commits' = commits \cup C
    BY <1>5
  <2>5. (r.op = "START" /\ r.tx # Boot) =>
            \A j \in 1 .. m : log[j].tx = r.tx => ~Fresh(j)
    BY <2>1
  <2> HIDE DEF w
  <2> QED BY ONLY IInv, <1>2, <1>4, <2>2, <2>3, <2>4, <2>5, AppendKeeps
<1>15. CleanOK' /\ HistoryOK' /\ AckedSurvives'
  <2>1. AckedSurvives'
    BY <1>0, <1>5, <1>7, AckedGrows DEF IInv
  <2>2. ASSUME NEW q \in Users, At(q, "closing")', tx'[q].with = "COMMIT"
        PROVE  \E c \in commits' : c.at = tx'[q].lsn
    <3>1. CASE q = n
      <4>1. C # {}
        BY <1>5, <1>6, <2>2, <3>1
      <4> QED BY <1>5, <1>6, <3>1, <4>1
    <3>2. CASE q # n
      BY <1>0, <1>5, <2>2, <3>2 DEF IInv, HistoryOK, At
    <3> QED BY <3>1, <3>2
  <2> QED BY <1>5, <1>14, <2>1, <2>2 DEF IInv, CleanOK, HistoryOK
<1>16. StatesOK'
  <2>1. \A q \in Users : At(q, "undoing") => tx[q].pos \in Nat
    BY <1>0, TxFields DEF At
  <2>2. \A q \in Users : At(q, "undoing") => tx[q].pos <= stable'
    BY <1>7, <2>1 DEF IInv, StatesOK
  <2>3. /\ tx'[Boot].st \in {"recovering", "flushing", "closing", "over", "exited"}
        /\ tx'[Boot].st \in {"flushing", "closing"} =>
             tx'[Boot].with \in {"CHECKPOINT", "COMMIT"}
    BY <1>0, <1>3, <1>5 DEF IInv, StatesOK
  <2>4. \A q \in Users : /\ tx'[q].st # "recovering"
                         /\ tx'[q].st \in {"flushing", "closing"} =>
                              tx'[q].with \in {"COMMIT", "ROLLBACK"}
                         /\ ~At(q, "exited")'
                         /\ At(q, "undoing")' => tx'[q].pos <= stable'
    BY <1>0, <1>3, <1>5, <1>10, <2>2 DEF IInv, StatesOK, At
  <2>5. ~IsUp' => /\ \A q \in Users : At(q, "none")'
                  /\ \A b \in Blocks : xlock'[b] = NoTx
    BY <1>0, <1>5, <1>10 DEF At
  <2> QED BY <1>10, <2>3, <2>4, <2>5 DEF StatesOK
<1>17. NoneOK'
  <2> SUFFICES ASSUME NEW q \in Users, At(q, "none")',
                      NEW j \in 1 .. m + 1, log'[j].tx = q
               PROVE  ~Fresh(j)'
    BY <1>7 DEF NoneOK
  <2>1. q # n /\ At(q, "none")
    BY <1>0, <1>5 DEF At
  <2>2. j \in 1 .. m /\ log[j].tx = q
    BY <1>4, <1>7, <2>1
  <2>3. CASE w = "CHECKPOINT"
    BY <1>7, <2>2, <2>3
  <2>4. CASE w # "CHECKPOINT"
    <3>1. Settled
      BY <1>10, <2>4 DEF Settled
    <3> QED BY <1>2, <1>7, <2>1, <2>2, <3>1 DEF IInv, NoneOK
  <2> QED BY <2>3, <2>4
<1>18. StartOK'
  <2> SUFFICES ASSUME NEW q \in Users, Live(q)'
               PROVE  \E s \in 1 .. m + 1 : /\ log'[s] = Rec("START", q)
                                            /\ Fresh(s)'
                                            /\ At(q, "undoing")' => s <= tx'[q].pos
    BY <1>7 DEF StartOK
  <2>1. q # n /\ Live(q) /\ tx'[q] = tx[q] /\ w # "CHECKPOINT"
    BY <1>0, <1>3, <1>5, <1>10 DEF Live
  <2>2. PICK s \in 1 .. m : /\ log[s] = Rec("START", q)
                            /\ Fresh(s)
                            /\ At(q, "undoing") => s <= tx[q].pos
    BY <1>2, <2>1 DEF IInv, StartOK
  <2> QED BY <1>7, <2>1, <2>2 DEF At
<1>19. OwnOK'
  <2> SUFFICES ASSUME NEW q \in Users, Live(q)',
                      NEW j \in 1 .. m + 1, log'[j].tx = q, Fresh(j)'
               PROVE  /\ log'[j].op \in {"START", "SET"}
                      /\ log'[j].op = "SET" => xlock[log'[j].blk] = q
    BY <1>5, <1>7 DEF OwnOK
  <2>1. q # n /\ Live(q)
    BY <1>0, <1>5 DEF Live
  <2>2. j \in 1 .. m /\ log'[j] = log[j] /\ log[j].tx = q /\ Fresh(j)
    BY <1>4, <1>7, <2>1
  <2> QED BY <1>2, <2>1, <2>2 DEF IInv, OwnOK
<1>20. FinishedOK' /\ RecoveringOK'
  BY <1>10 DEF FinishedOK, RecoveringOK, Recovering
<1>21. FreeOK'
  <2> SUFFICES ASSUME NEW b \in Ints, xlock[b] = NoTx PROVE NothingLeft(b)'
    BY <1>5, <1>9 DEF FreeOK
  <2>1. xlock[b] # n
    BY <1>0
  <2> QED BY <1>5, <1>11, <1>12, <2>1 DEF NothingLeft
<1>22. LockedOK'
  <2> SUFFICES ASSUME NEW b \in Blocks, xlock[b] # NoTx, NEW q \in Txs, q = xlock[b]
               PROVE  OwnerOK(b, q)'
    BY <1>5 DEF LockedOK, IInv, TypeOK
  <2>1. OwnerOK(b, q) /\ n # Boot
    BY <1>10 DEF IInv, LockedOK
  <2>2. CASE q = n
    <3>1. ~Live(n)' /\ At(n, "closing")' /\ ~At(n, "undoing")' /\ ~At(n, "flushing")'
      BY <1>5 DEF Live, At
    <3>2. b \in Ints => NothingLeft(b)'
      BY <1>5, <1>11, <2>2 DEF NothingLeft
    <3> QED BY <1>9, <2>1, <2>2, <3>1, <3>2 DEF OwnerOK
  <2>3. CASE q # n
    <3>1. b \in Ints => Todo(b)' = Todo(b)
      BY <1>11, <2>1, <2>3
    <3> QED BY <1>0, <1>5, <1>9, <1>12, <2>1, <2>3, <3>1 DEF OwnerOK, Live, At
  <2> QED BY <2>2, <2>3
<1>23. WritingOK'
  <2> SUFFICES ASSUME NEW q \in Users, At(q, "writing")'
               PROVE  /\ xlock'[tx'[q].blk] = q
                      /\ tx'[q].blk \in Ints => tx'[q].lsn \in Todo(tx[q].blk)'
    BY <1>9 DEF WritingOK
  <2>1. q # n /\ tx'[q] = tx[q] /\ At(q, "writing")
    BY <1>0, <1>5 DEF At
  <2>2. n # Boot
    BY <1>10, <2>1 DEF At
  <2>3. /\ xlock[tx[q].blk] = q
        /\ tx[q].blk \in Ints => tx[q].lsn \in Todo(tx[q].blk)
    BY <2>1 DEF IInv, WritingOK
  <2>4. ASSUME NEW b \in Ints, b = tx[q].blk PROVE Todo(b)' = Todo(b)
    BY <1>11, <2>1, <2>2, <2>3, <2>4
  <2> QED BY <1>5, <2>1, <2>3, <2>4
<1> QED BY <1>1, <1>14, <1>15, <1>16, <1>17, <1>18, <1>19, <1>20, <1>21, <1>22, <1>23 DEF IInv

-----------------------------------------------------------------------------
(* A crash leaves the stable part of the log and the disk.                 *)
LEMMA CrashKeeps == ASSUME IInv, Crash PROVE IInv'
<1>0. /\ TypeOK /\ Restart /\ Boot \in Txs /\ Users \subseteq Txs /\ Boot \notin Users
      /\ UNCHANGED <<disk, acked, tainted>>
  BY TxNumbers DEF IInv, Crash, Restart
<1>1. TypeOK'
  BY <1>0, CrashTypes
<1>2. PICK m \in Nat : m = stable
  BY <1>0, LogFacts
<1>3. /\ Len(log') = m + 1 /\ stable' = m + 1 /\ m \in 1 .. Len(log) /\ Len(log) \in Nat
      /\ \A i \in 1 .. m : log'[i] = log[i]
      /\ log'[m + 1].op = "START" /\ log'[m + 1].tx = Boot
  BY <1>0, <1>2, Truncated, LogFacts, MadeRecords
<1>4. /\ tx'[Boot] = [st |-> "recovering", pos |-> m + 1]
      /\ \A q \in Users : tx'[q] = [st |-> "none"]
  BY <1>0, <1>2, <1>3 DEF Restart, NotBegun
<1>5. /\ At(Boot, "recovering")' /\ Recovering' /\ ~Settled' /\ ~IsUp'
      /\ \A q \in Users : At(q, "none")' /\ ~Live(q)'
  BY <1>4 DEF At, Recovering, Settled, IsUp, Live
<1>6. /\ \A b \in Blocks : xlock'[b] = NoTx
      /\ \A b \in Blocks : buf'[b].page = disk[b] /\ buf'[b].txnum = NoTx
      /\ finished' = {}
      /\ \A c : c \in commits' <=> c \in commits /\ c.at <= m
  BY <1>0, <1>2 DEF Restart, Clean
<1>7. Ints' = Ints /\ Ints \subseteq Blocks
  BY <1>0 DEF Ints
<1>8. StatesOK'
  BY <1>0, <1>3, <1>4, <1>5, <1>6 DEF StatesOK, At
<1>9. HistoryOK'
  <2>1. \A c \in commits' : c.at \in 1 .. m + 1
    BY <1>3, <1>6 DEF IInv, HistoryOK
  <2> QED BY <1>3, <1>4, <2>1 DEF HistoryOK, At
<1>10. AckedSurvives'
  <2> SUFFICES ASSUME NEW p \in acked PROVE p <= m + 1 /\ \E c \in commits' : c.at = p
    BY <1>0, <1>3 DEF AckedSurvives
  <2>1. PICK c \in commits : c.at = p /\ p <= m
    BY <1>2 DEF IInv, AckedSurvives
  <2>2. p \in Nat
    BY <2>1 DEF IInv, HistoryOK
  <2> QED BY <1>6, <2>1, <2>2
<1>11. SessionOK'
  <2> SUFFICES ASSUME NEW i \in 1 .. m + 1, log'[i].op = "START", log'[i].tx # Boot,
                      NEW j \in 1 .. i - 1, log'[j].tx = log'[i].tx
               PROVE  \E k \in j .. i : log'[k].op = "CHECKPOINT"
    BY <1>3 DEF SessionOK
  <2>1. i \in 1 .. m
    BY <1>3
  <2>2. i \in 1 .. Len(log) /\ log'[i] = log[i] /\ log'[j] = log[j]
    BY <1>3, <2>1
  <2>3. PICK k \in j .. i : log[k].op = "CHECKPOINT"
    BY <2>2 DEF IInv, SessionOK
  <2>4. log'[k] = log[k]
    BY <1>3, <2>1
  <2> QED BY <2>3, <2>4
<1>12. NoneOK' /\ StartOK' /\ OwnOK' /\ FreeOK' /\ WritingOK'
  BY <1>5, <1>4 DEF NoneOK, StartOK, OwnOK, FreeOK, WritingOK, At
<1>13. FinishedOK'
  <2>1. tx'[Boot].pos + 1 .. Len(log') = {}
    BY <1>3, <1>4
  <2> QED BY <1>6, <2>1 DEF FinishedOK
(* The START record of the new session ends nothing.                       *)
<1>14. SurvivorsOK'
  <2> SUFFICES ASSUME NEW b \in Ints PROVE Survives(b, m + 1)' = Truth(b, m + 1)'
    BY <1>3, <1>7 DEF SurvivorsOK
  <2>1. \A i : i \in Losers(b, m + 1)' <=> i \in Losers(b, m)
    <3>1. PICK r : r = log'[m + 1]
      OBVIOUS
    <3>2. r.op = "START" /\ \A q : ~Closes(r, q)
      BY <1>3, <3>1 DEF Closes
    <3> QED BY <1>3, <3>1, <3>2, LosersAppended
  <2>2. Losers(b, m + 1)' = Losers(b, m)
    BY <2>1
  <2>3. \A i \in Losers(b, m) : log'[i] = log[i]
    BY <1>3, LosersRange
  <2>4. Survives(b, m + 1)' = Survives(b, m)
    BY <1>0, <2>2, <2>3, SurvivesSame
  <2>5. Writers(b, m + 1)' = Writers(b, m)
    BY <1>6 DEF Writers, IInv, HistoryOK
  <2>6. Truth(b, m + 1)' = Truth(b, m)
    BY <2>5, TruthSame
  <2>7. m \in stable .. Len(log)
    BY <1>2, <1>3
  <2> QED BY <2>4, <2>6, <2>7 DEF IInv, SurvivorsOK
<1>15. CleanOK'
  BY <1>0, <1>6 DEF CleanOK
<1>16. RecoveringOK'
  <2> SUFFICES ASSUME NEW b \in Ints
               PROVE  /\ Restored(b, m + 1)'
                      /\ buf'[b].txnum = NoTx
    BY <1>4, <1>5, <1>7 DEF RecoveringOK, RecoveredTo, At
  <2>1. Todo(b)' \subseteq 1 .. m + 1
    BY <1>3 DEF Todo, Losers
  <2>2. Undone(b, m + 1)' = {}
    BY <2>1 DEF Undone
  <2> QED BY <1>6, <1>7, <2>2 DEF Restored
<1>17. LockedOK'
  BY <1>6 DEF LockedOK
<1> QED BY <1>1, <1>8, <1>9, <1>10, <1>11, <1>12, <1>13, <1>14, <1>15, <1>16, <1>17 DEF IInv

-----------------------------------------------------------------------------
(* The theorems.                                                           *)

(* The new database is as the invariant says.                              *)
LEMMA InitHolds == Init => IInv
<1> SUFFICES ASSUME Init PROVE IInv
  OBVIOUS
<1>0. /\ Boot \in Txs /\ Users \subseteq Txs /\ Boot \notin Users /\ NoTx \notin Txs
      /\ Txs = {Boot} \cup Users
  BY TxNumbers
<1>1. /\ Len(log) = 2 /\ stable = 2
      /\ \A i \in 1 .. 2 : log[i].op \in {"START", "COMMIT"} /\ log[i].tx = Boot
      /\ log \in Seq(Records)
  <2>1. /\ Rec("START", Boot) \in Records /\ Rec("COMMIT", Boot) \in Records
        /\ Rec("START", Boot).op = "START" /\ Rec("COMMIT", Boot).op = "COMMIT"
        /\ Rec("START", Boot).tx = Boot /\ Rec("COMMIT", Boot).tx = Boot
    BY <1>0, MadeRecords
  <2>2. log = <<Rec("START", Boot), Rec("COMMIT", Boot)>> /\ stable = 2
    BY DEF Init
  <2>3. \A i \in 1 .. 2 : i = 1 \/ i = 2
    OBVIOUS
  <2> QED BY <2>1, <2>2, <2>3
<1>2. /\ tx \in [Txs -> TxStates]
      /\ tx[Boot].st = "over" /\ \A n \in Users : tx[n].st = "none"
  BY <1>0 DEF Init, NotBegun, TxStates
<1>3. /\ disk = [b \in Blocks |-> 0]
      /\ \A b \in Blocks : buf[b].page = 0 /\ buf[b].txnum = NoTx /\ xlock[b] = NoTx
      /\ finished = {} /\ commits = {} /\ acked = {} /\ tainted = {}
  BY DEF Init, Clean
<1>4. TypeOK
  <2>1. buf \in [Blocks -> [page : Nat, txnum : Txs \cup {NoTx}, lsn : 0 .. Len(log)]]
    BY <1>1 DEF Init, Clean
  <2>2. xlock \in [Blocks -> Txs \cup {NoTx}]
    BY DEF Init
  <2> QED BY <1>1, <1>2, <1>3, <2>1, <2>2 DEF TypeOK
<1>5. /\ IsUp /\ ~At(Boot, "exited") /\ ~At(Boot, "recovering") /\ ~Recovering
      /\ \A n \in Users : At(n, "none") /\ ~Live(n)
  BY <1>2 DEF IsUp, At, Recovering, Live
<1>6. StatesOK
  BY <1>2, <1>3, <1>5 DEF StatesOK, At
<1>7. HistoryOK /\ AckedSurvives
  BY <1>2, <1>3 DEF HistoryOK, AckedSurvives, At
<1>8. SessionOK /\ NoneOK
  BY <1>0, <1>1 DEF SessionOK, NoneOK
<1>9. StartOK /\ OwnOK /\ FinishedOK /\ RecoveringOK
  BY <1>5 DEF StartOK, OwnOK, FinishedOK, RecoveringOK, Recovering
<1>10. \A b : Losers(b, 2) = {} /\ Todo(b) = {}
  BY <1>1 DEF Todo, Losers
<1>11. SurvivorsOK
  <2> SUFFICES ASSUME NEW b \in Ints PROVE Survives(b, 2) = Truth(b, 2)
    BY <1>1 DEF SurvivorsOK
  <2> QED BY <1>3, <1>10 DEF Survives, Truth, Writers, Ints
<1>12. CleanOK
  BY <1>3 DEF CleanOK
<1>13. FreeOK
  BY <1>3, <1>10 DEF FreeOK, NothingLeft, Ints
<1>14. LockedOK
  BY <1>3 DEF LockedOK
<1>15. WritingOK
  BY <1>2 DEF WritingOK, At
<1> QED BY <1>4, <1>6, <1>7, <1>8, <1>9, <1>11, <1>12, <1>13, <1>14, <1>15 DEF IInv

(* When nothing changes, the invariant does not.                           *)
LEMMA StutterKeeps == ASSUME IInv, UNCHANGED vars PROVE IInv'
<1>1. UNCHANGED <<log, stable, disk, buf, tx, xlock, finished, commits, acked, tainted>>
  BY DEF vars
<1>2. TypeOK'
  BY <1>1 DEF IInv, TypeOK, TxStates
<1>3. SurvivorsOK' /\ CleanOK' /\ SessionOK'
  BY <1>1, QuietKeeps
<1>4. \A b : /\ Todo(b)' = Todo(b)
             /\ NothingLeft(b)' <=> NothingLeft(b)
             /\ \A m : OwnersWork(b, m)' <=> OwnersWork(b, m)
             /\ \A p : Restored(b, p)' <=> Restored(b, p)
             /\ \A p : Undone(b, p)' = Undone(b, p)
  BY <1>1, TodoSame DEF NothingLeft, OwnersWork, Restored
<1>5. Ints' = Ints /\ \A i : Fresh(i)' <=> Fresh(i)
  BY <1>1, FreshSame DEF Ints
<1>6. StatesOK' /\ HistoryOK' /\ AckedSurvives'
  BY <1>1 DEF IInv, StatesOK, HistoryOK, AckedSurvives, At, IsUp, Recovering
<1>7. NoneOK' /\ StartOK' /\ OwnOK' /\ FinishedOK'
  BY <1>1, <1>5 DEF IInv, NoneOK, StartOK, OwnOK, FinishedOK, At, Live, Settled, Recovering,
                    Closes
<1>8. RecoveringOK' /\ FreeOK'
  BY <1>1, <1>4, <1>5 DEF IInv, RecoveringOK, RecoveredTo, FreeOK, Settled, Recovering, At
<1>9. LockedOK'
  BY <1>1, <1>4, <1>5 DEF IInv, LockedOK, OwnerOK, Live, At
<1>10. WritingOK'
  BY <1>1, <1>4, <1>5 DEF IInv, WritingOK, At
<1> QED BY <1>2, <1>3, <1>6, <1>7, <1>8, <1>9, <1>10 DEF IInv

(* A buffer is written when it is replaced or at its transaction's end.    *)
LEMMA StealKeeps == ASSUME IInv, NEW b \in Blocks, Steal(b) PROVE IInv'
  BY FlushKeeps DEF Steal

(* FlushOne keeps the invariant.                                           *)
LEMMA FlushOneKeeps ==
  ASSUME IInv, NEW n \in Txs, NEW b \in Blocks, FlushOne(n, b) PROVE IInv'
<1>1. buf[b].txnum = n /\ n # NoTx
  BY TxNumbers DEF FlushOne, Dirty
<1>2. ~At(Boot, "exited")
  <2>1. At(n, "flushing") /\ (n = Boot \/ n \in Users)
    BY TxNumbers DEF FlushOne
  <2> QED BY <2>1 DEF IInv, StatesOK, At
<1> QED BY <1>1, <1>2, FlushKeeps DEF FlushOne

(* Every step keeps the invariant.                                         *)
LEMMA StepKeeps == IInv /\ [Next]_vars => IInv'
<1> SUFFICES ASSUME IInv, [Next]_vars PROVE IInv'
  OBVIOUS
<1>1. CASE UNCHANGED vars
  BY <1>1, StutterKeeps
<1>2. CASE RecoverOne
  BY <1>2, RecoverOneKeeps
<1>3. ASSUME NEW n \in Txs, Exit(n) PROVE IInv'
  BY <1>3, ExitKeeps
<1>4. ASSUME NEW n \in Txs, Close(n) PROVE IInv'
  BY <1>4, CloseKeeps
<1>5. ASSUME NEW n \in Txs, End(n) PROVE IInv'
  BY <1>5, EndKeeps
<1>6. ASSUME NEW n \in Txs, NEW b \in Blocks, FlushOne(n, b) PROVE IInv'
  BY <1>6, FlushOneKeeps
<1>7. CASE Crash
  BY <1>7, CrashKeeps
<1>8. ASSUME NEW b \in Blocks, Steal(b) PROVE IInv'
  BY <1>8, StealKeeps
<1>9. ASSUME NEW n \in Users, Begin(n) PROVE IInv'
  BY <1>9, BeginKeeps
<1>10. ASSUME NEW n \in Users, ApplyWrite(n) PROVE IInv'
  BY <1>10, ApplyWriteKeeps
<1>11. ASSUME NEW n \in Users, UndoOne(n) PROVE IInv'
  BY <1>11, UndoOneKeeps
<1>12. ASSUME NEW n \in Users, Commit(n) PROVE IInv'
  BY <1>12, CommitKeeps
<1>13. ASSUME NEW n \in Users, Rollback(n) PROVE IInv'
  BY <1>13, RollbackKeeps
<1>14. ASSUME NEW n \in Users, Abandon(n) PROVE IInv'
  BY <1>14, AbandonKeeps
<1>15. ASSUME NEW n \in Users, NEW b \in Blocks, NEW v \in Vals, LogWrite(n, b, v) PROVE IInv'
  BY <1>15, LogWriteKeeps
<1> QED BY <1>1, <1>2, <1>3, <1>4, <1>5, <1>6, <1>7, <1>8, <1>9, <1>10, <1>11, <1>12, <1>13,
           <1>14, <1>15 DEF Next, SystemStep

(* CrashSafe is SurvivorsOK at the end of the stable log.                  *)
LEMMA SafeFromIInv == IInv => CrashSafe
<1>1. IInv => stable \in stable .. Len(log)
  BY LogFacts DEF IInv
<1> QED BY <1>1 DEF IInv, SurvivorsOK, CrashSafe

(* A block nobody has locked is as the disk, with nothing to be undone.    *)
LEMMA VisibleFromIInv == IInv => CommittedIsVisible
<1> SUFFICES ASSUME IInv, IsUp, NEW b \in Free \cap Ints
             PROVE  buf[b].page = Truth(b, Len(log))
  BY DEF CommittedIsVisible
<1>1. Settled
  BY DEF IsUp, Settled, Recovering, At
<1>2. b \in Blocks /\ xlock[b] = NoTx
  BY DEF Free
<1>3. Losers(b, Len(log)) = {} /\ buf[b].txnum = NoTx
  BY <1>1, <1>2 DEF IInv, FreeOK, NothingLeft, Todo
<1>4. Len(log) \in stable .. Len(log)
  BY LogFacts DEF IInv
<1>5. Survives(b, Len(log)) = Truth(b, Len(log))
  BY <1>4 DEF IInv, SurvivorsOK
<1> QED BY <1>2, <1>3, <1>5 DEF IInv, CleanOK, Survives

(* The conjuncts of IInv hold of all transactions, blocks and records, in  *)
(* every state of the program, recovery and rollback included.             *)
THEOREM Invariant == Spec => []IInv
  BY InitHolds, StepKeeps, PTL DEF Spec

(* What a transaction keeps fits its state, and every LSN and every        *)
(* position of an iterator is one of the log.                              *)
THEOREM TypeCorrect == Spec => []TypeOK
<1>1. IInv => TypeOK
  BY DEF IInv
<1> QED BY <1>1, Invariant, PTL

(* Atomicity: a crash at any moment leaves, after recovery, exactly what   *)
(* the commits on the disk's log have written (Buffer::flush,              *)
(* Transaction::commit and rollback, RecoveryMgr::doRecover).              *)
THEOREM CrashesAreSafe == Spec => []CrashSafe
  BY SafeFromIInv, Invariant, PTL

(* Recovery and rollback work: outside recovery, a block nobody has locked *)
(* shows what the last commit wrote to it.                                 *)
THEOREM CommittedShows == Spec => []CommittedIsVisible
  BY VisibleFromIInv, Invariant, PTL

(* Durability: once commit has returned, its record is on disk, and it is  *)
(* there after every crash (Transaction::commit flushes the log up to it). *)
THEOREM CommitsAreDurable == Spec => []AckedSurvives
<1>1. IInv => AckedSurvives
  BY DEF IInv
<1> QED BY <1>1, Invariant, PTL

-----------------------------------------------------------------------------
(* Recovery implements AtomicStore: what a block shows and what a crash    *)
(* leaves are both what the commits wrote, of the whole log and of its     *)
(* stable part.                                                            *)
NowIs == \A k \in Nat : k = (IF At(Boot, "exited") THEN stable ELSE Len(log)) =>
            StoreNow = [b \in Ints |-> Truth(b, k)]
KeptIs == \A k \in Nat : k = stable => StoreKept = [b \in Ints |-> Truth(b, k)]

(* The store is the truth, from the two invariants that say so.            *)
LEMMA StoreIs == IInv => NowIs /\ KeptIs
<1> SUFFICES ASSUME IInv PROVE NowIs /\ KeptIs
  OBVIOUS
<1>1. CrashSafe /\ CommittedIsVisible
  BY SafeFromIInv, VisibleFromIInv
<1>2. KeptIs
  BY <1>1 DEF KeptIs, StoreKept, CrashSafe
<1>3. ASSUME NEW b \in Ints
      PROVE  (IF IsUp /\ xlock[b] = NoTx THEN buf[b].page
              ELSE IF At(Boot, "exited") THEN Survives(b, stable) ELSE Truth(b, Len(log)))
             = Truth(b, IF At(Boot, "exited") THEN stable ELSE Len(log))
  <2>1. b \in Blocks \ tainted
    BY DEF Ints
  <2>2. CASE IsUp /\ xlock[b] = NoTx
    <3>1. ~At(Boot, "exited")
      BY <2>2 DEF IsUp, At
    <3> QED BY <1>1, <2>1, <2>2, <3>1 DEF CommittedIsVisible, Free
  <2>3. CASE ~(IsUp /\ xlock[b] = NoTx)
    BY <1>1, <2>3 DEF CrashSafe
  <2> QED BY <2>2, <2>3
<1>4. NowIs
  BY <1>3 DEF NowIs, StoreNow
<1> QED BY <1>2, <1>4

(* It is after a step, too.                                                *)
LEMMA StoreIsNext == IInv' => NowIs' /\ KeptIs'
  BY StoreIs, PTL

(* What a step of a process that goes on does to the log: some of it is    *)
(* saved, and the commits it has stay.                                     *)
Logs ==
    /\ ~At(Boot, "exited") /\ ~At(Boot, "exited")'
    /\ stable' \in {stable, Len(log)}
    /\ Len(log') \in Nat /\ Len(log) <= Len(log')
    /\ UNCHANGED tainted
    /\ \A b \in Ints : \A k \in 0 .. Len(log) : Truth(b, k)' = Truth(b, k)

(* A crash would leave what it would have left, or all that is committed.  *)
LEMMA KeptGoes ==
  ASSUME IInv, IInv', Logs
  PROVE  \/ stable' = stable /\ StoreKept' = StoreKept
         \/ stable' = Len(log) /\ StoreKept' = StoreNow
<1>1. NowIs /\ KeptIs /\ KeptIs'
  BY StoreIs, StoreIsNext
<1>2. stable \in 0 .. Len(log) /\ Len(log) \in 0 .. Len(log)
  BY LogFacts DEF IInv
<1>3. Ints' = Ints
  BY DEF Logs, Ints
<1>4. PICK k \in 0 .. Len(log), m \in 0 .. Len(log), l \in Nat : k = stable /\ m = stable' /\ l = Len(log)
  BY <1>2 DEF Logs
<1>5. k \in Nat /\ m \in Nat /\ ~At(Boot, "exited")
  BY <1>4 DEF Logs
<1>6. StoreNow = [b \in Ints |-> Truth(b, l)] /\ StoreKept = [b \in Ints |-> Truth(b, k)]
  BY <1>1, <1>4, <1>5 DEF NowIs, KeptIs
<1>7. StoreKept' = [b \in Ints |-> Truth(b, m)']
  BY <1>1, <1>3, <1>4, <1>5 DEF KeptIs
<1>8. \A b \in Ints : Truth(b, m)' = Truth(b, m)
  BY <1>4 DEF Logs
<1>9. StoreKept' = [b \in Ints |-> Truth(b, m)]
  BY <1>7, <1>8
<1>10. m = k \/ m = l
  BY <1>4 DEF Logs
<1> QED BY <1>4, <1>6, <1>9, <1>10

(* The commits alone decide what is committed.                             *)
LEMMA TruthsStay ==
  ASSUME UNCHANGED commits
  PROVE  \A b : \A k : Truth(b, k)' = Truth(b, k)
  BY DEF Truth, Writers

(* No more commits: the store shows what it showed.                        *)
LEMMA NowStays ==
  ASSUME IInv, IInv', Logs, UNCHANGED commits
  PROVE  StoreNow' = StoreNow
<1>1. NowIs /\ NowIs'
  BY StoreIs, StoreIsNext
<1>2. PICK l \in Nat, m \in Nat : l = Len(log) /\ m = Len(log') /\ l <= m
  BY LogFacts DEF IInv, Logs
<1>3. StoreNow = [b \in Ints |-> Truth(b, l)] /\ StoreNow' = [b \in Ints' |-> Truth(b, m)']
  BY <1>1, <1>2 DEF NowIs, Logs
<1>4. Ints' = Ints
  BY DEF Logs, Ints
<1>5. \A c \in commits : c.at \in 1 .. l
  BY <1>2 DEF IInv, HistoryOK
<1>6. \A b \in Ints : Writers(b, m)' = Writers(b, l)
  BY <1>2, <1>5 DEF Writers
<1>7. \A b \in Ints : Truth(b, m)' = Truth(b, l)
  BY <1>6, TruthSame
<1> QED BY <1>3, <1>4, <1>7

(* All transactions but n stay what they are.                              *)
OthersStay(n) == \A m \in Users \ {n} : tx'[m] = tx[m]

(* A commit is late until the log is saved.                                *)
LEMMA LateGoes ==
  ASSUME TypeOK, stable' \in {stable, Len(log)}, NEW n, OthersStay(n)
  PROVE  /\ stable' = stable => StoreLate' = (StoreLate \ {n}) \cup (StoreLate' \cap {n})
         /\ stable' = Len(log) => StoreLate' = StoreLate' \cap {n}
<1>1. ASSUME NEW m \in Users \ {n}
      PROVE  /\ stable' = stable => (m \in StoreLate' <=> m \in StoreLate)
             /\ stable' = Len(log) => m \notin StoreLate'
  <2>1. tx'[m] = tx[m] /\ m \in Txs
    BY TxNumbers DEF OthersStay
  <2>2. At(m, "closing") => tx[m].lsn \in 1 .. Len(log)
    BY <2>1, TxFields
  <2>3. Len(log) \in Nat
    BY LogFacts
  <2> QED BY <2>1, <2>2, <2>3 DEF StoreLate, ClosingWith, At
<1>2. StoreLate \subseteq Users /\ StoreLate' \subseteq Users
  BY DEF StoreLate, ClosingWith
<1> QED BY <1>1, <1>2

(* What the running transactions have written stays.                       *)
Works(n) == [b \in IF Live(n) THEN Wrote(n) \cap Ints ELSE {} |-> buf[b].page]
WorkSame(n) ==
    /\ Live(n)' <=> Live(n)
    /\ Live(n) => \A b \in Ints : /\ xlock'[b] = n <=> xlock[b] = n
                                  /\ xlock[b] = n => buf'[b].page = buf[b].page

(* It is the same when the locks and the pages are.                        *)
LEMMA WorksStay ==
  ASSUME UNCHANGED tainted, NEW n, WorkSame(n)
  PROVE  Works(n)' = Works(n)
<1>1. Ints' = Ints /\ Ints \subseteq Blocks
  BY DEF Ints
<1>2. CASE Live(n)
  <2>1. (Wrote(n) \cap Ints)' = Wrote(n) \cap Ints
    BY <1>1, <1>2 DEF WorkSame, Wrote
  <2>2. \A b \in Wrote(n) \cap Ints : buf'[b].page = buf[b].page
    BY <1>2 DEF WorkSame, Wrote
  <2>3. Works(n) = [b \in Wrote(n) \cap Ints |-> buf[b].page]
    BY <1>2 DEF Works
  <2>4. Works(n)' = [b \in (Wrote(n) \cap Ints)' |-> buf'[b].page]
    BY <1>2 DEF Works, WorkSame
  <2> QED BY <2>1, <2>2, <2>3, <2>4
<1>3. CASE ~Live(n)
  BY <1>3 DEF Works, WorkSame
<1> QED BY <1>2, <1>3

(* The work of all of them.                                                *)
LEMMA WorkIs == StoreWork = [n \in Users |-> Works(n)]
  BY DEF StoreWork, Works

(* A transaction that is not running has written nothing.                  *)
LEMMA NoWork ==
  ASSUME NEW n, ~Live(n)
  PROVE  Works(n) = Store!Nothing
  BY DEF Works, Store!Nothing

(* What one transaction does to its work is all that changes.              *)
LEMMA WorkGoes ==
  ASSUME UNCHANGED tainted, NEW n, \A m \in Users \ {n} : WorkSame(m)
  PROVE  StoreWork' = [StoreWork EXCEPT ![n] = Works(n)']
<1>1. \A m \in Users \ {n} : Works(m)' = Works(m)
  BY WorksStay
<1>2. StoreWork' = [m \in Users |-> Works(m)']
  BY DEF StoreWork, Works
<1> QED BY <1>1, <1>2, WorkIs

(* The transactions that are closing, or over.                             *)
Ends(n) == IF At(n, "closing") THEN tx[n].with ELSE IF At(n, "over") THEN "ROLLBACK" ELSE "NONE"

(* The store's two sets of ended transactions, by how they end.            *)
LEMMA EndsAre ==
  /\ ClosingWith("COMMIT") = {n \in Users : Ends(n) = "COMMIT"}
  /\ StoreOver = {n \in Users : Ends(n) = "ROLLBACK"}
  BY DEF ClosingWith, StoreOver, Ends, At

(* One of them may change.                                                 *)
LEMMA EndsGo ==
  ASSUME NEW n, OthersStay(n)
  PROVE  /\ ClosingWith("COMMIT")' = (ClosingWith("COMMIT") \ {n}) \cup {m \in Users \cap {n} : Ends(m)' = "COMMIT"}
         /\ StoreOver' = (StoreOver \ {n}) \cup {m \in Users \cap {n} : Ends(m)' = "ROLLBACK"}
<1>1. \A m \in Users \ {n} : Ends(m)' = Ends(m)
  BY DEF OthersStay, Ends, At
<1>2. /\ ClosingWith("COMMIT")' = {m \in Users : Ends(m)' = "COMMIT"}
      /\ StoreOver' = {m \in Users : Ends(m)' = "ROLLBACK"}
  BY DEF ClosingWith, StoreOver, Ends, At
<1> QED BY <1>1, <1>2, EndsAre

(* Nor does a step that leaves the end of n as it is.                      *)
LEMMA EndsStay ==
  ASSUME NEW n, OthersStay(n), n \in Users => Ends(n)' = Ends(n)
  PROVE  UNCHANGED <<ClosingWith("COMMIT"), StoreOver>>
<1>1. \A m \in Users : Ends(m)' = Ends(m)
  BY DEF OthersStay, Ends, At
<1>2. /\ ClosingWith("COMMIT")' = {m \in Users : Ends(m)' = "COMMIT"}
      /\ StoreOver' = {m \in Users : Ends(m)' = "ROLLBACK"}
  BY DEF ClosingWith, StoreOver, Ends, At
<1> QED BY <1>1, <1>2, EndsAre

(* What the log's part of a step is in the store.                          *)
LEMMA Keeps ==
  ASSUME IInv, IInv', Logs, NEW n, OthersStay(n), n \in StoreLate => stable' = Len(log)
  PROVE  Store!KeepOrNot(StoreLate' \cap {n})
<1>1. TypeOK /\ stable' \in {stable, Len(log)}
  BY DEF IInv, Logs
<1>2. /\ stable' = stable => StoreLate' = (StoreLate \ {n}) \cup (StoreLate' \cap {n})
      /\ stable' = Len(log) => StoreLate' = StoreLate' \cap {n}
  BY <1>1, LateGoes
<1>3. \/ stable' = stable /\ StoreKept' = StoreKept
      \/ stable' = Len(log) /\ StoreKept' = StoreNow
  BY KeptGoes
<1>4. stable' = stable => StoreLate' = StoreLate \cup (StoreLate' \cap {n})
                       \/ stable' = Len(log)
  BY <1>2
<1>5. stable' = stable /\ stable' = Len(log) => StoreLate = {}
  <2>1. \A m \in Users : At(m, "closing") => tx[m].lsn \in 1 .. Len(log)
    BY <1>1, TxFields, TxNumbers
  <2>2. Len(log) \in Nat
    BY <1>1, LogFacts
  <2> QED BY <2>1, <2>2 DEF StoreLate, ClosingWith
<1> QED BY <1>2, <1>3, <1>4, <1>5 DEF Store!KeepOrNot

(* A step that ends no transaction and writes nothing in a block that      *)
(* counts does no more than that.                                          *)
LEMMA QuietStep ==
  ASSUME IInv, IInv', Logs, UNCHANGED commits, NEW n, OthersStay(n),
         n \in Users => Ends(n)' = Ends(n),
         n \in StoreLate => stable' = Len(log), n \notin StoreLate',
         \A m \in Users : Works(m)' = Works(m)
  PROVE  Store!Keep
<1>1. StoreNow' = StoreNow
  BY NowStays
<1>2. Store!KeepOrNot(StoreLate' \cap {n}) /\ StoreLate' \cap {n} = {}
  BY Keeps
<1>3. StoreWork' = StoreWork
  BY DEF StoreWork, Works
<1>4. ClosingWith("COMMIT")' = ClosingWith("COMMIT") /\ StoreOver' = StoreOver
  BY EndsStay
<1> QED BY <1>1, <1>2, <1>3, <1>4 DEF Store!Keep

(* A write of a running transaction in a block that counts.                *)
LEMMA WriteStep ==
  ASSUME IInv, IInv', Logs, UNCHANGED commits, NEW n \in Users, OthersStay(n),
         Live(n), Live(n)', NEW b \in Ints, xlock[b] \in {NoTx, n}, xlock'[b] = n,
         \A c \in Ints \ {b} : xlock'[c] = xlock[c] /\ buf'[c].page = buf[c].page
  PROVE  Store!Write(n, b, buf'[b].page)
<1>1. Ends(n) = "NONE" /\ Ends(n)' = "NONE"
  BY DEF Live, Ends, At
<1>2. ClosingWith("COMMIT")' = ClosingWith("COMMIT") /\ StoreOver' = StoreOver
  BY <1>1, EndsStay
<1>3. n \notin StoreLate /\ n \notin StoreLate'
  BY DEF StoreLate, ClosingWith, Live, At
<1>4. Store!KeepOrNot({})
  <2>1. Store!KeepOrNot(StoreLate' \cap {n}) /\ StoreLate' \cap {n} = {}
    BY <1>3, Keeps
  <2> QED BY <2>1
<1>5. StoreNow' = StoreNow /\ DOMAIN StoreNow = Ints
  BY NowStays DEF StoreNow
<1>6. Store!Open(n)
  BY <1>1, EndsAre DEF Store!Open
<1>7. Ints \subseteq Blocks /\ Ints' = Ints
  BY DEF Ints, Logs
<1>8. ASSUME NEW m \in Users \ {n}
      PROVE  WorkSame(m) /\ b \notin DOMAIN StoreWork[m]
  <2>1. m # NoTx /\ xlock[b] # m /\ xlock'[b] # m
    BY TxNumbers
  <2>2. WorkSame(m)
    BY <2>1 DEF WorkSame, OthersStay, Live
  <2>3. DOMAIN StoreWork[m] \subseteq Wrote(m)
    BY DEF StoreWork
  <2> QED BY <2>1, <2>2, <2>3 DEF Wrote
<1>9. StoreWork' = [StoreWork EXCEPT ![n] = Works(n)']
  BY <1>8, WorkGoes DEF Logs
<1>10. Works(n)' = [c \in DOMAIN Works(n) \cup {b} |-> IF c = b THEN buf'[b].page ELSE Works(n)[c]]
  <2>1. Works(n) = [c \in Wrote(n) \cap Ints |-> buf[c].page]
    BY DEF Works
  <2>2. Works(n)' = [c \in (Wrote(n) \cap Ints)' |-> buf'[c].page]
    BY DEF Works
  <2>3. (Wrote(n) \cap Ints)' = (Wrote(n) \cap Ints) \cup {b}
    BY <1>7 DEF Wrote
  <2>4. \A c \in (Wrote(n) \cap Ints) \cup {b} : c # b => buf'[c].page = Works(n)[c]
    BY <2>1
  <2> QED BY <2>1, <2>2, <2>3, <2>4
<1>11. StoreWork[n] = Works(n)
  BY WorkIs
<1>12. StoreWork' = [StoreWork EXCEPT ![n] = [c \in DOMAIN @ \cup {b} |-> IF c = b THEN buf'[b].page ELSE @[c]]]
  BY <1>9, <1>10, <1>11
<1> QED BY <1>2, <1>4, <1>5, <1>6, <1>8, <1>12 DEF Store!Write

(* The log and the commits of a step that commits nothing.                 *)
LEMMA LogsOf ==
  ASSUME IInv, UNCHANGED <<commits, tainted>>, ~At(Boot, "exited"), ~At(Boot, "exited")',
         \/ UNCHANGED log /\ stable' \in {stable, Len(log)}
         \/ \E r \in Records : AppendRec(r)
  PROVE  Logs
<1>1. TypeOK /\ Len(log) \in Nat
  BY LogFacts DEF IInv
<1>2. \A b : \A k : Truth(b, k)' = Truth(b, k)
  BY TruthsStay
<1>3. stable' \in {stable, Len(log)} /\ Len(log') \in Nat /\ Len(log) <= Len(log')
  BY <1>1, Appended DEF AppendRec
<1> QED BY <1>2, <1>3 DEF Logs

(* What Begin does.                                                        *)
LEMMA BeginStore ==
  ASSUME IInv, IInv', NEW n \in Users, Begin(n)
  PROVE  Store!Keep
<1>1. /\ TypeOK /\ n \in Txs /\ n # Boot /\ n # NoTx /\ ~At(Boot, "exited") /\ At(n, "none")
      /\ Boot \in Txs /\ Users \subseteq Txs
  BY TxNumbers DEF IInv, Begin, IsUp, At
<1>2. /\ tx'[n] = [st |-> "active"] /\ \A m \in Txs : m # n => tx'[m] = tx[m]
      /\ UNCHANGED <<disk, buf, xlock, commits, tainted>>
  BY <1>1, GotoDoes DEF Begin, history
<1>3. Logs
  BY <1>1, <1>2, MadeRecords, LogsOf DEF Begin, At
<1>4. OthersStay(n)
  BY <1>1, <1>2 DEF OthersStay
<1>5. Ends(n)' = Ends(n) /\ n \notin StoreLate /\ n \notin StoreLate' /\ ~Live(n)
  BY <1>1, <1>2 DEF Ends, StoreLate, ClosingWith, Live, At
<1>6. Works(n)' = Works(n)
  <2>1. Wrote(n) = {}
    BY <1>1, <1>5 DEF IInv, LockedOK, OwnerOK, Wrote, At
  <2>2. Wrote(n)' = {}
    BY <1>2, <2>1 DEF Wrote
  <2> QED BY <1>5, <2>1, <2>2 DEF Works
<1>7. ASSUME NEW m \in Users \ {n} PROVE Works(m)' = Works(m)
  <2>1. WorkSame(m)
    BY <1>2, <1>4 DEF WorkSame, OthersStay, Live
  <2> QED BY <1>2, <2>1, WorksStay
<1> QED BY <1>2, <1>3, <1>4, <1>5, <1>6, <1>7, QuietStep

(* A flush of a page saves log records, as an eviction may as well.        *)
LEMMA FlushStore ==
  ASSUME IInv, IInv', NEW b \in Blocks, FlushBuffer(b), ~At(Boot, "exited"),
         UNCHANGED <<log, tx, xlock, finished, history>>
  PROVE  Store!Keep
<1>1. stable' \in {stable, Len(log)}
  BY DEF FlushBuffer, FlushLog
<1>2. Logs
  BY <1>1, LogsOf DEF At, history
<1>3. OthersStay(NoTx) /\ NoTx \notin Users /\ NoTx \notin StoreLate /\ NoTx \notin StoreLate'
  BY TxNumbers DEF OthersStay, StoreLate, ClosingWith, At
<1>4. \A c \in Blocks : buf'[c].page = buf[c].page
  BY DEF FlushBuffer, IInv, TypeOK
<1>5. Ints \subseteq Blocks
  BY DEF Ints
<1>6. \A m \in Users : Works(m)' = Works(m)
  <2>1. \A m \in Users : WorkSame(m)
    BY <1>4, <1>5 DEF WorkSame, Live
  <2> QED BY <2>1, WorksStay DEF history
<1> QED BY <1>2, <1>3, <1>6, QuietStep DEF history

(* A transaction that goes on, without a write in a block that counts.     *)
LEMMA GoesOnStore ==
  ASSUME IInv, IInv', NEW n \in Users, Live(n), Live(n)', OthersStay(n), tx'[Boot] = tx[Boot],
         UNCHANGED <<commits, tainted>>,
         \/ UNCHANGED log /\ stable' \in {stable, Len(log)}
         \/ \E r \in Records : AppendRec(r),
         \A b \in Ints : (xlock'[b] = xlock[b]) /\ (buf'[b].page = buf[b].page)
  PROVE  Store!Keep
<1>1. ~At(Boot, "exited") /\ ~At(Boot, "exited")'
  BY UserIsUp DEF Live, At
<1>2. Logs
  BY <1>1, LogsOf
<1>3. Ends(n)' = Ends(n) /\ n \notin StoreLate /\ n \notin StoreLate'
  BY DEF Ends, StoreLate, ClosingWith, Live, At
<1>4. \A m \in Users : Works(m)' = Works(m)
  <2>1. \A m \in Users : WorkSame(m)
    BY DEF WorkSame, OthersStay, Live
  <2> QED BY <2>1, WorksStay
<1> QED BY <1>2, <1>3, <1>4, QuietStep

(* commit and rollback begin to flush, or to undo.                         *)
LEMMA TurnStore ==
  ASSUME IInv, IInv', NEW n \in Users, Commit(n) \/ Rollback(n)
  PROVE  Store!Keep
<1>1. TypeOK /\ n \in Txs /\ n # Boot /\ Boot \in Txs /\ Users \subseteq Txs
  BY TxNumbers DEF IInv
<1>2. Live(n) /\ Live(n)' /\ OthersStay(n) /\ tx'[Boot] = tx[Boot]
  BY <1>1, GotoDoes DEF Commit, Rollback, Live, At, OthersStay
<1>3. UNCHANGED <<log, buf, xlock, commits, tainted>> /\ stable' \in {stable, Len(log)}
  BY DEF Commit, Rollback, history
<1> QED BY <1>2, <1>3, GoesOnStore

(* What LogWrite does: the block is locked, its content is in the log.     *)
LEMMA LogWriteStore ==
  ASSUME IInv, IInv', NEW n \in Users, NEW d \in Blocks, NEW v \in Vals, LogWrite(n, d, v)
  PROVE  Store!Keep \/ \E b \in Ints : Store!Write(n, b, buf'[b].page)
<1>0. /\ TypeOK /\ n \in Txs /\ n # Boot /\ At(n, "active") /\ Live(n)
      /\ ~At(Boot, "exited") /\ Boot \in Txs /\ Users \subseteq Txs
  BY UserIsUp, TxNumbers DEF IInv, LogWrite, At, Live
<1>1. SetRec(n, d, buf[d].page) \in Records /\ AppendRec(SetRec(n, d, buf[d].page))
  <2>1. buf[d].page \in Nat
    BY <1>0 DEF TypeOK
  <2> QED BY <2>1, MadeRecords DEF LogWrite
<1>2. /\ tx'[n].st = "writing" /\ \A q \in Txs : q # n => tx'[q] = tx[q]
      /\ UNCHANGED <<buf, commits, tainted>>
      /\ xlock[d] \in {NoTx, n} /\ xlock'[d] = n
      /\ \A b \in Blocks : b # d => xlock'[b] = xlock[b]
  BY <1>0, GotoDoes DEF LogWrite, history, TypeOK
<1>3. Live(n)' /\ OthersStay(n) /\ tx'[Boot] = tx[Boot] /\ Ints \subseteq Blocks
  BY <1>0, <1>2 DEF Live, OthersStay, Ints
<1>4. CASE d \in Ints
  <2>1. Logs
    BY <1>0, <1>1, <1>2, <1>3, LogsOf DEF At
  <2>2. Store!Write(n, d, buf'[d].page)
    BY <1>0, <1>2, <1>3, <1>4, <2>1, WriteStep
  <2> QED BY <1>4, <2>2
<1>5. CASE d \notin Ints
  <2>1. \A b \in Ints : (xlock'[b] = xlock[b]) /\ (buf'[b].page = buf[b].page)
    BY <1>2, <1>3, <1>5
  <2> QED BY <1>0, <1>1, <1>2, <1>3, <2>1, GoesOnStore
<1> QED BY <1>4, <1>5

(* A change of the page of a block that n has locked.                      *)
LEMMA ChangeStore ==
  ASSUME IInv, IInv', NEW n \in Users, Live(n), Live(n)', OthersStay(n), tx'[Boot] = tx[Boot],
         UNCHANGED <<log, stable, xlock, commits, tainted>>,
         NEW d \in Blocks, xlock[d] = n, \A b \in Blocks : b # d => buf'[b] = buf[b]
  PROVE  Store!Keep \/ \E b \in Ints : Store!Write(n, b, buf'[b].page)
<1>1. Ints \subseteq Blocks
  BY DEF Ints
<1>2. CASE d \in Ints
  <2>1. ~At(Boot, "exited") /\ ~At(Boot, "exited")'
    BY UserIsUp DEF Live, At
  <2>2. Logs
    BY <2>1, LogsOf
  <2>3. Store!Write(n, d, buf'[d].page)
    BY <1>1, <1>2, <2>2, WriteStep
  <2> QED BY <1>2, <2>3
<1>3. CASE d \notin Ints
  <2>1. \A b \in Ints : (xlock'[b] = xlock[b]) /\ (buf'[b].page = buf[b].page)
    BY <1>1, <1>3
  <2> QED BY <2>1, GoesOnStore
<1> QED BY <1>2, <1>3

(* What ApplyWrite does: the page is changed.                              *)
LEMMA ApplyWriteStore ==
  ASSUME IInv, IInv', NEW n \in Users, ApplyWrite(n)
  PROVE  Store!Keep \/ \E b \in Ints : Store!Write(n, b, buf'[b].page)
<1>0. TypeOK /\ n \in Txs /\ n # Boot /\ Boot \in Txs /\ Users \subseteq Txs /\ At(n, "writing")
  BY TxNumbers DEF IInv, ApplyWrite
<1>1. /\ tx'[n] = [st |-> "active"] /\ \A m \in Txs : m # n => tx'[m] = tx[m]
      /\ UNCHANGED <<log, stable, xlock, commits, tainted>>
  BY <1>0, GotoDoes DEF ApplyWrite, history
<1>2. tx[n].blk \in Blocks /\ xlock[tx[n].blk] = n
  BY <1>0, TxFields DEF IInv, WritingOK
<1>3. \A b \in Blocks : b # tx[n].blk => buf'[b] = buf[b]
  BY <1>0, <1>2 DEF ApplyWrite, TypeOK
<1>4. Live(n) /\ Live(n)' /\ OthersStay(n) /\ tx'[Boot] = tx[Boot]
  BY <1>0, <1>1 DEF Live, OthersStay, At
<1> QED BY <1>1, <1>2, <1>3, <1>4, ChangeStore

(* The record that a rollback turns to is of a block it has locked.        *)
LEMMA UndoesOwn ==
  ASSUME IInv, NEW n \in Users, At(n, "undoing")
  PROVE  \E i \in 1 .. Len(log) :
            i = NextOwn(n) /\ (log[i].op = "SET" => log[i].blk \in Blocks /\ xlock[log[i].blk] = n)
<1>0. TypeOK /\ n \in Txs /\ Live(n)
  BY TxNumbers DEF IInv, Live, At
<1>1. tx[n].pos \in Nat /\ tx[n].pos <= Len(log) /\ Len(log) \in Nat
  BY <1>0, TxFields, LogFacts DEF At
<1>2. PICK i \in 1 .. tx[n].pos : /\ i = NextOwn(n) /\ log[i].tx = n
                                  /\ \A j \in i + 1 .. tx[n].pos : log[j].tx # n
  BY <1>0, NextOwnIs DEF IInv
<1>3. PICK s \in 1 .. Len(log) : log[s] = Rec("START", n) /\ Fresh(s) /\ s <= tx[n].pos
  BY <1>0 DEF IInv, StartOK
<1>4. log[s].tx = n
  BY <1>0, <1>3, MadeRecords
<1>5. s <= i /\ i \in 1 .. Len(log)
  BY <1>1, <1>2, <1>3, <1>4
<1>6. \A j \in i .. Len(log) : j \in s .. Len(log)
  BY <1>1, <1>3, <1>5
<1>7. Fresh(i)
  BY <1>3, <1>6 DEF Fresh
<1>8. log[i].op = "SET" => xlock[log[i].blk] = n
  BY <1>0, <1>2, <1>5, <1>7 DEF IInv, OwnOK
<1>9. log[i].op = "SET" => log[i].blk \in Blocks
  BY <1>0, <1>5, LogFacts, RecordFields
<1> QED BY <1>2, <1>5, <1>8, <1>9

(* What UndoOne does: at START, rollback turns to the closing record; at a *)
(* SET, the page is changed back.                                          *)
LEMMA UndoOneStore ==
  ASSUME IInv, IInv', NEW n \in Users, UndoOne(n)
  PROVE  Store!Keep \/ \E b \in Ints : Store!Write(n, b, buf'[b].page)
<1>0. TypeOK /\ n \in Txs /\ n # Boot /\ Boot \in Txs /\ Users \subseteq Txs /\ At(n, "undoing")
  BY TxNumbers DEF IInv, UndoOne
<1>1. PICK i \in 1 .. Len(log) :
         i = NextOwn(n) /\ (log[i].op = "SET" => log[i].blk \in Blocks /\ xlock[log[i].blk] = n)
  BY <1>0, UndoesOwn
<1>2. /\ \/ /\ log[i].op = "START"
            /\ Goto(n, [st |-> "flushing", with |-> "ROLLBACK"])
            /\ UNCHANGED buf
         \/ /\ log[i].op = "SET"
            /\ Undo(n, log[i])
            /\ Goto(n, [st |-> "undoing", pos |-> i - 1])
      /\ UNCHANGED <<log, stable, disk, xlock, finished, commits, acked, tainted>>
  BY <1>1 DEF UndoOne, history
<1>3. Live(n) /\ Live(n)' /\ OthersStay(n) /\ tx'[Boot] = tx[Boot]
  BY <1>0, <1>2, GotoDoes DEF Live, OthersStay, At
<1>4. CASE UNCHANGED buf
  <2>1. stable' \in {stable, Len(log)}
    BY <1>2
  <2> QED BY <1>2, <1>3, <1>4, <2>1, GoesOnStore
<1>5. CASE log[i].op = "SET" /\ Undo(n, log[i])
  <2>1. \A b \in Blocks : b # log[i].blk => buf'[b] = buf[b]
    BY <1>0, <1>1, <1>5, UndoDoes
  <2> QED BY <1>1, <1>2, <1>3, <1>5, <2>1, ChangeStore
<1> QED BY <1>2, <1>4, <1>5

(* Recovery restores blocks without a change of what is committed.         *)
LEMMA RecoverOneStore == ASSUME IInv, IInv', RecoverOne PROVE Store!Keep
<1>0. TypeOK /\ Boot \in Txs /\ Users \subseteq Txs /\ Boot \notin Users /\ At(Boot, "recovering")
  BY TxNumbers DEF IInv, RecoverOne
<1>1. tx'[Boot].st \in {"flushing", "recovering"} /\ OthersStay(Boot)
  <2>1. PICK s : s.st \in {"flushing", "recovering"} /\ Goto(Boot, s)
    <3> DEFINE s1 == [st |-> "flushing", with |-> "CHECKPOINT"]
               s2(i) == [st |-> "recovering", pos |-> i - 1]
    <3>1. \A i : i = tx[Boot].pos => Goto(Boot, s1) \/ Goto(Boot, s2(i))
      BY <1>0, RecoverCases
    <3>2. s1.st = "flushing" /\ \A i : s2(i).st = "recovering"
      OBVIOUS
    <3> HIDE DEF s1, s2
    <3> QED BY <3>1, <3>2
  <2>2. tx'[Boot] = s /\ \A m \in Txs : m # Boot => tx'[m] = tx[m]
    BY <1>0, <2>1, GotoDoes
  <2> QED BY <1>0, <2>1, <2>2 DEF OthersStay
<1>2. UNCHANGED <<log, stable, xlock, commits, tainted>>
  BY DEF RecoverOne, history
<1>3. ~At(Boot, "exited") /\ ~At(Boot, "exited")' /\ ~IsUp
  BY <1>0, <1>1 DEF At, IsUp
<1>4. Logs
  BY <1>2, <1>3, LogsOf
<1>5. Boot \notin StoreLate /\ Boot \notin StoreLate'
  BY <1>0 DEF StoreLate, ClosingWith, At
<1>6. ASSUME NEW m \in Users PROVE Works(m)' = Works(m)
  <2>1. At(m, "none") /\ tx'[m] = tx[m]
    BY <1>0, <1>1, <1>3 DEF IInv, StatesOK, OthersStay
  <2>2. ~Live(m)
    BY <2>1 DEF Live, At
  <2>3. WorkSame(m)
    BY <2>1, <2>2 DEF WorkSame, Live
  <2> QED BY <1>2, <2>3, WorksStay
<1> QED BY <1>0, <1>1, <1>2, <1>4, <1>5, <1>6, QuietStep

(* A step of the boot transaction at its ends, before any other has begun. *)
LEMMA BootStore ==
  ASSUME IInv, IInv', Close(Boot) \/ End(Boot)
  PROVE  Store!Keep
<1>0. TypeOK /\ Boot \in Txs /\ Users \subseteq Txs /\ Boot \notin Users
  BY TxNumbers DEF IInv
<1>1. tx[Boot].st \in {"flushing", "closing"} /\ tx'[Boot].st # "exited" /\ OthersStay(Boot)
  <2>1. tx[Boot].st \in {"flushing", "closing"}
    BY DEF Close, End, At
  <2>2. tx'[Boot].st # "exited" /\ \A m \in Txs : m # Boot => tx'[m] = tx[m]
    BY <1>0, GotoDoes DEF Close, End
  <2> QED BY <1>0, <2>1, <2>2 DEF OthersStay
<1>2. ~At(Boot, "exited") /\ ~At(Boot, "exited")' /\ ~IsUp
  BY <1>1 DEF At, IsUp
<1>3. UNCHANGED <<commits, tainted>>
  BY <1>0 DEF Close, End
<1>4. \/ UNCHANGED log /\ stable' \in {stable, Len(log)}
      \/ \E r \in Records : AppendRec(r)
  <2>1. CASE End(Boot)
    BY <2>1 DEF End, FlushLog
  <2>2. CASE Close(Boot)
    <3>1. tx[Boot].with \in {"COMMIT", "ROLLBACK", "CHECKPOINT"}
      BY <1>0, <2>2, TxFields DEF Close
    <3>2. Rec(tx[Boot].with, Boot) \in Records
      BY <1>0, <3>1, MadeRecords
    <3> QED BY <2>2, <3>2 DEF Close
  <2> QED BY <2>1, <2>2
<1>5. Logs
  BY <1>2, <1>3, <1>4, LogsOf
<1>6. Boot \notin StoreLate /\ Boot \notin StoreLate'
  BY <1>0 DEF StoreLate, ClosingWith, At
<1>7. ASSUME NEW m \in Users PROVE Works(m)' = Works(m)
  <2>1. At(m, "none") /\ tx'[m] = tx[m]
    BY <1>0, <1>1, <1>2 DEF IInv, StatesOK, OthersStay
  <2>2. ~Live(m)
    BY <2>1 DEF Live, At
  <2>3. WorkSame(m)
    BY <2>1, <2>2 DEF WorkSame, Live
  <2> QED BY <1>3, <2>3, WorksStay
<1> QED BY <1>0, <1>1, <1>3, <1>5, <1>6, <1>7, QuietStep

(* The closing record is the commit, or the end of a rollback.             *)
LEMMA ClosesStore ==
  ASSUME IInv, IInv', NEW n \in Users, Close(n)
  PROVE  Store!Commit(n) \/ Store!Rollback(n)
<1> DEFINE w == tx[n].with
<1>0. /\ TypeOK /\ At(n, "flushing") /\ Live(n) /\ Boot \in Txs /\ Users \subseteq Txs
      /\ n \in Txs /\ n # Boot /\ n # NoTx /\ ~At(Boot, "exited") /\ w \in {"COMMIT", "ROLLBACK"}
  <2>1. At(n, "flushing")
    BY DEF Close
  <2> QED BY <2>1, UserIsUp, TxNumbers DEF IInv, StatesOK, At, Live
<1>1. PICK m \in Nat : m = Len(log)
  BY <1>0, LogFacts
<1>2. Rec(w, n) \in Records /\ AppendRec(Rec(w, n)) /\ stable' \in {stable, m}
  BY <1>0, <1>1, MadeRecords DEF Close, AppendRec
<1>3. /\ tx'[n] = [st |-> "closing", with |-> w, lsn |-> m + 1]
      /\ \A q \in Txs : q # n => tx'[q] = tx[q]
      /\ UNCHANGED <<disk, buf, xlock, tainted>>
  <2>1. Goto(n, [st |-> "closing", with |-> w, lsn |-> m + 1])
    BY <1>1 DEF Close, NextLsn
  <2> QED BY <1>0, <2>1, GotoDoes DEF Close
<1>4. /\ OthersStay(n) /\ tx'[Boot] = tx[Boot] /\ ~At(Boot, "exited")' /\ ~Live(n)'
      /\ Ints' = Ints /\ Ints \subseteq Blocks
  BY <1>0, <1>3 DEF OthersStay, At, Live, Ints
<1>5. /\ \A c \in commits : c.at \in 1 .. m
      /\ Len(log') = m + 1 /\ stable \in 1 .. m
  BY <1>0, <1>1, <1>2, Appended, LogFacts DEF IInv, HistoryOK
<1>6. Works(n)' = Store!Nothing
  BY <1>4 DEF Works, Store!Nothing
<1>7. StoreWork' = [StoreWork EXCEPT ![n] = Store!Nothing]
  <2>1. \A q \in Users \ {n} : WorkSame(q)
    BY <1>3, <1>4 DEF WorkSame, OthersStay, Live
  <2> QED BY <1>3, <1>6, <2>1, WorkGoes
<1>8. Ends(n) = "NONE" /\ Ends(n)' = w
  BY <1>0, <1>3 DEF Ends, At
<1>9. Store!Open(n) /\ n \notin ClosingWith("COMMIT") /\ n \notin StoreOver
  BY <1>8, EndsAre DEF Store!Open
<1>10. n \notin StoreLate
  BY <1>0 DEF StoreLate, ClosingWith, At
<1>11. /\ ClosingWith("COMMIT")' = (ClosingWith("COMMIT") \ {n}) \cup {q \in Users \cap {n} : Ends(q)' = "COMMIT"}
       /\ StoreOver' = (StoreOver \ {n}) \cup {q \in Users \cap {n} : Ends(q)' = "ROLLBACK"}
  BY <1>4, EndsGo
<1>12. CASE w = "ROLLBACK"
  <2>1. UNCHANGED commits
    BY <1>12 DEF Close
  <2>2. Logs
    BY <1>0, <1>2, <1>3, <1>4, <2>1, LogsOf
  <2>3. n \notin StoreLate'
    BY <1>3, <1>12 DEF StoreLate, ClosingWith, At
  <2>4. Store!KeepOrNot({})
    <3>1. Store!KeepOrNot(StoreLate' \cap {n}) /\ StoreLate' \cap {n} = {}
      BY <1>4, <1>10, <2>2, <2>3, Keeps
    <3> QED BY <3>1
  <2>5. StoreNow' = StoreNow
    BY <2>1, <2>2, NowStays
  <2>6. ClosingWith("COMMIT")' = ClosingWith("COMMIT") /\ StoreOver' = StoreOver \cup {n}
    BY <1>8, <1>9, <1>11, <1>12
  <2> QED BY <1>7, <1>9, <2>4, <2>5, <2>6 DEF Store!Rollback
<1>13. CASE w = "COMMIT"
  <2> DEFINE d == [at |-> m + 1, wrote |-> [b \in Wrote(n) |-> buf[b].page]]
  <2>1. commits' = commits \cup {d}
    BY <1>1, <1>13 DEF Close, NextLsn
  <2>2. d.at = m + 1 /\ d.wrote = [b \in Wrote(n) |-> buf[b].page]
    OBVIOUS
  <2> HIDE DEF d
  <2>3. \A b : /\ \A k \in 0 .. m : Truth(b, k)' = Truth(b, k)
               /\ b \notin Wrote(n) => Truth(b, m + 1)' = Truth(b, m)
               /\ b \in Wrote(n) => Truth(b, m + 1)' = buf[b].page
    <3> SUFFICES ASSUME NEW b
                 PROVE  /\ \A k \in 0 .. m : Truth(b, k)' = Truth(b, k)
                        /\ b \notin Wrote(n) => Truth(b, m + 1)' = Truth(b, m)
                        /\ b \in Wrote(n) => Truth(b, m + 1)' = buf[b].page
      OBVIOUS
    <3>0. PICK C : C = {d}
      OBVIOUS
    <3>1. commits' = commits \cup C /\ \A c \in C : c.at = m + 1 /\ DOMAIN c.wrote = Wrote(n)
      BY <2>1, <2>2, <3>0
    <3>2. /\ \A k \in 0 .. m : Truth(b, k)' = Truth(b, k)
          /\ (\A c \in C : b \notin DOMAIN c.wrote) => Truth(b, m + 1)' = Truth(b, m)
      BY <1>1, <1>5, <3>1, TruthGrows
    <3>3. b \in Wrote(n) => Truth(b, m + 1)' = d.wrote[b]
      BY <1>1, <1>5, <2>1, <2>2, TruthOfLast
    <3> QED BY <2>2, <3>0, <3>1, <3>2, <3>3
  <2>4. Logs
    <3>1. \A b \in Ints : \A k \in 0 .. Len(log) : Truth(b, k)' = Truth(b, k)
      BY <1>1, <2>3
    <3>2. stable' \in {stable, Len(log)} /\ Len(log') \in Nat /\ Len(log) <= Len(log')
      BY <1>1, <1>2, <1>5
    <3> QED BY <1>0, <1>3, <1>4, <3>1, <3>2 DEF Logs
  <2>5. n \in StoreLate'
    <3>1. ~(m + 1 <= stable')
      BY <1>2, <1>5
    <3>2. stable' \in Nat
      BY <1>2, <1>5
    <3> QED BY <1>3, <1>13, <3>1, <3>2 DEF StoreLate, ClosingWith, At
  <2>6. Store!KeepOrNot({n})
    <3>1. Store!KeepOrNot(StoreLate' \cap {n}) /\ StoreLate' \cap {n} = {n}
      BY <1>4, <1>10, <2>4, <2>5, Keeps
    <3> QED BY <3>1
  <2>7. StoreNow' = [b \in DOMAIN StoreNow |->
                       IF b \in DOMAIN StoreWork[n] THEN StoreWork[n][b] ELSE StoreNow[b]]
    <3>1. NowIs /\ NowIs'
      BY StoreIs, StoreIsNext
    <3>2. PICK l \in Nat : l = m + 1
      BY <1>1
    <3>3. l = Len(log')
      BY <1>5, <3>2
    <3>4. StoreNow = [b \in Ints |-> Truth(b, m)] /\ StoreNow' = [b \in Ints' |-> Truth(b, l)']
      BY <1>0, <1>1, <1>4, <3>1, <3>3 DEF NowIs
    <3>5. StoreWork[n] = [b \in Wrote(n) \cap Ints |-> buf[b].page]
      BY <1>0, WorkIs DEF Works
    <3>6. \A b \in Ints : Truth(b, l)' = IF b \in DOMAIN StoreWork[n] THEN StoreWork[n][b] ELSE StoreNow[b]
      BY <2>3, <3>2, <3>4, <3>5
    <3> QED BY <1>4, <3>4, <3>6
  <2>8. ClosingWith("COMMIT")' = ClosingWith("COMMIT") \cup {n} /\ StoreOver' = StoreOver
    BY <1>8, <1>9, <1>11, <1>13
  <2> QED BY <1>7, <1>9, <2>6, <2>7, <2>8 DEF Store!Commit
<1> QED BY <1>0, <1>12, <1>13

(* A commit returns when the log is saved up to its record; a rollback has *)
(* ended before.                                                           *)
LEMMA EndStore ==
  ASSUME IInv, IInv', NEW n \in Users, End(n)
  PROVE  Store!Return(n) \/ Store!Keep
<1>0. /\ TypeOK /\ At(n, "closing") /\ Boot \in Txs /\ Users \subseteq Txs
      /\ n \in Txs /\ n # Boot /\ n # NoTx /\ ~At(Boot, "exited")
      /\ tx[n].with \in {"COMMIT", "ROLLBACK"} /\ tx[n].lsn \in 1 .. Len(log)
      /\ Len(log) \in Nat /\ stable \in 1 .. Len(log)
  <2>1. At(n, "closing") /\ TypeOK
    BY DEF End, IInv
  <2> QED BY <2>1, UserIsUp, TxNumbers, TxFields, LogFacts DEF IInv, StatesOK, At
<1>1. /\ tx'[n] = [st |-> "over"] /\ \A q \in Txs : q # n => tx'[q] = tx[q]
      /\ UNCHANGED <<log, disk, buf, commits, tainted>>
      /\ \A b \in Blocks : xlock'[b] = IF xlock[b] = n THEN NoTx ELSE xlock[b]
  <2>1. Goto(n, [st |-> "over"])
    BY <1>0 DEF End
  <2> QED BY <1>0, <2>1, GotoDoes DEF End, Release
<1>2. stable' \in {stable, Len(log)} /\ (tx[n].lsn > stable => stable' = Len(log))
  BY <1>0 DEF End, FlushLog
<1>3. /\ OthersStay(n) /\ tx'[Boot] = tx[Boot] /\ ~At(Boot, "exited")' /\ ~Live(n) /\ ~Live(n)'
      /\ Ints \subseteq Blocks
  BY <1>0, <1>1 DEF OthersStay, At, Live, Ints
<1>4. Logs
  BY <1>0, <1>1, <1>2, <1>3, LogsOf
<1>5. /\ n \in StoreLate => stable' = Len(log)
      /\ n \notin StoreLate'
  BY <1>1, <1>2 DEF StoreLate, ClosingWith, At
<1>6. \A m \in Users : Works(m)' = Works(m)
  <2>1. ASSUME NEW m \in Users PROVE WorkSame(m)
    <3>1. CASE m = n
      BY <1>3, <3>1 DEF WorkSame
    <3>2. CASE m # n
      <4>1. m # NoTx
        BY TxNumbers
      <4> QED BY <1>1, <1>3, <3>2, <4>1 DEF WorkSame, OthersStay, Live
    <3> QED BY <3>1, <3>2
  <2> QED BY <1>1, <2>1, WorksStay
<1>7. Ends(n) = tx[n].with /\ Ends(n)' = "ROLLBACK"
  BY <1>0, <1>1 DEF Ends, At
<1>8. CASE tx[n].with = "ROLLBACK"
  BY <1>1, <1>3, <1>4, <1>5, <1>6, <1>7, <1>8, QuietStep
<1>9. CASE tx[n].with = "COMMIT"
  <2>1. n \in ClosingWith("COMMIT")
    BY <1>7, <1>9, EndsAre
  <2>2. /\ ClosingWith("COMMIT")' = (ClosingWith("COMMIT") \ {n}) \cup {q \in Users \cap {n} : Ends(q)' = "COMMIT"}
        /\ StoreOver' = (StoreOver \ {n}) \cup {q \in Users \cap {n} : Ends(q)' = "ROLLBACK"}
    BY <1>3, EndsGo
  <2>3. ClosingWith("COMMIT")' = ClosingWith("COMMIT") \ {n} /\ StoreOver' = StoreOver \cup {n}
    BY <1>7, <2>2
  <2>4. Store!KeepOrNot({})
    <3>1. Store!KeepOrNot(StoreLate' \cap {n}) /\ StoreLate' \cap {n} = {}
      BY <1>3, <1>4, <1>5, Keeps
    <3> QED BY <3>1
  <2>5. StoreNow' = StoreNow
    BY <1>1, <1>4, NowStays
  <2>6. StoreWork' = StoreWork
    BY <1>6 DEF StoreWork, Works
  <2> QED BY <1>5, <2>1, <2>3, <2>4, <2>5, <2>6 DEF Store!Return
<1> QED BY <1>0, <1>8, <1>9

(* An abandoned transaction takes its blocks out of the store.             *)
LEMMA AbandonStore ==
  ASSUME IInv, IInv', NEW n \in Users, Abandon(n)
  PROVE  Store!Drop(n)
<1>0. /\ TypeOK /\ Live(n) /\ Boot \in Txs /\ Users \subseteq Txs /\ Len(log) \in Nat
      /\ n \in Txs /\ n # Boot /\ n # NoTx /\ ~At(Boot, "exited") /\ stable \in 1 .. Len(log)
  <2>1. Live(n) /\ TypeOK
    BY DEF Abandon, Live, IInv
  <2> QED BY <2>1, UserIsUp, TxNumbers, LogFacts DEF At, Live
<1>1. /\ tx'[n] = [st |-> "over"] /\ \A q \in Txs : q # n => tx'[q] = tx[q]
      /\ UNCHANGED <<log, stable, disk, buf, commits>>
      /\ tainted' = tainted \cup Wrote(n)
      /\ \A b \in Blocks : xlock'[b] = IF xlock[b] = n THEN NoTx ELSE xlock[b]
  BY <1>0, GotoDoes DEF Abandon, Release
<1>2. /\ OthersStay(n) /\ ~At(Boot, "exited")' /\ ~Live(n)'
      /\ Ints \subseteq Blocks /\ Ints' = Ints \ Wrote(n)
  BY <1>0, <1>1 DEF OthersStay, At, Live, Ints
<1>3. /\ StoreWork = [m \in Users |-> Works(m)] /\ StoreWork[n] = Works(n)
      /\ StoreWork' = [m \in Users |-> Works(m)']
  BY WorkIs DEF StoreWork, Works
<1>4. DOMAIN StoreWork[n] = Wrote(n) \cap Ints
  BY <1>0, <1>3 DEF Works
<1>5. Works(n)' = Store!Nothing
  BY <1>2 DEF Works, Store!Nothing
<1>6. ASSUME NEW m \in Users \ {n} PROVE Works(m)' = Works(m)
  <2>1. (Live(m)' <=> Live(m)) /\ m # NoTx
    BY <1>2, TxNumbers DEF OthersStay, Live
  <2>2. (Wrote(m) \cap Ints)' = Wrote(m) \cap Ints
    BY <1>1, <1>2, <2>1 DEF Wrote
  <2>3. Works(m)' = [b \in IF Live(m)' THEN (Wrote(m) \cap Ints)' ELSE {} |-> buf'[b].page]
    BY DEF Works
  <2> QED BY <1>1, <2>1, <2>2, <2>3 DEF Works
<1>7. StoreWork' = [StoreWork EXCEPT ![n] = Store!Nothing]
  BY <1>3, <1>5, <1>6
<1>8. PICK k \in Nat, l \in Nat : k = stable /\ l = Len(log)
  BY <1>0
<1>9. /\ StoreNow = [b \in Ints |-> Truth(b, l)] /\ StoreKept = [b \in Ints |-> Truth(b, k)]
      /\ StoreNow' = [b \in Ints' |-> Truth(b, l)'] /\ StoreKept' = [b \in Ints' |-> Truth(b, k)']
  <2>1. NowIs /\ KeptIs /\ NowIs' /\ KeptIs'
    BY StoreIs, StoreIsNext
  <2>2. k = stable' /\ l = Len(log')
    BY <1>1, <1>8
  <2> QED BY <1>0, <1>2, <1>8, <2>1, <2>2 DEF NowIs, KeptIs
<1>10. \A b : Truth(b, l)' = Truth(b, l) /\ Truth(b, k)' = Truth(b, k)
  BY <1>1, TruthsStay
<1>11. Ints' = DOMAIN StoreNow \ DOMAIN StoreWork[n]
  BY <1>2, <1>4, <1>9
<1>12. /\ StoreNow' = [b \in DOMAIN StoreNow \ DOMAIN StoreWork[n] |-> StoreNow[b]]
       /\ StoreKept' = [b \in DOMAIN StoreNow \ DOMAIN StoreWork[n] |-> StoreKept[b]]
  BY <1>2, <1>9, <1>10, <1>11
<1>13. Ends(n) = "NONE" /\ Ends(n)' = "ROLLBACK"
  BY <1>0, <1>1 DEF Ends, Live, At
<1>14. Store!Open(n) /\ n \notin ClosingWith("COMMIT") /\ n \notin StoreOver
  BY <1>13, EndsAre DEF Store!Open
<1>15. ClosingWith("COMMIT")' = ClosingWith("COMMIT") /\ StoreOver' = StoreOver \cup {n}
  <2>1. /\ ClosingWith("COMMIT")' = (ClosingWith("COMMIT") \ {n}) \cup {q \in Users \cap {n} : Ends(q)' = "COMMIT"}
        /\ StoreOver' = (StoreOver \ {n}) \cup {q \in Users \cap {n} : Ends(q)' = "ROLLBACK"}
    BY <1>2, EndsGo
  <2> QED BY <1>13, <1>14, <2>1
<1>16. StoreLate' = StoreLate
  <2>1. stable' = stable => StoreLate' = (StoreLate \ {n}) \cup (StoreLate' \cap {n})
    BY <1>0, <1>1, <1>2, LateGoes
  <2>2. n \notin StoreLate /\ n \notin StoreLate'
    BY <1>0, <1>1 DEF StoreLate, ClosingWith, At, Live
  <2> QED BY <1>1, <2>1, <2>2
<1> QED BY <1>7, <1>12, <1>14, <1>15, <1>16 DEF Store!Drop

(* When the process dies, or exits, the transactions and what they did are *)
(* gone, and the commits whose record was not saved.                       *)
LEMMA DiesStore ==
  ASSUME IInv, IInv', UNCHANGED tainted, \A n \in Users : tx'[n].st \in {"none", "exited"},
         NEW k \in Nat, NEW j \in Nat, k = stable, j = stable',
         j = IF At(Boot, "exited")' THEN stable' ELSE Len(log'),
         \A b \in Ints : Truth(b, j)' = Truth(b, k)
  PROVE  Store!Crash
<1>1. Ints' = Ints /\ NowIs' /\ KeptIs /\ KeptIs'
  BY StoreIs, StoreIsNext DEF Ints
<1>2. StoreKept = [b \in Ints |-> Truth(b, k)] /\ StoreKept' = [b \in Ints |-> Truth(b, j)']
  BY <1>1 DEF KeptIs
<1>3. StoreNow' = [b \in Ints |-> Truth(b, j)']
  BY <1>1 DEF NowIs
<1>4. StoreNow' = StoreKept /\ StoreKept' = StoreKept
  BY <1>2, <1>3
<1>5. ClosingWith("COMMIT")' = {} /\ StoreLate' = {} /\ StoreOver' = {}
  BY DEF ClosingWith, StoreLate, StoreOver, At
<1>6. StoreWork' = [n \in Users |-> Store!Nothing]
  <2>1. \A n \in Users : ~Live(n)'
    BY DEF Live
  <2>2. StoreWork' = [n \in Users |-> Works(n)']
    BY DEF StoreWork, Works
  <2>3. \A n \in Users : Works(n)' = Store!Nothing
    BY <2>1 DEF Works, Store!Nothing
  <2> QED BY <2>2, <2>3
<1> QED BY <1>4, <1>5, <1>6 DEF Store!Crash

(* What a crash does, with the start of the next session.                  *)
LEMMA CrashStore == ASSUME IInv, IInv', Crash PROVE Store!Crash
<1>0. TypeOK /\ Restart /\ Boot \in Txs /\ Users \subseteq Txs /\ Boot \notin Users
  BY TxNumbers DEF IInv, Crash
<1>1. PICK k \in Nat : k = stable
  BY <1>0, LogFacts
<1>2. Len(log') = k + 1 /\ stable' = k + 1
  BY <1>0, <1>1, Truncated
<1>3. /\ tx'[Boot].st = "recovering" /\ \A n \in Users : tx'[n].st = "none"
      /\ commits' = {c \in commits : c.at <= k} /\ UNCHANGED tainted
  BY <1>0, <1>1 DEF Restart, NotBegun
<1>4. PICK j \in Nat : j = k + 1
  BY <1>1
<1>5. \A c \in commits : c.at \in Nat
  BY <1>0 DEF IInv, HistoryOK
<1>6. \A b : Writers(b, j)' = Writers(b, k)
  BY <1>3, <1>4, <1>5 DEF Writers
<1>7. \A b : Truth(b, j)' = Truth(b, k)
  BY <1>6, TruthSame
<1>8. ~At(Boot, "exited")'
  BY <1>3 DEF At
<1> QED BY <1>1, <1>2, <1>3, <1>4, <1>7, <1>8, DiesStore

(* A process that exits at a record it cannot read has lost its memory.    *)
LEMMA ExitStore == ASSUME IInv, IInv', NEW n \in Txs, Exit(n) PROVE Store!Crash
<1>1. PICK k \in Nat : k = stable
  BY LogFacts DEF IInv
<1>2. /\ \A m \in Txs : tx'[m].st = "exited"
      /\ UNCHANGED <<log, stable, commits, tainted>>
  BY DEF Exit, history
<1>3. At(Boot, "exited")' /\ \A m \in Users : tx'[m].st = "exited"
  BY <1>2, TxNumbers DEF At
<1>4. \A b : Truth(b, k)' = Truth(b, k)
  BY <1>2, TruthsStay
<1> QED BY <1>1, <1>2, <1>3, <1>4, DiesStore

(* Blocks with ints have contents of Vals, in the pool, on disk and in the *)
(* records that remember them.                                             *)
ContentsOK ==
    /\ \A b \in Blocks \ StringBlocks : buf[b].page \in Vals /\ disk[b] \in Vals
    /\ \A i \in 1 .. Len(log) : log[i].op = "SET" /\ log[i].blk \notin StringBlocks =>
            log[i].old \in Vals

(* The new database has them.                                              *)
LEMMA ContentsInit == Init => ContentsOK
<1> SUFFICES ASSUME Init PROVE ContentsOK
  OBVIOUS
<1>1. \A b \in Blocks : buf[b].page = 0 /\ disk[b] = 0
  BY DEF Init, Clean
<1>2. \A i \in 1 .. Len(log) : log[i].op # "SET"
  BY DEF Init, Rec
<1> QED BY <1>1, <1>2, ValsAssumption DEF ContentsOK

(* Records that stay, or that are no SETs, keep them.                      *)
LEMMA ContentsLog ==
  ASSUME TypeOK, ContentsOK,
         \/ UNCHANGED log
         \/ \E r \in Records : /\ AppendRec(r)
                               /\ r.op = "SET" /\ r.blk \notin StringBlocks => r.old \in Vals
  PROVE  \A i \in 1 .. Len(log)' : log'[i].op = "SET" /\ log'[i].blk \notin StringBlocks =>
            log'[i].old \in Vals
<1>1. CASE UNCHANGED log
  BY <1>1 DEF ContentsOK
<1>2. ASSUME NEW r \in Records, AppendRec(r),
             r.op = "SET" /\ r.blk \notin StringBlocks => r.old \in Vals
      PROVE  \A i \in 1 .. Len(log)' : log'[i].op = "SET" /\ log'[i].blk \notin StringBlocks =>
            log'[i].old \in Vals
  <2>1. /\ Len(log') = Len(log) + 1 /\ Len(log) \in Nat /\ log'[Len(log) + 1] = r
        /\ \A i \in 1 .. Len(log) : log'[i] = log[i]
    BY <1>2, Appended, LogFacts
  <2>2. \A i \in 1 .. Len(log') : i \in 1 .. Len(log) \/ i = Len(log) + 1
    BY <2>1
  <2> QED BY <1>2, <2>1, <2>2 DEF ContentsOK
<1> QED BY <1>1, <1>2

(* Undoing a SET record of ints gives back a content.                      *)
LEMMA ContentsUndone ==
  ASSUME TypeOK, ContentsOK, NEW i \in 1 .. Len(log), log[i].op = "SET", NEW n, Undo(n, log[i])
  PROVE  \A b \in Blocks \ StringBlocks : buf'[b].page \in Vals
<1>1. log[i].blk \in Blocks
  BY LogFacts, RecordFields
<1>2. log[i].blk \notin StringBlocks => ReadBack(log[i].blk, log[i].old) \in Vals
  BY DEF ContentsOK, ReadBack
<1> QED BY <1>1, <1>2, UndoDoes DEF ContentsOK

(* Writing pages to the disk keeps them.                                   *)
LEMMA ContentsFlushed ==
  ASSUME TypeOK, ContentsOK, NEW b \in Blocks, FlushBuffer(b), UNCHANGED log
  PROVE  ContentsOK'
<1>1. /\ \A c \in Blocks : buf'[c].page = buf[c].page
      /\ \A c \in Blocks : disk'[c] = IF c = b THEN buf[b].page ELSE disk[c]
  BY DEF FlushBuffer, TypeOK
<1>2. \A c \in Blocks \ StringBlocks : buf'[c].page \in Vals /\ disk'[c] \in Vals
  BY <1>1 DEF ContentsOK
<1> QED BY <1>2, ContentsLog DEF ContentsOK

(* Every step keeps them.                                                  *)
LEMMA ContentsKept == IInv /\ ContentsOK /\ [Next]_vars => ContentsOK'
<1> SUFFICES ASSUME IInv, ContentsOK, [Next]_vars PROVE ContentsOK'
  OBVIOUS
<1>0. TypeOK /\ Boot \in Txs /\ Users \subseteq Txs /\ Boot \notin Users
  BY TxNumbers DEF IInv
(* Most steps leave the pages alone, and append records that are no SETs.  *)
<1>1. ASSUME UNCHANGED <<buf, disk>>,
             UNCHANGED log \/ \E r \in Records : AppendRec(r) /\ r.op # "SET"
      PROVE  ContentsOK'
  <2>1. \A i \in 1 .. Len(log)' : log'[i].op = "SET" /\ log'[i].blk \notin StringBlocks =>
            log'[i].old \in Vals
    BY <1>0, <1>1, ContentsLog
  <2> QED BY <1>1, <2>1 DEF ContentsOK
<1>2. ASSUME UNCHANGED <<disk, log>>, \A b \in Blocks \ StringBlocks : buf'[b].page \in Vals
      PROVE  ContentsOK'
  BY <1>2 DEF ContentsOK
<1>3. CASE UNCHANGED vars
  BY <1>1, <1>3 DEF vars
<1>4. CASE RecoverOne
  <2>1. UNCHANGED <<disk, log>>
    BY <1>4 DEF RecoverOne
  <2>2. PICK i \in 0 .. Len(log) : i = tx[Boot].pos
    BY <1>0, <1>4, TxFields DEF RecoverOne, At
  <2>3. UNCHANGED buf \/ (i # 0 /\ log[i].op = "SET" /\ Undo(Boot, log[i]))
    BY <1>0, <1>4, <2>2, RecoverCases
  <2>4. CASE UNCHANGED buf
    BY <1>1, <2>1, <2>4
  <2>5. CASE i # 0 /\ log[i].op = "SET" /\ Undo(Boot, log[i])
    <3>1. i \in 1 .. Len(log)
      BY <1>0, <2>2, <2>5, LogFacts
    <3>2. \A b \in Blocks \ StringBlocks : buf'[b].page \in Vals
      BY <1>0, <2>5, <3>1, ContentsUndone
    <3> QED BY <1>2, <2>1, <3>2
  <2> QED BY <2>3, <2>4, <2>5
<1>5. ASSUME NEW n \in Txs, Exit(n) PROVE ContentsOK'
  BY <1>1, <1>5 DEF Exit
<1>6. ASSUME NEW n \in Txs, Close(n) PROVE ContentsOK'
  <2>1. tx[n].with \in {"COMMIT", "ROLLBACK", "CHECKPOINT"}
    BY <1>0, <1>6, TxFields DEF Close
  <2>2. Rec(tx[n].with, n) \in Records /\ Rec(tx[n].with, n).op # "SET"
    BY <2>1, MadeRecords
  <2> QED BY <1>1, <1>6, <2>2 DEF Close
<1>7. ASSUME NEW n \in Txs, End(n) PROVE ContentsOK'
  BY <1>1, <1>7 DEF End
<1>8. ASSUME NEW n \in Txs, NEW b \in Blocks, FlushOne(n, b) PROVE ContentsOK'
  BY <1>0, <1>8, ContentsFlushed DEF FlushOne
<1>9. CASE Crash
  <2>1. /\ Len(log') = stable + 1 /\ stable \in 1 .. Len(log)
        /\ \A i \in 1 .. stable : log'[i] = log[i]
        /\ log'[stable + 1] = Rec("START", Boot)
    BY <1>0, <1>9, Truncated, LogFacts DEF Crash
  <2>2. Rec("START", Boot).op = "START"
    BY DEF Rec
  <2>3. \A i \in 1 .. Len(log') : i \in 1 .. stable \/ i = stable + 1
    BY <2>1
  <2>4. \A b \in Blocks : buf'[b].page = disk[b] /\ disk'[b] = disk[b]
    BY <1>9 DEF Crash, Restart, Clean
  <2>5. \A i \in 1 .. stable : i \in 1 .. Len(log)
    BY <2>1
  <2> QED BY <2>1, <2>2, <2>3, <2>4, <2>5 DEF ContentsOK
<1>10. ASSUME NEW b \in Blocks, Steal(b) PROVE ContentsOK'
  BY <1>0, <1>10, ContentsFlushed DEF Steal
<1>11. ASSUME NEW n \in Users, Begin(n) PROVE ContentsOK'
  <2>1. Rec("START", n) \in Records /\ Rec("START", n).op # "SET"
    BY <1>0, MadeRecords
  <2> QED BY <1>1, <1>11, <2>1 DEF Begin
<1>12. ASSUME NEW n \in Users, ApplyWrite(n) PROVE ContentsOK'
  <2>1. tx[n].val \in Vals /\ tx[n].blk \in Blocks
    BY <1>0, <1>12, TxFields DEF ApplyWrite
  <2>2. \A b \in Blocks : buf'[b].page \in {buf[b].page, tx[n].val}
    BY <1>0, <1>12, <2>1 DEF ApplyWrite, TypeOK
  <2>3. UNCHANGED <<disk, log>>
    BY <1>12 DEF ApplyWrite
  <2> QED BY <1>2, <2>1, <2>2, <2>3 DEF ContentsOK
<1>13. ASSUME NEW n \in Users, UndoOne(n) PROVE ContentsOK'
  <2>1. UNCHANGED <<disk, log>>
    BY <1>13 DEF UndoOne
  <2>2. PICK i \in 1 .. Len(log) : i = NextOwn(n)
    BY <1>13, UndoesOwn DEF UndoOne
  <2>3. UNCHANGED buf \/ (log[i].op = "SET" /\ Undo(n, log[i]))
    BY <1>13, <2>2 DEF UndoOne
  <2>4. CASE UNCHANGED buf
    BY <1>1, <2>1, <2>4
  <2>5. CASE log[i].op = "SET" /\ Undo(n, log[i])
    BY <1>0, <1>2, <2>1, <2>5, ContentsUndone
  <2> QED BY <2>3, <2>4, <2>5
<1>14. ASSUME NEW n \in Users, Commit(n) \/ Rollback(n) \/ Abandon(n) PROVE ContentsOK'
  BY <1>1, <1>14 DEF Commit, Rollback, Abandon
<1>15. ASSUME NEW n \in Users, NEW b \in Blocks, NEW v \in Vals, LogWrite(n, b, v)
       PROVE  ContentsOK'
  <2>1. buf[b].page \in Nat /\ (b \notin StringBlocks => buf[b].page \in Vals)
    BY <1>0 DEF TypeOK, ContentsOK
  <2>2. /\ SetRec(n, b, buf[b].page) \in Records
        /\ SetRec(n, b, buf[b].page).blk = b /\ SetRec(n, b, buf[b].page).old = buf[b].page
    BY <2>1, MadeRecords
  <2>3. AppendRec(SetRec(n, b, buf[b].page)) /\ UNCHANGED <<buf, disk>>
    BY <1>15 DEF LogWrite
  <2>4. \A i \in 1 .. Len(log)' : log'[i].op = "SET" /\ log'[i].blk \notin StringBlocks =>
            log'[i].old \in Vals
    BY <1>0, <2>1, <2>2, <2>3, ContentsLog
  <2> QED BY <2>3, <2>4 DEF ContentsOK
<1> QED BY <1>3, <1>4, <1>5, <1>6, <1>7, <1>8, <1>9, <1>10, <1>11, <1>12, <1>13, <1>14, <1>15
        DEF Next, SystemStep

(* A step of the database is a step of the store, or none.                 *)
LEMMA StepStore ==
  IInv /\ IInv' /\ ContentsOK' /\ [Next]_vars =>
    Store!Next \/ UNCHANGED <<StoreNow, StoreKept, StoreWork, ClosingWith("COMMIT"),
                              StoreLate, StoreOver>>
<1> SUFFICES ASSUME IInv, IInv', ContentsOK', [Next]_vars
             PROVE  Store!Next \/ UNCHANGED <<StoreNow, StoreKept, StoreWork,
                                      ClosingWith("COMMIT"), StoreLate, StoreOver>>
  OBVIOUS
<1>0. /\ Txs = {Boot} \cup Users
      /\ \A b \in Ints : b \in Blocks \ StringBlocks /\ buf'[b].page \in Vals
  BY TxNumbers DEF ContentsOK, Ints
<1>1. CASE UNCHANGED vars
  <2>1. UNCHANGED <<log, stable, disk, buf, tx, xlock, tainted, commits>>
    BY <1>1 DEF vars
  <2>2. /\ Ints' = Ints /\ \A n \in Users : Works(n)' = Works(n)
        /\ ClosingWith("COMMIT")' = ClosingWith("COMMIT") /\ StoreOver' = StoreOver
    BY <2>1 DEF Ints, Works, Wrote, Live, ClosingWith, StoreOver, At
  <2>3. StoreLate' = StoreLate
    BY <2>1 DEF StoreLate, ClosingWith, At
  <2>4. StoreWork' = StoreWork
    BY <2>2 DEF StoreWork, Works
  <2>5. \A b, k : Survives(b, k)' = Survives(b, k) /\ Truth(b, k)' = Truth(b, k)
    BY <2>1, TodoSame DEF Survives, Truth, Writers
  <2>6. StoreNow' = StoreNow /\ StoreKept' = StoreKept
    BY <2>1, <2>2, <2>5 DEF StoreNow, StoreKept, IsUp, At
  <2> QED BY <2>2, <2>3, <2>4, <2>6
<1>2. CASE RecoverOne
  BY <1>2, RecoverOneStore DEF Store!Next
<1>3. ASSUME NEW n \in Txs, Exit(n) PROVE Store!Next
  BY <1>3, ExitStore DEF Store!Next
<1>4. ASSUME NEW n \in Txs, Close(n) PROVE Store!Next
  BY <1>0, <1>4, BootStore, ClosesStore DEF Store!Next
<1>5. ASSUME NEW n \in Txs, End(n) PROVE Store!Next
  BY <1>0, <1>5, BootStore, EndStore DEF Store!Next
<1>6. ASSUME NEW n \in Txs, NEW b \in Blocks, FlushOne(n, b) PROVE Store!Next
  <2>1. ~At(Boot, "exited")
    BY <1>0, <1>6 DEF FlushOne, IInv, StatesOK, At
  <2> QED BY <1>6, <2>1, FlushStore DEF FlushOne, Store!Next
<1>7. CASE Crash
  BY <1>7, CrashStore DEF Store!Next
<1>8. ASSUME NEW b \in Blocks, Steal(b) PROVE Store!Next
  BY <1>8, FlushStore DEF Steal, Store!Next
<1>9. ASSUME NEW n \in Users, Begin(n) \/ Commit(n) \/ Rollback(n) PROVE Store!Next
  BY <1>9, BeginStore, TurnStore DEF Store!Next
<1>10. ASSUME NEW n \in Users, Store!Keep \/ \E b \in Ints : Store!Write(n, b, buf'[b].page)
       PROVE  Store!Next
  BY <1>0, <1>10 DEF Store!Next
<1>11. ASSUME NEW n \in Users, ApplyWrite(n) \/ UndoOne(n) PROVE Store!Next
  BY <1>10, <1>11, ApplyWriteStore, UndoOneStore
<1>12. ASSUME NEW n \in Users, NEW b \in Blocks, NEW v \in Vals, LogWrite(n, b, v)
       PROVE  Store!Next
  BY <1>10, <1>12, LogWriteStore
<1>13. ASSUME NEW n \in Users, Abandon(n) PROVE Store!Next
  BY <1>13, AbandonStore DEF Store!Next
<1> QED BY <1>1, <1>2, <1>3, <1>4, <1>5, <1>6, <1>7, <1>8, <1>9, <1>11, <1>12, <1>13
        DEF Next, SystemStep

(* The new database is a store in which nothing has happened.              *)
LEMMA InitStore == Init => Store!Init
<1> SUFFICES ASSUME Init PROVE Store!Init
  OBVIOUS
<1>1. IInv /\ ContentsOK
  BY InitHolds, ContentsInit
<1>2. /\ \A n \in Users : tx[n].st = "none" /\ n \in Txs
      /\ tx[Boot].st = "over" /\ tainted = {} /\ \A b \in Blocks : xlock[b] = NoTx
      /\ commits = {}
  BY TxNumbers DEF Init, NotBegun
<1>3. Ints = Blocks \ StringBlocks /\ Ints \subseteq Blocks
  BY <1>2 DEF Ints
<1>4. StoreNow = [b \in Ints |-> buf[b].page]
  BY <1>2, <1>3 DEF StoreNow, IsUp, At
<1>5. StoreNow \in [Blocks \ StringBlocks -> Vals]
  BY <1>1, <1>3, <1>4 DEF ContentsOK
<1>6. StoreKept = StoreNow
  <2>1. NowIs /\ KeptIs /\ ~At(Boot, "exited")
    BY <1>1, <1>2, StoreIs DEF At
  <2>2. PICK k \in Nat, l \in Nat : k = stable /\ l = Len(log)
    BY <1>1, LogFacts DEF IInv
  <2>3. StoreNow = [b \in Ints |-> Truth(b, l)] /\ StoreKept = [b \in Ints |-> Truth(b, k)]
    BY <2>1, <2>2 DEF NowIs, KeptIs
  <2>4. \A b : Truth(b, k) = 0 /\ Truth(b, l) = 0
    BY <1>2 DEF Truth, Writers
  <2> QED BY <2>3, <2>4
<1>7. StoreWork = [n \in Users |-> Store!Nothing]
  <2>1. \A n \in Users : ~Live(n)
    BY <1>2 DEF Live
  <2> QED BY <2>1, NoWork, WorkIs
<1>8. ClosingWith("COMMIT") = {} /\ StoreLate = {} /\ StoreOver = {}
  BY <1>2 DEF ClosingWith, StoreLate, StoreOver, At
<1> QED BY <1>5, <1>6, <1>7, <1>8 DEF Store!Init

(* Transactions are atomic, isolated and durable: for every number of      *)
(* blocks, contents, transactions and crashes, what transactions do, with  *)
(* the flushes, the log, undo, crashes and recovery underneath (src/tx),   *)
(* is a store in which a commit is one step and a rollback or a crash      *)
(* leaves nothing of an unfinished transaction.                            *)
THEOREM StoreImplemented == Spec => ImplementsStore
<1>1. Init => IInv /\ ContentsOK /\ Store!Init
  BY InitHolds, ContentsInit, InitStore
<1>2. IInv /\ ContentsOK /\ [Next]_vars => IInv' /\ ContentsOK'
  BY StepKeeps, ContentsKept
<1>3. IInv /\ IInv' /\ ContentsOK' /\ [Next]_vars => [Store!Next]_Store!vars
  BY StepStore DEF Store!vars
<1> QED BY <1>1, <1>2, <1>3, PTL DEF Spec, ImplementsStore, Store!Spec
=============================================================================
