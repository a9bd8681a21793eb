---------------------------- MODULE LockMgrProofs ----------------------------
(***************************************************************************)
(* Theorems about LockMgr for every finite set of transactions and every   *)
(* set of blocks.                                                          *)
(***************************************************************************)
EXTENDS LockMgr, FiniteSetTheorems, TLAPS

(* A thread that has just entered a call is in one of the calls.           *)
LEMMA EnterType ==
  ASSUME NEW op \in {"sLock", "sLockForX", "xLock"}, NEW b \in Blocks
  PROVE  Enter(op, b) \in Calls
  BY DEF Enter, Calls

(* Assigning one entry of a table of modes leaves a table of modes.        *)
LEMMA ModeUpdate ==
  ASSUME NEW f \in [Txs -> [Blocks -> Modes]],
         NEW t \in Txs, NEW b \in Blocks, NEW m \in Modes
  PROVE  /\ [f EXCEPT ![t][b] = m] \in [Txs -> [Blocks -> Modes]]
         /\ \A u \in Txs, c \in Blocks :
              [f EXCEPT ![t][b] = m][u][c] =
                IF u = t /\ c = b THEN m ELSE f[u][c]
  OBVIOUS

(* The three names are modes.                                              *)
LEMMA ModeNames == "none" \in Modes /\ "S" \in Modes /\ "X" \in Modes
  BY DEF Modes

(* TypeOK is inductive: in particular _lockTable never falls below -1.     *)
THEOREM TypeCorrect == Spec => []TypeOK
<1>1. Init => TypeOK
  BY ModeNames DEF Init, TypeOK
<1>2. TypeOK /\ [Next]_vars => TypeOK'
  <2> SUFFICES ASSUME TypeOK, [Next]_vars PROVE TypeOK'
    OBVIOUS
  <2> USE DEF TypeOK
  <2>1. ASSUME NEW t \in Txs, NEW b \in Blocks, SLock(t, b) PROVE TypeOK'
    BY <2>1, EnterType, ModeUpdate, ModeNames DEF SLock
  <2>2. ASSUME NEW t \in Txs, NEW b \in Blocks, XLock(t, b) PROVE TypeOK'
    <3>1. ASSUME NEW m \in Modes, NEW op \in {"sLockForX", "xLock"},
                 locks' = [locks EXCEPT ![t][b] = m],
                 call' = [call EXCEPT ![t] = Enter(op, b)]
          PROVE  TypeOK'
      <4>1. locks' \in [Txs -> [Blocks -> Modes]]
        BY <3>1, ModeUpdate
      <4>2. Enter(op, b) \in Calls
        BY EnterType
      <4>3. call' \in [Txs -> Calls \cup {NoCall}]
        BY <3>1, <4>2
      <4> QED BY <2>2, <4>1, <4>3 DEF XLock
    <3> QED BY <2>2, <3>1, ModeNames DEF XLock
  <2>3. ASSUME NEW t \in Txs, GrantS(t) PROVE TypeOK'
    <3>1. call[t].blk \in Blocks
      BY <2>3 DEF GrantS, InShared, NoCall, Calls
    <3>2. lockTable' \in [Blocks -> Nat \cup {-1}]
      <4>1. lockTable[call[t].blk] \in Nat
        BY <2>3, <3>1 DEF GrantS, HasXLock
      <4>2. lockTable' = [lockTable EXCEPT ![call[t].blk] = @ + 1]
        BY <2>3 DEF GrantS
      <4>3. lockTable[call[t].blk] + 1 \in Nat
        BY <4>1
      <4> HIDE DEF TypeOK
      <4>4. lockTable \in [Blocks -> Nat \cup {-1}]
        BY DEF TypeOK
      <4> QED BY <3>1, <4>2, <4>3, <4>4
    <3>3. granted' \in [Txs -> [Blocks -> Modes]]
      <4>1. granted' = [granted EXCEPT ![t][call[t].blk] = "S"]
        BY <2>3 DEF GrantS
      <4> QED BY <3>1, <4>1, ModeUpdate, ModeNames
    <3>4. CASE call[t].op = "sLock"
      BY <2>3, <3>1, <3>2, <3>3, <3>4 DEF GrantS
    <3>5. CASE call[t].op = "sLockForX"
      <4>1. locks' = [locks EXCEPT ![t][call[t].blk] = "X"]
        BY <2>3, <3>5 DEF GrantS
      <4>2. call' = [call EXCEPT ![t] = Enter("xLock", call[t].blk)]
        BY <2>3, <3>5 DEF GrantS
      <4>3. locks' \in [Txs -> [Blocks -> Modes]]
        BY <3>1, <4>1, ModeUpdate, ModeNames
      <4>4. Enter("xLock", call[t].blk) \in Calls
        BY <3>1, EnterType
      <4>5. call' \in [Txs -> Calls \cup {NoCall}]
        BY <4>2, <4>4
      <4> QED BY <2>3, <3>2, <3>3, <4>3, <4>5 DEF GrantS
    <3> QED BY <2>3, <3>4, <3>5 DEF GrantS
  <2>4. ASSUME NEW t \in Txs, GrantX(t) PROVE TypeOK'
    <3>1. call[t].blk \in Blocks
      BY <2>4 DEF GrantX, InUpgrade, NoCall, Calls
    <3> QED BY <2>4, <3>1, ModeUpdate, ModeNames DEF GrantX
  <2>5. ASSUME NEW t \in Txs, Sleep(t) PROVE TypeOK'
    BY <2>5 DEF Sleep, Calls
  <2>6. ASSUME NEW t \in Txs, Tick(t) PROVE TypeOK'
    BY <2>6 DEF Tick, Calls
  <2>7. ASSUME NEW t \in Txs, TimeOut(t) PROVE TypeOK'
    BY <2>7 DEF TimeOut
  <2>8. ASSUME NEW t \in Txs, Release(t) PROVE TypeOK'
    BY <2>8 DEF Release
  <2>9. ASSUME NEW t \in Txs, NEW b \in Blocks, Unlock(t, b) PROVE TypeOK'
    <3>1. AfterUnlock(lockTable[b]) \in Nat \cup {-1}
      BY DEF AfterUnlock
    <3>2. NotifyAll \in [Txs -> Calls \cup {NoCall}]
      BY DEF NotifyAll, Calls
    <3> QED BY <2>9, <3>1, <3>2, ModeUpdate, ModeNames
            DEF Unlock, WakeAfterUnlock
  <2>10. ASSUME NEW t \in Txs, Finish(t) PROVE TypeOK'
    BY <2>10 DEF Finish
  <2>11. CASE UNCHANGED vars
    BY <2>11 DEF vars
  <2> QED
    BY <2>1, <2>2, <2>3, <2>4, <2>5, <2>6, <2>7, <2>8, <2>9, <2>10, <2>11
       DEF Next, ThreadStep
<1> QED BY <1>1, <1>2, PTL DEF Spec

-----------------------------------------------------------------------------
(* The books: what a transaction's _locks and its request say about what   *)
(* it owns.  Books strengthens BooksAgree to an inductive invariant.          *)

TxBooks(t) ==
    /\ InShared(t) => /\ granted[t][call[t].blk] = "none"
                      /\ locks[t][call[t].blk] = "S"
    /\ InUpgrade(t) => /\ granted[t][call[t].blk] = "S"
                       /\ locks[t][call[t].blk] = "X"
    /\ t \in failed \cup releasing => call[t] = NoCall
    /\ \A b \in Blocks : granted[t][b] # "none" => locks[t][b] # "none"
    /\ t \notin failed =>
         \A b \in Blocks : \/ locks[t][b] = granted[t][b]
                           \/ call[t] # NoCall /\ call[t].blk = b

Books == \A t \in Txs : TxBooks(t)

(* A call that is not NoCall has the fields of a call.                     *)
LEMMA CallShape ==
  ASSUME TypeOK, NEW t \in Txs
  PROVE  /\ call[t] # NoCall => call[t] \in Calls
         /\ call[t] # NoCall <=> (InShared(t) \/ InUpgrade(t))
         /\ call[t] # NoCall => call[t].blk \in Blocks
  BY DEF TypeOK, Calls, NoCall, InShared, InUpgrade

(* Sleeping, waking and the passing of time leave every request as it is.  *)
SameRequests ==
    \A t \in Txs : /\ call'[t].op = call[t].op
                   /\ call'[t].blk = call[t].blk
                   /\ call'[t] = NoCall <=> call[t] = NoCall

(* Falling asleep or the passing of time keeps requests as they are.       *)
LEMMA SleepSame ==
  ASSUME TypeOK, NEW t \in Txs, Sleep(t) \/ Tick(t)
  PROVE  SameRequests
<1>1. PICK c \in Calls : /\ call' = [call EXCEPT ![t] = c]
                         /\ c.op = call[t].op /\ c.blk = call[t].blk
  <2>1. call[t] \in Calls
    BY CallShape DEF Sleep, Tick
  <2>2. CASE Sleep(t)
    <3>1. [call[t] EXCEPT !.awake = FALSE] \in Calls
      BY <2>1 DEF Calls
    <3>2. call' = [call EXCEPT ![t] = [call[t] EXCEPT !.awake = FALSE]]
      BY <2>2 DEF Sleep
    <3> QED BY <2>1, <3>1, <3>2 DEF Calls
  <2>3. CASE Tick(t)
    <3>1. PICK now \in {"due", "expired"} :
            call' = [call EXCEPT ![t].awake = TRUE, ![t].timer = now]
      BY <2>3 DEF Tick
    <3>2. [call[t] EXCEPT !.awake = TRUE, !.timer = now] \in Calls
      BY <2>1 DEF Calls
    <3>3. call' = [call EXCEPT ![t] =
                     [call[t] EXCEPT !.awake = TRUE, !.timer = now]]
      BY <2>1, <3>1 DEF TypeOK
    <3> QED BY <2>1, <3>2, <3>3 DEF Calls
  <2> QED BY <2>2, <2>3
<1>2. call[t] # NoCall
  BY DEF Sleep, Tick
<1>3. c # NoCall
  BY DEF Calls, NoCall
<1> QED BY <1>1, <1>2, <1>3 DEF SameRequests, TypeOK

(* Waking sleepers changes no request either.                              *)
LEMMA WakeSame ==
  ASSUME TypeOK, NEW b \in Blocks, call' = WakeAfterUnlock(b)
  PROVE  SameRequests
<1>1. CASE lockTable[b] > 1
  BY <1>1 DEF WakeAfterUnlock, SameRequests
<1>2. CASE ~(lockTable[b] > 1)
  <2> SUFFICES ASSUME NEW t \in Txs
               PROVE  /\ call'[t].op = call[t].op
                      /\ call'[t].blk = call[t].blk
                      /\ call'[t] = NoCall <=> call[t] = NoCall
    BY DEF SameRequests
  <2>1. call' = NotifyAll
    BY <1>2 DEF WakeAfterUnlock
  <2>2. CASE call[t] = NoCall
    BY <2>1, <2>2 DEF NotifyAll
  <2>3. CASE call[t] # NoCall
    <3>1. call[t] \in Calls
      BY <2>3, CallShape
    <3>2. call'[t] = [call[t] EXCEPT !.awake = TRUE]
      BY <2>1, <2>3 DEF NotifyAll
    <3>3. call'[t] \in Calls /\ call'[t].op = call[t].op
                             /\ call'[t].blk = call[t].blk
      BY <3>1, <3>2 DEF Calls
    <3> QED BY <2>3, <3>3 DEF Calls, NoCall
  <2> QED BY <2>2, <2>3
<1> QED BY <1>1, <1>2

(* What t does leaves the books of every other transaction alone.          *)
OthersKept(t) ==
    \A u \in Txs \ {t} : /\ locks'[u] = locks[u]
                         /\ granted'[u] = granted[u]
                         /\ call'[u].op = call[u].op
                         /\ call'[u].blk = call[u].blk
                         /\ call'[u] = NoCall <=> call[u] = NoCall
                         /\ u \in failed' <=> u \in failed
                         /\ u \in releasing' <=> u \in releasing

(* A step that keeps t's books and no other's changed keeps them all.      *)
LEMMA BooksFromActor ==
  ASSUME Books, NEW t \in Txs, OthersKept(t), TxBooks(t)'
  PROVE  Books'
  BY DEF Books, OthersKept, TxBooks, InShared, InUpgrade

(* A transaction inside no request has settled books.                      *)
LEMMA SettledTx ==
  ASSUME NEW t \in Txs, call'[t] = NoCall,
         \A b \in Blocks : granted'[t][b] # "none" => locks'[t][b] # "none",
         t \notin failed' => \A b \in Blocks : locks'[t][b] = granted'[t][b]
  PROVE  TxBooks(t)'
<1>1. call'[t].op = "none"
  BY DEF NoCall
<1>2. ~InShared(t)' /\ ~InUpgrade(t)'
  BY <1>1 DEF InShared, InUpgrade
<1> QED BY <1>2 DEF TxBooks

(* Every step keeps the books, one action after the other.                 *)
LEMMA BooksStep ==
  ASSUME TypeOK, Books, [Next]_vars
  PROVE  Books'
<1>1. ASSUME NEW t \in Txs, NEW b \in Blocks, SLock(t, b) PROVE Books'
  <2>1. OthersKept(t)
    BY <1>1 DEF SLock, OthersKept, TypeOK
  <2>2. call'[t] = Enter("sLock", b) /\ locks'[t] = [locks[t] EXCEPT ![b] = "S"]
    BY <1>1 DEF SLock, TypeOK
  <2>3. granted[t][b] = "none"
    BY <1>1 DEF SLock, Books, TxBooks
  <2>4. TxBooks(t)'
    BY <1>1, <2>2, <2>3
       DEF SLock, Idle, Enter, NoCall, InShared, InUpgrade, Books, TxBooks, TypeOK
  <2> QED BY <2>1, <2>4, BooksFromActor
<1>2. ASSUME NEW t \in Txs, NEW b \in Blocks, XLock(t, b) PROVE Books'
  <2>1. OthersKept(t)
    BY <1>2 DEF XLock, OthersKept, TypeOK
  <2>2. CASE locks[t][b] = "none"
    <3>1. call'[t] = Enter("sLockForX", b)
          /\ locks'[t] = [locks[t] EXCEPT ![b] = "S"]
      BY <1>2, <2>2 DEF XLock, TypeOK
    <3>2. granted[t][b] = "none"
      BY <2>2 DEF Books, TxBooks
    <3> QED BY <1>2, <2>2, <3>1, <3>2, <2>1, BooksFromActor
       DEF XLock, Idle, Enter, NoCall, InShared, InUpgrade, Books, TxBooks, TypeOK
  <2>3. CASE locks[t][b] = "S"
    <3>1. call'[t] = Enter("xLock", b)
          /\ locks'[t] = [locks[t] EXCEPT ![b] = "X"]
      BY <1>2, <2>3 DEF XLock, TypeOK
    <3>2. granted[t][b] = "S"
      BY <1>2, <2>3 DEF XLock, Idle, Books, TxBooks
    <3> QED BY <1>2, <2>3, <3>1, <3>2, <2>1, BooksFromActor
       DEF XLock, Idle, Enter, NoCall, InShared, InUpgrade, Books, TxBooks, TypeOK
  <2> QED BY <1>2, <2>2, <2>3 DEF XLock
<1>3. ASSUME NEW t \in Txs, GrantS(t) PROVE Books'
  <2> DEFINE b == call[t].blk
  <2>1. b \in Blocks /\ call[t] # NoCall
    BY <1>3, CallShape DEF GrantS
  <2>2. OthersKept(t)
    BY <1>3 DEF GrantS, OthersKept, TypeOK
  <2>3. granted'[t] = [granted[t] EXCEPT ![b] = "S"]
    BY <1>3, <2>1 DEF GrantS, TypeOK
  <2>4. locks[t][b] = "S" /\ granted[t][b] = "none"
    BY <1>3 DEF GrantS, Books, TxBooks
  <2>5. t \notin failed \cup releasing
    BY <2>1 DEF Books, TxBooks
  <2>6. CASE call[t].op = "sLock"
    <3>1. call'[t] = NoCall /\ locks' = locks
      BY <1>3, <2>6 DEF GrantS, TypeOK
    <3>2. \A c \in Blocks : locks'[t][c] = granted'[t][c]
      BY <2>1, <2>3, <2>4, <2>5, <3>1 DEF Books, TxBooks, TypeOK
    <3>3. TxBooks(t)'
      BY <3>1, <3>2, SettledTx
    <3> QED BY <2>2, <3>3, BooksFromActor
  <2>7. CASE call[t].op = "sLockForX"
    <3>1. call'[t] = Enter("xLock", b)
          /\ locks'[t] = [locks[t] EXCEPT ![b] = "X"]
      BY <1>3, <2>1, <2>7 DEF GrantS, TypeOK
    <3>2. TxBooks(t)'
      BY <1>3, <2>1, <2>3, <2>4, <2>5, <3>1
         DEF GrantS, Enter, NoCall, InShared, InUpgrade, Books, TxBooks, TypeOK
    <3> QED BY <2>2, <3>2, BooksFromActor
  <2> QED BY <1>3, <2>6, <2>7 DEF GrantS
<1>4. ASSUME NEW t \in Txs, GrantX(t) PROVE Books'
  <2> DEFINE b == call[t].blk
  <2>1. b \in Blocks /\ call[t] # NoCall
    BY <1>4, CallShape DEF GrantX
  <2>2. OthersKept(t)
    BY <1>4 DEF GrantX, OthersKept, TypeOK
  <2>3. granted'[t] = [granted[t] EXCEPT ![b] = "X"] /\ call'[t] = NoCall
    BY <1>4, <2>1 DEF GrantX, TypeOK
  <2>4. locks[t][b] = "X"
    BY <1>4 DEF GrantX, Books, TxBooks
  <2>5. t \notin failed /\ locks' = locks
    BY <1>4, <2>1 DEF GrantX, Books, TxBooks
  <2>6. \A c \in Blocks : locks'[t][c] = granted'[t][c]
    BY <2>1, <2>3, <2>4, <2>5 DEF Books, TxBooks, TypeOK
  <2>7. TxBooks(t)'
    BY <2>3, <2>6, SettledTx
  <2> QED BY <2>2, <2>7, BooksFromActor
<1>5. ASSUME NEW t \in Txs, Sleep(t) \/ Tick(t) PROVE Books'
  <2>1. SameRequests /\ UNCHANGED <<locks, granted, failed, releasing>>
    BY <1>5, SleepSame DEF Sleep, Tick
  <2> QED BY <2>1 DEF SameRequests, Books, TxBooks, InShared, InUpgrade
<1>6. ASSUME NEW t \in Txs, TimeOut(t) PROVE Books'
  <2>1. OthersKept(t)
    BY <1>6 DEF TimeOut, OthersKept, TypeOK
  <2>2. TxBooks(t)'
    BY <1>6 DEF TimeOut, NoCall, InShared, InUpgrade, Books, TxBooks, TypeOK
  <2> QED BY <2>1, <2>2, BooksFromActor
<1>7. ASSUME NEW t \in Txs, Release(t) PROVE Books'
  BY <1>7 DEF Release, InShared, InUpgrade, Books, TxBooks
<1>8. ASSUME NEW t \in Txs, NEW b \in Blocks, Unlock(t, b) PROVE Books'
  <2>1. SameRequests
    BY <1>8, WakeSame DEF Unlock
  <2>2. OthersKept(t)
    BY <1>8, <2>1 DEF Unlock, SameRequests, OthersKept, TypeOK
  <2>3. /\ locks'[t] = [locks[t] EXCEPT ![b] = "none"]
        /\ granted'[t] = [granted[t] EXCEPT ![b] = "none"]
    BY <1>8 DEF Unlock, TypeOK
  <2>4. call[t] = NoCall /\ call'[t] = NoCall
    BY <1>8, <2>1 DEF Unlock, SameRequests, Books, TxBooks
  <2>5. TxBooks(t)'
    <3>1. \A c \in Blocks : granted'[t][c] # "none" => locks'[t][c] # "none"
      BY <2>3 DEF Books, TxBooks, TypeOK
    <3>2. t \notin failed' =>
            \A c \in Blocks : locks'[t][c] = granted'[t][c]
      BY <1>8, <2>3, <2>4 DEF Unlock, Books, TxBooks, TypeOK
    <3> QED BY <2>4, <3>1, <3>2, SettledTx
  <2> QED BY <2>2, <2>5, BooksFromActor
<1>9. ASSUME NEW t \in Txs, Finish(t) PROVE Books'
  <2>1. OthersKept(t)
    BY <1>9 DEF Finish, OthersKept, TypeOK
  <2>2. \A b \in Blocks : locks[t][b] = granted[t][b]
    BY <1>9 DEF Finish, Books, TxBooks, TypeOK
  <2>3. call[t] = NoCall
    BY <1>9 DEF Finish, Books, TxBooks
  <2>4. TxBooks(t)'
    BY <1>9, <2>2, <2>3, SettledTx DEF Finish
  <2> QED BY <2>1, <2>4, BooksFromActor
<1>10. CASE UNCHANGED vars
  BY <1>10 DEF vars, Books, TxBooks, InShared, InUpgrade
<1> QED
  BY <1>1, <1>2, <1>3, <1>4, <1>5, <1>6, <1>7, <1>8, <1>9, <1>10
     DEF Next, ThreadStep

(* The strengthening of BooksAgree, for requests under way as well.        *)
THEOREM BooksInvariant == Spec => []Books
<1>1. Init => Books
  BY DEF Init, Books, TxBooks, NoCall, InShared, InUpgrade
<1>2. TypeOK /\ Books /\ [Next]_vars => Books'
  BY BooksStep
<1> QED BY <1>1, <1>2, TypeCorrect, PTL DEF Spec

(* A transaction that was not thrown at owns exactly what its _locks say.  *)
THEOREM BooksAlwaysAgree == Spec => []BooksAgree
<1>1. Books => BooksAgree
  BY DEF Books, TxBooks, BooksAgree
<1> QED BY <1>1, BooksInvariant, PTL

-----------------------------------------------------------------------------
(* The table: on a block that was never clobbered _lockTable is the count  *)
(* of the owners.  Exclusion and the count need each other: a writer's -1  *)
(* keeps readers out only while nobody else's unlock erases it, and the    *)
(* unlock of a reader leaves 0 only when it was the last one.              *)

OwnedRight(b) ==
    /\ \A t \in Txs : granted[t][b] = "X" =>
         lockTable[b] = -1 /\ \A u \in Txs \ {t} : granted[u][b] = "none"
    /\ (\A t \in Txs : granted[t][b] # "X") =>
         lockTable[b] = Cardinality(Owners(b))

Table == \A b \in Blocks \ clobbered : OwnedRight(b)

(* The owners of a block can be counted.                                   *)
LEMMA OwnersFinite ==
  ASSUME NEW b \in Blocks
  PROVE  IsFiniteSet(Owners(b)) /\ Cardinality(Owners(b)) \in Nat
<1>1. Owners(b) \in SUBSET Txs
  BY DEF Owners
<1> QED BY <1>1, FiniteTxs, FS_Subset, FS_CardinalityType

(* What a step leaves alone about a block stays right.                     *)
LEMMA SameBlock ==
  ASSUME NEW b \in Blocks, OwnedRight(b), lockTable'[b] = lockTable[b],
         \A t \in Txs : granted'[t][b] = granted[t][b]
  PROVE  OwnedRight(b)'
<1>1. Owners(b)' = Owners(b)
  BY DEF Owners
<1> QED BY <1>1 DEF OwnedRight

(* LockTable::sLock counts the one new reader.                             *)
LEMMA TableGrantS ==
  ASSUME TypeOK, Books, Table, NEW t \in Txs, GrantS(t)
  PROVE  Table'
<1> DEFINE c == call[t].blk
<1>1. c \in Blocks /\ granted[t][c] = "none"
  BY CallShape DEF GrantS, Books, TxBooks
<1>2. granted' = [granted EXCEPT ![t][c] = "S"]
  BY DEF GrantS
<1>3. lockTable' = [lockTable EXCEPT ![c] = @ + 1] /\ clobbered' = clobbered
  BY DEF GrantS
<1>4. \A u \in Txs, b \in Blocks :
        granted'[u][b] = IF u = t /\ b = c THEN "S" ELSE granted[u][b]
  BY <1>1, <1>2 DEF TypeOK
<1> SUFFICES ASSUME NEW b \in Blocks \ clobbered PROVE OwnedRight(b)'
  BY <1>3 DEF Table
<1>5. CASE b # c
  BY <1>1, <1>3, <1>4, <1>5, SameBlock DEF Table, TypeOK
<1>6. CASE b = c
  <2>1. lockTable[b] \in Nat
    BY <1>6 DEF GrantS, HasXLock, TypeOK
  <2>2. \A u \in Txs : granted[u][b] # "X"
    BY <2>1 DEF Table, OwnedRight
  <2>3. lockTable[b] = Cardinality(Owners(b))
    BY <2>2 DEF Table, OwnedRight
  <2>4. Owners(b)' = Owners(b) \cup {t} /\ t \notin Owners(b)
    BY <1>1, <1>4, <1>6 DEF Owners
  <2>5. Cardinality(Owners(b)') = Cardinality(Owners(b)) + 1
    BY <2>4, OwnersFinite, FS_AddElement
  <2>6. \A u \in Txs : granted'[u][b] # "X"
    BY <1>4, <2>2
  <2>7. lockTable'[b] = lockTable[b] + 1
    BY <1>3, <1>6 DEF TypeOK
  <2> QED BY <2>3, <2>5, <2>6, <2>7 DEF OwnedRight
<1> QED BY <1>5, <1>6

(* LockTable::xLock finds the upgrader to be the only reader.              *)
LEMMA TableGrantX ==
  ASSUME TypeOK, Books, Table, NEW t \in Txs, GrantX(t)
  PROVE  Table'
<1> DEFINE c == call[t].blk
<1>1. c \in Blocks /\ granted[t][c] = "S"
  BY CallShape DEF GrantX, Books, TxBooks
<1>2. granted' = [granted EXCEPT ![t][c] = "X"]
  BY DEF GrantX
<1>3. lockTable' = [lockTable EXCEPT ![c] = -1] /\ clobbered' = clobbered
  BY DEF GrantX
<1>4. \A u \in Txs, b \in Blocks :
        granted'[u][b] = IF u = t /\ b = c THEN "X" ELSE granted[u][b]
  BY <1>1, <1>2 DEF TypeOK
<1> SUFFICES ASSUME NEW b \in Blocks \ clobbered PROVE OwnedRight(b)'
  BY <1>3 DEF Table
<1>5. CASE b # c
  BY <1>1, <1>3, <1>4, <1>5, SameBlock DEF Table, TypeOK
<1>6. CASE b = c
  <2>1. \A u \in Txs : granted[u][b] # "X"
    BY <1>1, <1>6 DEF Table, OwnedRight
  <2>2. Cardinality(Owners(b)) <= 1
    BY <1>6, <2>1, OwnersFinite DEF GrantX, HasOtherSLocks, Table, OwnedRight
  <2>3. t \in Owners(b)
    BY <1>1, <1>6 DEF Owners
  <2>4. Owners(b) = {t}
    <3>1. IsFiniteSet({t}) /\ Cardinality({t}) = 1
      BY FS_Singleton
    <3>2. Cardinality({t}) <= Cardinality(Owners(b))
      BY <2>3, OwnersFinite, FS_Subset
    <3>3. Cardinality({t}) = Cardinality(Owners(b))
      BY <2>2, <3>1, <3>2, OwnersFinite
    <3> QED BY <2>3, <3>3, OwnersFinite, FS_Subset
  <2>5. \A u \in Txs \ {t} : granted'[u][b] = "none"
    BY <1>4, <2>4 DEF Owners
  <2>6. granted'[t][b] = "X" /\ lockTable'[b] = -1
    BY <1>3, <1>4, <1>6 DEF TypeOK
  <2> QED BY <2>5, <2>6 DEF OwnedRight
<1> QED BY <1>5, <1>6

(* LockTable::unlock gives a granted lock back, or clobbers the block.     *)
LEMMA TableUnlock ==
  ASSUME TypeOK, Books, Table, NEW t \in Txs, NEW c \in Blocks, Unlock(t, c)
  PROVE  Table'
<1>1. granted' = [granted EXCEPT ![t][c] = "none"]
  BY DEF Unlock
<1>2. lockTable' = [lockTable EXCEPT ![c] = AfterUnlock(@)]
  BY DEF Unlock
<1>3. \A u \in Txs, b \in Blocks :
        granted'[u][b] = IF u = t /\ b = c THEN "none" ELSE granted[u][b]
  BY <1>1 DEF TypeOK
<1>4. clobbered' = IF granted[t][c] = "none" THEN clobbered \cup {c}
                   ELSE clobbered
  BY DEF Unlock
<1> SUFFICES ASSUME NEW b \in Blocks, b \notin clobbered'
             PROVE  OwnedRight(b)'
  BY DEF Table
<1>5. b \notin clobbered /\ OwnedRight(b)
  BY <1>4 DEF Table
<1>6. CASE b # c
  BY <1>2, <1>3, <1>5, <1>6, SameBlock DEF TypeOK
<1>7. CASE b = c
  <2>1. granted[t][b] # "none"
    BY <1>4, <1>7
  <2>2. Owners(b)' = Owners(b) \ {t} /\ t \in Owners(b)
    BY <1>3, <1>7, <2>1 DEF Owners
  <2>3. Cardinality(Owners(b)') = Cardinality(Owners(b)) - 1
    BY <2>2, OwnersFinite, FS_RemoveElement
  <2>4. lockTable'[b] = AfterUnlock(lockTable[b])
    BY <1>2, <1>7 DEF TypeOK
  <2>5. CASE \E x \in Txs : granted[x][b] = "X"
    <3>1. granted[t][b] = "X" /\ lockTable[b] = -1
      BY <1>5, <2>1, <2>5 DEF OwnedRight
    <3>2. \A u \in Txs : granted'[u][b] = "none"
      BY <1>3, <1>5, <1>7, <3>1 DEF OwnedRight
    <3>3. Owners(b)' = {}
      BY <3>2 DEF Owners
    <3>4. lockTable'[b] = 0
      BY <2>4, <3>1 DEF AfterUnlock
    <3> QED BY <3>2, <3>3, <3>4, FS_EmptySet DEF OwnedRight
  <2>6. CASE \A x \in Txs : granted[x][b] # "X"
    <3>1. lockTable[b] = Cardinality(Owners(b))
      BY <1>5, <2>6 DEF OwnedRight
    <3>2. Cardinality(Owners(b)) # 0
      BY <2>2, OwnersFinite, FS_EmptySet
    <3>3. lockTable'[b] = Cardinality(Owners(b)) - 1
      BY <2>4, <3>1, <3>2, OwnersFinite DEF AfterUnlock
    <3>4. \A x \in Txs : granted'[x][b] # "X"
      BY <1>3, <2>6
    <3> QED BY <2>3, <3>3, <3>4 DEF OwnedRight
  <2> QED BY <2>5, <2>6
<1> QED BY <1>6, <1>7

(* Every step keeps the table true of the intact blocks.                   *)
LEMMA TableStep ==
  ASSUME TypeOK, Books, Table, [Next]_vars
  PROVE  Table'
<1>1. ASSUME UNCHANGED <<lockTable, granted, clobbered>> PROVE Table'
  BY <1>1, SameBlock DEF Table
<1>2. ASSUME NEW t \in Txs, NEW b \in Blocks, SLock(t, b) \/ XLock(t, b)
      PROVE  Table'
  BY <1>1, <1>2 DEF SLock, XLock
<1>3. ASSUME NEW t \in Txs, ThreadStep(t) PROVE Table'
  BY <1>1, <1>3, TableGrantS, TableGrantX, TableUnlock
     DEF ThreadStep, Sleep, TimeOut, Finish
<1>4. ASSUME NEW t \in Txs, Tick(t) \/ Release(t) PROVE Table'
  BY <1>1, <1>4 DEF Tick, Release
<1>5. CASE UNCHANGED vars
  BY <1>1, <1>5 DEF vars
<1> QED BY <1>2, <1>3, <1>4, <1>5 DEF Next

(* The strengthening: each intact block's number matches its owners.       *)
THEOREM TableInvariant == Spec => []Table
<1>1. Init => Table
  <2>1. Init => \A b \in Blocks : Owners(b) = {} /\ lockTable[b] = 0
    BY DEF Init, Owners
  <2> QED BY <2>1, FS_EmptySet DEF Init, Table, OwnedRight
<1>2. TypeOK /\ Books /\ Table /\ [Next]_vars => Table'
  BY TableStep
<1> QED BY <1>1, <1>2, TypeCorrect, BooksInvariant, PTL DEF Spec

(* Two transactions never own an intact block when one of them is writing. *)
THEOREM ExclusionHolds == Spec => []ExclusiveUnlessClobbered
<1>1. Table => ExclusiveUnlessClobbered
  BY DEF Table, OwnedRight, ExclusiveUnlessClobbered
<1> QED BY <1>1, TableInvariant, PTL

(* The entry of an intact block in _lockTable is exactly its ownership.    *)
THEOREM TableIsTrue == Spec => []TableMatchesOwners
<1>1. Table => TableMatchesOwners
  BY DEF Table, OwnedRight, TableMatchesOwners
<1> QED BY <1>1, TableInvariant, PTL

(* Nobody waits on an intact block for itself.                             *)
THEOREM NoSelfDeadlock == Spec => []BlockedByAnother
<1>1. ASSUME TypeOK, Books, Table PROVE BlockedByAnother
  <2> SUFFICES ASSUME NEW t \in Txs, call[t] # NoCall, Blocked(t),
                      call[t].blk \notin clobbered
               PROVE  \E u \in Txs \ {t} :
                        IF InShared(t) THEN granted[u][call[t].blk] = "X"
                                       ELSE granted[u][call[t].blk] # "none"
    BY DEF BlockedByAnother
  <2> DEFINE b == call[t].blk
  <2>1. b \in Blocks /\ OwnedRight(b) /\ lockTable[b] \in Int
    BY <1>1, CallShape DEF Table, TypeOK
  <2>2. IsFiniteSet(Owners(b)) /\ Cardinality(Owners(b)) \in Nat
    BY <2>1, OwnersFinite
  <2>3. CASE InShared(t)
    <3>1. lockTable[b] < 0 /\ granted[t][b] = "none"
      BY <1>1, <2>3
         DEF Blocked, HasXLock, InShared, InUpgrade, Books, TxBooks
    <3>2. \E u \in Txs : granted[u][b] = "X"
      BY <2>1, <2>2, <3>1 DEF OwnedRight
    <3> QED BY <2>3, <3>1, <3>2
  <2>4. CASE ~InShared(t)
    <3>1. lockTable[b] > 1
      BY <2>4 DEF Blocked, HasOtherSLocks
    <3>2. lockTable[b] = Cardinality(Owners(b))
      BY <2>1, <3>1 DEF OwnedRight
    <3>3. Owners(b) # {t}
      BY <3>1, <3>2, FS_Singleton
    <3>4. Owners(b) # {}
      BY <3>1, <3>2, FS_EmptySet
    <3>5. PICK u \in Txs : granted[u][b] # "none" /\ u # t
      BY <3>3, <3>4 DEF Owners
    <3> QED BY <2>4, <3>5
  <2> QED BY <2>3, <2>4
<1>2. TypeOK /\ Books /\ Table => BlockedByAnother
  BY <1>1
<1> QED BY <1>2, TypeCorrect, BooksInvariant, TableInvariant, PTL

(* No lost wake-up for readers: whoever makes the block free of its writer *)
(* wakes every sleeper in the same step.                                   *)
LEMMA SleepersStep ==
  ASSUME TypeOK, ReaderSleepsOnlyWhenBlocked, [Next]_vars
  PROVE  ReaderSleepsOnlyWhenBlocked'
<1> SUFFICES ASSUME NEW u \in Txs, InShared(u)', ~call'[u].awake
             PROVE  HasXLock(call[u].blk)'
  BY DEF ReaderSleepsOnlyWhenBlocked
<1> USE DEF HasXLock
<1>1. ASSUME call'[u] = call[u], lockTable' = lockTable
      PROVE  HasXLock(call[u].blk)'
  BY <1>1 DEF ReaderSleepsOnlyWhenBlocked, InShared
<1>2. ASSUME NEW t \in Txs, NEW b \in Blocks, SLock(t, b) \/ XLock(t, b)
      PROVE  HasXLock(call[u].blk)'
  <2>1. CASE u = t
    <3>1. call'[u].awake
      BY <1>2, <2>1 DEF SLock, XLock, Enter, TypeOK
    <3> QED BY <3>1
  <2>2. CASE u # t
    BY <1>1, <1>2, <2>2 DEF SLock, XLock, TypeOK
  <2> QED BY <2>1, <2>2
<1>3. ASSUME NEW t \in Txs, GrantS(t) PROVE HasXLock(call[u].blk)'
  <2> DEFINE c == call[t].blk
  <2>1. u # t
    BY <1>3 DEF GrantS, Enter, NoCall, InShared, TypeOK
  <2>2. call'[u] = call[u]
    BY <1>3, <2>1 DEF GrantS, TypeOK
  <2>3. HasXLock(call[u].blk) /\ ~HasXLock(c)
    BY <1>3, <2>2 DEF GrantS, ReaderSleepsOnlyWhenBlocked, InShared
  <2>4. lockTable' = [lockTable EXCEPT ![c] = @ + 1]
    BY <1>3 DEF GrantS
  <2>5. call[u].blk # c /\ lockTable'[call[u].blk] = lockTable[call[u].blk]
    BY <2>3, <2>4 DEF TypeOK
  <2> QED BY <2>2, <2>3, <2>5
<1>4. ASSUME NEW t \in Txs, GrantX(t) PROVE HasXLock(call[u].blk)'
  <2> DEFINE c == call[t].blk
  <2>1. u # t
    BY <1>4 DEF GrantX, NoCall, InShared, TypeOK
  <2>2. call'[u] = call[u] /\ call[u].blk \in Blocks
    BY <1>4, <2>1, CallShape DEF GrantX, InShared, TypeOK
  <2>3. HasXLock(call[u].blk)
    BY <2>2 DEF ReaderSleepsOnlyWhenBlocked, InShared
  <2>4. lockTable' = [lockTable EXCEPT ![c] = -1]
    BY <1>4 DEF GrantX
  <2> QED BY <2>2, <2>3, <2>4 DEF TypeOK
<1>5. ASSUME NEW t \in Txs, Sleep(t) PROVE HasXLock(call[u].blk)'
  <2>1. CASE u = t
    <3>1. call[t] \in Calls /\ call' = [call EXCEPT ![t].awake = FALSE]
      BY <1>5, CallShape DEF Sleep
    <3>2. call'[t].op = call[t].op /\ call'[t].blk = call[t].blk
      BY <3>1 DEF TypeOK, Calls
    <3>3. InShared(t) /\ ~InUpgrade(t)
      BY <2>1, <3>2 DEF InShared, InUpgrade
    <3> QED BY <1>5, <2>1, <3>2, <3>3 DEF Sleep, Blocked
  <2>2. CASE u # t
    BY <1>1, <1>5, <2>2 DEF Sleep, TypeOK
  <2> QED BY <2>1, <2>2
<1>6. ASSUME NEW t \in Txs, Tick(t) PROVE HasXLock(call[u].blk)'
  <2>1. CASE u = t
    <3>1. call[t] \in Calls
      BY <1>6, CallShape DEF Tick
    <3>2. call'[t].awake
      BY <1>6, <3>1 DEF Tick, TypeOK, Calls
    <3> QED BY <2>1, <3>2
  <2>2. CASE u # t
    BY <1>1, <1>6, <2>2 DEF Tick, TypeOK
  <2> QED BY <2>1, <2>2
<1>7. ASSUME NEW t \in Txs, TimeOut(t) PROVE HasXLock(call[u].blk)'
  <2>1. u # t
    BY <1>7 DEF TimeOut, NoCall, InShared, TypeOK
  <2> QED BY <1>1, <1>7, <2>1 DEF TimeOut, TypeOK
<1>8. ASSUME NEW t \in Txs, NEW b \in Blocks, Unlock(t, b)
      PROVE  HasXLock(call[u].blk)'
  <2>1. CASE lockTable[b] > 1
    <3>1. call' = call
      BY <1>8, <2>1 DEF Unlock, WakeAfterUnlock
    <3>2. HasXLock(call[u].blk)
      BY <3>1 DEF ReaderSleepsOnlyWhenBlocked, InShared
    <3>3. lockTable'[call[u].blk] = lockTable[call[u].blk]
      BY <1>8, <2>1, <3>2 DEF Unlock, TypeOK
    <3> QED BY <3>1, <3>2, <3>3
  <2>2. CASE ~(lockTable[b] > 1)
    <3>1. call' = NotifyAll
      BY <1>8, <2>2 DEF Unlock, WakeAfterUnlock
    <3>2. call[u] # NoCall
      BY <3>1 DEF NotifyAll, InShared, NoCall
    <3>3. call[u] \in Calls /\ call'[u] = [call[u] EXCEPT !.awake = TRUE]
      BY <3>1, <3>2, CallShape DEF NotifyAll
    <3>4. call'[u].awake
      BY <3>3 DEF Calls
    <3> QED BY <3>4
  <2> QED BY <2>1, <2>2
<1>9. ASSUME NEW t \in Txs, Release(t) \/ Finish(t)
      PROVE  HasXLock(call[u].blk)'
  BY <1>1, <1>9 DEF Release, Finish
<1>10. CASE UNCHANGED vars
  BY <1>1, <1>10 DEF vars
<1> QED
  BY <1>2, <1>3, <1>4, <1>5, <1>6, <1>7, <1>8, <1>9, <1>10
     DEF Next, ThreadStep

(* A reader that sleeps in lockShared is blocked by a writer: no unlock   *)
(* leaves it asleep.                                                       *)
THEOREM NoLostReaderWakeup == Spec => []ReaderSleepsOnlyWhenBlocked
<1>1. Init => ReaderSleepsOnlyWhenBlocked
  BY DEF Init, ReaderSleepsOnlyWhenBlocked, InShared, NoCall
<1>2. TypeOK /\ ReaderSleepsOnlyWhenBlocked /\ [Next]_vars
        => ReaderSleepsOnlyWhenBlocked'
  BY SleepersStep
<1> QED BY <1>1, <1>2, TypeCorrect, PTL DEF Spec

(* LockMgr keeps the contract: each step shares, excludes or drops one     *)
(* block, gives one block up for lost, or changes no ownership at all.     *)
THEOREM KeepsContract == Spec => ImplementsContract
<1> USE DEF Contract!Modes, Contract!Others
<1>1. Init => Contract!Init
  BY DEF Init, Contract!Init
<1>2. ASSUME TypeOK, Books, Table, Next
      PROVE  Contract!Next \/ UNCHANGED <<granted, clobbered>>
  <2>1. ASSUME NEW t \in Txs, GrantS(t) PROVE Contract!Next
    <3> DEFINE b == call[t].blk
    <3>1. b \in Blocks /\ granted[t][b] = "none"
      BY <1>2, <2>1, CallShape DEF GrantS, Books, TxBooks
    <3>2. b \in clobbered \/ \A u \in Txs \ {t} : granted[u][b] # "X"
      BY <1>2, <2>1, <3>1 DEF GrantS, HasXLock, Table, OwnedRight
    <3>3. Contract!Share(t, b)
      BY <2>1, <3>1, <3>2 DEF GrantS, Contract!Share
    <3> QED BY <3>1, <3>3 DEF Contract!Next
  <2>2. ASSUME NEW t \in Txs, GrantX(t) PROVE Contract!Next
    <3> DEFINE b == call[t].blk
    <3>1. b \in Blocks /\ granted[t][b] = "S"
      BY <1>2, <2>2, CallShape DEF GrantX, Books, TxBooks
    <3>2. granted' = [granted EXCEPT ![t][b] = "X"] /\ clobbered' = clobbered
      BY <2>2 DEF GrantX
    <3>3. Table'
      BY <1>2, <2>2, TableGrantX
    <3>4. granted'[t][b] = "X"
      BY <1>2, <3>1, <3>2 DEF TypeOK
    <3>5. b \in clobbered \/ \A u \in Txs \ {t} : granted'[u][b] = "none"
      BY <3>1, <3>2, <3>3, <3>4 DEF Table, OwnedRight
    <3>6. \A u \in Txs \ {t} : granted'[u][b] = granted[u][b]
      BY <1>2, <3>1, <3>2 DEF TypeOK
    <3>7. Contract!Exclude(t, b)
      BY <3>1, <3>2, <3>5, <3>6 DEF Contract!Exclude
    <3> QED BY <3>1, <3>7 DEF Contract!Next
  <2>3. ASSUME NEW t \in Txs, NEW b \in Blocks, Unlock(t, b)
        PROVE  Contract!Next
    <3>1. CASE granted[t][b] = "none"
      <4>1. granted' = granted
        BY <1>2, <2>3, <3>1 DEF Unlock, TypeOK
      <4> QED BY <2>3, <3>1, <4>1 DEF Unlock, Contract!Lose, Contract!Next
    <3>2. CASE granted[t][b] # "none"
      <4>1. Contract!Drop(t, b)
        BY <2>3, <3>2 DEF Unlock, Contract!Drop
      <4> QED BY <4>1 DEF Contract!Next
    <3> QED BY <3>1, <3>2
  <2>4. ASSUME NEW t \in Txs, ThreadStep(t)
        PROVE  Contract!Next \/ UNCHANGED <<granted, clobbered>>
    BY <2>1, <2>2, <2>3, <2>4 DEF ThreadStep, Sleep, TimeOut, Finish
  <2>5. ASSUME NEW t \in Txs,
               \/ Tick(t) \/ Release(t)
               \/ \E b \in Blocks : SLock(t, b) \/ XLock(t, b)
        PROVE  UNCHANGED <<granted, clobbered>>
    BY <2>5 DEF Tick, Release, SLock, XLock
  <2> QED BY <1>2, <2>4, <2>5 DEF Next
<1>3. TypeOK /\ Books /\ Table /\ [Next]_vars
        => [Contract!Next]_<<granted, clobbered>>
  BY <1>2 DEF vars
<1> QED
  BY <1>1, <1>3, TypeCorrect, BooksInvariant, TableInvariant, PTL
     DEF Spec, ImplementsContract, Contract!Spec
=============================================================================
