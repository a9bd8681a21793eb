------------------------------- MODULE LockMgr -------------------------------
(***************************************************************************)
(* The lock manager: the process-wide LockTable and the ConcurrencyMgr of  *)
(* each transaction (src/tx/LockTable.cpp, src/tx/ConcurrencyMgr.cpp).     *)
(*                                                                         *)
(* Every LockTable member function runs under LockTable::_mutex and gives  *)
(* it up only inside wait_for, so the code between two such points is one  *)
(* step here.  ConcurrencyMgr::_locks is private to the thread that runs   *)
(* the transaction; an assignment to it is part of the neighbouring step.  *)
(*                                                                         *)
(* A thread inside sLock or xLock is described by call[t]:                 *)
(*   op     "sLock"     ConcurrencyMgr::sLock called by a reader           *)
(*          "sLockForX" the sLock that ConcurrencyMgr::xLock makes first   *)
(*          "xLock"     the LockTable::xLock that follows it               *)
(*   blk    the block asked for                                            *)
(*   awake  FALSE while the thread sleeps in _cond.wait_for                *)
(*   timer  "running"; "due" when wait_for has timed out but the elapsed   *)
(*          whole milliseconds do not yet exceed MAX_LOCKS; "expired" when *)
(*          waitingTooLong answers true                                    *)
(***************************************************************************)
EXTENDS Integers, FiniteSets

CONSTANTS Txs,      \* transactions, each run by a thread of its own
          Blocks    \* lockable blocks

ASSUME FiniteTxs == IsFiniteSet(Txs)

VARIABLES
    lockTable,  \* LockTable::_lockTable; a missing entry reads as 0
    locks,      \* locks[t] is ConcurrencyMgr::_locks of t ("none": no entry)
    call,       \* the lock request t is inside, or NoCall
    failed,     \* transactions that were thrown "Deadlock detected"
    releasing,  \* transactions inside ConcurrencyMgr::release
    granted,    \* history: the mode LockTable granted t and t has not unlocked
    clobbered   \* history: blocks unlocked by a transaction that did not own them

vars == <<lockTable, locks, call, failed, releasing, granted, clobbered>>

Modes == {"none", "S", "X"}
NoCall == [op |-> "none"]
Calls == [op : {"sLock", "sLockForX", "xLock"}, blk : Blocks,
          awake : BOOLEAN, timer : {"running", "due", "expired"}]

Enter(op, b) == [op |-> op, blk |-> b, awake |-> TRUE, timer |-> "running"]

TypeOK ==
    /\ lockTable \in [Blocks -> Nat \cup {-1}]
    /\ locks \in [Txs -> [Blocks -> Modes]]
    /\ call \in [Txs -> Calls \cup {NoCall}]
    /\ failed \in SUBSET Txs
    /\ releasing \in SUBSET Txs
    /\ granted \in [Txs -> [Blocks -> Modes]]
    /\ clobbered \in SUBSET Blocks

Init ==
    /\ lockTable = [b \in Blocks |-> 0]
    /\ locks = [t \in Txs |-> [b \in Blocks |-> "none"]]
    /\ call = [t \in Txs |-> NoCall]
    /\ failed = {}
    /\ releasing = {}
    /\ granted = [t \in Txs |-> [b \in Blocks |-> "none"]]
    /\ clobbered = {}

-----------------------------------------------------------------------------
(* The conditions the two wait loops test.                                 *)

(* Mutant: the sign test is off by one.                                    *)
HasXLockOffByOne(b) == lockTable[b] < -1
HasXLock(b) == lockTable[b] < 0

(* Mutants: one reader too many is tolerated; the caller's own is counted. *)
HasTwoOtherSLocks(b) == lockTable[b] > 2
HasAnySLock(b) == lockTable[b] > 0
HasOtherSLocks(b) == lockTable[b] > 1

InShared(t)  == call[t].op \in {"sLock", "sLockForX"}
InUpgrade(t) == call[t].op = "xLock"

Blocked(t) ==
    \/ InShared(t)  /\ HasXLock(call[t].blk)
    \/ InUpgrade(t) /\ HasOtherSLocks(call[t].blk)

(* A caller that was thrown at only ever rolls back or is destroyed.       *)
Idle(t) == t \notin failed \cup releasing /\ call[t] = NoCall

-----------------------------------------------------------------------------
(* Requests.  The entry in _locks is written before the table is asked.    *)

SLock(t, b) ==
    /\ Idle(t)
    /\ locks[t][b] = "none"
    /\ locks' = [locks EXCEPT ![t][b] = "S"]
    /\ call' = [call EXCEPT ![t] = Enter("sLock", b)]
    /\ UNCHANGED <<lockTable, failed, releasing, granted, clobbered>>

XLock(t, b) ==
    /\ Idle(t)
    /\ \/ /\ locks[t][b] = "none"
          /\ locks' = [locks EXCEPT ![t][b] = "S"]
          /\ call' = [call EXCEPT ![t] = Enter("sLockForX", b)]
       \/ /\ locks[t][b] = "S"
          /\ locks' = [locks EXCEPT ![t][b] = "X"]
          /\ call' = [call EXCEPT ![t] = Enter("xLock", b)]
    /\ UNCHANGED <<lockTable, failed, releasing, granted, clobbered>>

(* LockTable::sLock leaves its loop and counts the reader; inside          *)
(* ConcurrencyMgr::xLock the thread goes on to LockTable::xLock.           *)
GrantS(t) ==
    LET b == call[t].blk IN
    /\ InShared(t)
    /\ call[t].awake
    /\ ~HasXLock(b)
    /\ lockTable' = [lockTable EXCEPT ![b] = @ + 1]
    /\ granted' = [granted EXCEPT ![t][b] = "S"]
    /\ \/ /\ call[t].op = "sLock"
          /\ call' = [call EXCEPT ![t] = NoCall]
          /\ UNCHANGED locks
       \/ /\ call[t].op = "sLockForX"
          /\ call' = [call EXCEPT ![t] = Enter("xLock", b)]
          /\ locks' = [locks EXCEPT ![t][b] = "X"]
    /\ UNCHANGED <<failed, releasing, clobbered>>

(* LockTable::xLock leaves its loop and overwrites the count with -1.      *)
GrantX(t) ==
    LET b == call[t].blk IN
    /\ InUpgrade(t)
    /\ call[t].awake
    /\ ~HasOtherSLocks(b)
    /\ lockTable' = [lockTable EXCEPT ![b] = -1]
    /\ granted' = [granted EXCEPT ![t][b] = "X"]
    /\ call' = [call EXCEPT ![t] = NoCall]
    /\ UNCHANGED <<locks, failed, releasing, clobbered>>

(* Mutant: the loop forgets waitingTooLong.                                *)
SleepAgain(t) ==
    /\ call[t] # NoCall
    /\ call[t].awake
    /\ Blocked(t)
    /\ call' = [call EXCEPT ![t].awake = FALSE]
    /\ UNCHANGED <<lockTable, locks, failed, releasing, granted, clobbered>>

(* The loop condition holds: wait_for releases the mutex and sleeps.       *)
Sleep(t) ==
    /\ call[t] # NoCall
    /\ call[t].awake
    /\ Blocked(t)
    /\ call[t].timer # "expired"
    /\ call' = [call EXCEPT ![t].awake = FALSE]
    /\ UNCHANGED <<lockTable, locks, failed, releasing, granted, clobbered>>

(* Time passes: wait_for times out, and the whole milliseconds since       *)
(* startTime exceed MAX_LOCKS now or, at the latest, at the next timeout.  *)
Tick(t) ==
    /\ call[t] # NoCall
    /\ call[t].timer # "expired"
    /\ \E now \in {"due", "expired"} :
         /\ now # call[t].timer
         /\ call' = [call EXCEPT ![t].awake = TRUE, ![t].timer = now]
    /\ UNCHANGED <<lockTable, locks, failed, releasing, granted, clobbered>>

(* Mutant: giving up returns to the caller instead of throwing.            *)
TimeOutReturns(t) ==
    /\ call[t] # NoCall
    /\ call[t].awake
    /\ Blocked(t)
    /\ call[t].timer = "expired"
    /\ call' = [call EXCEPT ![t] = NoCall]
    /\ UNCHANGED <<lockTable, locks, failed, releasing, granted, clobbered>>

(* Still blocked when the time is up: "Deadlock detected" is thrown, and   *)
(* the entry written into _locks stays there.                              *)
TimeOut(t) ==
    /\ call[t] # NoCall
    /\ call[t].awake
    /\ Blocked(t)
    /\ call[t].timer = "expired"
    /\ call' = [call EXCEPT ![t] = NoCall]
    /\ failed' = failed \cup {t}
    /\ UNCHANGED <<lockTable, locks, releasing, granted, clobbered>>

-----------------------------------------------------------------------------
(* ConcurrencyMgr::release, called by commit, rollback, recover,           *)
(* ~Transaction and forceConcurrencyRelease: one LockTable::unlock per     *)
(* entry of _locks, each under its own hold of the mutex, then clear().    *)

Release(t) ==
    /\ t \notin releasing
    /\ call[t] = NoCall
    /\ releasing' = releasing \cup {t}
    /\ UNCHANGED <<lockTable, locks, call, failed, granted, clobbered>>

(* Mutant: a reader erases the whole entry.                                *)
AfterUnlockErases(v) == 0
AfterUnlock(v) == IF v > 1 THEN v - 1 ELSE 0

NotifyAll == [u \in Txs |-> IF call[u] = NoCall THEN NoCall
                            ELSE [call[u] EXCEPT !.awake = TRUE]]

(* Mutant: erasing the entry notifies nobody.                              *)
WakeNobody(b) == call

(* unlock notifies the sleepers only when it erases the entry.             *)
WakeAfterUnlock(b) == IF lockTable[b] > 1 THEN call ELSE NotifyAll

Unlock(t, b) ==
    /\ t \in releasing
    /\ locks[t][b] # "none"
    /\ lockTable' = [lockTable EXCEPT ![b] = AfterUnlock(@)]
    /\ call' = WakeAfterUnlock(b)
    /\ locks' = [locks EXCEPT ![t][b] = "none"]
    /\ granted' = [granted EXCEPT ![t][b] = "none"]
    /\ clobbered' = IF granted[t][b] = "none" THEN clobbered \cup {b}
                    ELSE clobbered
    /\ UNCHANGED <<failed, releasing>>

(* release() returns; the thread's next transaction starts with no locks.  *)
Finish(t) ==
    /\ t \in releasing
    /\ \A b \in Blocks : locks[t][b] = "none"
    /\ releasing' = releasing \ {t}
    /\ failed' = failed \ {t}
    /\ UNCHANGED <<lockTable, locks, call, granted, clobbered>>

-----------------------------------------------------------------------------
ThreadStep(t) ==
    \/ GrantS(t) \/ GrantX(t) \/ Sleep(t) \/ TimeOut(t) \/ Finish(t)
    \/ \E b \in Blocks : Unlock(t, b)

Next ==
    \E t \in Txs :
        \/ ThreadStep(t)
        \/ Tick(t)
        \/ Release(t)
        \/ \E b \in Blocks : SLock(t, b) \/ XLock(t, b)

Spec == Init /\ [][Next]_vars

(* The scheduler runs every thread that can run, and the clock advances.   *)
(* Nothing makes a transaction ask for a lock or release its locks.        *)
Fairness == \A t \in Txs : WF_vars(ThreadStep(t)) /\ WF_vars(Tick(t))
FairSpec == Spec /\ Fairness
-----------------------------------------------------------------------------
(* Properties.                                                             *)

Owners(b) == {t \in Txs : granted[t][b] # "none"}

(* Exclusive ownership survives on every block that was never unlocked by  *)
(* a transaction whose own request for it had timed out.                   *)
ExclusiveUnlessClobbered ==
    \A b \in Blocks \ clobbered, t \in Txs :
        granted[t][b] = "X" => \A u \in Txs \ {t} : granted[u][b] = "none"

(* On such a block _lockTable says exactly who owns it: -1 for a writer,   *)
(* otherwise the number of readers, across every interleaving of sLock,    *)
(* xLock and the unlocks of release().                                     *)
TableMatchesOwners ==
    \A b \in Blocks \ clobbered :
        IF \E t \in Txs : granted[t][b] = "X"
          THEN lockTable[b] = -1
          ELSE lockTable[b] = Cardinality(Owners(b))

(* A transaction that was not thrown at owns exactly what its _locks say,  *)
(* the block it is asking for aside; so commit unlocks no foreign block.   *)
BooksAgree ==
    \A t \in Txs \ failed, b \in Blocks :
        \/ locks[t][b] = granted[t][b]
        \/ call[t] # NoCall /\ call[t].blk = b

(* Nobody waits for itself: a blocked request on an intact block conflicts *)
(* with what another transaction owns (the upgrade test "> 1" discounts    *)
(* the caller's own shared lock and nothing else).                         *)
BlockedByAnother ==
    \A t \in Txs :
        (call[t] # NoCall /\ Blocked(t) /\ call[t].blk \notin clobbered) =>
            \E u \in Txs \ {t} :
                IF InShared(t) THEN granted[u][call[t].blk] = "X"
                               ELSE granted[u][call[t].blk] # "none"

(* No lost wake-up for readers: a thread asleep in sLock sleeps only while *)
(* the block is exclusively locked, so unlock's notify_all reaches it.     *)
ReaderSleepsOnlyWhenBlocked ==
    \A t \in Txs :
        (InShared(t) /\ ~call[t].awake) => HasXLock(call[t].blk)

(* Every request ends, granted or thrown at: no set of transactions waits  *)
(* on each other for ever, and an upgrade that no unlock wakes (the count  *)
(* fell from 2 to 1) is woken by its timeout.                              *)
RequestsEnd ==
    \A t \in Txs : call[t] # NoCall ~> call[t] = NoCall

(* The contract the rest of the engine may rely on.                        *)
Contract == INSTANCE LockContract WITH held <- granted, lost <- clobbered
ImplementsContract == Contract!Spec
=============================================================================
