----------------------------- MODULE BufferPool -----------------------------
(***************************************************************************)
(* The buffer pool: BufferMgr and its Buffers (src/buffer) with the        *)
(* BufferList of every transaction (src/tx/BufferList.cpp).                *)
(*                                                                         *)
(* BufferMgr::pin, unpin and flushAll run under BufferMgr::_mutex, which   *)
(* pin gives up only inside wait_for.  A page is written, and the buffer   *)
(* marked modified, without that mutex and in two steps                    *)
(* (Transaction::setInt and setString).                                    *)
(*                                                                         *)
(* A transaction has one life: it runs, then unpins all its blocks, then   *)
(* is over.  Transaction numbers are never reused.  That one transaction   *)
(* at a time writes a block is the exclusive lock's doing (LockMgr); it    *)
(* shows here as a guard of Write.                                         *)
(***************************************************************************)
EXTENDS Integers, FiniteSets

CONSTANTS Txs,        \* transactions, each run by a thread of its own
          Blocks,     \* blocks of the database files
          Vals,       \* contents of a block
          Empty,      \* content of a block that was never written
          NumFrames,  \* the buffSize given to BufferMgr
          MaxPins,    \* bound: how often one transaction pins one block
          None        \* no block, no frame, no transaction

ASSUME FiniteAssumption == IsFiniteSet(Txs) /\ IsFiniteSet(Blocks)
ASSUME MaxPinsAssumption == MaxPins \in Nat
ASSUME NumFramesAssumption == NumFrames \in Nat \ {0}
ASSUME EmptyAssumption == Empty \in Vals
ASSUME NoneAssumption == None \notin Blocks \cup Txs \cup Nat

Frames == 1 .. NumFrames    \* positions in _bufferpool

VARIABLES
    frame,         \* frame[f]: Buffer::_blk, _pins, _txnum and the page
    numAvailable,  \* BufferMgr::_numAvailable
    disk,          \* disk[b]: what FileMgr would read
    call,          \* the BufferMgr::pin that t is inside, or NoCall
    buffers,       \* BufferList::_buffers of t: block -> frame
    pinned,        \* BufferList::_pinned of t: how often it lists b
    phase,         \* "running", "unpinning" (unpinAll) or "over"
    editing,       \* the block whose page t wrote but has not marked yet
    writer,        \* history: who holds the exclusive lock of b
    saved          \* transactions with nothing written since flushAll

vars == <<frame, numAvailable, disk, call, buffers, pinned, phase, editing,
          writer, saved>>
txVars == <<phase, editing, writer, saved>>

NoCall == [blk |-> None]
Calls == [blk : Blocks, awake : BOOLEAN, timer : {"running", "due", "expired"}]
FrameStates == [blk : Blocks \cup {None}, pins : Nat,
                txnum : Txs \cup {None}, page : Vals]

TypeOK ==
    /\ frame \in [Frames -> FrameStates]
    /\ numAvailable \in 0 .. NumFrames
    /\ disk \in [Blocks -> Vals]
    /\ call \in [Txs -> Calls \cup {NoCall}]
    /\ buffers \in [Txs -> [Blocks -> Frames \cup {None}]]
    /\ pinned \in [Txs -> [Blocks -> 0 .. MaxPins]]
    /\ phase \in [Txs -> {"running", "unpinning", "over"}]
    /\ editing \in [Txs -> Blocks \cup {None}]
    /\ writer \in [Blocks -> Txs \cup {None}]
    /\ saved \in SUBSET Txs

Init ==
    /\ frame = [f \in Frames |->
                 [blk |-> None, pins |-> 0, txnum |-> None, page |-> Empty]]
    /\ numAvailable = NumFrames
    /\ disk = [b \in Blocks |-> Empty]
    /\ call = [t \in Txs |-> NoCall]
    /\ buffers = [t \in Txs |-> [b \in Blocks |-> None]]
    /\ pinned = [t \in Txs |-> [b \in Blocks |-> 0]]
    /\ phase = [t \in Txs |-> "running"]
    /\ editing = [t \in Txs |-> None]
    /\ writer = [b \in Blocks |-> None]
    /\ saved = Txs

Idle(t) == phase[t] = "running" /\ call[t] = NoCall /\ editing[t] = None
-----------------------------------------------------------------------------
(* BufferMgr::tryToPin.                                                    *)

Holding(b) == {f \in Frames : frame[f].blk = b}
Unpinned == {f \in Frames : frame[f].pins = 0}
First(S) == CHOOSE f \in S : \A g \in S : f <= g

(* The frame tryToPin settles on: the first that holds b, else the first   *)
(* that nobody has pinned.                                                 *)
CanPin(b) == Holding(b) \cup Unpinned # {}

(* Mutant: a pinned frame may be replaced.                                 *)
FrameForAny(b) == IF Holding(b) # {} THEN First(Holding(b)) ELSE First(Frames)

FrameFor(b) == IF Holding(b) # {} THEN First(Holding(b)) ELSE First(Unpinned)

Flushed(d, fr) == IF fr.txnum = None THEN d ELSE [d EXCEPT ![fr.blk] = fr.page]

(* Mutant: the old content is overwritten, dirty or not.                   *)
AssignNoFlush(f, b) ==
    /\ frame' = [frame EXCEPT
          ![f] = [blk |-> b, pins |-> 1, txnum |-> None, page |-> disk[b]]]
    /\ UNCHANGED disk

(* Buffer::assignToBlock: flush what is there, then read b.                *)
AssignToBlock(f, b) ==
    LET d == Flushed(disk, frame[f]) IN
    /\ disk' = d
    /\ frame' = [frame EXCEPT
                   ![f] = [blk |-> b, pins |-> 1, txnum |-> None, page |-> d[b]]]

(* Mutant: every pin takes a frame away from the available ones.           *)
TryToPinCounts(f, b) ==
    /\ IF frame[f].blk = b
         THEN frame' = [frame EXCEPT ![f].pins = @ + 1] /\ UNCHANGED disk
         ELSE AssignToBlock(f, b)
    /\ numAvailable' = numAvailable - 1

TryToPin(f, b) ==
    /\ IF frame[f].blk = b
         THEN frame' = [frame EXCEPT ![f].pins = @ + 1] /\ UNCHANGED disk
         ELSE AssignToBlock(f, b)
    /\ numAvailable' = IF frame[f].pins = 0 THEN numAvailable - 1
                       ELSE numAvailable
-----------------------------------------------------------------------------
(* BufferList::pin, BufferMgr::pin.                                        *)

Pin(t, b) ==
    /\ Idle(t)
    /\ pinned[t][b] < MaxPins
    /\ call' = [call EXCEPT
                  ![t] = [blk |-> b, awake |-> TRUE, timer |-> "running"]]
    /\ UNCHANGED <<frame, numAvailable, disk, buffers, pinned, txVars>>

GetFrame(t) ==
    LET b == call[t].blk
        f == FrameFor(b) IN
    /\ call[t] # NoCall
    /\ call[t].awake
    /\ CanPin(b)
    /\ TryToPin(f, b)
    /\ buffers' = [buffers EXCEPT ![t][b] = f]
    /\ pinned' = [pinned EXCEPT ![t][b] = @ + 1]
    /\ call' = [call EXCEPT ![t] = NoCall]
    /\ UNCHANGED txVars

(* Mutant: the loop forgets waitingTooLong.                                *)
NoFrameWaits(t) ==
    /\ call[t] # NoCall
    /\ call[t].awake
    /\ ~CanPin(call[t].blk)
    /\ call' = [call EXCEPT ![t].awake = FALSE]
    /\ UNCHANGED <<frame, numAvailable, disk, buffers, pinned, txVars>>

(* Every frame is pinned: wait_for, or "No available buffer" is thrown     *)
(* when waitingTooLong answers true.                                       *)
NoFrame(t) ==
    /\ call[t] # NoCall
    /\ call[t].awake
    /\ ~CanPin(call[t].blk)
    /\ call' = IF call[t].timer = "expired" THEN [call EXCEPT ![t] = NoCall]
               ELSE [call EXCEPT ![t].awake = FALSE]
    /\ UNCHANGED <<frame, numAvailable, disk, buffers, pinned, txVars>>

(* wait_for times out, and the elapsed whole milliseconds exceed MAX_TIME  *)
(* now or, at the latest, at the next timeout.                             *)
Tick(t) ==
    /\ call[t] # NoCall
    /\ call[t].timer # "expired"
    /\ \E now \in {"due", "expired"} \ {call[t].timer} :
         call' = [call EXCEPT ![t].awake = TRUE, ![t].timer = now]
    /\ UNCHANGED <<frame, numAvailable, disk, buffers, pinned, txVars>>
-----------------------------------------------------------------------------
(* BufferMgr::unpin, called by BufferList::unpin and unpinAll.             *)

NotifyAll == [u \in Txs |-> IF call[u] = NoCall THEN NoCall
                            ELSE [call[u] EXCEPT !.awake = TRUE]]

(* Mutant: freeing a frame wakes nobody.                                   *)
ReleaseFrameQuietly(f) ==
    /\ frame' = [frame EXCEPT ![f].pins = @ - 1]
    /\ numAvailable' = IF frame[f].pins = 1 THEN numAvailable + 1
                       ELSE numAvailable
    /\ UNCHANGED call

ReleaseFrame(f) ==
    /\ frame' = [frame EXCEPT ![f].pins = @ - 1]
    /\ IF frame[f].pins = 1
         THEN numAvailable' = numAvailable + 1 /\ call' = NotifyAll
         ELSE UNCHANGED <<numAvailable, call>>

(* Mutant: the first unpin forgets the buffer, other pins or not.          *)
UnpinForgets(t, b) ==
    /\ Idle(t)
    /\ buffers[t][b] # None
    /\ ReleaseFrame(buffers[t][b])
    /\ pinned' = [pinned EXCEPT ![t][b] = @ - 1]
    /\ buffers' = [buffers EXCEPT ![t][b] = None]
    /\ UNCHANGED <<disk, txVars>>

Unpin(t, b) ==
    /\ Idle(t)
    /\ buffers[t][b] # None
    /\ ReleaseFrame(buffers[t][b])
    /\ pinned' = [pinned EXCEPT ![t][b] = @ - 1]
    /\ buffers' = [buffers EXCEPT ![t][b] = IF pinned[t][b] = 1 THEN None ELSE @]
    /\ UNCHANGED <<disk, txVars>>

(* The end of a transaction: ConcurrencyMgr::release gives up its locks,   *)
(* then unpinAll walks _pinned, one BufferMgr::unpin per entry, and clears *)
(* both containers.                                                        *)
UnpinAll(t) ==
    /\ Idle(t)
    /\ phase' = [phase EXCEPT ![t] = "unpinning"]
    /\ writer' = [b \in Blocks |-> IF writer[b] = t THEN None ELSE writer[b]]
    /\ UNCHANGED <<frame, numAvailable, disk, call, buffers, pinned, editing,
                   saved>>

UnpinNext(t, b) ==
    /\ phase[t] = "unpinning"
    /\ pinned[t][b] > 0
    /\ ReleaseFrame(buffers[t][b])
    /\ pinned' = [pinned EXCEPT ![t][b] = @ - 1]
    /\ UNCHANGED <<disk, buffers, txVars>>

UnpinAllDone(t) ==
    /\ phase[t] = "unpinning"
    /\ \A b \in Blocks : pinned[t][b] = 0
    /\ buffers' = [buffers EXCEPT ![t] = [b \in Blocks |-> None]]
    /\ phase' = [phase EXCEPT ![t] = "over"]
    /\ UNCHANGED <<frame, numAvailable, disk, call, pinned, editing, writer,
                   saved>>
-----------------------------------------------------------------------------
(* Transaction::setInt and setString: the page, then Buffer::setModified.  *)

Write(t, b, v) ==
    /\ Idle(t)
    /\ buffers[t][b] # None
    /\ writer[b] \in {None, t}
    /\ frame' = [frame EXCEPT ![buffers[t][b]].page = v]
    /\ editing' = [editing EXCEPT ![t] = b]
    /\ writer' = [writer EXCEPT ![b] = t]
    /\ saved' = saved \ {t}
    /\ UNCHANGED <<numAvailable, disk, call, buffers, pinned, phase>>

SetModified(t) ==
    /\ editing[t] # None
    /\ frame' = [frame EXCEPT ![buffers[t][editing[t]]].txnum = t]
    /\ editing' = [editing EXCEPT ![t] = None]
    /\ UNCHANGED <<numAvailable, disk, call, buffers, pinned, phase, writer,
                   saved>>

(* Mutant: only the frames still in use are flushed.                       *)
FlushPinned(t) ==
    LET mine == {f \in Frames \ Unpinned : frame[f].txnum = t} IN
    /\ Idle(t)
    /\ disk' = [b \in Blocks |->
                 IF Holding(b) \cap mine = {} THEN disk[b]
                 ELSE frame[First(Holding(b) \cap mine)].page]
    /\ frame' = [f \in Frames |->
                  IF f \in mine THEN [frame[f] EXCEPT !.txnum = None]
                  ELSE frame[f]]
    /\ saved' = saved \cup {t}
    /\ UNCHANGED <<numAvailable, call, buffers, pinned, phase, editing, writer>>

(* BufferMgr::flushAll, the first thing commit does.                       *)
FlushAll(t) ==
    LET mine == {f \in Frames : frame[f].txnum = t} IN
    /\ Idle(t)
    /\ disk' = [b \in Blocks |->
                 IF Holding(b) \cap mine = {} THEN disk[b]
                 ELSE frame[First(Holding(b) \cap mine)].page]
    /\ frame' = [f \in Frames |->
                  IF f \in mine THEN [frame[f] EXCEPT !.txnum = None]
                  ELSE frame[f]]
    /\ saved' = saved \cup {t}
    /\ UNCHANGED <<numAvailable, call, buffers, pinned, phase, editing, writer>>
-----------------------------------------------------------------------------
ThreadStep(t) ==
    \/ GetFrame(t) \/ NoFrame(t) \/ SetModified(t) \/ UnpinAllDone(t)
    \/ \E b \in Blocks : UnpinNext(t, b)

Next ==
    \E t \in Txs :
        \/ ThreadStep(t)
        \/ Tick(t)
        \/ UnpinAll(t)
        \/ FlushAll(t)
        \/ \E b \in Blocks : Pin(t, b) \/ Unpin(t, b)
        \/ \E b \in Blocks, v \in Vals : Write(t, b, v)

Spec == Init /\ [][Next]_vars

(* Threads that can run do run, and the clock advances; no transaction is  *)
(* obliged to pin, unpin, write or end.                                    *)
Fairness == \A t \in Txs : WF_vars(ThreadStep(t)) /\ WF_vars(Tick(t))
FairSpec == Spec /\ Fairness
-----------------------------------------------------------------------------
(* Properties.                                                             *)

(* The pins of a frame are exactly the entries of the transactions'        *)
(* BufferLists, through interleaved pins, unpins and half-done unpinAlls;  *)
(* and available() counts the frames nobody has pinned.                    *)
PinRefs(f) == {p \in Txs \X Blocks \X (1 .. MaxPins) :
                 buffers[p[1]][p[2]] = f /\ p[3] <= pinned[p[1]][p[2]]}
PinsMatchLists ==
    /\ \A f \in Frames : frame[f].pins = Cardinality(PinRefs(f))
    /\ numAvailable = Cardinality(Unpinned)

(* A block a transaction has pinned stays in the frame it was given, and   *)
(* that is the only one: replacement never reassigns a frame somebody      *)
(* still uses, and no update goes to a copy.                               *)
PinnedBlockStays ==
    /\ \A t \in Txs, b \in Blocks :
          pinned[t][b] > 0 => /\ buffers[t][b] # None
                              /\ frame[buffers[t][b]].blk = b
    /\ \A f, g \in Frames :
          (f # g /\ frame[f].blk # None) => frame[f].blk # frame[g].blk

(* No lost wake-up: a thread sleeps in pin only while every frame is       *)
(* pinned and none of them holds its block.                                *)
SleepsOnlyWhenFull ==
    \A t \in Txs :
        (call[t] # NoCall /\ ~call[t].awake) =>
            numAvailable = 0 /\ Holding(call[t].blk) = {}

(* Force at commit: once flushAll(t) has run, and t has written nothing    *)
(* since, all that t wrote is on disk, evictions and other transactions'   *)
(* flushes notwithstanding.                                                *)
Content(b) == IF Holding(b) = {} THEN disk[b]
              ELSE frame[First(Holding(b))].page
SavedIsOnDisk ==
    \A t \in saved, b \in Blocks : writer[b] = t => disk[b] = Content(b)

(* Every pin request ends, with a frame or with the exception, although    *)
(* transactions that hold pins may wait for one another's frames.          *)
PinsEnd == \A t \in Txs : call[t] # NoCall ~> call[t] = NoCall

(* The pool looks like a memory in which every block is always present.    *)
Memory == INSTANCE PagedMemory WITH
            mem <- [b \in Blocks |-> Content(b)],
            view <- [t \in Txs |-> [b \in Blocks |->
                      IF pinned[t][b] = 0 THEN [pinned |-> FALSE]
                      ELSE [pinned |-> TRUE,
                            val |-> frame[buffers[t][b]].page]]]
ImplementsMemory == Memory!Spec
=============================================================================
