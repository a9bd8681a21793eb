-------------------------- MODULE BufferPoolProofs --------------------------
(***************************************************************************)
(* Theorems about BufferPool for every finite set of transactions and      *)
(* blocks, every set of contents and every number of frames.               *)
(***************************************************************************)
EXTENDS BufferPool, FiniteSetTheorems, NatLemmas, TLAPS

(* The inductive invariant, part by part.                                  *)

(* BufferList: both containers list the same blocks, until unpinAll empties *)
(* one before the other, and the frame listed for a block holds it.        *)
ListsAgree(t, b) ==
    /\ pinned[t][b] > 0 => /\ buffers[t][b] # None
                           /\ frame[buffers[t][b]].blk = b
    /\ (phase[t] = "running" /\ buffers[t][b] # None) => pinned[t][b] > 0

(* A pin is requested by a running transaction, which does nothing else    *)
(* meanwhile.                                                              *)
RequestIsAlone(t) ==
    call[t] # NoCall => /\ phase[t] = "running"
                        /\ editing[t] = None
                        /\ pinned[t][call[t].blk] < MaxPins

(* A page is written through a pin and under the exclusive lock, and the   *)
(* writer does nothing else before setModified.                            *)
EditIsAlone(t) ==
    editing[t] # None => /\ phase[t] = "running"
                         /\ call[t] = NoCall
                         /\ buffers[t][editing[t]] # None
                         /\ writer[editing[t]] = t
                         /\ t \notin saved

OneFrame ==
    \A f, g \in Frames :
        (f # g /\ frame[f].blk # None) => frame[f].blk # frame[g].blk

(* A frame that no one has marked holds what the disk has, but for a page  *)
(* that is being written.                                                  *)
UnmarkedIsClean(f) ==
    (frame[f].blk # None /\ frame[f].txnum = None) =>
        \/ frame[f].page = disk[frame[f].blk]
        \/ \E t \in Txs : editing[t] = frame[f].blk

(* What the holder of the exclusive lock wrote is on disk, or marked with  *)
(* its number, or about to be; only the first if it has flushed since.     *)
WrittenIsKnown(f) ==
    (frame[f].blk # None /\ writer[frame[f].blk] # None) =>
        \/ frame[f].page = disk[frame[f].blk]
        \/ LET t == writer[frame[f].blk] IN
             t \notin saved /\ (frame[f].txnum = t \/ editing[t] = frame[f].blk)

EmptyFrame(f) == frame[f].blk = None => frame[f].txnum = None

IInv ==
    /\ TypeOK
    /\ PinsMatchLists
    /\ SleepsOnlyWhenFull
    /\ OneFrame
    /\ \A t \in Txs, b \in Blocks : ListsAgree(t, b)
    /\ \A t \in Txs : RequestIsAlone(t) /\ EditIsAlone(t)
    /\ \A f \in Frames : UnmarkedIsClean(f) /\ WrittenIsKnown(f) /\ EmptyFrame(f)
-----------------------------------------------------------------------------
(* Lemmas about the operators of the module.                               *)

(* None is no member of the sets it is used beside, and NoCall no call.    *)
LEMMA NoneIsNone ==
  /\ None \notin Blocks /\ None \notin Txs /\ None \notin Frames
  /\ NoCall \notin Calls
  /\ \A c \in Calls : c # NoCall /\ c.blk \in Blocks
<1>1. None \notin Blocks /\ None \notin Txs /\ None \notin Nat
  BY NoneAssumption
<1>2. Frames \subseteq Nat
  BY NumFramesAssumption DEF Frames
<1>3. \A c \in Calls : c.blk \in Blocks
  BY DEF Calls
<1>4. NoCall.blk = None
  BY DEF NoCall
<1> QED BY <1>1, <1>2, <1>3, <1>4

(* A set of frames that is not empty has a first.                          *)
LEMMA FirstIsFirst ==
  ASSUME NEW S, S \subseteq Frames, S # {}
  PROVE  First(S) \in S /\ \A g \in S : First(S) <= g
<1>1. S \subseteq Nat
  BY NumFramesAssumption DEF Frames
<1>2. PICK f \in S : \A g \in S : f <= g
  BY <1>1, LeastExists
<1> QED BY <1>2 DEF First

(* A transaction lists finitely many pins.                                 *)
LEMMA PinRefsFinite ==
  ASSUME NEW f PROVE IsFiniteSet(PinRefs(f))
<1> DEFINE S == (Txs \X Blocks) \X (1 .. MaxPins)
           T == Txs \X Blocks \X (1 .. MaxPins)
           g == [x \in S |-> <<x[1][1], x[1][2], x[2]>>]
<1>1. IsFiniteSet(S)
  <2>1. IsFiniteSet(Txs \X Blocks)
    BY FS_Product, FiniteAssumption
  <2>2. IsFiniteSet(1 .. MaxPins)
    BY FS_Interval, MaxPinsAssumption
  <2> QED BY <2>1, <2>2, FS_Product
<1>2. g \in Surjection(S, T)
  <2>1. g \in [S -> T]
    OBVIOUS
  <2>2. ASSUME NEW y \in T PROVE \E x \in S : g[x] = y
    <3>1. PICK t \in Txs, b \in Blocks, k \in 1 .. MaxPins : y = <<t, b, k>>
      OBVIOUS
    <3>2. <<<<t, b>>, k>> \in S /\ g[<<<<t, b>>, k>>] = y
      BY <3>1
    <3> QED BY <3>2
  <2> QED BY <2>1, <2>2 DEF Surjection
<1>3. IsFiniteSet(T)
  <2> HIDE DEF S, T, g
  <2> QED BY <1>1, <1>2, FS_Surjection
<1>4. PinRefs(f) \in SUBSET T
  BY DEF PinRefs
<1> QED BY <1>3, <1>4, FS_Subset

(* Some of the frames are finitely many, at most all.                      *)
LEMMA SomeFrames ==
  ASSUME NEW S \in SUBSET Frames
  PROVE  /\ IsFiniteSet(S)
         /\ Cardinality(S) \in 0 .. NumFrames
         /\ Cardinality(S) = 0 <=> S = {}
<1>1. IsFiniteSet(Frames) /\ Cardinality(Frames) = NumFrames
  BY FS_Interval, NumFramesAssumption DEF Frames
<1> QED BY <1>1, FS_Subset, FS_EmptySet, FS_CardinalityType, NumFramesAssumption

(* The frames that nobody pins are finitely many.                          *)
LEMMA UnpinnedFinite ==
  /\ IsFiniteSet(Unpinned)
  /\ Cardinality(Unpinned) \in 0 .. NumFrames
  /\ Cardinality(Unpinned) = 0 <=> Unpinned = {}
<1>1. Unpinned \in SUBSET Frames
  BY DEF Unpinned
<1> QED BY <1>1, SomeFrames

(* A frame is pinned exactly if some transaction lists it.                 *)
LEMMA PinnedIsListed ==
  ASSUME TypeOK, PinsMatchLists, NEW f \in Frames
  PROVE  /\ frame[f].pins = 0 => \A t \in Txs, b \in Blocks :
                                    buffers[t][b] = f => pinned[t][b] = 0
         /\ \A t \in Txs, b \in Blocks :
              (buffers[t][b] = f /\ pinned[t][b] > 0) => frame[f].pins > 0
<1>1. frame[f].pins = Cardinality(PinRefs(f)) /\ frame[f].pins \in Nat
  BY DEF TypeOK, FrameStates, PinsMatchLists
<1>2. ASSUME NEW t \in Txs, NEW b \in Blocks, buffers[t][b] = f, pinned[t][b] > 0
      PROVE  frame[f].pins > 0
  <2>1. <<t, b, 1>> \in PinRefs(f)
    BY <1>2, MaxPinsAssumption DEF TypeOK, PinRefs
  <2>2. PinRefs(f) # {}
    BY <2>1
  <2>3. Cardinality(PinRefs(f)) # 0
    BY <2>2, PinRefsFinite, FS_EmptySet
  <2> QED BY <1>1, <2>3
<1>3. \A t \in Txs, b \in Blocks : pinned[t][b] \in Nat
  BY MaxPinsAssumption DEF TypeOK
<1> QED BY <1>1, <1>2, <1>3

(* Where no pin changes hands, the counts stay right.                      *)
LEMMA SamePins ==
  ASSUME PinsMatchLists, UNCHANGED <<buffers, pinned, numAvailable>>,
         \A f \in Frames : frame'[f].pins = frame[f].pins
  PROVE  PinsMatchLists'
<1>1. \A f \in Frames : PinRefs(f)' = PinRefs(f)
  BY DEF PinRefs
<1>2. Unpinned' = Unpinned
  BY DEF Unpinned
<1> QED BY <1>1, <1>2 DEF PinsMatchLists
-----------------------------------------------------------------------------
(* The steps that leave the frames alone: requests, waiting, and the ends  *)
(* of unpinAll.                                                            *)

(* A call of pin keeps the invariant.                                      *)
LEMMA PinKeeps ==
  ASSUME IInv, NEW t \in Txs, NEW b \in Blocks, Pin(t, b)
  PROVE  IInv'
<1> USE DEF IInv
<1>1. TypeOK'
  BY DEF TypeOK, Pin, txVars, Calls
<1>2. PinsMatchLists'
  BY SamePins DEF Pin
<1>3. SleepsOnlyWhenFull'
  BY DEF SleepsOnlyWhenFull, Pin, Holding, TypeOK
<1>4. \A u \in Txs : (RequestIsAlone(u) /\ EditIsAlone(u))'
  BY DEF RequestIsAlone, EditIsAlone, Pin, Idle, txVars, TypeOK
<1>5. (\A u \in Txs, c \in Blocks : ListsAgree(u, c))' /\ OneFrame'
  BY DEF ListsAgree, OneFrame, Pin, txVars
<1>6. \A f \in Frames : (UnmarkedIsClean(f) /\ WrittenIsKnown(f) /\ EmptyFrame(f))'
  BY DEF UnmarkedIsClean, WrittenIsKnown, EmptyFrame, Pin, txVars
<1> QED BY <1>1, <1>2, <1>3, <1>4, <1>5, <1>6

(* A pin that finds no frame and waits, or throws, keeps the invariant.    *)
LEMMA NoFrameKeeps ==
  ASSUME IInv, NEW t \in Txs, NoFrame(t)
  PROVE  IInv'
<1> USE DEF IInv
<1>1. call[t] \in Calls /\ call' \in [Txs -> Calls \cup {NoCall}]
  BY DEF TypeOK, NoFrame, Calls
<1>2. TypeOK'
  BY <1>1 DEF TypeOK, NoFrame, txVars
<1>3. PinsMatchLists'
  BY SamePins DEF NoFrame
<1>4. SleepsOnlyWhenFull'
  <2>1. numAvailable = 0 /\ Holding(call[t].blk) = {}
    BY UnpinnedFinite DEF NoFrame, CanPin, PinsMatchLists
  <2>2. ASSUME NEW u \in Txs, call'[u] # NoCall, ~call'[u].awake
        PROVE  numAvailable = 0 /\ Holding(call'[u].blk) = {}
    <3>1. CASE u = t
      BY <1>1, <2>1, <2>2, <3>1 DEF NoFrame, TypeOK, Calls
    <3>2. CASE u # t
      BY <2>2, <3>2 DEF NoFrame, TypeOK, SleepsOnlyWhenFull
    <3> QED BY <3>1, <3>2
  <2> QED BY <2>2 DEF SleepsOnlyWhenFull, Holding, NoFrame
<1>5. \A u \in Txs : (RequestIsAlone(u) /\ EditIsAlone(u))'
  <2>1. \A u \in Txs : call'[u] # NoCall => call[u] # NoCall /\ call'[u].blk = call[u].blk
    BY <1>1 DEF NoFrame, TypeOK, Calls
  <2> QED BY <2>1 DEF RequestIsAlone, EditIsAlone, NoFrame, txVars
<1>6. (\A u \in Txs, c \in Blocks : ListsAgree(u, c))' /\ OneFrame'
  BY DEF ListsAgree, OneFrame, NoFrame, txVars
<1>7. \A f \in Frames : (UnmarkedIsClean(f) /\ WrittenIsKnown(f) /\ EmptyFrame(f))'
  BY DEF UnmarkedIsClean, WrittenIsKnown, EmptyFrame, NoFrame, txVars
<1> QED BY <1>2, <1>3, <1>4, <1>5, <1>6, <1>7

(* The passing of time keeps the invariant.                                *)
LEMMA TickKeeps ==
  ASSUME IInv, NEW t \in Txs, Tick(t)
  PROVE  IInv'
<1> USE DEF IInv
<1>1. call[t] \in Calls /\ call' \in [Txs -> Calls \cup {NoCall}]
  BY DEF TypeOK, Tick, Calls
<1>2. TypeOK'
  BY <1>1 DEF TypeOK, Tick, txVars
<1>3. PinsMatchLists'
  BY SamePins DEF Tick
<1>4. \A u \in Txs : /\ call'[u] # NoCall => call[u] # NoCall /\ call'[u].blk = call[u].blk
                     /\ (call'[u] # NoCall /\ ~call'[u].awake) => ~call[u].awake
  BY <1>1 DEF Tick, TypeOK, Calls
<1>5. SleepsOnlyWhenFull'
  BY <1>4 DEF SleepsOnlyWhenFull, Holding, Tick
<1>6. \A u \in Txs : (RequestIsAlone(u) /\ EditIsAlone(u))'
  <2>1. \A u \in Txs : call[u] = NoCall => call'[u] = NoCall
    BY DEF Tick, TypeOK
  <2> QED BY <1>4, <2>1 DEF RequestIsAlone, EditIsAlone, Tick, txVars
<1>7. (\A u \in Txs, c \in Blocks : ListsAgree(u, c))' /\ OneFrame'
  BY DEF ListsAgree, OneFrame, Tick, txVars
<1>8. \A f \in Frames : (UnmarkedIsClean(f) /\ WrittenIsKnown(f) /\ EmptyFrame(f))'
  BY DEF UnmarkedIsClean, WrittenIsKnown, EmptyFrame, Tick, txVars
<1> QED BY <1>2, <1>3, <1>5, <1>6, <1>7, <1>8

(* unpinAll begins: it keeps the invariant.                                *)
LEMMA UnpinAllKeeps ==
  ASSUME IInv, NEW t \in Txs, UnpinAll(t)
  PROVE  IInv'
<1> USE DEF IInv
<1>1. TypeOK'
  BY DEF TypeOK, UnpinAll
<1>2. PinsMatchLists'
  BY SamePins DEF UnpinAll
<1>3. SleepsOnlyWhenFull'
  BY DEF SleepsOnlyWhenFull, UnpinAll, Holding
<1>4. \A u \in Txs : (RequestIsAlone(u) /\ EditIsAlone(u))'
  BY NoneIsNone DEF RequestIsAlone, EditIsAlone, UnpinAll, Idle, TypeOK
<1>5. (\A u \in Txs, c \in Blocks : ListsAgree(u, c))' /\ OneFrame'
  BY DEF ListsAgree, OneFrame, UnpinAll, TypeOK
<1>6. \A f \in Frames : (UnmarkedIsClean(f) /\ EmptyFrame(f))'
  BY DEF UnmarkedIsClean, EmptyFrame, UnpinAll
<1>7. ASSUME NEW f \in Frames PROVE WrittenIsKnown(f)'
  <2>1. frame[f].blk \in Blocks \cup {None}
    BY DEF TypeOK, FrameStates
  <2>2. frame[f].blk # None =>
          writer'[frame[f].blk] \in {None, writer[frame[f].blk]}
    BY <2>1 DEF UnpinAll
  <2>3. UNCHANGED <<frame, disk, saved, editing>>
    BY DEF UnpinAll
  <2> QED BY <2>2, <2>3 DEF WrittenIsKnown
<1> QED BY <1>1, <1>2, <1>3, <1>4, <1>5, <1>6, <1>7

(* unpinAll ends: it keeps the invariant.                                  *)
LEMMA UnpinAllDoneKeeps ==
  ASSUME IInv, NEW t \in Txs, UnpinAllDone(t)
  PROVE  IInv'
<1> USE DEF IInv
<1>1. TypeOK'
  BY DEF TypeOK, UnpinAllDone
<1>2. PinsMatchLists'
  <2>1. \A u \in Txs, c \in Blocks :
          pinned'[u][c] = pinned[u][c] /\ (pinned[u][c] # 0 => buffers'[u][c] = buffers[u][c])
    BY DEF UnpinAllDone, TypeOK
  <2>2. ASSUME NEW f \in Frames PROVE PinRefs(f)' = PinRefs(f)
    <3>1. ASSUME NEW p \in Txs \X Blocks \X (1 .. MaxPins)
          PROVE  (buffers'[p[1]][p[2]] = f /\ p[3] <= pinned'[p[1]][p[2]]) <=>
                 (buffers[p[1]][p[2]] = f /\ p[3] <= pinned[p[1]][p[2]])
      <4>1. p[1] \in Txs /\ p[2] \in Blocks /\ p[3] \in Nat /\ p[3] > 0
        BY MaxPinsAssumption
      <4>2. CASE pinned[p[1]][p[2]] = 0
        BY <2>1, <4>1, <4>2
      <4>3. CASE pinned[p[1]][p[2]] # 0
        BY <2>1, <4>1, <4>3
      <4> QED BY <4>2, <4>3
    <3> QED BY <3>1 DEF PinRefs
  <2>3. Unpinned' = Unpinned /\ UNCHANGED <<frame, numAvailable>>
    BY DEF Unpinned, UnpinAllDone
  <2> QED BY <2>2, <2>3 DEF PinsMatchLists
<1>3. SleepsOnlyWhenFull'
  BY DEF SleepsOnlyWhenFull, UnpinAllDone, Holding
<1>4. \A u \in Txs : (RequestIsAlone(u) /\ EditIsAlone(u))'
  BY DEF RequestIsAlone, EditIsAlone, UnpinAllDone, TypeOK
<1>5. (\A u \in Txs, c \in Blocks : ListsAgree(u, c))' /\ OneFrame'
  <2>1. ASSUME NEW u \in Txs, NEW c \in Blocks PROVE ListsAgree(u, c)'
    BY DEF ListsAgree, UnpinAllDone, TypeOK
  <2> QED BY <2>1 DEF OneFrame, UnpinAllDone
<1>6. \A f \in Frames : (UnmarkedIsClean(f) /\ WrittenIsKnown(f) /\ EmptyFrame(f))'
  BY DEF UnmarkedIsClean, WrittenIsKnown, EmptyFrame, UnpinAllDone
<1> QED BY <1>1, <1>2, <1>3, <1>4, <1>5, <1>6
-----------------------------------------------------------------------------
(* The steps that write a page, mark it, and flush.                        *)

(* The frame a running transaction lists for a block is the one frame that *)
(* holds it.                                                               *)
LEMMA ListedFrame ==
  ASSUME TypeOK, OneFrame, NEW t \in Txs, NEW b \in Blocks,
         ListsAgree(t, b), phase[t] = "running", buffers[t][b] # None
  PROVE  /\ buffers[t][b] \in Frames
         /\ frame[buffers[t][b]].blk = b
         /\ \A f \in Frames : frame[f].blk = b => f = buffers[t][b]
<1>1. buffers[t][b] \in Frames
  BY DEF TypeOK
<1>2. frame[buffers[t][b]].blk = b
  BY DEF ListsAgree
<1> QED BY <1>1, <1>2, NoneIsNone DEF OneFrame

(* A write to a pinned page keeps the invariant.                           *)
LEMMA WriteKeeps ==
  ASSUME IInv, NEW t \in Txs, NEW b \in Blocks, NEW v \in Vals, Write(t, b, v)
  PROVE  IInv'
<1> USE DEF IInv
<1>1. /\ buffers[t][b] \in Frames
      /\ frame[buffers[t][b]].blk = b
      /\ \A f \in Frames : frame[f].blk = b => f = buffers[t][b]
  BY ListedFrame DEF Write, Idle
<1>2. \A f \in Frames : /\ frame[f] \in FrameStates
                        /\ frame'[f].blk = frame[f].blk
                        /\ frame'[f].pins = frame[f].pins
                        /\ frame'[f].txnum = frame[f].txnum
                        /\ f # buffers[t][b] => frame'[f].page = frame[f].page
  BY <1>1 DEF Write, TypeOK, FrameStates
<1>3. TypeOK'
  <2>1. frame' \in [Frames -> FrameStates]
    BY <1>1 DEF TypeOK, Write, FrameStates
  <2> QED BY <2>1 DEF TypeOK, Write
<1>4. PinsMatchLists'
  BY <1>2, SamePins DEF Write
<1>5. SleepsOnlyWhenFull'
  BY <1>2 DEF SleepsOnlyWhenFull, Write, Holding
<1>6. ASSUME NEW u \in Txs PROVE (RequestIsAlone(u) /\ EditIsAlone(u))'
  <2>1. CASE u = t
    BY <2>1, NoneIsNone DEF RequestIsAlone, EditIsAlone, Write, Idle, TypeOK
  <2>2. CASE u # t
    <3>1. writer[b] # u
      BY <2>2, NoneIsNone DEF Write
    <3>2. editing'[u] = editing[u]
      BY <2>2 DEF Write, TypeOK
    <3>3. editing[u] # None => writer'[editing[u]] = u
      BY <2>2, <3>1 DEF Write, TypeOK, EditIsAlone
    <3> QED BY <2>2, <3>2, <3>3 DEF RequestIsAlone, EditIsAlone, Write
  <2> QED BY <2>1, <2>2
<1>7. (\A u \in Txs, c \in Blocks : ListsAgree(u, c))' /\ OneFrame'
  <2>1. ASSUME NEW u \in Txs, NEW c \in Blocks PROVE ListsAgree(u, c)'
    BY <1>2 DEF ListsAgree, Write, TypeOK
  <2> QED BY <1>2, <2>1 DEF OneFrame
<1>8. ASSUME NEW f \in Frames
      PROVE  (UnmarkedIsClean(f) /\ WrittenIsKnown(f) /\ EmptyFrame(f))'
  <2>1. EmptyFrame(f)'
    BY <1>2 DEF EmptyFrame
  <2>2. CASE f = buffers[t][b]
    <3>1. editing'[t] = b /\ writer'[b] = t /\ t \notin saved' /\ frame'[f].blk = b
      BY <1>1, <1>2, <2>2 DEF Write, TypeOK
    <3> QED BY <2>1, <3>1 DEF UnmarkedIsClean, WrittenIsKnown
  <2>3. CASE f # buffers[t][b]
    <3>1. frame'[f].blk # b /\ frame[f].blk # b /\ frame[f].blk \in Blocks \cup {None}
      BY <1>1, <1>2, <2>3 DEF FrameStates
    <3>2. /\ frame[f].blk # None => writer'[frame[f].blk] = writer[frame[f].blk]
          /\ \A u \in Txs : editing[u] = frame[f].blk /\ frame[f].blk # None
                               => editing'[u] = frame[f].blk
          /\ saved' \subseteq saved
      BY <3>1, NoneIsNone DEF Write, TypeOK, Idle
    <3>3. UnmarkedIsClean(f)'
      BY <1>2, <2>3, <3>2 DEF UnmarkedIsClean, Write
    <3>4. WrittenIsKnown(f)'
      <4>1. frame[f].blk # None => writer[frame[f].blk] \in Txs \cup {None}
        BY <3>1 DEF TypeOK
      <4> QED BY <1>2, <2>3, <3>2, <4>1 DEF WrittenIsKnown, Write
    <3> QED BY <2>1, <3>3, <3>4
  <2> QED BY <2>2, <2>3
<1> QED BY <1>3, <1>4, <1>5, <1>6, <1>7, <1>8

(* setModified keeps the invariant.                                        *)
LEMMA SetModifiedKeeps ==
  ASSUME IInv, NEW t \in Txs, SetModified(t)
  PROVE  IInv'
<1> USE DEF IInv
<1> DEFINE b == editing[t]
<1>1. b \in Blocks /\ writer[b] = t /\ t \notin saved /\ phase[t] = "running" /\ buffers[t][b] # None
  BY DEF SetModified, EditIsAlone, TypeOK
<1>2. /\ buffers[t][b] \in Frames
      /\ frame[buffers[t][b]].blk = b
      /\ \A f \in Frames : frame[f].blk = b => f = buffers[t][b]
  BY <1>1, ListedFrame
<1>3. \A f \in Frames : /\ frame[f] \in FrameStates
                        /\ frame'[f].blk = frame[f].blk
                        /\ frame'[f].pins = frame[f].pins
                        /\ frame'[f].page = frame[f].page
                        /\ frame'[f].txnum = IF f = buffers[t][b] THEN t ELSE frame[f].txnum
  BY <1>2 DEF SetModified, TypeOK, FrameStates
<1>4. TypeOK'
  <2>1. frame' \in [Frames -> FrameStates]
    BY <1>2 DEF TypeOK, SetModified, FrameStates
  <2> QED BY <2>1 DEF TypeOK, SetModified
<1>5. PinsMatchLists'
  BY <1>3, SamePins DEF SetModified
<1>6. SleepsOnlyWhenFull'
  BY <1>3 DEF SleepsOnlyWhenFull, SetModified, Holding
<1>7. \A u \in Txs : (RequestIsAlone(u) /\ EditIsAlone(u))'
  BY DEF RequestIsAlone, EditIsAlone, SetModified, TypeOK
<1>8. (\A u \in Txs, c \in Blocks : ListsAgree(u, c))' /\ OneFrame'
  <2>1. ASSUME NEW u \in Txs, NEW c \in Blocks PROVE ListsAgree(u, c)'
    BY <1>3 DEF ListsAgree, SetModified, TypeOK
  <2> QED BY <1>3, <2>1 DEF OneFrame
<1>9. ASSUME NEW f \in Frames
      PROVE  (UnmarkedIsClean(f) /\ WrittenIsKnown(f) /\ EmptyFrame(f))'
  <2>1. EmptyFrame(f)'
    BY <1>2, <1>3, NoneIsNone, <1>1 DEF EmptyFrame
  <2>2. CASE f = buffers[t][b]
    <3>1. frame'[f].blk = b /\ frame'[f].txnum = t /\ t # None
      BY <1>2, <1>3, <2>2, NoneIsNone
    <3>2. writer'[b] = t /\ t \notin saved'
      BY <1>1 DEF SetModified
    <3> HIDE DEF b
    <3>3. UnmarkedIsClean(f)'
      BY <3>1 DEF UnmarkedIsClean
    <3>4. WrittenIsKnown(f)'
      BY <3>1, <3>2 DEF WrittenIsKnown
    <3> QED BY <2>1, <3>3, <3>4
  <2>3. CASE f # buffers[t][b]
    <3>1. frame[f].blk # b
      BY <1>2, <2>3
    <3>2. \A u \in Txs : editing[u] = frame[f].blk => editing'[u] = frame[f].blk
      BY <3>1 DEF SetModified, TypeOK
    <3>3. UnmarkedIsClean(f)'
      BY <1>3, <2>3, <3>2 DEF UnmarkedIsClean, SetModified
    <3>4. WrittenIsKnown(f)'
      <4>1. frame[f].blk # None => writer[frame[f].blk] \in Txs \cup {None}
        BY <1>3 DEF TypeOK, FrameStates
      <4> QED BY <1>3, <2>3, <3>2, <4>1 DEF WrittenIsKnown, SetModified
    <3> QED BY <2>1, <3>3, <3>4
  <2> QED BY <2>2, <2>3
<1> QED BY <1>4, <1>5, <1>6, <1>7, <1>8, <1>9

(* flushAll: what a frame held goes to the disk exactly if it was marked   *)
(* by t, and the pages stay.                                               *)
LEMMA FlushAllWrites ==
  ASSUME TypeOK, OneFrame, NEW t \in Txs, FlushAll(t), NEW f \in Frames
  PROVE  /\ frame'[f].blk = frame[f].blk
         /\ frame'[f].pins = frame[f].pins
         /\ frame'[f].page = frame[f].page
         /\ frame'[f].txnum = IF frame[f].txnum = t THEN None ELSE frame[f].txnum
         /\ frame[f].blk # None =>
              disk'[frame[f].blk] = IF frame[f].txnum = t THEN frame[f].page
                                    ELSE disk[frame[f].blk]
<1> DEFINE mine == {g \in Frames : frame[g].txnum = t}
           b == frame[f].blk
<1>1. frame[f] \in FrameStates
  BY DEF TypeOK
<1>2. frame' = [g \in Frames |-> IF g \in mine THEN [frame[g] EXCEPT !.txnum = None]
                                 ELSE frame[g]]
  BY DEF FlushAll
<1>3. /\ frame'[f].blk = frame[f].blk
      /\ frame'[f].pins = frame[f].pins
      /\ frame'[f].page = frame[f].page
      /\ frame'[f].txnum = IF frame[f].txnum = t THEN None ELSE frame[f].txnum
  BY <1>1, <1>2 DEF FrameStates
<1>4. ASSUME b # None
      PROVE  disk'[b] = IF frame[f].txnum = t THEN frame[f].page ELSE disk[b]
  <2>1. b \in Blocks
    BY <1>1, <1>4 DEF FrameStates
  <2>2. Holding(b) \cap mine = IF frame[f].txnum = t THEN {f} ELSE {}
    BY <1>4 DEF Holding, OneFrame
  <2>3. First({f}) = f
    BY FirstIsFirst
  <2>4. disk'[b] = IF Holding(b) \cap mine = {} THEN disk[b]
                   ELSE frame[First(Holding(b) \cap mine)].page
    BY <2>1 DEF FlushAll
  <2> QED BY <2>2, <2>3, <2>4
<1> QED BY <1>3, <1>4

(* flushAll keeps the invariant.                                           *)
LEMMA FlushAllKeeps ==
  ASSUME IInv, NEW t \in Txs, FlushAll(t)
  PROVE  IInv'
<1> USE DEF IInv
<1>1. \A f \in Frames :
         /\ frame'[f].blk = frame[f].blk
         /\ frame'[f].pins = frame[f].pins
         /\ frame'[f].page = frame[f].page
         /\ frame'[f].txnum = IF frame[f].txnum = t THEN None ELSE frame[f].txnum
         /\ frame[f].blk # None =>
              disk'[frame[f].blk] = IF frame[f].txnum = t THEN frame[f].page
                                    ELSE disk[frame[f].blk]
  BY FlushAllWrites
<1>2. TypeOK'
  <2>1. frame' \in [Frames -> FrameStates]
    <3>1. \A g \in Frames : [frame[g] EXCEPT !.txnum = None] \in FrameStates
      BY DEF TypeOK, FrameStates
    <3> QED BY <3>1 DEF TypeOK, FlushAll
  <2>2. disk' \in [Blocks -> Vals]
    <3>1. ASSUME NEW b \in Blocks, NEW mine \in SUBSET Frames, Holding(b) \cap mine # {}
          PROVE  frame[First(Holding(b) \cap mine)].page \in Vals
      BY <3>1, FirstIsFirst DEF TypeOK, FrameStates
    <3> QED BY <3>1 DEF TypeOK, FlushAll
  <2> QED BY <2>1, <2>2 DEF TypeOK, FlushAll
<1>3. PinsMatchLists'
  BY <1>1, SamePins DEF FlushAll
<1>4. SleepsOnlyWhenFull'
  BY <1>1 DEF SleepsOnlyWhenFull, FlushAll, Holding
<1>5. \A u \in Txs : (RequestIsAlone(u) /\ EditIsAlone(u))'
  BY DEF RequestIsAlone, EditIsAlone, FlushAll, Idle
<1>6. (\A u \in Txs, c \in Blocks : ListsAgree(u, c))' /\ OneFrame'
  <2>1. ASSUME NEW u \in Txs, NEW c \in Blocks PROVE ListsAgree(u, c)'
    BY <1>1 DEF ListsAgree, FlushAll, TypeOK
  <2> QED BY <1>1, <2>1 DEF OneFrame
<1>7. ASSUME NEW f \in Frames
      PROVE  (UnmarkedIsClean(f) /\ WrittenIsKnown(f) /\ EmptyFrame(f))'
  <2>1. UNCHANGED <<editing, writer>> /\ saved' = saved \cup {t} /\ editing[t] = None
    BY DEF FlushAll, Idle
  <2>2. UnmarkedIsClean(f)'
    BY <1>1, <2>1 DEF UnmarkedIsClean
  <2>3. WrittenIsKnown(f)'
    <3>1. CASE frame[f].blk # None /\ writer[frame[f].blk] = t
      BY <1>1, <2>1, <3>1 DEF WrittenIsKnown
    <3>2. CASE frame[f].blk = None \/ writer[frame[f].blk] # t
      BY <1>1, <2>1, <3>2 DEF WrittenIsKnown
    <3> QED BY <3>1, <3>2
  <2>4. EmptyFrame(f)'
    BY <1>1 DEF EmptyFrame
  <2> QED BY <2>2, <2>3, <2>4
<1> QED BY <1>2, <1>3, <1>4, <1>5, <1>6, <1>7
-----------------------------------------------------------------------------
(* The steps that give a pin back: BufferList::unpin and unpinAll.         *)

(* What an unpin does to the frame, its owner and the sleepers.            *)
LEMMA ReleaseKeeps ==
  ASSUME IInv, NEW t \in Txs, NEW b \in Blocks,
         call[t] = NoCall, editing[t] = None, pinned[t][b] > 0,
         ReleaseFrame(buffers[t][b]),
         pinned' = [pinned EXCEPT ![t][b] = @ - 1],
         buffers' \in [Txs -> [Blocks -> Frames \cup {None}]],
         \A u \in Txs, c \in Blocks :
            (u # t \/ c # b \/ pinned[t][b] > 1) => buffers'[u][c] = buffers[u][c],
         (phase[t] = "running" /\ pinned[t][b] = 1) => buffers'[t][b] = None,
         UNCHANGED <<disk, txVars>>
  PROVE  IInv'
<1> USE DEF IInv
<1> DEFINE f == buffers[t][b]
<1>1. f \in Frames /\ frame[f].blk = b /\ frame[f].pins \in Nat \ {0}
  <2>1. f \in Frames /\ frame[f].blk = b
    BY DEF ListsAgree, TypeOK
  <2> QED BY <2>1, PinnedIsListed DEF TypeOK, FrameStates
<1>2. \A g \in Frames : /\ frame[g] \in FrameStates
                        /\ frame'[g].blk = frame[g].blk
                        /\ frame'[g].page = frame[g].page
                        /\ frame'[g].txnum = frame[g].txnum
                        /\ frame'[g].pins = IF g = f THEN frame[g].pins - 1
                                            ELSE frame[g].pins
  BY <1>1 DEF ReleaseFrame, TypeOK, FrameStates
<1>3. pinned[t][b] \in 1 .. MaxPins /\ \A u \in Txs, c \in Blocks :
         /\ pinned[u][c] \in 0 .. MaxPins
         /\ pinned'[u][c] = IF u = t /\ c = b THEN pinned[t][b] - 1 ELSE pinned[u][c]
  BY MaxPinsAssumption DEF TypeOK
<1>4. PinsMatchLists'
  <2> DEFINE p == <<t, b, pinned[t][b]>>
  <2>1. ASSUME NEW g \in Frames
        PROVE  PinRefs(g)' = IF g = f THEN PinRefs(g) \ {p} ELSE PinRefs(g)
    <3>1. ASSUME NEW q \in Txs \X Blocks \X (1 .. MaxPins)
          PROVE  (buffers'[q[1]][q[2]] = g /\ q[3] <= pinned'[q[1]][q[2]]) <=>
                 (buffers[q[1]][q[2]] = g /\ q[3] <= pinned[q[1]][q[2]] /\ q # p)
      <4>1. q[1] \in Txs /\ q[2] \in Blocks /\ q[3] \in 1 .. MaxPins
            /\ q = <<q[1], q[2], q[3]>>
        OBVIOUS
      <4>2. CASE q[1] # t \/ q[2] # b
        <5>1. buffers'[q[1]][q[2]] = buffers[q[1]][q[2]]
          BY <4>1, <4>2
        <5>2. pinned'[q[1]][q[2]] = pinned[q[1]][q[2]]
          BY <1>3, <4>1, <4>2
        <5> QED BY <5>1, <5>2, <4>2
      <4>3. CASE q[1] = t /\ q[2] = b
        <5>1. q = p <=> q[3] = pinned[t][b]
          BY <4>1, <4>3
        <5>2. pinned'[t][b] = pinned[t][b] - 1
          BY <1>3
        <5>3. q[3] <= pinned'[t][b] <=> q[3] <= pinned[t][b] /\ q # p
          BY <5>1, <5>2, <4>1, <1>3, MaxPinsAssumption
        <5>4. q[3] <= pinned'[t][b] => pinned[t][b] > 1
          BY <5>2, <4>1, <1>3, MaxPinsAssumption
        <5> HIDE DEF p
        <5> QED BY <5>3, <5>4, <4>3
      <4> QED BY <4>2, <4>3
    <3>2. g # f => p \notin PinRefs(g)
      BY DEF PinRefs
    <3> HIDE DEF p
    <3> QED BY <3>1, <3>2 DEF PinRefs
  <2>2. p \in PinRefs(f)
    BY <1>3 DEF PinRefs
  <2>3. ASSUME NEW g \in Frames PROVE frame'[g].pins = Cardinality(PinRefs(g)')
    <3>1. frame[g].pins = Cardinality(PinRefs(g))
      BY DEF PinsMatchLists
    <3> HIDE DEF p
    <3>3. CASE g = f
      <4>1. PinRefs(g)' = PinRefs(g) \ {p}
        BY <2>1, <3>3
      <4>2. frame'[g].pins = frame[g].pins - 1
        BY <1>2, <3>3
      <4>3. Cardinality(PinRefs(g) \ {p}) = Cardinality(PinRefs(g)) - 1
        BY <2>2, <3>3, PinRefsFinite, FS_RemoveElement
      <4> QED BY <3>1, <4>1, <4>2, <4>3
    <3>4. CASE g # f
      BY <1>2, <2>1, <3>1, <3>4
    <3> QED BY <3>3, <3>4
  <2>4. numAvailable' = Cardinality(Unpinned')
    <3>1. numAvailable = Cardinality(Unpinned) /\ f \notin Unpinned
      BY <1>1 DEF PinsMatchLists, Unpinned
    <3>2. CASE frame[f].pins = 1
      <4>1. Unpinned' = Unpinned \cup {f}
        BY <1>1, <1>2, <3>2 DEF Unpinned
      <4> QED BY <3>1, <3>2, <4>1, UnpinnedFinite, FS_AddElement DEF ReleaseFrame
    <3>3. CASE frame[f].pins # 1
      <4>1. Unpinned' = Unpinned
        <5>1. \A g \in Frames : frame'[g].pins = 0 <=> frame[g].pins = 0
          <6> HIDE DEF f
          <6> QED BY <1>1, <1>2, <3>3
        <5> QED BY <5>1 DEF Unpinned
      <4> QED BY <3>1, <3>3, <4>1 DEF ReleaseFrame
    <3> QED BY <3>2, <3>3
  <2> QED BY <2>3, <2>4 DEF PinsMatchLists
<1>5. call' \in [Txs -> Calls \cup {NoCall}] /\ \A u \in Txs :
         /\ call'[u] = NoCall <=> call[u] = NoCall
         /\ call[u] # NoCall => call'[u].blk = call[u].blk
  <2>1. ASSUME NEW u \in Txs, call[u] # NoCall
        PROVE  /\ [call[u] EXCEPT !.awake = TRUE] \in Calls
               /\ [call[u] EXCEPT !.awake = TRUE].blk = call[u].blk
    <3>1. call[u] \in Calls
      BY <2>1 DEF TypeOK
    <3> QED BY <3>1 DEF Calls
  <2>2. call' = call \/ call' = NotifyAll
    BY DEF ReleaseFrame
  <2>3. CASE call' = call
    BY <2>3 DEF TypeOK
  <2>4. CASE call' = NotifyAll
    BY <2>1, <2>4, NoneIsNone DEF NotifyAll
  <2> QED BY <2>2, <2>3, <2>4
<1>6. TypeOK'
  <2>1. frame' \in [Frames -> FrameStates]
    <3>1. frame[f].pins - 1 \in Nat
      BY <1>1
    <3>2. [frame[f] EXCEPT !.pins = @ - 1] \in FrameStates
      BY <3>1, <1>2, <1>1 DEF FrameStates
    <3> QED BY <3>2, <1>1 DEF TypeOK, ReleaseFrame
  <2>2. numAvailable' \in 0 .. NumFrames
    <3>1. numAvailable' = Cardinality(Unpinned)'
      BY <1>4 DEF PinsMatchLists
    <3>2. Unpinned' \in SUBSET Frames
      BY DEF Unpinned
    <3> QED BY <3>1, <3>2, SomeFrames
  <2>3. pinned' \in [Txs -> [Blocks -> 0 .. MaxPins]]
    BY <1>3, MaxPinsAssumption DEF TypeOK
  <2> QED BY <1>5, <2>1, <2>2, <2>3 DEF TypeOK, txVars
<1>7. SleepsOnlyWhenFull'
  <2>1. CASE frame[f].pins = 1
    <3>1. \A u \in Txs : call'[u] # NoCall => call'[u].awake
      BY <1>1, <2>1, NoneIsNone DEF ReleaseFrame, NotifyAll, TypeOK, Calls
    <3> QED BY <3>1 DEF SleepsOnlyWhenFull
  <2>2. CASE frame[f].pins # 1
    BY <1>2, <2>2 DEF ReleaseFrame, SleepsOnlyWhenFull, Holding
  <2> QED BY <2>1, <2>2
<1>8. ASSUME NEW u \in Txs PROVE (RequestIsAlone(u) /\ EditIsAlone(u))'
  <2>1. UNCHANGED <<phase, editing, writer, saved>>
    BY DEF txVars
  <2>2. CASE u = t
    BY <1>5, <2>1, <2>2 DEF RequestIsAlone, EditIsAlone
  <2>3. CASE u # t
    <3>1. pinned'[u] = pinned[u] /\ \A c \in Blocks : buffers'[u][c] = buffers[u][c]
      BY <2>3 DEF TypeOK
    <3>2. editing[u] \in Blocks \cup {None} /\ (call[u] # NoCall => call[u].blk \in Blocks)
      BY NoneIsNone DEF TypeOK
    <3> QED BY <1>5, <2>1, <3>1, <3>2 DEF RequestIsAlone, EditIsAlone
  <2> QED BY <2>2, <2>3
<1>9. OneFrame'
  BY <1>2 DEF OneFrame
<1>10. ASSUME NEW u \in Txs, NEW c \in Blocks PROVE ListsAgree(u, c)'
  <2>1. phase' = phase /\ buffers[u][c] \in Frames \cup {None}
    BY DEF txVars, TypeOK
  <2>2. CASE u = t /\ c = b
    <3>1. CASE pinned[t][b] = 1
      BY <1>3, <2>1, <2>2, <3>1 DEF ListsAgree
    <3>2. CASE pinned[t][b] > 1
      BY <1>2, <1>3, <2>1, <2>2, <3>2, MaxPinsAssumption DEF ListsAgree
    <3> QED BY <1>3, <3>1, <3>2
  <2>3. CASE u # t \/ c # b
    BY <1>2, <1>3, <2>1, <2>3 DEF ListsAgree
  <2> QED BY <2>2, <2>3
<1>11. \A g \in Frames : (UnmarkedIsClean(g) /\ WrittenIsKnown(g) /\ EmptyFrame(g))'
  BY <1>2 DEF UnmarkedIsClean, WrittenIsKnown, EmptyFrame, txVars
<1> QED BY <1>4, <1>6, <1>7, <1>8, <1>9, <1>10, <1>11

(* unpin keeps the invariant.                                              *)
LEMMA UnpinKeeps ==
  ASSUME IInv, NEW t \in Txs, NEW b \in Blocks, Unpin(t, b)
  PROVE  IInv'
<1>1. call[t] = NoCall /\ editing[t] = None /\ phase[t] = "running"
  BY DEF Unpin, Idle
<1>2. pinned[t][b] > 0
  BY <1>1 DEF IInv, ListsAgree, Unpin
<1>3. /\ buffers' \in [Txs -> [Blocks -> Frames \cup {None}]]
      /\ \A u \in Txs, c \in Blocks :
            (u # t \/ c # b \/ pinned[t][b] > 1) => buffers'[u][c] = buffers[u][c]
      /\ pinned[t][b] = 1 => buffers'[t][b] = None
  BY DEF Unpin, IInv, TypeOK
<1> QED BY <1>1, <1>2, <1>3, ReleaseKeeps DEF Unpin

(* One unpin of unpinAll keeps the invariant.                              *)
LEMMA UnpinNextKeeps ==
  ASSUME IInv, NEW t \in Txs, NEW b \in Blocks, UnpinNext(t, b)
  PROVE  IInv'
<1>1. call[t] = NoCall /\ editing[t] = None /\ phase[t] # "running"
  BY DEF UnpinNext, IInv, RequestIsAlone, EditIsAlone
<1>2. buffers' \in [Txs -> [Blocks -> Frames \cup {None}]]
  BY DEF UnpinNext, IInv, TypeOK
<1> QED BY <1>1, <1>2, ReleaseKeeps DEF UnpinNext
-----------------------------------------------------------------------------
(* The step that takes a frame, which may write back one block and read    *)
(* another.                                                                *)

(* tryToPin takes the frame that holds the block, or one nobody has pinned *)
(* when no frame does.                                                     *)
LEMMA FrameForIsRight ==
  ASSUME TypeOK, NEW b \in Blocks, CanPin(b)
  PROVE  /\ FrameFor(b) \in Frames
         /\ \/ frame[FrameFor(b)].blk = b
            \/ Holding(b) = {} /\ frame[FrameFor(b)].pins = 0
<1>1. Holding(b) \subseteq Frames /\ Unpinned \subseteq Frames
  BY DEF Holding, Unpinned
<1>2. CASE Holding(b) # {}
  <2>1. FrameFor(b) \in Holding(b)
    BY <1>1, <1>2, FirstIsFirst DEF FrameFor
  <2> QED BY <2>1 DEF Holding
<1>3. CASE Holding(b) = {}
  <2>1. FrameFor(b) \in Unpinned
    BY <1>1, <1>3, FirstIsFirst DEF FrameFor, CanPin
  <2> QED BY <1>3, <2>1 DEF Unpinned
<1> QED BY <1>2, <1>3

(* What tryToPin leaves: the frame holds the block, once more pinned; if   *)
(* it held another, the old content is on disk if it was marked, and the   *)
(* page is what the disk has.  All other frames and blocks are untouched.  *)
LEMMA TryToPinDoes ==
  ASSUME TypeOK, \A f \in Frames : EmptyFrame(f), NEW f \in Frames, NEW b \in Blocks,
         frame[f].blk = b \/ frame[f].pins = 0, TryToPin(f, b)
  PROVE  /\ frame' \in [Frames -> FrameStates]
         /\ disk' \in [Blocks -> Vals]
         /\ frame'[f].blk = b
         /\ frame'[f].pins = frame[f].pins + 1
         /\ \A g \in Frames \ {f} : frame'[g] = frame[g]
         /\ \A c \in Blocks : c # frame[f].blk => disk'[c] = disk[c]
         /\ frame[f].blk = b => /\ frame'[f].page = frame[f].page
                                /\ frame'[f].txnum = frame[f].txnum
                                /\ UNCHANGED disk
         /\ frame[f].blk # b =>
              /\ frame'[f].page = disk'[b]
              /\ frame'[f].txnum = None
              /\ frame[f].blk # None =>
                   disk'[frame[f].blk] = IF frame[f].txnum = None THEN disk[frame[f].blk]
                                         ELSE frame[f].page
<1>1. frame[f] \in FrameStates
  BY DEF TypeOK
<1>2. CASE frame[f].blk = b
  <2>1. frame' = [frame EXCEPT ![f].pins = @ + 1] /\ UNCHANGED disk
    BY <1>2 DEF TryToPin
  <2>2. [frame[f] EXCEPT !.pins = @ + 1] \in FrameStates
    BY <1>1 DEF FrameStates
  <2>3. frame' \in [Frames -> FrameStates]
    BY <2>1, <2>2 DEF TypeOK
  <2> QED BY <1>1, <1>2, <2>1, <2>3 DEF TypeOK, FrameStates
<1>3. CASE frame[f].blk # b
  <2> DEFINE d == Flushed(disk, frame[f])
             new == [blk |-> b, pins |-> 1, txnum |-> None, page |-> d[b]]
  <2>1. disk' = d /\ frame' = [frame EXCEPT ![f] = new] /\ frame[f].pins = 0
    BY <1>3 DEF TryToPin, AssignToBlock
  <2>2. /\ d \in [Blocks -> Vals]
        /\ \A c \in Blocks : c # frame[f].blk => d[c] = disk[c]
        /\ frame[f].blk # None =>
             d[frame[f].blk] = IF frame[f].txnum = None THEN disk[frame[f].blk]
                               ELSE frame[f].page
    BY <1>1 DEF Flushed, TypeOK, FrameStates
  <2>3. new \in FrameStates
    BY <2>2 DEF FrameStates
  <2> HIDE DEF d
  <2>4. frame' \in [Frames -> FrameStates]
    BY <2>1, <2>3 DEF TypeOK
  <2>5. frame'[f] = new
    BY <2>1 DEF TypeOK
  <2>6. \A g \in Frames \ {f} : frame'[g] = frame[g]
    BY <2>1 DEF TypeOK
  <2> QED BY <1>3, <2>1, <2>2, <2>4, <2>5, <2>6
<1> QED BY <1>2, <1>3

(* A pin that finds a frame keeps the invariant, whatever it replaces.     *)
LEMMA GetFrameKeeps ==
  ASSUME IInv, NEW t \in Txs, GetFrame(t)
  PROVE  IInv'
<1> USE DEF IInv
<1>1. PICK b \in Blocks : b = call[t].blk /\ pinned[t][b] < MaxPins
  BY NoneIsNone DEF GetFrame, TypeOK, RequestIsAlone
<1>2. PICK f \in Frames : /\ f = FrameFor(b)
                          /\ TryToPin(f, b)
                          /\ buffers' = [buffers EXCEPT ![t][b] = f]
                          /\ frame[f].blk = b \/ (Holding(b) = {} /\ frame[f].pins = 0)
  BY <1>1, FrameForIsRight DEF GetFrame
<1>3. /\ frame' \in [Frames -> FrameStates]
      /\ disk' \in [Blocks -> Vals]
      /\ frame'[f].blk = b
      /\ frame'[f].pins = frame[f].pins + 1
      /\ \A g \in Frames \ {f} : frame'[g] = frame[g]
      /\ \A c \in Blocks : c # frame[f].blk => disk'[c] = disk[c]
      /\ frame[f].blk = b => /\ frame'[f].page = frame[f].page
                             /\ frame'[f].txnum = frame[f].txnum
                             /\ UNCHANGED disk
      /\ frame[f].blk # b => /\ frame'[f].page = disk'[b]
                             /\ frame'[f].txnum = None
  <2>1. frame[f].blk = b \/ frame[f].pins = 0
    BY <1>2
  <2> QED BY <1>2, <2>1, TryToPinDoes
<1>4. /\ pinned' = [pinned EXCEPT ![t][b] = @ + 1]
      /\ call' = [call EXCEPT ![t] = NoCall]
      /\ UNCHANGED <<phase, editing, writer, saved>>
      /\ phase[t] = "running" /\ editing[t] = None
  BY <1>1 DEF GetFrame, txVars, RequestIsAlone
<1>5. pinned[t][b] \in 0 .. MaxPins - 1 /\ \A u \in Txs, c \in Blocks :
         /\ pinned[u][c] \in 0 .. MaxPins
         /\ pinned'[u][c] = IF u = t /\ c = b THEN pinned[t][b] + 1 ELSE pinned[u][c]
         /\ buffers'[u][c] = IF u = t /\ c = b THEN f ELSE buffers[u][c]
  BY <1>1, <1>2, <1>4, MaxPinsAssumption DEF TypeOK
(* If t had the block already, then in this very frame.                    *)
<1>6. pinned[t][b] > 0 => buffers[t][b] = f /\ frame[f].blk = b
  <2>1. ASSUME pinned[t][b] > 0
        PROVE  buffers[t][b] \in Frames /\ frame[buffers[t][b]].blk = b
    BY <2>1 DEF ListsAgree, TypeOK
  <2>2. ASSUME pinned[t][b] > 0 PROVE buffers[t][b] \in Holding(b)
    BY <2>1, <2>2 DEF Holding
  <2> QED BY <1>2, <2>1, <2>2, NoneIsNone DEF OneFrame
<1>7. frame[f].blk # b =>
        \A u \in Txs, c \in Blocks : buffers[u][c] = f => pinned[u][c] = 0
  BY <1>2, PinnedIsListed
<1>8. OneFrame'
  <2>1. ASSUME NEW g \in Frames, g # f PROVE frame[g].blk # b
    BY <1>2, <2>1, NoneIsNone DEF OneFrame, Holding
  <2> QED BY <1>3, <2>1 DEF OneFrame
<1>9. PinsMatchLists'
  <2> DEFINE p == <<t, b, pinned[t][b] + 1>>
  <2>1. ASSUME NEW g \in Frames
        PROVE  PinRefs(g)' = IF g = f THEN PinRefs(g) \cup {p} ELSE PinRefs(g)
    <3>1. ASSUME NEW q \in Txs \X Blocks \X (1 .. MaxPins)
          PROVE  (buffers'[q[1]][q[2]] = g /\ q[3] <= pinned'[q[1]][q[2]]) <=>
                 \/ buffers[q[1]][q[2]] = g /\ q[3] <= pinned[q[1]][q[2]]
                 \/ g = f /\ q = p
      <4>1. q[1] \in Txs /\ q[2] \in Blocks /\ q[3] \in 1 .. MaxPins
            /\ q = <<q[1], q[2], q[3]>>
        OBVIOUS
      <4>2. CASE q[1] # t \/ q[2] # b
        <5>1. buffers'[q[1]][q[2]] = buffers[q[1]][q[2]]
          BY <1>5, <4>1, <4>2
        <5>2. pinned'[q[1]][q[2]] = pinned[q[1]][q[2]]
          BY <1>5, <4>1, <4>2
        <5> QED BY <5>1, <5>2, <4>2
      <4>3. CASE q[1] = t /\ q[2] = b
        <5>1. q = p <=> q[3] = pinned[t][b] + 1
          BY <4>1, <4>3
        <5>2. pinned'[t][b] = pinned[t][b] + 1 /\ buffers'[t][b] = f
          BY <1>5
        <5>3. q[3] <= pinned'[t][b] <=> q[3] <= pinned[t][b] \/ q = p
          BY <5>1, <5>2, <4>1, <1>5, MaxPinsAssumption
        <5>4. q[3] <= pinned[t][b] => buffers[t][b] = f
          BY <1>5, <1>6, <4>1, MaxPinsAssumption
        <5> HIDE DEF p
        <5> QED BY <5>2, <5>3, <5>4, <4>3
      <4> QED BY <4>2, <4>3
    <3>2. p \in Txs \X Blocks \X (1 .. MaxPins)
      BY <1>5, MaxPinsAssumption
    <3> HIDE DEF p
    <3> QED BY <3>1, <3>2 DEF PinRefs
  <2>2. p \notin PinRefs(f)
    BY <1>5, MaxPinsAssumption DEF PinRefs
  <2> HIDE DEF p
  <2>3. ASSUME NEW g \in Frames PROVE frame'[g].pins = Cardinality(PinRefs(g)')
    <3>1. frame[g].pins = Cardinality(PinRefs(g))
      BY DEF PinsMatchLists
    <3>2. CASE g = f
      <4>1. Cardinality(PinRefs(g) \cup {p}) = Cardinality(PinRefs(g)) + 1
        BY <2>2, <3>2, PinRefsFinite, FS_AddElement
      <4> QED BY <1>3, <2>1, <3>1, <3>2, <4>1
    <3>3. CASE g # f
      BY <1>3, <2>1, <3>1, <3>3
    <3> QED BY <3>2, <3>3
  <2>4. numAvailable' = Cardinality(Unpinned')
    <3>1. /\ numAvailable = Cardinality(Unpinned)
          /\ \A g \in Frames : frame[g].pins \in Nat
          /\ numAvailable' = IF frame[f].pins = 0 THEN numAvailable - 1 ELSE numAvailable
      BY <1>2 DEF PinsMatchLists, TypeOK, FrameStates, TryToPin
    <3>2. CASE frame[f].pins = 0
      <4>1. Unpinned' = Unpinned \ {f} /\ f \in Unpinned
        BY <1>3, <3>1, <3>2 DEF Unpinned
      <4> QED BY <3>1, <3>2, <4>1, UnpinnedFinite, FS_RemoveElement
    <3>3. CASE frame[f].pins # 0
      <4>1. Unpinned' = Unpinned
        BY <1>3, <3>1, <3>3 DEF Unpinned
      <4> QED BY <3>1, <3>3, <4>1
    <3> QED BY <3>2, <3>3
  <2> QED BY <2>3, <2>4 DEF PinsMatchLists
<1>10. TypeOK'
  <2>1. numAvailable' \in 0 .. NumFrames
    <3>1. numAvailable' = Cardinality(Unpinned)'
      BY <1>9 DEF PinsMatchLists
    <3>2. Unpinned' \in SUBSET Frames
      BY DEF Unpinned
    <3> QED BY <3>1, <3>2, SomeFrames
  <2>2. pinned' \in [Txs -> [Blocks -> 0 .. MaxPins]]
    BY <1>4, <1>5, MaxPinsAssumption DEF TypeOK
  <2>3. buffers' \in [Txs -> [Blocks -> Frames \cup {None}]]
    BY <1>2 DEF TypeOK
  <2> QED BY <1>3, <1>4, <2>1, <2>2, <2>3 DEF TypeOK
<1>11. SleepsOnlyWhenFull'
  <2> SUFFICES ASSUME NEW u \in Txs, call'[u] # NoCall, ~call'[u].awake
               PROVE  numAvailable' = 0 /\ \A g \in Frames : frame'[g].blk # call'[u].blk
    BY DEF SleepsOnlyWhenFull, Holding
  <2>1. u # t /\ call'[u] = call[u]
    BY <1>4 DEF TypeOK
  <2>2. numAvailable = 0 /\ Holding(call[u].blk) = {}
    BY <2>1 DEF SleepsOnlyWhenFull
  <2>3. Unpinned = {}
    BY <2>2, UnpinnedFinite DEF PinsMatchLists
  <2>4. frame[f].pins # 0 /\ frame[f].blk = b
    BY <1>2, <2>3 DEF Unpinned
  <2>5. \A g \in Frames : frame'[g].blk = frame[g].blk
    BY <1>3, <2>4
  <2> QED BY <1>2, <2>1, <2>2, <2>4, <2>5 DEF Holding, TryToPin
<1>12. ASSUME NEW u \in Txs PROVE (RequestIsAlone(u) /\ EditIsAlone(u))'
  <2>1. CASE u = t
    BY <1>4, <2>1 DEF RequestIsAlone, EditIsAlone, TypeOK
  <2>2. CASE u # t
    <3>1. call'[u] = call[u] /\ pinned'[u] = pinned[u] /\ buffers'[u] = buffers[u]
      BY <1>2, <1>4, <2>2 DEF TypeOK
    <3> QED BY <1>4, <3>1 DEF RequestIsAlone, EditIsAlone
  <2> QED BY <2>1, <2>2
<1>13. ASSUME NEW u \in Txs, NEW c \in Blocks PROVE ListsAgree(u, c)'
  <2>1. CASE u = t /\ c = b
    BY <1>3, <1>5, <2>1, NoneIsNone, MaxPinsAssumption DEF ListsAgree
  <2>2. CASE u # t \/ c # b
    <3>1. /\ pinned'[u][c] = pinned[u][c]
          /\ buffers'[u][c] = buffers[u][c]
          /\ phase' = phase
          /\ buffers[u][c] \in Frames \cup {None}
      BY <1>4, <1>5, <2>2 DEF TypeOK
    <3>2. CASE buffers[u][c] = f
      BY <1>3, <1>5, <1>7, <3>1, <3>2 DEF ListsAgree
    <3>3. CASE buffers[u][c] # f
      BY <1>3, <3>1, <3>3 DEF ListsAgree
    <3> QED BY <3>2, <3>3
  <2> QED BY <2>1, <2>2
<1>14. ASSUME NEW g \in Frames
       PROVE  (UnmarkedIsClean(g) /\ WrittenIsKnown(g) /\ EmptyFrame(g))'
  <2>1. frame[g].blk \in Blocks \cup {None}
    BY DEF TypeOK, FrameStates
  <2>2. CASE g = f
    <3>1. CASE frame[f].blk = b
      BY <1>3, <1>4, <2>2, <3>1 DEF UnmarkedIsClean, WrittenIsKnown, EmptyFrame
    <3>2. CASE frame[f].blk # b
      BY <1>3, <1>4, <2>2, <3>2 DEF UnmarkedIsClean, WrittenIsKnown, EmptyFrame
    <3> QED BY <3>1, <3>2
  <2>3. CASE g # f
    <3>1. frame'[g] = frame[g]
      BY <1>3, <2>3
    <3>2. frame[g].blk # None => disk'[frame[g].blk] = disk[frame[g].blk]
      BY <1>3, <2>1, <2>3 DEF OneFrame
    <3> QED BY <1>4, <3>1, <3>2 DEF UnmarkedIsClean, WrittenIsKnown, EmptyFrame
  <2> QED BY <2>2, <2>3
<1> QED BY <1>8, <1>9, <1>10, <1>11, <1>12, <1>13, <1>14
-----------------------------------------------------------------------------
(* The theorems.                                                           *)

(* The pool starts empty.                                                  *)
LEMMA InitHolds == Init => IInv
<1> SUFFICES ASSUME Init PROVE IInv
  OBVIOUS
<1> USE DEF Init
<1>1. TypeOK
  BY EmptyAssumption, NumFramesAssumption, MaxPinsAssumption DEF TypeOK, FrameStates
<1>2. PinsMatchLists
  <2>1. \A f \in Frames : PinRefs(f) = {}
    BY NoneIsNone DEF PinRefs
  <2>2. Unpinned = Frames
    BY DEF Unpinned
  <2>3. Cardinality(Frames) = NumFrames
    BY FS_Interval, NumFramesAssumption DEF Frames
  <2> QED BY <2>1, <2>2, <2>3, FS_EmptySet DEF PinsMatchLists
<1>3. SleepsOnlyWhenFull /\ OneFrame
  BY DEF SleepsOnlyWhenFull, OneFrame
<1>4. \A t \in Txs, b \in Blocks : ListsAgree(t, b)
  BY DEF ListsAgree
<1>5. \A t \in Txs : RequestIsAlone(t) /\ EditIsAlone(t)
  BY DEF RequestIsAlone, EditIsAlone
<1>6. \A f \in Frames : UnmarkedIsClean(f) /\ WrittenIsKnown(f) /\ EmptyFrame(f)
  BY DEF UnmarkedIsClean, WrittenIsKnown, EmptyFrame
<1> QED BY <1>1, <1>2, <1>3, <1>4, <1>5, <1>6 DEF IInv

(* Every step keeps the invariant.                                         *)
LEMMA StepKeeps == IInv /\ [Next]_vars => IInv'
<1> SUFFICES ASSUME IInv, [Next]_vars PROVE IInv'
  OBVIOUS
<1>1. ASSUME NEW t \in Txs, ThreadStep(t) PROVE IInv'
  BY <1>1, GetFrameKeeps, NoFrameKeeps, SetModifiedKeeps, UnpinAllDoneKeeps,
     UnpinNextKeeps DEF ThreadStep
<1>2. ASSUME NEW t \in Txs, Tick(t) \/ UnpinAll(t) \/ FlushAll(t) PROVE IInv'
  BY <1>2, TickKeeps, UnpinAllKeeps, FlushAllKeeps
<1>3. ASSUME NEW t \in Txs, NEW b \in Blocks, Pin(t, b) \/ Unpin(t, b) PROVE IInv'
  BY <1>3, PinKeeps, UnpinKeeps
<1>4. ASSUME NEW t \in Txs, NEW b \in Blocks, NEW v \in Vals, Write(t, b, v) PROVE IInv'
  BY <1>4, WriteKeeps
<1>5. CASE UNCHANGED vars
  <2> USE <1>5 DEF vars, txVars, IInv
  <2>1. TypeOK'
    BY DEF TypeOK
  <2>2. PinsMatchLists' /\ SleepsOnlyWhenFull' /\ OneFrame'
    BY SamePins DEF SleepsOnlyWhenFull, Holding, OneFrame
  <2>3. ASSUME NEW t \in Txs, NEW b \in Blocks PROVE ListsAgree(t, b)'
    BY DEF ListsAgree
  <2>4. ASSUME NEW t \in Txs PROVE (RequestIsAlone(t) /\ EditIsAlone(t))'
    BY DEF RequestIsAlone, EditIsAlone
  <2>5. ASSUME NEW f \in Frames
        PROVE  (UnmarkedIsClean(f) /\ WrittenIsKnown(f) /\ EmptyFrame(f))'
    BY DEF UnmarkedIsClean, WrittenIsKnown, EmptyFrame
  <2> QED BY <2>1, <2>2, <2>3, <2>4, <2>5
<1> QED BY <1>1, <1>2, <1>3, <1>4, <1>5 DEF Next

(* The inductive invariant holds in every execution.                       *)
THEOREM Invariant == Spec => []IInv
<1> QED BY InitHolds, StepKeeps, PTL DEF Spec

(* The variables keep their types: in particular no pin count falls below  *)
(* zero, and the number of available buffers stays within the pool.        *)
THEOREM TypeCorrect == Spec => []TypeOK
<1>1. IInv => TypeOK
  BY DEF IInv
<1> QED BY <1>1, Invariant, PTL

(* Every frame counts exactly the pins that the transactions' BufferLists  *)
(* hold, and available() the frames nobody has pinned.                     *)
THEOREM PinsAreCounted == Spec => []PinsMatchLists
<1>1. IInv => PinsMatchLists
  BY DEF IInv
<1> QED BY <1>1, Invariant, PTL

(* No replacement takes a frame away from a transaction that uses it, and  *)
(* no block is in two frames.                                              *)
THEOREM PinsHold == Spec => []PinnedBlockStays
<1>1. IInv => PinnedBlockStays
  BY DEF IInv, PinnedBlockStays, ListsAgree, OneFrame
<1> QED BY <1>1, Invariant, PTL

(* No wake-up is lost: who sleeps in pin finds every frame pinned.         *)
THEOREM NoLostWakeup == Spec => []SleepsOnlyWhenFull
<1>1. IInv => SleepsOnlyWhenFull
  BY DEF IInv
<1> QED BY <1>1, Invariant, PTL

(* flushAll forces all that the transaction wrote, and no later eviction   *)
(* or flush takes it back.                                                 *)
THEOREM ForceAtCommit == Spec => []SavedIsOnDisk
<1>1. IInv => SavedIsOnDisk
  <2> SUFFICES ASSUME IInv, NEW t \in saved, NEW b \in Blocks, writer[b] = t
               PROVE  disk[b] = Content(b)
    BY DEF SavedIsOnDisk
  <2>1. CASE Holding(b) = {}
    BY <2>1 DEF Content
  <2>2. CASE Holding(b) # {}
    <3>1. First(Holding(b)) \in Holding(b)
      BY <2>2, FirstIsFirst DEF Holding
    <3>2. WrittenIsKnown(First(Holding(b))) /\ t \in Txs
      BY <3>1 DEF IInv, Holding, TypeOK
    <3> QED BY <2>2, <3>1, <3>2, NoneIsNone DEF Holding, WrittenIsKnown, Content
  <2> QED BY <2>1, <2>2
<1> QED BY <1>1, Invariant, PTL
-----------------------------------------------------------------------------
(* The pool implements PagedMemory.                                        *)

(* The content of a block, in terms of the frames.                         *)
ContentByFrames ==
    \A b \in Blocks :
        /\ \A f \in Frames : frame[f].blk = b => Content(b) = frame[f].page
        /\ (\A f \in Frames : frame[f].blk # b) => Content(b) = disk[b]

(* What the memory holds for a block is what its frame holds.              *)
LEMMA ContentIs == IInv => ContentByFrames
<1> SUFFICES ASSUME OneFrame, NEW b \in Blocks
             PROVE  /\ \A f \in Frames : frame[f].blk = b => Content(b) = frame[f].page
                    /\ (\A f \in Frames : frame[f].blk # b) => Content(b) = disk[b]
  BY DEF ContentByFrames, IInv
<1>1. ASSUME NEW f \in Frames, frame[f].blk = b PROVE Content(b) = frame[f].page
  <2>1. Holding(b) = {f}
    BY <1>1, NoneIsNone DEF OneFrame, Holding
  <2>2. First({f}) = f
    BY FirstIsFirst
  <2> QED BY <2>1, <2>2 DEF Content
<1>2. ASSUME \A f \in Frames : frame[f].blk # b PROVE Content(b) = disk[b]
  BY <1>2 DEF Content, Holding
<1> QED BY <1>1, <1>2

(* A block keeps its content if its frame and the disk do.                 *)
LEMMA ContentStays ==
  ASSUME ContentByFrames, ContentByFrames', NEW b \in Blocks,
         \A f \in Frames : /\ frame'[f].blk = frame[f].blk
                           /\ frame[f].blk = b => frame'[f].page = frame[f].page,
         (\A f \in Frames : frame[f].blk # b) => disk'[b] = disk[b]
  PROVE  Content(b)' = Content(b)
  BY DEF ContentByFrames

(* What PagedMemory calls mem and view, and that a transaction sees the    *)
(* content of the block through its pin.                                   *)
Mem == [b \in Blocks |-> Content(b)]
View == [t \in Txs |-> [b \in Blocks |->
           IF pinned[t][b] = 0 THEN [pinned |-> FALSE]
           ELSE [pinned |-> TRUE, val |-> frame[buffers[t][b]].page]]]
SeenThrough(t, b) == IF pinned[t][b] = 0 THEN [pinned |-> FALSE]
                     ELSE [pinned |-> TRUE, val |-> Content(b)]

ViewIsContent == View = [t \in Txs |-> [b \in Blocks |-> SeenThrough(t, b)]]

(* What a transaction sees through a pin is the content of the block.      *)
LEMMA ViewIs == IInv => ViewIsContent
<1> SUFFICES ASSUME IInv, NEW t \in Txs, NEW b \in Blocks, pinned[t][b] # 0
             PROVE  frame[buffers[t][b]].page = Content(b)
  BY DEF ViewIsContent, View, SeenThrough
<1>1. pinned[t][b] > 0
  BY MaxPinsAssumption DEF IInv, TypeOK
<1>2. buffers[t][b] \in Frames /\ frame[buffers[t][b]].blk = b
  BY <1>1 DEF IInv, ListsAgree, TypeOK
<1> QED BY <1>2, ContentIs DEF ContentByFrames

(* Both facts hold before and after every step.                            *)
SeenOK == IInv /\ ContentByFrames /\ ViewIsContent

(* Both hold before and after a step.                                      *)
LEMMA BothHold == IInv /\ [Next]_vars => SeenOK /\ SeenOK'
<1> QED BY StepKeeps, ContentIs, ViewIs, PTL DEF SeenOK

(* A pin that finds a frame is a pin of the memory.                        *)
LEMMA GetFrameSimulates ==
  ASSUME SeenOK, SeenOK', NEW t \in Txs, GetFrame(t)
  PROVE  Memory!Next
<1> USE DEF SeenOK
<1>1. PICK b \in Blocks : b = call[t].blk
  BY NoneIsNone DEF GetFrame, IInv, TypeOK
<1>2. PICK f \in Frames : /\ TryToPin(f, b)
                          /\ frame[f].blk = b \/ (Holding(b) = {} /\ frame[f].pins = 0)
  BY <1>1, FrameForIsRight DEF GetFrame, IInv
<1>3. /\ frame[f].blk = b \/ frame[f].pins = 0
      /\ TypeOK
      /\ \A g \in Frames : EmptyFrame(g)
  BY <1>2 DEF IInv
<1>4. /\ frame'[f].blk = b
      /\ \A g \in Frames \ {f} : frame'[g] = frame[g]
      /\ \A c \in Blocks : c # frame[f].blk => disk'[c] = disk[c]
      /\ frame[f].blk = b => frame'[f].page = frame[f].page
      /\ frame[f].blk # b =>
           /\ frame'[f].page = disk'[b]
           /\ frame[f].blk # None =>
                disk'[frame[f].blk] = IF frame[f].txnum = None THEN disk[frame[f].blk]
                                      ELSE frame[f].page
  BY <1>2, <1>3, TryToPinDoes
<1>5. ASSUME NEW c \in Blocks PROVE Content(c)' = Content(c)
  <2>1. CASE frame[f].blk = b
    BY <1>4, <2>1, <1>5, ContentStays
  <2>2. CASE frame[f].blk # b
    <3>1. Holding(b) = {} /\ frame[f].pins = 0
      BY <1>2, <2>2
    <3>2. CASE c = b
      <4>1. Content(b) = disk[b]
        BY <3>1 DEF Content
      <4>2. Content(b)' = frame'[f].page
        BY <1>4 DEF ContentByFrames
      <4> QED BY <1>4, <2>2, <3>2, <4>1, <4>2
    <3>3. CASE c # b /\ c = frame[f].blk
(* The evicted block: nobody is writing it, so that it was marked or clean. *)
      <4>1. \A u \in Txs : editing[u] # c
        <5> SUFFICES ASSUME NEW u \in Txs, editing[u] = c PROVE FALSE
          OBVIOUS
        <5>1. /\ editing[u] # None /\ phase[u] = "running" /\ buffers[u][c] # None
              /\ ListsAgree(u, c) /\ OneFrame
          BY NoneIsNone DEF IInv, EditIsAlone
        <5>2. buffers[u][c] = f /\ pinned[u][c] > 0
          BY <3>3, <1>3, <5>1, ListedFrame DEF ListsAgree
        <5> QED BY <3>1, <5>2, PinnedIsListed DEF IInv
      <4>2. disk'[c] = frame[f].page
        BY <1>4, <2>2, <3>3, <4>1, NoneIsNone DEF IInv, UnmarkedIsClean
      <4>3. Content(c) = frame[f].page
        BY <3>3 DEF ContentByFrames
      <4>4. \A g \in Frames : frame'[g].blk # c
        BY <1>4, <3>3, NoneIsNone DEF IInv, OneFrame
      <4>5. Content(c)' = disk'[c]
        BY <4>4 DEF ContentByFrames
      <4> QED BY <4>2, <4>3, <4>5
    <3>4. CASE c # b /\ c # frame[f].blk
      <4>1. disk'[c] = disk[c]
        BY <1>4, <3>4
      <4>2. CASE \E g \in Frames : frame[g].blk = c
        <5>1. PICK g \in Frames : frame[g].blk = c
          BY <4>2
        <5>2. frame'[g] = frame[g]
          BY <1>4, <3>4, <5>1
        <5> QED BY <5>1, <5>2 DEF ContentByFrames
      <4>3. CASE \A g \in Frames : frame[g].blk # c
        <5>1. \A g \in Frames : frame'[g].blk # c
          BY <1>4, <3>4, <4>3
        <5> QED BY <4>1, <4>3, <5>1 DEF ContentByFrames
      <4> QED BY <4>2, <4>3
    <3> QED BY <3>2, <3>3, <3>4
  <2> QED BY <2>1, <2>2
<1>6. Mem' = Mem
  BY <1>5 DEF Mem
<1>7. pinned' = [pinned EXCEPT ![t][b] = @ + 1]
  BY <1>1 DEF GetFrame
<1>8. View' = [View EXCEPT ![t][b] = [pinned |-> TRUE, val |-> Mem[b]]]
  <2>1. \A u \in Txs, c \in Blocks : SeenThrough(u, c)' =
           IF u = t /\ c = b THEN [pinned |-> TRUE, val |-> Content(b)]
           ELSE SeenThrough(u, c)
    <3>1. pinned'[t][b] # 0 /\ \A u \in Txs, c \in Blocks :
             (u # t \/ c # b) => pinned'[u][c] = pinned[u][c]
      BY <1>7, MaxPinsAssumption DEF IInv, TypeOK
    <3> QED BY <1>5, <3>1 DEF SeenThrough
  <2>2. /\ View = [u \in Txs |-> [c \in Blocks |-> SeenThrough(u, c)]]
        /\ View' = [u \in Txs |-> [c \in Blocks |-> SeenThrough(u, c)']]
    BY DEF ViewIsContent
  <2> QED BY <2>1, <2>2 DEF Mem
<1>9. Memory!Pin(t, b)
  BY <1>6, <1>8 DEF Memory!Pin, Memory!Sees, Mem, View
<1> QED BY <1>9 DEF Memory!Next

(* Giving back a pin is an Unpin if it was the last one of the             *)
(* transaction, and nothing otherwise.                                     *)
LEMMA ReleaseSimulates ==
  ASSUME SeenOK, SeenOK', NEW t \in Txs, NEW b \in Blocks, pinned[t][b] > 0,
         ReleaseFrame(buffers[t][b]), UNCHANGED disk,
         pinned' = [pinned EXCEPT ![t][b] = @ - 1]
  PROVE  Memory!Next \/ UNCHANGED <<Mem, View>>
<1> USE DEF SeenOK
<1>1. \A f \in Frames : frame'[f].blk = frame[f].blk /\ frame'[f].page = frame[f].page
  BY DEF ReleaseFrame, IInv, TypeOK, FrameStates
<1>2. \A c \in Blocks : Content(c)' = Content(c)
  BY <1>1, ContentStays
<1>3. Mem' = Mem
  BY <1>2 DEF Mem
<1>4. \A u \in Txs, c \in Blocks :
         pinned'[u][c] = IF u = t /\ c = b THEN pinned[t][b] - 1 ELSE pinned[u][c]
  BY DEF IInv, TypeOK
<1>5. /\ View = [u \in Txs |-> [c \in Blocks |-> SeenThrough(u, c)]]
      /\ View' = [u \in Txs |-> [c \in Blocks |-> SeenThrough(u, c)']]
  BY DEF ViewIsContent
<1>6. CASE pinned[t][b] = 1
  <2>1. ASSUME NEW u \in Txs, NEW c \in Blocks
        PROVE  SeenThrough(u, c)' = IF u = t /\ c = b THEN [pinned |-> FALSE]
                                    ELSE SeenThrough(u, c)
    <3>1. Content(c)' = Content(c)
      BY <1>2
    <3>2. CASE u = t /\ c = b
      <4>1. pinned'[u][c] = 0
        BY <1>4, <1>6, <3>2
      <4> QED BY <3>2, <4>1 DEF SeenThrough
    <3>3. CASE ~(u = t /\ c = b)
      <4>1. pinned'[u][c] = pinned[u][c]
        BY <1>4, <3>3
      <4> QED BY <3>1, <3>3, <4>1 DEF SeenThrough
    <3> QED BY <3>2, <3>3
  <2>2. View' = [View EXCEPT ![t][b] = [pinned |-> FALSE]]
    BY <1>5, <2>1
  <2>3. Memory!Unpin(t, b)
    BY <1>3, <2>2 DEF Memory!Unpin, Memory!NotPinned, Mem, View
  <2> QED BY <2>3 DEF Memory!Next
<1>7. CASE pinned[t][b] # 1
  <2>1. pinned[t][b] \in Nat
    BY MaxPinsAssumption DEF IInv, TypeOK
  <2>2. ASSUME NEW u \in Txs, NEW c \in Blocks
        PROVE  SeenThrough(u, c)' = SeenThrough(u, c)
    <3>1. Content(c)' = Content(c)
      BY <1>2
    <3>2. pinned'[u][c] = 0 <=> pinned[u][c] = 0
      BY <1>4, <1>7, <2>1
    <3> QED BY <3>1, <3>2 DEF SeenThrough
  <2>3. View' = View
    BY <1>5, <2>2
  <2> QED BY <1>3, <2>3
<1> QED BY <1>6, <1>7

(* A write to a page is a write to the memory.                             *)
LEMMA WriteSimulates ==
  ASSUME SeenOK, SeenOK', NEW t \in Txs, NEW b \in Blocks, NEW v \in Vals, Write(t, b, v)
  PROVE  Memory!Next
<1> USE DEF SeenOK
<1>1. /\ buffers[t][b] \in Frames
      /\ frame[buffers[t][b]].blk = b
      /\ \A f \in Frames : frame[f].blk = b => f = buffers[t][b]
  BY ListedFrame DEF Write, Idle, IInv
<1>2. \A f \in Frames : /\ frame'[f].blk = frame[f].blk
                        /\ frame'[f].page = IF f = buffers[t][b] THEN v ELSE frame[f].page
  BY <1>1 DEF Write, IInv, TypeOK, FrameStates
<1>3. UNCHANGED <<disk, pinned>>
  BY DEF Write
<1>4. \A c \in Blocks : Content(c)' = IF c = b THEN v ELSE Content(c)
  <2>1. Content(b)' = v
    BY <1>1, <1>2 DEF ContentByFrames
  <2>2. ASSUME NEW c \in Blocks, c # b PROVE Content(c)' = Content(c)
    BY <1>1, <1>2, <1>3, <2>2, ContentStays
  <2> QED BY <2>1, <2>2
<1>5. Mem' = [Mem EXCEPT ![b] = v]
  BY <1>4 DEF Mem
<1>6. /\ View = [u \in Txs |-> [c \in Blocks |-> SeenThrough(u, c)]]
      /\ View' = [u \in Txs |-> [c \in Blocks |-> SeenThrough(u, c)']]
  BY DEF ViewIsContent
<1>7. ASSUME NEW u \in Txs, NEW c \in Blocks
      PROVE  /\ (SeenThrough(u, c) = [pinned |-> FALSE]) <=> pinned[u][c] = 0
             /\ SeenThrough(u, c)' =
                  IF c = b /\ SeenThrough(u, c) # [pinned |-> FALSE]
                    THEN [pinned |-> TRUE, val |-> v] ELSE SeenThrough(u, c)
  <2>1. \A w : [pinned |-> TRUE, val |-> w] # [pinned |-> FALSE]
    <3> SUFFICES ASSUME NEW w, [pinned |-> TRUE, val |-> w] = [pinned |-> FALSE] PROVE FALSE
      OBVIOUS
    <3>1. [pinned |-> TRUE, val |-> w].pinned = [pinned |-> FALSE].pinned
      OBVIOUS
    <3> QED BY <3>1
  <2> QED BY <1>3, <1>4, <2>1 DEF SeenThrough
<1>8. View[t][b] # [pinned |-> FALSE]
  <2>1. pinned[t][b] > 0
    BY DEF Write, Idle, IInv, ListsAgree
  <2> QED BY <1>6, <1>7, <2>1
<1>9. View' = [u \in Txs |-> [View[u] EXCEPT ![b] =
                 IF @ = [pinned |-> FALSE] THEN [pinned |-> FALSE]
                 ELSE [pinned |-> TRUE, val |-> v]]]
  <2> DEFINE S(u, c) == SeenThrough(u, c)
             N(u, c) == SeenThrough(u, c)'
             Off == [pinned |-> FALSE]
             Now == [pinned |-> TRUE, val |-> v]
  <2>1. /\ View = [u \in Txs |-> [c \in Blocks |-> S(u, c)]]
        /\ View' = [u \in Txs |-> [c \in Blocks |-> N(u, c)]]
        /\ \A u \in Txs, c \in Blocks :
             N(u, c) = IF c = b /\ S(u, c) # Off THEN Now ELSE S(u, c)
    BY <1>6, <1>7
  <2> HIDE DEF S, N, Off, Now
  <2>2. View' = [u \in Txs |-> [View[u] EXCEPT ![b] = IF @ = Off THEN Off ELSE Now]]
    <3>1. ASSUME NEW u \in Txs
          PROVE  [c \in Blocks |-> N(u, c)]
                   = [View[u] EXCEPT ![b] = IF @ = Off THEN Off ELSE Now]
      <4>1. View[u] = [c \in Blocks |-> S(u, c)]
        BY <2>1
      <4> QED BY <2>1, <4>1
    <3> QED BY <2>1, <3>1
  <2> QED BY <2>2 DEF Off, Now
<1>10. Memory!Write(t, b, v)
  BY <1>5, <1>8, <1>9 DEF Memory!Write, Memory!NotPinned, Memory!Sees, Mem, View
<1> QED BY <1>10 DEF Memory!Next

(* The other steps show the transactions nothing.                          *)
LEMMA QuietSteps ==
  ASSUME SeenOK, SeenOK', UNCHANGED pinned,
         \A f \in Frames : frame'[f].blk = frame[f].blk /\ frame'[f].page = frame[f].page,
         \A b \in Blocks : (\A f \in Frames : frame[f].blk # b) => disk'[b] = disk[b]
  PROVE  UNCHANGED <<Mem, View>>
<1> USE DEF SeenOK
<1>1. \A b \in Blocks : Content(b)' = Content(b)
  BY ContentStays
<1>2. \A t \in Txs, b \in Blocks : SeenThrough(t, b)' = SeenThrough(t, b)
  BY <1>1 DEF SeenThrough
<1>3. /\ View = [t \in Txs |-> [b \in Blocks |-> SeenThrough(t, b)]]
      /\ View' = [t \in Txs |-> [b \in Blocks |-> SeenThrough(t, b)']]
  BY DEF ViewIsContent
<1> QED BY <1>1, <1>2, <1>3 DEF Mem

(* Every step is a step of the memory, or changes nothing of it.           *)
LEMMA StepSimulates ==
  ASSUME SeenOK, SeenOK', [Next]_vars
  PROVE  Memory!Next \/ UNCHANGED <<Mem, View>>
<1> USE DEF SeenOK
<1>1. ASSUME NEW t \in Txs, GetFrame(t) PROVE Memory!Next
  BY <1>1, GetFrameSimulates
<1>2. ASSUME NEW t \in Txs, NEW b \in Blocks, Unpin(t, b)
      PROVE  Memory!Next \/ UNCHANGED <<Mem, View>>
  <2>1. pinned[t][b] > 0
    BY <1>2 DEF Unpin, Idle, IInv, ListsAgree
  <2> QED BY <1>2, <2>1, ReleaseSimulates DEF Unpin
<1>3. ASSUME NEW t \in Txs, NEW b \in Blocks, UnpinNext(t, b)
      PROVE  Memory!Next \/ UNCHANGED <<Mem, View>>
  BY <1>3, ReleaseSimulates DEF UnpinNext
<1>4. ASSUME NEW t \in Txs, NEW b \in Blocks, NEW v \in Vals, Write(t, b, v)
      PROVE  Memory!Next
  BY <1>4, WriteSimulates
<1>5. ASSUME NEW t \in Txs, SetModified(t) PROVE UNCHANGED <<Mem, View>>
  <2>1. \A f \in Frames : frame'[f].blk = frame[f].blk /\ frame'[f].page = frame[f].page
    BY <1>5 DEF SetModified, IInv, TypeOK, FrameStates
  <2> QED BY <1>5, <2>1, QuietSteps DEF SetModified
<1>6. ASSUME NEW t \in Txs, FlushAll(t) PROVE UNCHANGED <<Mem, View>>
  <2>1. \A f \in Frames : frame'[f].blk = frame[f].blk /\ frame'[f].page = frame[f].page
    BY <1>6, FlushAllWrites DEF IInv
  <2>2. \A b \in Blocks : (\A f \in Frames : frame[f].blk # b) => disk'[b] = disk[b]
    BY <1>6 DEF FlushAll, Holding
  <2> QED BY <1>6, <2>1, <2>2, QuietSteps DEF FlushAll
<1>7. ASSUME UNCHANGED <<frame, disk, pinned>> PROVE UNCHANGED <<Mem, View>>
  BY <1>7, QuietSteps
<1>8. ASSUME NEW t \in Txs, NoFrame(t) \/ UnpinAllDone(t) \/ Tick(t) \/ UnpinAll(t)
                            \/ \E b \in Blocks : Pin(t, b)
      PROVE  UNCHANGED <<frame, disk, pinned>>
  BY <1>8 DEF NoFrame, UnpinAllDone, Tick, UnpinAll, Pin
<1>9. CASE UNCHANGED vars
  BY <1>7, <1>9 DEF vars
<1> QED BY <1>1, <1>2, <1>3, <1>4, <1>5, <1>6, <1>7, <1>8, <1>9 DEF Next, ThreadStep

(* The pool implements a memory in which every block is always present:    *)
(* whatever is evicted, flushed and read again, a transaction sees the     *)
(* last value written to a block through each of its pins.                 *)
THEOREM MemoryImplemented == Spec => ImplementsMemory
<1>1. Init => Memory!Init
  <2> SUFFICES ASSUME Init PROVE Memory!Init
    OBVIOUS
  <2>1. Mem = [b \in Blocks |-> Empty]
    <3>1. \A b \in Blocks : Holding(b) = {}
      BY NoneIsNone DEF Init, Holding
    <3> QED BY <3>1 DEF Mem, Content, Init
  <2>2. View = [t \in Txs |-> [b \in Blocks |-> [pinned |-> FALSE]]]
    BY DEF View, Init
  <2> QED BY <2>1, <2>2 DEF Memory!Init, Memory!NotPinned, Mem, View
<1>2. IInv /\ [Next]_vars => Memory!Next \/ UNCHANGED <<Mem, View>>
  BY BothHold, StepSimulates
<1>3. UNCHANGED <<Mem, View>> =>
        UNCHANGED <<[b \in Blocks |-> Content(b)],
                    [t \in Txs |-> [b \in Blocks |->
                      IF pinned[t][b] = 0 THEN [pinned |-> FALSE]
                      ELSE [pinned |-> TRUE, val |-> frame[buffers[t][b]].page]]]>>
  BY DEF Mem, View
<1> QED BY <1>1, <1>2, <1>3, Invariant, PTL DEF Spec, ImplementsMemory, Memory!Spec
=============================================================================
