--------------------------- MODULE RecordsProofs ---------------------------
(***************************************************************************)
(* Theorems about Records for every set of transactions, finite set of     *)
(* scans, contents and number of slots of a block, and any old files,      *)
(* operations that change the file and blocks they append.                 *)
(***************************************************************************)
EXTENDS Records, FiniteSetTheorems, NatLemmas, TLAPS

(***************************************************************************)
(* The inductive invariant.                                                *)
(***************************************************************************)
Moves == {"idle", "closed", "next", "nextEnd", "insert", "insertEnd", "flag", "unflag", "write"}
ScanType == [tx : Txs \cup {0}, pc : Steps \cup {"none", "idle", "closed"}, blk : Nat,
             slot : 0..SlotsPerBlock, val : Vals \cup {0}, ended : BOOLEAN]
FileType == Seq([Slots -> Slot])
UndoType == [blk : Nat, slot : Slots, old : Slot]

TypesOK ==
  /\ file \in FileType /\ Len(file) <= MaxBlocks
  /\ lock \in [Txs -> [Blocks -> {"none", "S", "X"}]]
  /\ scan \in [Scans -> ScanType]
  /\ pins \in [Txs -> [Blocks -> Nat]]
  /\ undo \in [Txs -> Seq(UndoType)]
  /\ committed \subseteq Blocks \X Slots \X (Vals \cup {0})
  /\ seen \in [Scans -> Seq(Nat \X Nat)]
  /\ twice \subseteq Blocks /\ lost \subseteq Blocks /\ ops \in 0..MaxOps

\* What a scan's state says of its page and slot.
StateOK(s) ==
  /\ scan[s].pc = "none" <=> scan[s].tx = 0
  /\ scan[s].pc \in {"none", "size"} => scan[s].blk = 0
  /\ scan[s].pc \in Moves => scan[s].blk # 0
  /\ scan[s].pc \in {"flag", "unflag", "write"} => scan[s].slot # 0
  /\ scan[s].blk <= Len(file)
\* A transaction is inside one operation at most.
OneThread == \A s, u \in Scans : InOp(s) /\ InOp(u) /\ Mine(s) = Mine(u) => s = u

\* No pin without a scan.
ScansAt(t, b) == {s \in ScansOf(t) : scan[s].blk = b}
PinsOK == \A t \in Txs : /\ pins[t][EOF] = 0
                         /\ \A b \in Blocks \ {EOF} : pins[t][b] <= Cardinality(ScansAt(t, b))

\* Exclusive locks exclude, locked blocks are there, and a scan that is about to
\* append has looked at the end of the file.
LocksOK ==
  /\ \A t \in Txs : \A u \in Others(t), b \in Blocks : lock[t][b] = "X" => lock[u][b] = "none"
  /\ \A t \in Txs, b \in Blocks : lock[t][b] # "none" => b <= Len(file)
  /\ \A s \in Scans : scan[s].pc = "append" =>
       lock[Mine(s)][EOF] # "none" /\ (scan[s].blk = 0 => file = << >>)

\* What a transaction has logged, it has locked.
UndoOK == \A t \in Txs : \A k \in DOMAIN undo[t] :
            undo[t][k].blk \in 1..Len(file) /\ lock[t][undo[t][k].blk] = "X"

\* A scan about to insert into a new block of its own finds a slot there.
Fresh(s) == /\ scan[s].pc = "insert" /\ scan[s].slot = 0
            /\ lock[Mine(s)][scan[s].blk] = "X"
            /\ \A i \in Slots : ~file[scan[s].blk][i].used
\* The insertions that may still append a block.
Growers == {s \in Scans : scan[s].pc \in {"insert", "insertEnd", "append"} /\ scan[s].blk # 0 /\ ~Fresh(s)}
GrowthOK == Len(file) + Cardinality(Growers) <= MaxOld + 1 + ops

\* What next() has returned: the records up to the scan's slot, in blocks that are
\* locked since.
Reached(s, x) == \/ x[1] < scan[s].blk
                 \/ x[1] = scan[s].blk /\ (scan[s].pc = "nextEnd" \/ x[2] <= scan[s].slot)
Passed(s, b) == \/ b < scan[s].blk
                \/ b = scan[s].blk /\ (scan[s].pc = "nextEnd" \/ scan[s].slot # 0)
Holds(s, b) == lock[Mine(s)][b] # "none"
Rises(q) == \A i, j \in DOMAIN q : i < j => Before(q[i], q[j])
Returned(s) == {seen[s][i] : i \in DOMAIN seen[s]}
SeenOK(s) ==
  seen[s] # Dirty =>
    /\ Rises(seen[s])
    /\ scan[s].pc \in {"none", "size"} \/ (scan[s].pc = "append" /\ scan[s].blk = 0) => seen[s] = << >> /\ ~scan[s].ended
    /\ scan[s].pc \in {"next", "nextEnd"} => ~scan[s].ended
    /\ scan[s].ended => /\ Returned(s) = Used
                        /\ \A b \in 0..Len(file) : Holds(s, b)
    /\ scan[s].pc \in {"idle", "next", "nextEnd"} /\ ~scan[s].ended =>
         /\ Returned(s) = {x \in Used : Reached(s, x)}
         /\ \A b \in 1..Len(file) : Passed(s, b) => Holds(s, b)

\* The file as it will be if all running transactions are taken back.
TakenBack(w) ==
  /\ w \in FileType /\ Len(w) = Len(file) /\ committed = RecordsIn(w)
  /\ \A b \in 1..Len(file), i \in Slots :
       /\ (\A t \in Txs : <<b, i>> \notin Changed(t)) => w[b][i] = file[b][i]
       /\ \A t \in Txs : <<b, i>> \in Changed(t) => w[b][i] = Undone(file, undo[t])[b][i]
CommittedOK == \E w : TakenBack(w)

IInv ==
  /\ TypesOK /\ (\A s \in Scans : StateOK(s)) /\ OneThread /\ PinsOK /\ PinsBalanced
  /\ lost = {} => LocksOK /\ UndoOK /\ GrowthOK /\ CommittedOK /\ \A s \in Scans : SeenOK(s)

(***************************************************************************)
(* Files, and the undo of changes.                                         *)
(***************************************************************************)
Put(f, b, i, c) == [f EXCEPT ![b][i] = c]

(* What a write does to a file.                                            *)
LEMMA PutFacts ==
  ASSUME NEW f \in FileType, NEW b \in 1..Len(f), NEW i \in Slots, NEW c \in Slot
  PROVE  /\ Put(f, b, i, c) \in FileType /\ Len(Put(f, b, i, c)) = Len(f)
         /\ \A d \in 1..Len(f), j \in Slots :
              Put(f, b, i, c)[d][j] = IF d = b /\ j = i THEN c ELSE f[d][j]
<1>1. f \in Seq([Slots -> Slot]) /\ f \in [1..Len(f) -> [Slots -> Slot]] /\ Len(f) \in Nat
  BY DEF FileType
<1>2. PICK r \in [Slots -> Slot] : r = f[b]
  BY <1>1
<1>3. PICK q : q = [r EXCEPT ![i] = c]
  OBVIOUS
<1>4. q \in [Slots -> Slot] /\ \A j \in Slots : q[j] = IF j = i THEN c ELSE r[j]
  BY <1>3
<1>5. Put(f, b, i, c) = [f EXCEPT ![b] = q]
  BY <1>2, <1>3 DEF Put
<1>6. PICK g : g = [f EXCEPT ![b] = q]
  OBVIOUS
<1>7. g \in [1..Len(f) -> [Slots -> Slot]] /\ g[b] = q /\ \A d \in 1..Len(f) \ {b} : g[d] = f[d]
  BY <1>1, <1>4, <1>6
<1>8. g \in FileType /\ Len(g) = Len(f)
  BY <1>1, <1>7 DEF FileType
<1> QED BY <1>2, <1>4, <1>5, <1>6, <1>7, <1>8

Hits(u, k, b, i) == u[k].blk = b /\ u[k].slot = i
Fits(u, f) == u \in Seq(UndoType) /\ \A k \in DOMAIN u : u[k].blk \in 1..Len(f)
\* The file when the records behind k have been undone.
Back(g, u, f) ==
  /\ g \in [0..Len(u) -> FileType]
  /\ g[0] = f
  /\ \A m \in 1..Len(u) : g[m] = Put(g[m - 1], u[Len(u) + 1 - m].blk, u[Len(u) + 1 - m].slot, u[Len(u) + 1 - m].old)
  /\ \A m \in 0..Len(u) : Len(g[m]) = Len(f)
  /\ Undone(f, u) = g[Len(u)]

(* A rollback goes back through the log, record by record.                 *)
LEMMA UndoneWalk ==
  ASSUME NEW f \in FileType, NEW u, Fits(u, f)
  PROVE  \E g : Back(g, u, f)
<1> DEFINE L == Len(u)
           R(k) == u[L + 1 - k]
           Eq(h) == h = [k \in 0..L |-> IF k = 0 THEN f ELSE LET r == u[L + 1 - k] IN [h[k - 1] EXCEPT ![r.blk][r.slot] = r.old]]
           back == CHOOSE h : Eq(h)
<1>1. u \in Seq(UndoType) /\ L \in Nat
  BY DEF Fits
<1>2. ASSUME NEW k \in 1..L PROVE R(k) \in UndoType /\ R(k).blk \in 1..Len(f) /\ R(k).slot \in Slots /\ R(k).old \in Slot
  <2>1. L + 1 - k \in 1..L
    BY <1>1
  <2>2. R(k) \in UndoType /\ R(k).blk \in 1..Len(f)
    BY <1>1, <2>1 DEF Fits
  <2> QED BY <2>2 DEF UndoType
<1>3. Undone(f, u) = back[L]
  BY DEF Undone
<1> DEFINE X == {g \in FileType : Len(g) = Len(f)}
<1>4. ASSUME NEW g \in X, NEW k \in 1..L PROVE Put(g, R(k).blk, R(k).slot, R(k).old) \in X
  <2>1. g \in FileType /\ R(k).blk \in 1..Len(g) /\ R(k).slot \in Slots /\ R(k).old \in Slot /\ Len(g) = Len(f)
    BY <1>2
  <2> HIDE DEF R
  <2>2. Put(g, R(k).blk, R(k).slot, R(k).old) \in FileType /\ Len(Put(g, R(k).blk, R(k).slot, R(k).old)) = Len(g)
    BY ONLY <2>1, PutFacts
  <2> QED BY <2>1, <2>2
<1>5. PICK g \in [0..L -> X] :
        /\ g[0] = f
        /\ \A k \in 1..L : g[k] = Put(g[k - 1], R(k).blk, R(k).slot, R(k).old)
  <2> DEFINE step == [p \in Nat \X X |-> IF p[1] \in 1..L THEN Put(p[2], R(p[1]).blk, R(p[1]).slot, R(p[1]).old) ELSE p[2]]
  <2> HIDE DEF R, X
  <2>1. step \in StepRules(X) /\ f \in X
    <3>1. ASSUME NEW p \in Nat \X X PROVE step[p] \in X
      <4>1. p[2] \in X
        OBVIOUS
      <4>2. p[1] \in 1..L => Put(p[2], R(p[1]).blk, R(p[1]).slot, R(p[1]).old) \in X
        BY <4>1, <1>4
      <4> QED BY <4>1, <4>2
    <3>2. step \in [Nat \X X -> X]
      BY <3>1
    <3>3. f \in X
      BY DEF X
    <3> QED BY <3>2, <3>3 DEF StepRules
  <2>2. PICK g : g \in Recursions(X, f, step, L)
    <3> HIDE DEF step, L
    <3>1. L \in Nat
      BY <1>1
    <3> QED BY ONLY <2>1, <3>1, RecursionExists
  <2>3. g \in [0..L -> X] /\ g[0] = f /\ \A k \in 1..L : g[k] = step[<<k, g[k - 1]>>]
    <3> HIDE DEF step, L
    <3> QED BY <2>2 DEF Recursions
  <2>4. ASSUME NEW k \in 1..L PROVE g[k] = Put(g[k - 1], R(k).blk, R(k).slot, R(k).old)
    <3>1. k - 1 \in 0..L /\ k \in Nat
      BY <1>1
    <3>2. <<k, g[k - 1]>> \in Nat \X X
      BY <3>1, <2>3
    <3>3. step[<<k, g[k - 1]>>] = Put(g[k - 1], R(k).blk, R(k).slot, R(k).old)
      BY <3>2
    <3> QED BY <3>3, <2>3
  <2> QED BY <2>3, <2>4
<1>6. ASSUME NEW h PROVE Eq(h) <=> h = [k \in 0..L |-> IF k = 0 THEN f ELSE Put(h[k - 1], R(k).blk, R(k).slot, R(k).old)]
  BY DEF Put
<1>7. \E h : Eq(h)
  <2>1. g = [k \in 0..L |-> g[k]]
    OBVIOUS
  <2>2. ASSUME NEW k \in 0..L
        PROVE  g[k] = IF k = 0 THEN f ELSE Put(g[k - 1], R(k).blk, R(k).slot, R(k).old)
    <3>1. k = 0 \/ k \in 1..L
      BY <1>1
    <3> HIDE DEF R
    <3> QED BY <3>1, <1>5
  <2> HIDE DEF R
  <2>3. g = [k \in 0..L |-> IF k = 0 THEN f ELSE Put(g[k - 1], R(k).blk, R(k).slot, R(k).old)]
    BY <2>1, <2>2
  <2>4. Eq(g)
    <3> HIDE DEF Eq
    <3> QED BY <2>3, <1>6
  <2> HIDE DEF Eq
  <2> QED BY <2>4
<1>8. Eq(back)
  <2> HIDE DEF Eq
  <2> QED BY <1>7
<1> HIDE DEF back, R
<1>9. ASSUME NEW k \in 0..L PROVE back[k] = IF k = 0 THEN f ELSE Put(back[k - 1], R(k).blk, R(k).slot, R(k).old)
  <2>1. back = [j \in 0..L |-> IF j = 0 THEN f ELSE Put(back[j - 1], R(j).blk, R(j).slot, R(j).old)]
    <3> HIDE DEF Eq
    <3> QED BY <1>8, <1>6
  <2> QED BY <2>1
<1> HIDE DEF Eq
<1>10. \A k \in 0..L : back[k] = g[k]
  <2> DEFINE T == {m \in Nat : m <= L => back[m] = g[m]}
  <2>1. 0 \in T
    BY <1>9, <1>5, <1>1
  <2>2. ASSUME NEW m \in Nat, m \in T PROVE m + 1 \in T
    <3> SUFFICES ASSUME m + 1 <= L PROVE back[m + 1] = g[m + 1]
      OBVIOUS
    <3>1. PICK k : k = m + 1
      OBVIOUS
    <3>2. k \in 0..L /\ k # 0 /\ k \in 1..L /\ k - 1 = m /\ m <= L
      BY <3>1, <1>1
    <3>3. back[k - 1] = g[k - 1]
      BY <2>2, <3>2
    <3>4. back[k] = g[k]
      BY <3>2, <3>3, <1>9, <1>5
    <3> QED BY <3>4, <3>1
  <2>3. Nat \subseteq T
    <3> HIDE DEF T
    <3> QED BY <2>1, <2>2, SetInduction
  <2> QED BY <2>3, <1>1
<1>11. Undone(f, u) = g[L]
  BY <1>3, <1>10, <1>1
<1>12. Back(g, u, f)
  <2>1. g \in [0..L -> FileType] /\ \A m \in 0..L : Len(g[m]) = Len(f)
    BY <1>5
  <2> QED BY <2>1, <1>5, <1>11 DEF Back, R
<1> QED BY <1>12

(* What it leaves in a slot: what the oldest record of the slot remembers. *)
LEMMA UndoneIs ==
  ASSUME NEW f \in FileType, NEW u, Fits(u, f)
  PROVE  /\ Undone(f, u) \in FileType /\ Len(Undone(f, u)) = Len(f)
         /\ \A d \in 1..Len(f), j \in Slots :
              /\ (\A k \in DOMAIN u : ~Hits(u, k, d, j)) => Undone(f, u)[d][j] = f[d][j]
              /\ \A k \in DOMAIN u : Hits(u, k, d, j) /\ (\A n \in 1..k - 1 : ~Hits(u, n, d, j)) =>
                   Undone(f, u)[d][j] = u[k].old
<1> DEFINE L == Len(u)
<1>1. u \in Seq(UndoType) /\ L \in Nat /\ DOMAIN u = 1..L
  BY DEF Fits
<1>2. PICK g : Back(g, u, f)
  BY UndoneWalk
<1>3. /\ g \in [0..L -> FileType] /\ g[0] = f /\ Undone(f, u) = g[L]
      /\ \A m \in 0..L : Len(g[m]) = Len(f)
  BY <1>2 DEF Back
<1>4. ASSUME NEW m \in 1..L
      PROVE  /\ g[m - 1] \in FileType /\ Len(g[m - 1]) = Len(f)
             /\ L + 1 - m \in 1..L /\ u[L + 1 - m].blk \in 1..Len(f) /\ u[L + 1 - m].slot \in Slots /\ u[L + 1 - m].old \in Slot
             /\ g[m] = Put(g[m - 1], u[L + 1 - m].blk, u[L + 1 - m].slot, u[L + 1 - m].old)
  <2>1. m - 1 \in 0..L /\ L + 1 - m \in 1..L
    BY <1>1
  <2>2. u[L + 1 - m] \in UndoType /\ u[L + 1 - m].blk \in 1..Len(f)
    BY <2>1, <1>1 DEF Fits
  <2>3. g[m] = Put(g[m - 1], u[L + 1 - m].blk, u[L + 1 - m].slot, u[L + 1 - m].old)
    BY <1>2 DEF Back
  <2> QED BY <2>1, <2>2, <2>3, <1>3 DEF UndoType
<1>5. ASSUME NEW d \in 1..Len(f), NEW j \in Slots
      PROVE  /\ (\A k \in DOMAIN u : ~Hits(u, k, d, j)) => Undone(f, u)[d][j] = f[d][j]
             /\ \A k \in DOMAIN u : Hits(u, k, d, j) /\ (\A n \in 1..k - 1 : ~Hits(u, n, d, j)) =>
                  Undone(f, u)[d][j] = u[k].old
  <2> DEFINE H(k) == Hits(u, k, d, j)
             P(m) == /\ (\A k \in L + 1 - m..L : ~H(k)) => g[m][d][j] = f[d][j]
                     /\ \A k \in L + 1 - m..L : H(k) /\ (\A n \in L + 1 - m..k - 1 : ~H(n)) => g[m][d][j] = u[k].old
             T == {m \in Nat : m <= L => P(m)}
  <2>1. ASSUME NEW m \in 1..L
        PROVE  g[m][d][j] = IF H(L + 1 - m) THEN u[L + 1 - m].old ELSE g[m - 1][d][j]
    <3>1. PICK h \in FileType, c \in Slot, b \in 1..Len(f), i \in Slots :
            /\ h = g[m - 1] /\ Len(h) = Len(f) /\ c = u[L + 1 - m].old
            /\ b = u[L + 1 - m].blk /\ i = u[L + 1 - m].slot
      BY <1>4
    <3>2. g[m] = Put(h, b, i, c)
      BY <3>1, <1>4
    <3>3. Put(h, b, i, c)[d][j] = IF d = b /\ j = i THEN c ELSE h[d][j]
      <4>1. h \in FileType /\ b \in 1..Len(h) /\ i \in Slots /\ c \in Slot /\ d \in 1..Len(h) /\ j \in Slots
        BY <3>1
      <4> QED BY ONLY <4>1, PutFacts
    <3>4. H(L + 1 - m) <=> (d = b /\ j = i)
      BY <3>1 DEF Hits
    <3> QED BY ONLY <3>1, <3>2, <3>3, <3>4
  <2> HIDE DEF H
  <2>2. 0 \in T
    BY <1>1, <1>3
  <2>3. ASSUME NEW m \in Nat, m \in T PROVE m + 1 \in T
    <3> SUFFICES ASSUME m + 1 <= L PROVE P(m + 1)
      OBVIOUS
    <3>1. PICK K, M : K = L - m /\ M = m + 1
      OBVIOUS
    <3>2. K \in 1..L /\ M \in 1..L /\ L + 1 - M = K /\ M - 1 = m /\ L + 1 - m = K + 1 /\ m <= L
      BY <3>1, <1>1
    <3>3. P(m)
      BY <2>3, <3>2
    <3>4. g[M][d][j] = IF H(K) THEN u[K].old ELSE g[m][d][j]
      BY <3>2, <2>1
    <3>5. /\ (\A k \in K + 1..L : ~H(k)) => g[m][d][j] = f[d][j]
          /\ \A k \in K + 1..L : H(k) /\ (\A n \in K + 1..k - 1 : ~H(n)) => g[m][d][j] = u[k].old
      BY ONLY <3>2, <3>3
    <3>6. (\A k \in K..L : ~H(k)) => g[M][d][j] = f[d][j]
      <4> SUFFICES ASSUME \A k \in K..L : ~H(k) PROVE g[M][d][j] = f[d][j]
        OBVIOUS
      <4>1. \A k \in K + 1..L : k \in K..L
        BY <3>2, <1>1
      <4>2. K \in K..L
        BY <3>2, <1>1
      <4> QED BY <4>1, <4>2, <3>4, <3>5
    <3>7. ASSUME NEW k \in K..L, H(k), \A n \in K..k - 1 : ~H(n) PROVE g[M][d][j] = u[k].old
      <4>1. CASE k = K
        BY <4>1, <3>4, <3>7
      <4>2. CASE k # K
        <5>1. k \in K + 1..L /\ K \in K..k - 1 /\ \A n \in K + 1..k - 1 : n \in K..k - 1
          BY <4>2, <3>2, <1>1
        <5>2. ~H(K) /\ \A n \in K + 1..k - 1 : ~H(n)
          BY <5>1, <3>7
        <5> QED BY <5>1, <5>2, <3>4, <3>5, <3>7
      <4> QED BY <4>1, <4>2
    <3>8. P(M)
      BY <3>2, <3>6, <3>7
    <3> QED BY <3>8, <3>1
  <2>4. L \in T
    <3>1. Nat \subseteq T
      <4> HIDE DEF T
      <4> QED BY <2>2, <2>3, SetInduction
    <3> QED BY ONLY <3>1, <1>1
  <2>5. P(L)
    BY <2>4, <1>1
  <2>6. L + 1 - L = 1
    BY <1>1
  <2> QED BY <2>5, <2>6, <1>1, <1>3 DEF H
<1>6. g[L] \in FileType /\ Len(g[L]) = Len(f)
  BY <1>1, <1>3
<1> QED BY <1>3, <1>5, <1>6

(* The slots that a log mentions.                                          *)
ChangedIn(u) == {<<u[k].blk, u[k].slot>> : k \in DOMAIN u}

(* Of each slot in the log there is an oldest record.                      *)
LEMMA OldestHit ==
  ASSUME NEW u \in Seq(UndoType), NEW d, NEW j, <<d, j>> \in ChangedIn(u)
  PROVE  \E k \in DOMAIN u : Hits(u, k, d, j) /\ \A n \in 1..k - 1 : ~Hits(u, n, d, j)
<1> DEFINE T == {k \in 1..Len(u) : Hits(u, k, d, j)}
<1>1. T \subseteq Nat /\ T # {} /\ DOMAIN u = 1..Len(u) /\ Len(u) \in Nat
  <2>1. PICK k \in DOMAIN u : <<d, j>> = <<u[k].blk, u[k].slot>>
    BY DEF ChangedIn
  <2>2. Hits(u, k, d, j) /\ k \in 1..Len(u)
    BY <2>1 DEF Hits
  <2> QED BY <2>2
<1>2. PICK k \in T : \A n \in T : k <= n
  <2> HIDE DEF T
  <2> QED BY <1>1, LeastExists
<1>3. ASSUME NEW n \in 1..k - 1 PROVE ~Hits(u, n, d, j)
  <2> SUFFICES ASSUME Hits(u, n, d, j) PROVE FALSE
    OBVIOUS
  <2>1. n \in T /\ n < k
    BY <1>2
  <2> QED BY <2>1, <1>2
<1> QED BY <1>1, <1>2, <1>3

(* The slots of an undone file: those in the log do not depend on the file, *)
(* the others stay.                                                        *)
LEMMA UndoneSlots ==
  ASSUME NEW f \in FileType, NEW u, Fits(u, f), NEW d \in 1..Len(f), NEW j \in Slots
  PROVE  /\ <<d, j>> \notin ChangedIn(u) => Undone(f, u)[d][j] = f[d][j]
         /\ \A h \in FileType : Fits(u, h) /\ d \in 1..Len(h) /\ <<d, j>> \in ChangedIn(u) =>
              Undone(h, u)[d][j] = Undone(f, u)[d][j]
<1>1. ASSUME <<d, j>> \notin ChangedIn(u) PROVE Undone(f, u)[d][j] = f[d][j]
  <2>1. \A k \in DOMAIN u : ~Hits(u, k, d, j)
    BY <1>1 DEF Hits, ChangedIn
  <2> QED BY <2>1, UndoneIs
<1>2. ASSUME NEW h \in FileType, Fits(u, h), d \in 1..Len(h), <<d, j>> \in ChangedIn(u)
      PROVE  Undone(h, u)[d][j] = Undone(f, u)[d][j]
  <2>1. u \in Seq(UndoType)
    BY <1>2 DEF Fits
  <2>2. PICK k \in DOMAIN u : Hits(u, k, d, j) /\ \A n \in 1..k - 1 : ~Hits(u, n, d, j)
    BY ONLY <2>1, <1>2, OldestHit
  <2>3. Undone(f, u)[d][j] = u[k].old
    BY <2>2, UndoneIs
  <2>4. Undone(h, u)[d][j] = u[k].old
    BY ONLY <1>2, <2>1, <2>2, j \in Slots, UndoneIs
  <2> QED BY <2>3, <2>4
<1> QED BY <1>1, <1>2

(* A write that logs the old content does not change what an undo restores. *)
LEMMA UndoneAfterWrite ==
  ASSUME NEW f \in FileType, NEW u, Fits(u, f), NEW b \in 1..Len(f), NEW i \in Slots, NEW c \in Slot,
         NEW r, r = [blk |-> b, slot |-> i, old |-> f[b][i]]
  PROVE  /\ Fits(Append(u, r), Put(f, b, i, c))
         /\ ChangedIn(Append(u, r)) = ChangedIn(u) \cup {<<b, i>>}
         /\ \A d \in 1..Len(f), j \in Slots :
              Undone(Put(f, b, i, c), Append(u, r))[d][j] = Undone(f, u)[d][j]
<1>1. PICK h : h = Put(f, b, i, c)
  OBVIOUS
<1>2. h \in FileType /\ Len(h) = Len(f) /\ \A d \in 1..Len(f), j \in Slots : h[d][j] = IF d = b /\ j = i THEN c ELSE f[d][j]
  BY <1>1, PutFacts
<1>3. PICK v : v = Append(u, r)
  OBVIOUS
<1>4. PICK n \in Nat : n = Len(u)
  BY DEF Fits
<1>5. r \in UndoType /\ r.blk = b /\ r.slot = i /\ r.old = f[b][i]
  <2>1. f[b][i] \in Slot
    BY DEF FileType
  <2>2. b \in Nat
    BY DEF FileType
  <2> QED BY <2>1, <2>2 DEF UndoType
<1>6. u \in Seq(UndoType) /\ DOMAIN u = 1..n
  BY <1>4 DEF Fits
<1>7. v \in Seq(UndoType) /\ DOMAIN v = 1..n + 1 /\ v[n + 1] = r /\ \A k \in 1..n : v[k] = u[k]
  BY <1>3, <1>4, <1>5, <1>6
<1>8. Fits(v, h)
  <2>1. ASSUME NEW k \in DOMAIN v PROVE v[k].blk \in 1..Len(h)
    BY <1>2, <1>5, <1>6, <1>7 DEF Fits
  <2> QED BY <2>1, <1>7 DEF Fits
<1>9. ChangedIn(v) = ChangedIn(u) \cup {<<b, i>>}
  <2>1. ASSUME NEW x \in ChangedIn(v) PROVE x \in ChangedIn(u) \cup {<<b, i>>}
    <3>1. PICK k \in 1..n + 1 : x = <<v[k].blk, v[k].slot>>
      BY <1>7 DEF ChangedIn
    <3>2. CASE k = n + 1
      BY <3>1, <3>2, <1>5, <1>7
    <3>3. CASE k \in 1..n
      BY <3>1, <3>3, <1>6, <1>7 DEF ChangedIn
    <3> QED BY <3>2, <3>3, <3>1, <1>4
  <2>2. ASSUME NEW x \in ChangedIn(u) PROVE x \in ChangedIn(v)
    <3>1. PICK k \in 1..n : x = <<u[k].blk, u[k].slot>>
      BY <1>6 DEF ChangedIn
    <3>2. k \in DOMAIN v /\ x = <<v[k].blk, v[k].slot>>
      BY <3>1, <1>7
    <3> QED BY <3>2 DEF ChangedIn
  <2>3. <<b, i>> \in ChangedIn(v)
    <3>1. n + 1 \in DOMAIN v /\ <<b, i>> = <<v[n + 1].blk, v[n + 1].slot>>
      BY <1>5, <1>7
    <3> QED BY <3>1 DEF ChangedIn
  <2> QED BY <2>1, <2>2, <2>3
<1>10. ASSUME NEW d \in 1..Len(f), NEW j \in Slots PROVE Undone(h, v)[d][j] = Undone(f, u)[d][j]
  <2>1. d \in 1..Len(h)
    BY <1>2
  <2>2. CASE <<d, j>> \in ChangedIn(u)
    <3>1. PICK k \in DOMAIN u : Hits(u, k, d, j) /\ \A m \in 1..k - 1 : ~Hits(u, m, d, j)
      BY ONLY <1>6, <2>2, OldestHit
    <3>2. k \in DOMAIN v /\ v[k] = u[k] /\ \A m \in 1..k - 1 : v[m] = u[m]
      BY <3>1, <1>6, <1>7
    <3>3. Hits(v, k, d, j) /\ \A m \in 1..k - 1 : ~Hits(v, m, d, j)
      BY <3>1, <3>2 DEF Hits
    <3>4. Undone(h, v)[d][j] = v[k].old
      BY ONLY <3>2, <3>3, <1>2, <1>8, <2>1, j \in Slots, UndoneIs
    <3>5. Undone(f, u)[d][j] = u[k].old
      BY <3>1, UndoneIs
    <3> QED BY <3>2, <3>4, <3>5
  <2>3. CASE <<d, j>> \notin ChangedIn(u)
    <3>1. Undone(f, u)[d][j] = f[d][j]
      BY <2>3, UndoneSlots
    <3>2. CASE <<d, j>> = <<b, i>>
      <4>1. n + 1 \in DOMAIN v /\ Hits(v, n + 1, d, j)
        BY <3>2, <1>5, <1>7 DEF Hits
      <4>2. ASSUME NEW m \in 1..n + 1 - 1 PROVE ~Hits(v, m, d, j)
        BY <2>3, <1>6, <1>7 DEF Hits, ChangedIn
      <4>3. Undone(h, v)[d][j] = v[n + 1].old
        BY ONLY <4>1, <4>2, <1>2, <1>8, <2>1, j \in Slots, UndoneIs
      <4> QED BY <4>3, <3>1, <3>2, <1>5, <1>7
    <3>3. CASE <<d, j>> # <<b, i>>
      <4>1. <<d, j>> \notin ChangedIn(v)
        BY <2>3, <3>3, <1>9
      <4>2. Undone(h, v)[d][j] = h[d][j]
        BY ONLY <4>1, <1>2, <1>8, <2>1, j \in Slots, UndoneSlots
      <4> QED BY <4>2, <3>1, <3>3, <1>2
    <3> QED BY <3>2, <3>3
  <2> QED BY <2>2, <2>3
<1> QED BY <1>1, <1>3, <1>8, <1>9, <1>10

(* The records of a file, and the slots in use.                            *)
LEMMA RecordsAre ==
  ASSUME NEW f \in FileType
  PROVE  /\ \A r : r \in RecordsIn(f) <=>
              \E b \in 1..Len(f), i \in Slots : f[b][i].used /\ r = <<b, i, f[b][i].val>>
         /\ RecordsIn(f) \subseteq (1..Len(f)) \X Slots \X (Vals \cup {0})
<1>1. ASSUME NEW r, r \in RecordsIn(f)
      PROVE  \E b \in 1..Len(f), i \in Slots : f[b][i].used /\ r = <<b, i, f[b][i].val>>
  <2>1. PICK x \in (1..Len(f)) \X Slots : f[x[1]][x[2]].used /\ r = <<x[1], x[2], f[x[1]][x[2]].val>>
    BY <1>1 DEF RecordsIn
  <2> QED BY <2>1
<1>2. ASSUME NEW b \in 1..Len(f), NEW i \in Slots, f[b][i].used PROVE <<b, i, f[b][i].val>> \in RecordsIn(f)
  <2>1. PICK x : x = <<b, i>>
    OBVIOUS
  <2>2. x \in {y \in (1..Len(f)) \X Slots : f[y[1]][y[2]].used} /\ x[1] = b /\ x[2] = i
    BY <2>1, <1>2
  <2> QED BY <2>2 DEF RecordsIn
<1>3. ASSUME NEW b \in 1..Len(f), NEW i \in Slots PROVE f[b][i].val \in Vals \cup {0}
  <2>1. f[b][i] \in Slot
    BY DEF FileType
  <2> QED BY <2>1 DEF Slot
<1> QED BY <1>1, <1>2, <1>3

(* Sets of scans are finite.                                               *)
LEMMA ScanSets ==
  ASSUME NEW S, S \subseteq Scans
  PROVE  IsFiniteSet(S) /\ Cardinality(S) \in Nat /\ Cardinality(S) <= Cardinality(Scans)
  BY ScansAssumption, FS_Subset, FS_CardinalityType

(* A scan more or less in a set of scans.                                  *)
LEMMA OneMoreOrLess ==
  ASSUME NEW S, S \subseteq Scans, NEW s \in Scans
  PROVE  /\ Cardinality(S) \in Nat
         /\ Cardinality(S \cup {s}) = IF s \in S THEN Cardinality(S) ELSE Cardinality(S) + 1
         /\ Cardinality(S \ {s}) = IF s \in S THEN Cardinality(S) - 1 ELSE Cardinality(S)
<1>1. IsFiniteSet(S) /\ Cardinality(S) \in Nat
  BY ScanSets
<1>2. Cardinality(S \cup {s}) = IF s \in S THEN Cardinality(S) ELSE Cardinality(S) + 1
  BY <1>1, FS_AddElement
<1>3. CASE s \in S
  <2>1. Cardinality(S \ {s}) = Cardinality(S) - 1
    BY <1>1, <1>3, FS_RemoveElement
  <2> QED BY <2>1, <1>1, <1>2, <1>3
<1>4. CASE s \notin S
  <2>1. S \ {s} = S
    BY <1>4
  <2> QED BY <2>1, <1>1, <1>2, <1>4
<1> QED BY <1>3, <1>4

OpenAt(t, b) == {s \in ScansOf(t) : scan[s].blk = b /\ scan[s].pc # "closed"}

(* In a fresh table nothing is going on.                                   *)
LEMMA InitHolds ==
  ASSUME Init PROVE IInv
<1>1. /\ file \in FileType /\ Len(file) <= MaxOld /\ Len(file) \in Nat
      /\ MaxOld \in Nat /\ MaxOps \in Nat
  BY OldFilesAssumption, BoundsAssumption DEF Init, FileType
<1>2. Blocks = 0..MaxBlocks /\ MaxBlocks \in Nat /\ Len(file) <= MaxBlocks /\ Len(file) <= MaxOld + 1 + ops /\ ops = 0
  BY <1>1 DEF Init, MaxBlocks, Blocks
<1>3. \A s \in Scans : scan[s] = NoScan /\ seen[s] = << >>
  BY DEF Init
<1>4. \A s \in Scans : scan[s].tx = 0 /\ scan[s].pc = "none" /\ scan[s].blk = 0 /\ ~scan[s].ended
  BY <1>3 DEF NoScan
<1>5. \A t \in Txs : ScansOf(t) = {} /\ \A b : ScansAt(t, b) = {} /\ OpenAt(t, b) = {}
  BY <1>4, TxsAssumption DEF ScansOf, ScansAt, OpenAt
<1>6. TypesOK
  <2>1. NoScan \in ScanType
    BY SlotsAssumption DEF NoScan, ScanType
  <2>2. scan \in [Scans -> ScanType]
    BY <2>1 DEF Init
  <2>3. committed \subseteq Blocks \X Slots \X (Vals \cup {0})
    <3>1. committed \subseteq (1..Len(file)) \X Slots \X (Vals \cup {0})
      BY <1>1, RecordsAre DEF Init
    <3>2. 1..Len(file) \subseteq Blocks
      BY <1>1, <1>2
    <3> QED BY <3>1, <3>2
  <2>4. pins \in [Txs -> [Blocks -> Nat]] /\ lock \in [Txs -> [Blocks -> {"none", "S", "X"}]]
        /\ undo \in [Txs -> Seq(UndoType)] /\ seen \in [Scans -> Seq(Nat \X Nat)]
        /\ twice \subseteq Blocks /\ lost \subseteq Blocks /\ ops \in 0..MaxOps
    BY <1>1 DEF Init
  <2> QED BY <1>1, <1>2, <2>2, <2>3, <2>4 DEF TypesOK
<1>7. ASSUME NEW s \in Scans PROVE StateOK(s)
  BY <1>1, <1>4 DEF StateOK, Moves
<1>8. OneThread
  BY <1>4 DEF OneThread, InOp, Steps
<1>9. PinsOK /\ PinsBalanced
  <2>1. \A t \in Txs, b \in Blocks : pins[t][b] = 0
    BY DEF Init
  <2>2. 0 \in Blocks
    BY <1>2
  <2>3. PinsOK
    BY <2>1, <2>2, <1>5, FS_EmptySet DEF PinsOK, EOF
  <2>4. PinsBalanced
    <3>1. \A t \in Txs, b \in Blocks \ {EOF} : pins[t][b] = Cardinality(OpenAt(t, b))
      BY <2>1, <1>5, FS_EmptySet
    <3> QED BY <3>1 DEF OpenAt, PinsBalanced
  <2> QED BY <2>3, <2>4
<1>10. LocksOK
  <2>1. \A t \in Txs, b \in Blocks : lock[t][b] = "none"
    BY DEF Init
  <2> QED BY <2>1, <1>4 DEF LocksOK
<1>11. UndoOK
  BY DEF Init, UndoOK
<1>12. GrowthOK
  <2>1. Growers = {}
    BY <1>4 DEF Growers
  <2> QED BY <2>1, <1>1, <1>2, FS_EmptySet DEF GrowthOK
<1>13. CommittedOK
  <2>1. \A t \in Txs : Changed(t) = {}
    BY DEF Init, Changed
  <2>2. TakenBack(file)
    BY <2>1, <1>1 DEF TakenBack, Init
  <2> QED BY <2>2 DEF CommittedOK
<1>14. ASSUME NEW s \in Scans PROVE SeenOK(s)
  BY <1>3, <1>4 DEF SeenOK, Rises
<1> QED BY <1>6, <1>7, <1>8, <1>9, <1>10, <1>11, <1>12, <1>13, <1>14 DEF IInv

(***************************************************************************)
(* Pins.                                                                   *)
(***************************************************************************)
(* Steps that leave the pins and the pages of the scans alone.             *)
LEMMA PinsStay ==
  ASSUME PinsOK, PinsBalanced, pins' = pins, twice' = twice,
         \A t \in Txs, b \in Blocks \ {EOF} : ScansAt(t, b)' = ScansAt(t, b) /\ OpenAt(t, b)' = OpenAt(t, b)
  PROVE  PinsOK' /\ PinsBalanced'
<1>1. \A t \in Txs : pins[t][EOF] = 0 /\ \A b \in Blocks \ {EOF} : pins[t][b] <= Cardinality(ScansAt(t, b))
  BY DEF PinsOK
<1>2. \A t \in Txs, b \in Blocks \ {EOF} : b \notin twice => pins[t][b] = Cardinality(OpenAt(t, b))
  BY DEF PinsBalanced, OpenAt
<1>3. PinsOK'
  BY <1>1 DEF PinsOK
<1>4. PinsBalanced'
  <2>1. \A t \in Txs, b \in Blocks \ {EOF} : b \notin twice' => pins'[t][b] = Cardinality(OpenAt(t, b)')
    BY <1>2
  <2> QED BY <2>1 DEF PinsBalanced, OpenAt
<1> QED BY <1>3, <1>4

(* One scan goes on without a change of its page.                          *)
OneGoes(s) == /\ \A u \in Scans \ {s} : scan'[u] = scan[u]
              /\ scan'[s].tx = scan[s].tx
OnePage(s) == scan'[s].blk = scan[s].blk /\ (scan'[s].pc = "closed" <=> scan[s].pc = "closed")

(* Then nothing changes in the count of the pins.                          *)
LEMMA PagesStay ==
  ASSUME NEW s \in Scans, OneGoes(s), OnePage(s), PinsOK, PinsBalanced, pins' = pins, twice' = twice
  PROVE  PinsOK' /\ PinsBalanced'
<1>1. ASSUME NEW u \in Scans
      PROVE  /\ scan'[u].tx = scan[u].tx /\ scan'[u].blk = scan[u].blk
             /\ scan'[u].pc = "closed" <=> scan[u].pc = "closed"
  BY DEF OneGoes, OnePage
<1>2. ASSUME NEW t \in Txs, NEW b PROVE ScansAt(t, b)' = ScansAt(t, b) /\ OpenAt(t, b)' = OpenAt(t, b)
  BY <1>1 DEF ScansAt, OpenAt, ScansOf
<1> QED BY <1>2, PinsStay

(* A scan moves to a page.                                                 *)
LEMMA PinsMove ==
  ASSUME TypesOK, PinsOK, PinsBalanced, NEW s \in Scans, Mine(s) \in Txs,
         scan[s].blk \in Blocks,
         NEW b \in Blocks \ {EOF}, NEW slot, NEW pc, pc # "closed",
         MoveTo(s, b, slot, pc)
  PROVE  PinsOK' /\ PinsBalanced' /\ pins' \in [Txs -> [Blocks -> Nat]] /\ twice' \subseteq Blocks
<1>1. PICK t \in Txs, o \in Blocks, p \in [Blocks -> Nat] : t = Mine(s) /\ o = scan[s].blk /\ p = pins[t]
  BY DEF TypesOK
<1>2. PICK q : q = Repinned(p, o, b)
  OBVIOUS
<1>3. PICK h : h = Unpinned(p, o)
  OBVIOUS
<1>4. /\ h \in [Blocks -> Nat]
      /\ h[o] = IF o = 0 \/ p[o] = 0 THEN p[o] ELSE p[o] - 1
      /\ \A c \in Blocks \ {o} : h[c] = p[c]
  BY <1>1, <1>3 DEF Unpinned
<1>5. q = [h EXCEPT ![b] = h[b] + 1]
  BY <1>2, <1>3 DEF Repinned
<1>6. q \in [Blocks -> Nat] /\ q[b] = h[b] + 1 /\ \A c \in Blocks \ {b} : q[c] = h[c]
  BY <1>4, <1>5
<1>7. pins \in [Txs -> [Blocks -> Nat]] /\ pins' = [pins EXCEPT ![t] = q]
  BY <1>1, <1>2 DEF MoveTo, TypesOK
<1>8. pins' \in [Txs -> [Blocks -> Nat]] /\ pins'[t] = q /\ \A u \in Txs \ {t} : pins'[u] = pins[u]
  BY <1>6, <1>7
<1>9. twice' \subseteq Blocks
  BY <1>1 DEF MoveTo, TypesOK
<1>10. /\ \A u \in Scans \ {s} : scan'[u] = scan[u]
       /\ scan'[s].tx = t /\ scan'[s].blk = b /\ scan'[s].pc = pc
       /\ scan[s].tx = t /\ scan[s].blk = o
  BY <1>1 DEF MoveTo, TypesOK, ScanType, Mine
<1>11. ASSUME NEW u \in Txs \ {t}, NEW c PROVE ScansAt(u, c)' = ScansAt(u, c) /\ OpenAt(u, c)' = OpenAt(u, c)
  BY <1>10 DEF ScansAt, OpenAt, ScansOf
<1>12. /\ ScansAt(t, b)' = ScansAt(t, b) \cup {s}
       /\ OpenAt(t, b)' = OpenAt(t, b) \cup {s}
       /\ \A c \in Blocks \ {b} : ScansAt(t, c)' = ScansAt(t, c) \ {s} /\ OpenAt(t, c)' = OpenAt(t, c) \ {s}
  BY <1>10 DEF ScansAt, OpenAt, ScansOf
<1>13. \A c : /\ s \in ScansAt(t, c) <=> c = o
              /\ s \in OpenAt(t, c) <=> c = o /\ scan[s].pc # "closed"
  BY <1>10 DEF ScansAt, OpenAt, ScansOf
<1>14. \A c : ScansAt(t, c) \subseteq Scans /\ OpenAt(t, c) \subseteq Scans
  BY DEF ScansAt, OpenAt, ScansOf
<1>15. ASSUME NEW S, S \subseteq Scans
       PROVE  /\ Cardinality(S) \in Nat
              /\ Cardinality(S \cup {s}) = IF s \in S THEN Cardinality(S) ELSE Cardinality(S) + 1
              /\ Cardinality(S \ {s}) = IF s \in S THEN Cardinality(S) - 1 ELSE Cardinality(S)
  BY ONLY <1>15, s \in Scans, OneMoreOrLess
<1>16. /\ \A c : Cardinality(ScansAt(t, c)) \in Nat /\ Cardinality(OpenAt(t, c)) \in Nat
       /\ Cardinality(ScansAt(t, b)') = IF b = o THEN Cardinality(ScansAt(t, b)) ELSE Cardinality(ScansAt(t, b)) + 1
       /\ Cardinality(OpenAt(t, b)') = IF b = o /\ scan[s].pc # "closed" THEN Cardinality(OpenAt(t, b)) ELSE Cardinality(OpenAt(t, b)) + 1
       /\ \A c \in Blocks \ {b} :
            /\ Cardinality(ScansAt(t, c)') = IF c = o THEN Cardinality(ScansAt(t, c)) - 1 ELSE Cardinality(ScansAt(t, c))
            /\ Cardinality(OpenAt(t, c)') = IF c = o /\ scan[s].pc # "closed" THEN Cardinality(OpenAt(t, c)) - 1 ELSE Cardinality(OpenAt(t, c))
  <2>1. \A c : Cardinality(ScansAt(t, c)) \in Nat /\ Cardinality(OpenAt(t, c)) \in Nat
    BY <1>14, <1>15
  <2>2. /\ Cardinality(ScansAt(t, b) \cup {s}) = IF b = o THEN Cardinality(ScansAt(t, b)) ELSE Cardinality(ScansAt(t, b)) + 1
        /\ Cardinality(OpenAt(t, b) \cup {s}) = IF b = o /\ scan[s].pc # "closed" THEN Cardinality(OpenAt(t, b)) ELSE Cardinality(OpenAt(t, b)) + 1
    BY <1>13, <1>14, <1>15
  <2>3. ASSUME NEW c \in Blocks \ {b}
        PROVE  /\ Cardinality(ScansAt(t, c) \ {s}) = IF c = o THEN Cardinality(ScansAt(t, c)) - 1 ELSE Cardinality(ScansAt(t, c))
               /\ Cardinality(OpenAt(t, c) \ {s}) = IF c = o /\ scan[s].pc # "closed" THEN Cardinality(OpenAt(t, c)) - 1 ELSE Cardinality(OpenAt(t, c))
    BY <1>13, <1>14, <1>15
  <2> QED BY <2>1, <2>2, <2>3, <1>12
<1>17. /\ p[EOF] = 0 /\ \A c \in Blocks \ {EOF} : p[c] <= Cardinality(ScansAt(t, c))
       /\ \A c \in Blocks \ {EOF} : c \notin twice => p[c] = Cardinality(OpenAt(t, c))
  BY <1>1 DEF PinsOK, PinsBalanced, OpenAt
<1>18. /\ s \in ScansAt(t, o) => Cardinality(ScansAt(t, o)) >= 1
       /\ s \in OpenAt(t, o) => Cardinality(OpenAt(t, o)) >= 1
  <2>1. ASSUME NEW S, S \subseteq Scans, s \in S PROVE Cardinality(S) >= 1
    <3>1. Cardinality(S \ {s}) \in Nat
      BY <1>15, <2>1
    <3> QED BY <3>1, <1>15, <2>1
  <2> QED BY <2>1, <1>14
<1>19. PinsOK'
  <2>1. ASSUME NEW u \in Txs
        PROVE pins'[u][EOF] = 0 /\ \A c \in Blocks \ {EOF} : pins'[u][c] <= Cardinality(ScansAt(u, c)')
    <3>1. CASE u # t
      BY <3>1, <1>8, <1>11 DEF PinsOK
    <3>2. CASE u = t
      <4>0. EOF \in Blocks /\ EOF = 0
        BY <1>1, BoundsAssumption DEF EOF, Blocks, MaxBlocks
      <4>1. q[EOF] = 0
        BY <4>0, <1>4, <1>6, <1>17
      <4>2. ASSUME NEW c \in Blocks \ {EOF} PROVE q[c] <= Cardinality(ScansAt(t, c)')
        <5>1. p[c] <= Cardinality(ScansAt(t, c)) /\ p[c] \in Nat /\ Cardinality(ScansAt(t, c)) \in Nat
          BY <1>1, <1>16, <1>17
        <5>2. CASE c = b
          BY <5>1, <5>2, <4>0, <1>4, <1>6, <1>13, <1>16, <1>18
        <5>3. CASE c # b
          BY <5>1, <5>3, <4>0, <1>4, <1>6, <1>13, <1>16, <1>18
        <5> QED BY <5>2, <5>3
      <4> QED BY <3>2, <4>1, <4>2, <1>8
    <3> QED BY <3>1, <3>2
  <2> QED BY <2>1 DEF PinsOK
<1>20. PinsBalanced'
  <2>1. ASSUME NEW u \in Txs, NEW c \in Blocks \ {EOF}, c \notin twice' PROVE pins'[u][c] = Cardinality(OpenAt(u, c)')
    <3>0. c \notin twice /\ (c = o => scan[s].pc # "closed")
      BY <2>1, <1>1 DEF MoveTo
    <3>1. CASE u # t
      <4>1. pins[u][c] = Cardinality(OpenAt(u, c))
        BY <3>0 DEF PinsBalanced, OpenAt
      <4> QED BY <4>1, <3>1, <1>8, <1>11
    <3>2. CASE u = t
      <4>0. c # 0 /\ p[c] = Cardinality(OpenAt(t, c)) /\ p[c] \in Nat
        BY <3>0, <1>1, <1>17 DEF EOF
      <4>1. CASE c = b
        BY <4>0, <4>1, <3>0, <1>4, <1>6, <1>8, <1>13, <1>16, <1>18, <3>2
      <4>2. CASE c # b
        BY <4>0, <4>2, <3>0, <1>4, <1>6, <1>8, <1>13, <1>16, <1>18, <3>2
      <4> QED BY <4>1, <4>2
    <3> QED BY <3>1, <3>2
  <2> QED BY <2>1 DEF PinsBalanced, OpenAt
<1> QED BY <1>8, <1>9, <1>19, <1>20

(***************************************************************************)
(* Steps that leave most of the state alone.                               *)
(***************************************************************************)
\* A transaction takes locks that the others allow.
Grabs(t) ==
  /\ lock' \in [Txs -> [Blocks -> {"none", "S", "X"}]]
  /\ \A u \in Others(t) : lock'[u] = lock[u]
  /\ \A b \in Blocks :
       \/ lock'[t][b] = lock[t][b]
       \/ lock[t][b] = "none" /\ lock'[t][b] = "S" /\ \A u \in Others(t) : lock[u][b] # "X"
       \/ lock'[t][b] = "X" /\ \A u \in Others(t) : lock[u][b] = "none"
Excludes(m) == \A t \in Txs : \A u \in Others(t), b \in Blocks : m[t][b] = "X" => m[u][b] = "none"

(* Its steps with one lock.                                                *)
LEMMA OneLock ==
  ASSUME TypesOK, NEW t \in Txs, NEW b \in Blocks,
         Share(t, b) \/ Exclude(t, b) \/ lock' = lock
  PROVE  /\ Grabs(t) /\ \A c \in Blocks : lock'[t][c] # "none" => lock[t][c] # "none" \/ c = b
         /\ lock' # lock => lock'[t][b] # "none"
<1>1. lock \in [Txs -> [Blocks -> {"none", "S", "X"}]]
  BY DEF TypesOK
<1>2. CASE lock' = lock
  BY <1>1, <1>2 DEF Grabs
<1>3. CASE Share(t, b)
  BY <1>1, <1>3 DEF Grabs, Share, CanShare, Others
<1>4. CASE Exclude(t, b)
  BY <1>1, <1>4 DEF Grabs, Exclude, CanExclude, Others
<1> QED BY <1>2, <1>3, <1>4

(* Locks go on excluding, and none goes.                                   *)
LEMMA LocksGrow ==
  ASSUME TypesOK, Excludes(lock), NEW t \in Txs, Grabs(t)
  PROVE  /\ Excludes(lock')
         /\ \A u \in Txs, b \in Blocks : /\ lock[u][b] = "X" => lock'[u][b] = "X"
                                         /\ lock[u][b] # "none" => lock'[u][b] # "none"
<1>1. lock \in [Txs -> [Blocks -> {"none", "S", "X"}]]
  BY DEF TypesOK
<1>2. ASSUME NEW u \in Txs, NEW b \in Blocks
      PROVE  /\ lock[u][b] = "X" => lock'[u][b] = "X"
             /\ lock[u][b] # "none" => lock'[u][b] # "none"
  <2>1. CASE u = t
    BY <2>1, <1>1 DEF Grabs
  <2>2. CASE u # t
    BY <2>2 DEF Grabs, Others
  <2> QED BY <2>1, <2>2
<1>3. ASSUME NEW u \in Txs, NEW v \in Others(u), NEW b \in Blocks, lock'[u][b] = "X" PROVE lock'[v][b] = "none"
  <2>0. v \in Txs /\ v # u /\ (lock[u][b] = "X" => lock[v][b] = "none") /\ (lock[v][b] = "X" => lock[u][b] = "none")
    BY DEF Excludes, Others
  <2>1. CASE u = t
    <3>1. lock'[v][b] = lock[v][b]
      BY <2>0, <2>1 DEF Grabs, Others
    <3> QED BY <3>1, <2>0, <2>1, <1>3 DEF Grabs, Others
  <2>2. CASE u # t
    <3>1. lock[u][b] = "X" /\ lock[v][b] = "none"
      BY <2>0, <2>2, <1>3 DEF Grabs, Others
    <3> QED BY <3>1, <2>0, <2>2 DEF Grabs, Others
  <2> QED BY <2>1, <2>2
<1> QED BY <1>2, <1>3 DEF Excludes

(* A scan that rests has seen what it has seen, whatever others do to blocks *)
(* it has not locked.                                                      *)
LEMMA SeenStays ==
  ASSUME TypesOK, NEW u \in Scans, StateOK(u), SeenOK(u), scan'[u] = scan[u], seen'[u] = seen[u],
         file' \in FileType, Len(file) <= Len(file'), Len(file') <= MaxBlocks,
         Mine(u) \in Txs => \A b \in Blocks : Holds(u, b) => Holds(u, b)',
         Mine(u) \in Txs => \A b \in 1..Len(file) : Holds(u, b) => file'[b] = file[b],
         scan[u].ended => \A b \in 1..Len(file') : b > Len(file) /\ Holds(u, EOF) /\ Mine(u) \in Txs =>
                            Holds(u, b)' /\ \A i \in Slots : ~file'[b][i].used
  PROVE  SeenOK(u)'
<1> SUFFICES ASSUME seen[u] # Dirty PROVE SeenOK(u)'
  BY DEF SeenOK
<1>1. PICK n \in Nat, m \in Nat : n = Len(file) /\ m = Len(file') /\ n <= m /\ m <= MaxBlocks
  <2>1. file \in FileType
    BY DEF TypesOK
  <2>2. Len(file) \in Nat /\ Len(file') \in Nat
    BY ONLY <2>1, file' \in FileType DEF FileType
  <2> QED
    BY ONLY <2>2, Len(file) <= Len(file'), Len(file') <= MaxBlocks
<1>2. scan[u] \in ScanType
  BY DEF TypesOK
<1>3. 0..n \subseteq Blocks /\ 0..m \subseteq Blocks /\ MaxBlocks \in Nat
  BY <1>1, BoundsAssumption DEF Blocks, MaxBlocks
<1>4. \A x : Reached(u, x)' <=> Reached(u, x)
  BY DEF Reached
<1>5. \A b : Passed(u, b)' <=> Passed(u, b)
  BY DEF Passed
<1>6. Returned(u)' = Returned(u) /\ (Rises(seen[u])' <=> Rises(seen[u]))
  BY DEF Returned, Rises, Before
<1>7. Rises(seen[u])
  BY DEF SeenOK
<1>8. /\ scan[u].pc \in {"none", "size"} \/ (scan[u].pc = "append" /\ scan[u].blk = 0) => seen[u] = << >> /\ ~scan[u].ended
      /\ scan[u].pc \in {"next", "nextEnd"} => ~scan[u].ended
  BY DEF SeenOK
<1>9. scan[u].pc # "none" => Mine(u) \in Txs
  BY <1>2 DEF StateOK, ScanType, Mine
<1>10. ASSUME scan[u].ended PROVE Returned(u) = Used' /\ \A b \in 0..m : Holds(u, b)'
  <2>1. Mine(u) \in Txs
    BY <1>8, <1>9, <1>10
  <2>2. Returned(u) = Used /\ \A b \in 0..n : Holds(u, b)
    BY <1>10, <1>1 DEF SeenOK
  <2>3. \A b \in 1..n : file'[b] = file[b]
    BY <2>1, <2>2, <1>1
  <2>4. \A b \in n + 1..m : Holds(u, b)' /\ \A i \in Slots : ~file'[b][i].used
    <3>1. Holds(u, EOF)
      BY <2>2, <1>1 DEF EOF
    <3>2. ASSUME NEW b \in n + 1..m PROVE b \in 1..Len(file') /\ b > Len(file)
      BY <1>1
    <3> QED BY <3>1, <3>2, <2>1, <1>10
  <2>5. \A b \in 0..m : Holds(u, b)'
    <3>1. ASSUME NEW b \in 0..m PROVE Holds(u, b)'
      <4>1. CASE b \in 0..n
        BY <4>1, <2>1, <2>2, <1>3
      <4>2. CASE b \notin 0..n
        BY <4>2, <2>4, <1>1
      <4> QED BY <4>1, <4>2
    <3> QED BY <3>1
  <2>6. ASSUME NEW x PROVE x \in Used' <=> x \in Used
    <3>1. x \in Used' <=> x \in (1..m) \X Slots /\ file'[x[1]][x[2]].used
      BY <1>1 DEF Used
    <3>2. x \in Used <=> x \in (1..n) \X Slots /\ file[x[1]][x[2]].used
      BY <1>1 DEF Used
    <3>3. x \in (1..n) \X Slots => x \in (1..m) \X Slots /\ file'[x[1]] = file[x[1]]
      BY <1>1, <2>3
    <3>4. x \in (1..m) \X Slots /\ x \notin (1..n) \X Slots => x[1] \in n + 1..m /\ x[2] \in Slots
      BY <1>1
    <3> QED BY <3>1, <3>2, <3>3, <3>4, <2>4
  <2> QED BY <2>2, <2>5, <2>6
<1>11. ASSUME scan[u].pc \in {"idle", "next", "nextEnd"}, ~scan[u].ended
       PROVE  /\ Returned(u) = {x \in Used' : Reached(u, x)}
              /\ \A b \in 1..m : Passed(u, b) => Holds(u, b)'
  <2>1. Mine(u) \in Txs
    BY <1>9, <1>11
  <2>2. Returned(u) = {x \in Used : Reached(u, x)} /\ \A b \in 1..n : Passed(u, b) => Holds(u, b)
    BY <1>1, <1>11 DEF SeenOK
  <2>3. scan[u].blk <= n /\ scan[u].blk \in Nat /\ scan[u].slot \in Nat
    BY <1>1, <1>2 DEF StateOK, ScanType
  <2>4. \A b \in 1..m : Passed(u, b) => b \in 1..n
    BY <1>1, <2>3 DEF Passed
  <2>5. ASSUME NEW x, x \in (1..m) \X Slots, Reached(u, x) PROVE x \in (1..n) \X Slots /\ file'[x[1]] = file[x[1]]
    <3>1. x[1] \in 1..m /\ x[2] \in Slots /\ x = <<x[1], x[2]>> /\ x[2] # 0
      BY <2>5 DEF Slots
    <3>2. Passed(u, x[1])
      <4>1. scan[u].slot = 0 => ~(x[2] <= scan[u].slot)
        BY <3>1 DEF Slots
      <4> QED BY <4>1, <2>5, <3>1, <2>3 DEF Reached, Passed
    <3>3. x[1] \in 1..n
      BY <3>1, <3>2, <2>4
    <3>4. file'[x[1]] = file[x[1]]
      BY <3>2, <3>3, <2>1, <2>2, <1>1
    <3> QED BY <3>1, <3>3, <3>4
  <2>6. ASSUME NEW x, Reached(u, x) PROVE x \in Used' <=> x \in Used
    <3>1. x \in Used' <=> x \in (1..m) \X Slots /\ file'[x[1]][x[2]].used
      BY <1>1 DEF Used
    <3>2. x \in Used <=> x \in (1..n) \X Slots /\ file[x[1]][x[2]].used
      BY <1>1 DEF Used
    <3>3. x \in (1..n) \X Slots => x \in (1..m) \X Slots
      BY <1>1
    <3> QED BY <3>1, <3>2, <3>3, <2>5, <2>6
  <2>7. {x \in Used' : Reached(u, x)} = {x \in Used : Reached(u, x)}
    BY <2>6
  <2>8. ASSUME NEW b \in 1..m, Passed(u, b) PROVE Holds(u, b)'
    <3>1. b \in 1..n /\ b \in Blocks
      BY <2>8, <2>4, <1>3
    <3> QED BY <3>1, <2>8, <2>1, <2>2
  <2> QED BY <2>2, <2>7, <2>8
<1> QED
  <2>1. scan[u].ended => Returned(u)' = Used' /\ \A b \in 0..Len(file') : Holds(u, b)'
    BY <1>1, <1>6, <1>10
  <2>2. scan[u].pc \in {"idle", "next", "nextEnd"} /\ ~scan[u].ended =>
          /\ Returned(u)' = {x \in Used' : Reached(u, x)'}
          /\ \A b \in 1..Len(file') : Passed(u, b)' => Holds(u, b)'
    BY <1>1, <1>4, <1>5, <1>6, <1>11
  <2> QED BY <2>1, <2>2, <1>6, <1>7, <1>8 DEF SeenOK

(* A scan about to insert into its new block still finds it empty.         *)
LEMMA FreshStays ==
  ASSUME NEW u \in Scans, scan'[u] = scan[u], Fresh(u),
         lock'[Mine(u)][scan[u].blk] = "X", file'[scan[u].blk] = file[scan[u].blk]
  PROVE  Fresh(u)'
  BY DEF Fresh, Mine

(* The room for the insertions that may append.                            *)
LEMMA Room ==
  ASSUME TypesOK, GrowthOK, NEW s \in Scans, file' \in FileType, ops' \in Nat,
         Growers' \subseteq Growers \cup {s},
         \/ Len(file') = Len(file) /\ (s \notin Growers' \/ s \in Growers) /\ ops' >= ops
         \/ Len(file') = Len(file) /\ ops' = ops + 1
         \/ Len(file') = Len(file) + 1 /\ ops' = ops /\ s \in Growers /\ s \notin Growers'
  PROVE  GrowthOK'
<1>1. PICK G, H : G = Growers /\ H = Growers'
  OBVIOUS
<1>2. G \subseteq Scans /\ H \subseteq G \cup {s}
  BY <1>1 DEF Growers
<1>3. /\ Cardinality(G) \in Nat
      /\ Cardinality(G \cup {s}) = IF s \in G THEN Cardinality(G) ELSE Cardinality(G) + 1
      /\ Cardinality(G \ {s}) = IF s \in G THEN Cardinality(G) - 1 ELSE Cardinality(G)
  BY ONLY <1>2, s \in Scans, OneMoreOrLess
<1>4. ASSUME NEW S, S \subseteq Scans, H \subseteq S PROVE Cardinality(H) <= Cardinality(S) /\ Cardinality(H) \in Nat
  <2>1. IsFiniteSet(S) /\ IsFiniteSet(H)
    BY <1>4, ScanSets
  <2> QED BY <2>1, <1>4, FS_Subset, FS_CardinalityType
<1>5. PICK n \in Nat, m \in Nat, o \in Nat, k \in Nat : n = Len(file) /\ m = Len(file') /\ o = ops /\ k = ops'
  <2>1. file \in FileType /\ ops \in Nat /\ ops' \in Nat
    BY DEF TypesOK
  <2>2. Len(file) \in Nat /\ Len(file') \in Nat
    BY ONLY <2>1, file' \in FileType DEF FileType
  <2> QED
    BY ONLY <2>1, <2>2
<1>6. n + Cardinality(G) <= MaxOld + 1 + o /\ MaxOld \in Nat
  BY <1>1, <1>5, BoundsAssumption DEF GrowthOK
<1>7. m + Cardinality(H) <= MaxOld + 1 + k
  <2>1. CASE m = n /\ (s \notin H \/ s \in G) /\ k >= o
    <3>1. H \subseteq G
      BY <1>2, <2>1
    <3>2. Cardinality(H) <= Cardinality(G) /\ Cardinality(H) \in Nat
      BY <3>1, <1>2, <1>4
    <3> QED BY <3>2, <2>1, <1>3, <1>5, <1>6
  <2>2. CASE m = n /\ k = o + 1
    <3>1. G \cup {s} \subseteq Scans
      BY <1>2
    <3>2. Cardinality(H) <= Cardinality(G \cup {s}) /\ Cardinality(H) \in Nat
      BY <3>1, <1>2, <1>4
    <3> QED BY <3>2, <2>2, <1>3, <1>5, <1>6
  <2>3. CASE m = n + 1 /\ k = o /\ s \in G /\ s \notin H
    <3>1. G \ {s} \subseteq Scans /\ H \subseteq G \ {s}
      BY <1>2, <2>3
    <3>2. Cardinality(H) <= Cardinality(G \ {s}) /\ Cardinality(H) \in Nat
      BY <3>1, <1>4
    <3> QED BY <3>2, <2>3, <1>3, <1>5, <1>6
  <2> QED BY <2>1, <2>2, <2>3, <1>1, <1>5
<1> QED BY <1>1, <1>5, <1>7 DEF GrowthOK

\* Scan s of transaction t is the only one that moves.
Only(s, t) == (\A u \in Scans \ {s} : scan'[u] = scan[u]) /\ scan'[s].tx = t
\* It is, or was, the one operation that t is inside.
OneOp(s, t) == (InOp(s) /\ Mine(s) = t) \/ Ready(t) \/ ~InOp(s)'

(* A transaction that is one thread stays one.                             *)
LEMMA OneOpStays ==
  ASSUME NEW s \in Scans, NEW t, Only(s, t), OneOp(s, t), OneThread PROVE OneThread'
<1> SUFFICES ASSUME NEW a \in Scans, NEW b \in Scans, InOp(a)', InOp(b)', Mine(a)' = Mine(b)', a # b PROVE FALSE
  BY DEF OneThread
<1>1. ASSUME NEW c \in Scans \ {s} PROVE (InOp(c)' <=> InOp(c)) /\ Mine(c)' = Mine(c)
  BY DEF Only, InOp, Mine
<1>2. ASSUME NEW c \in Scans \ {s}, InOp(c), Mine(c) = t PROVE ~InOp(s)'
  BY <1>2 DEF OneOp, OneThread, Ready, ScansOf, Mine
<1>3. Mine(s)' = t
  BY DEF Only, Mine
<1>4. CASE a = s
  BY <1>1, <1>2, <1>3, <1>4
<1>5. CASE b = s
  BY <1>1, <1>2, <1>3, <1>5
<1>6. CASE a # s /\ b # s
  BY <1>1, <1>6 DEF OneThread
<1> QED BY <1>4, <1>5, <1>6

(* The other scans' states.                                                *)
LEMMA OtherStates ==
  ASSUME TypesOK, NEW s \in Scans, NEW t, Only(s, t), \A u \in Scans : StateOK(u),
         file' \in FileType, Len(file) <= Len(file'), StateOK(s)'
  PROVE  \A u \in Scans : StateOK(u)'
<1>1. PICK n \in Nat, m \in Nat : n = Len(file) /\ m = Len(file') /\ n <= m
  <2>1. file \in FileType
    BY DEF TypesOK
  <2>2. Len(file) \in Nat /\ Len(file') \in Nat
    BY ONLY <2>1, file' \in FileType DEF FileType
  <2> QED
    BY ONLY <2>2, Len(file) <= Len(file')
<1>2. ASSUME NEW u \in Scans \ {s} PROVE StateOK(u)'
  <2>1. scan'[u] = scan[u] /\ StateOK(u) /\ scan[u].blk \in Nat
    BY DEF Only, TypesOK, ScanType
  <2> QED BY <2>1, <1>1 DEF StateOK
<1> QED BY <1>2

(* A step of one scan that leaves the file alone.                          *)
LEMMA Quietly ==
  ASSUME IInv, lost = {}, NEW s \in Scans, NEW t \in Txs, Only(s, t), OneOp(s, t), Grabs(t),
         UNCHANGED <<file, undo, committed, lost>>,
         scan' \in [Scans -> ScanType], seen' \in [Scans -> Seq(Nat \X Nat)],
         pins' \in [Txs -> [Blocks -> Nat]], twice' \subseteq Blocks,
         ops' \in 0..MaxOps, ops' = ops + 1 \/ (ops' = ops /\ (s \notin Growers' \/ s \in Growers)),
         StateOK(s)', PinsOK', PinsBalanced',
         \A b \in Blocks : lock'[t][b] # "none" => lock[t][b] # "none" \/ b <= Len(file),
         scan'[s].pc = "append" => lock'[t][EOF] # "none" /\ (scan'[s].blk = 0 => file = << >>),
         \A u \in Scans \ {s} : seen'[u] = seen[u],
         SeenOK(s)'
  PROVE  IInv'
<1>1. /\ TypesOK /\ OneThread /\ LocksOK /\ UndoOK /\ GrowthOK /\ CommittedOK
      /\ \A u \in Scans : StateOK(u) /\ SeenOK(u)
  BY DEF IInv
<1>2. /\ file' = file /\ file \in FileType /\ Len(file) \in Nat /\ ops \in Nat /\ ops' \in Nat /\ Len(file) <= MaxBlocks
      /\ MaxOps \in Nat /\ EOF \in Blocks /\ 0..Len(file) \subseteq Blocks
  BY <1>1, BoundsAssumption DEF TypesOK, FileType, EOF, Blocks, MaxBlocks
<1>3. TypesOK'
  BY <1>1 DEF TypesOK, Grabs
<1>4. \A u \in Scans : StateOK(u)'
  <2>1. file' \in FileType /\ Len(file) <= Len(file')
    BY <1>2
  <2> QED BY ONLY <2>1, <1>1, s \in Scans, Only(s, t), StateOK(s)', OtherStates
<1>5. OneThread'
  BY <1>1, OneOpStays
<1>6. /\ Excludes(lock')
      /\ \A u \in Txs, b \in Blocks : /\ lock[u][b] = "X" => lock'[u][b] = "X"
                                      /\ lock[u][b] # "none" => lock'[u][b] # "none"
  <2>1. Excludes(lock)
    BY <1>1 DEF LocksOK, Excludes
  <2> QED BY ONLY <2>1, <1>1, t \in Txs, Grabs(t), LocksGrow
<1>7. LocksOK'
  <2>0. /\ \A u \in Txs, b \in Blocks : lock[u][b] # "none" => b <= Len(file)
        /\ \A u \in Scans : scan[u].pc = "append" => lock[Mine(u)][EOF] # "none" /\ (scan[u].blk = 0 => file = << >>)
    BY <1>1 DEF LocksOK
  <2>1. ASSUME NEW u \in Txs, NEW b \in Blocks, lock'[u][b] # "none" PROVE b <= Len(file')
    <3>1. CASE u = t
      BY <3>1, <2>1, <2>0, <1>2
    <3>2. CASE u # t
      <4>1. lock'[u] = lock[u]
        BY <3>2 DEF Grabs, Others
      <4> QED BY <4>1, <2>1, <2>0, <1>2
    <3> QED BY <3>1, <3>2
  <2>2. ASSUME NEW u \in Scans, scan'[u].pc = "append"
        PROVE  lock'[Mine(u)'][EOF] # "none" /\ (scan'[u].blk = 0 => file' = << >>)
    <3>1. CASE u = s
      BY <3>1, <2>2, <1>2 DEF Only, Mine
    <3>2. CASE u # s
      <4>1. scan'[u] = scan[u] /\ scan[u].tx \in Txs
        BY <3>2, <2>2, <1>1 DEF Only, StateOK, TypesOK, ScanType
      <4>2. lock[Mine(u)][EOF] # "none" /\ (scan[u].blk = 0 => file = << >>) /\ Mine(u)' = Mine(u) /\ Mine(u) \in Txs
        BY <4>1, <2>2, <2>0 DEF Mine
      <4> QED BY <4>1, <4>2, <1>2, <1>6
    <3> QED BY <3>1, <3>2
  <2> QED BY <2>1, <2>2, <1>6 DEF LocksOK, Excludes
<1>8. UndoOK'
  <2>1. ASSUME NEW u \in Txs, NEW k \in DOMAIN undo[u]
        PROVE  undo[u][k].blk \in 1..Len(file) /\ lock'[u][undo[u][k].blk] = "X"
    <3>1. undo[u][k].blk \in 1..Len(file) /\ lock[u][undo[u][k].blk] = "X"
      BY <1>1 DEF UndoOK
    <3>2. undo[u][k].blk \in Blocks
      BY <3>1, <1>2
    <3> QED BY <3>1, <3>2, <1>6
  <2> QED BY <2>1 DEF UndoOK
<1>9. GrowthOK'
  <2>1. ASSUME NEW u \in Growers', u # s PROVE u \in Growers
    <3>1. u \in Scans /\ scan'[u] = scan[u] /\ ~Fresh(u)'
      BY <2>1 DEF Only, Growers
    <3>2. ~Fresh(u)
      <4> SUFFICES ASSUME Fresh(u) PROVE FALSE
        OBVIOUS
      <4>1. Mine(u) \in Txs /\ scan[u].blk \in Blocks
        <5>1. scan[u].pc = "insert" /\ StateOK(u) /\ scan[u] \in ScanType
          BY <3>1, <1>1 DEF Fresh, TypesOK
        <5> QED BY <5>1, <1>2, BoundsAssumption DEF StateOK, ScanType, Mine, Blocks, MaxBlocks
      <4>2. lock'[Mine(u)][scan[u].blk] = "X"
        BY <4>1, <1>6 DEF Fresh
      <4> QED BY <4>2, <3>1, <1>2, FreshStays
    <3> QED BY <3>1, <3>2, <2>1 DEF Growers
  <2>2. Growers' \subseteq Growers \cup {s}
    BY <2>1
  <2>3. Len(file') = Len(file) /\ file' \in FileType
    BY <1>2
  <2>4. ops' = ops + 1 \/ (ops' >= ops /\ (s \notin Growers' \/ s \in Growers))
    BY <1>2
  <2> QED BY ONLY <2>2, <2>3, <2>4, <1>1, <1>2, s \in Scans, Room
<1>10. CommittedOK'
  <2>1. PICK w : TakenBack(w)
    BY <1>1 DEF CommittedOK
  <2>2. \A u : Changed(u)' = Changed(u)
    BY DEF Changed
  <2>3. TakenBack(w)'
    BY <2>1, <2>2 DEF TakenBack
  <2> QED BY <2>3 DEF CommittedOK
<1>11. \A u \in Scans : SeenOK(u)'
  <2>1. ASSUME NEW u \in Scans \ {s} PROVE SeenOK(u)'
    <3>1. scan'[u] = scan[u] /\ seen'[u] = seen[u] /\ StateOK(u) /\ SeenOK(u) /\ u \in Scans
      BY <1>1 DEF Only
    <3>2. Mine(u) \in Txs => \A b \in Blocks : Holds(u, b) => Holds(u, b)'
      BY <3>1, <1>6 DEF Holds, Mine
    <3>3. Len(file) <= Len(file') /\ file' \in FileType /\ Len(file') <= MaxBlocks /\ \A b \in 1..Len(file') : ~(b > Len(file))
      BY <1>2
    <3> QED BY ONLY <3>1, <3>2, <3>3, <1>1, <1>2, SeenStays
  <2> QED BY <2>1
<1> QED BY <1>3, <1>4, <1>5, <1>7, <1>8, <1>9, <1>10, <1>11 DEF IInv

(***************************************************************************)
(* The operations of a scan.                                               *)
(***************************************************************************)
(* What the invariant says of a scan and of the file.                      *)
LEMMA ScanFacts ==
  ASSUME IInv, NEW s \in Scans
  PROVE  /\ scan[s] \in ScanType /\ scan[s].blk \in 0..Len(file) /\ scan[s].slot \in Nat
         /\ file \in FileType /\ Len(file) \in Nat /\ Len(file) <= MaxBlocks /\ 0..Len(file) \subseteq Blocks
         /\ Blocks \subseteq Nat /\ EOF \in Blocks /\ EOF = 0
         /\ scan[s].pc # "none" => Mine(s) \in Txs
         /\ scan[s].pc \in Moves => scan[s].blk \in 1..Len(file)
         /\ MaxOps \in Nat /\ ops \in 0..MaxOps
<1>1. TypesOK /\ StateOK(s)
  BY DEF IInv
<1>2. scan[s] \in ScanType /\ file \in FileType /\ Len(file) <= MaxBlocks /\ ops \in 0..MaxOps /\ MaxOps \in Nat
  BY <1>1, BoundsAssumption DEF TypesOK
<1>3. Len(file) \in Nat
  BY <1>2 DEF FileType
<1>4. scan[s].blk \in Nat /\ scan[s].slot \in Nat /\ scan[s].tx \in Txs \cup {0}
  BY <1>2, SlotsAssumption DEF ScanType
<1>5. Blocks \subseteq Nat /\ EOF \in Blocks /\ EOF = 0 /\ 0..Len(file) \subseteq Blocks
  BY <1>2, <1>3, BoundsAssumption DEF Blocks, MaxBlocks, EOF
<1> QED BY <1>1, <1>2, <1>3, <1>4, <1>5 DEF StateOK, Mine

(* A scan that keeps its place has seen what it has seen.                  *)
LEMMA SeenGoes ==
  ASSUME IInv, lost = {}, NEW s \in Scans, seen'[s] = seen[s], file' = file,
         scan'[s].tx = scan[s].tx, scan'[s].blk = scan[s].blk, scan'[s].slot = scan[s].slot,
         scan'[s].ended = scan[s].ended, scan[s].pc # "none",
         \A b \in Blocks : Holds(s, b) => Holds(s, b)',
         \/ scan'[s].pc \notin {"none", "size", "append", "idle", "next", "nextEnd"}
         \/ scan'[s].pc = scan[s].pc
         \/ scan[s].pc = "idle" /\ scan'[s].pc = "next" /\ ~scan[s].ended
         \/ scan[s].pc = "size" /\ scan'[s].pc = "append"
         \/ scan[s].pc = "insertEnd" /\ scan'[s].pc = "append"
  PROVE  SeenOK(s)'
<1> SUFFICES ASSUME seen[s] # Dirty PROVE SeenOK(s)'
  BY DEF SeenOK
<1>1. SeenOK(s) /\ StateOK(s) /\ scan[s].blk \in 0..Len(file) /\ 0..Len(file) \subseteq Blocks /\ Len(file) \in Nat
  BY ScanFacts DEF IInv
<1>2. Returned(s)' = Returned(s) /\ (Rises(seen[s])' <=> Rises(seen[s])) /\ Used' = Used
  BY DEF Returned, Rises, Before, Used
<1>3. Rises(seen[s])
  BY <1>1 DEF SeenOK
<1>4. scan[s].ended => Returned(s) = Used /\ \A b \in 0..Len(file) : Holds(s, b)
  BY <1>1 DEF SeenOK
<1>5. scan[s].ended => Returned(s)' = Used' /\ \A b \in 0..Len(file') : Holds(s, b)'
  BY <1>1, <1>2, <1>4
<1>6. /\ scan[s].pc \in {"none", "size"} \/ (scan[s].pc = "append" /\ scan[s].blk = 0) => seen[s] = << >> /\ ~scan[s].ended
      /\ scan[s].pc \in {"next", "nextEnd"} => ~scan[s].ended
  BY <1>1 DEF SeenOK
<1>7. scan[s].pc = "insertEnd" => scan[s].blk # 0
  BY <1>1 DEF StateOK, Moves
<1>8. scan'[s].pc \in {"none", "size"} \/ (scan'[s].pc = "append" /\ scan'[s].blk = 0) => seen'[s] = << >> /\ ~scan'[s].ended
  BY <1>6, <1>7
<1>9. ASSUME scan'[s].pc \in {"idle", "next", "nextEnd"}, ~scan'[s].ended
      PROVE  /\ Returned(s)' = {x \in Used' : Reached(s, x)'}
             /\ \A b \in 1..Len(file') : Passed(s, b)' => Holds(s, b)'
  <2>1. scan'[s].pc = scan[s].pc \/ (scan[s].pc = "idle" /\ scan'[s].pc = "next")
    BY <1>9
  <2>2. \A x : (Reached(s, x)' <=> Reached(s, x)) /\ (Passed(s, x)' <=> Passed(s, x))
    BY <2>1 DEF Reached, Passed
  <2>3. /\ Returned(s) = {x \in Used : Reached(s, x)}
        /\ \A b \in 1..Len(file) : Passed(s, b) => Holds(s, b)
    BY <2>1, <1>1, <1>9 DEF SeenOK
  <2>4. 1..Len(file) \subseteq Blocks
    BY <1>1
  <2> QED BY <2>2, <2>3, <2>4, <1>2
<1>10. scan'[s].pc \in {"next", "nextEnd"} => ~scan'[s].ended
  BY <1>6
<1> QED BY <1>2, <1>3, <1>5, <1>8, <1>9, <1>10 DEF SeenOK

(* An operation begins.                                                    *)
LEMMA BeginKeeps ==
  ASSUME IInv, NEW s \in Scans, Next_(s) \/ Insert(s) \/ Remove(s) \/ \E v \in Vals : SetVal(s, v)
  PROVE  IInv'
<1>1. PICK pc \in {"next", "insert", "unflag", "write"}, v \in Vals \cup {0} :
        /\ scan' = [scan EXCEPT ![s].pc = pc, ![s].val = v]
        /\ pc \in {"unflag", "write"} => scan[s].slot # 0
        /\ pc = "insert" => ops' = ops + 1
        /\ pc = "next" => seen' = [seen EXCEPT ![s] = IF scan[s].ended THEN Dirty ELSE @]
        /\ pc # "next" => seen' = seen
  <2>0. scan \in [Scans -> ScanType]
    BY DEF IInv, TypesOK
  <2>1. PICK r \in ScanType, v \in Vals \cup {0} : r = scan[s] /\ v = r.val
    BY <2>0 DEF ScanType
  <2>2. ASSUME NEW pc, Goto(s, pc) PROVE scan' = [scan EXCEPT ![s].pc = pc, ![s].val = v]
    <3>1. PICK q : q = [r EXCEPT !.pc = pc]
      OBVIOUS
    <3>2. q = [r EXCEPT !.pc = pc, !.val = v]
      BY <3>1, <2>1 DEF ScanType
    <3>3. scan' = [scan EXCEPT ![s] = q]
      BY <3>1, <2>1, <2>2 DEF Goto
    <3>4. scan' = [scan EXCEPT ![s] = [r EXCEPT !.pc = pc, !.val = v]]
      BY <3>2, <3>3
    <3> QED BY <3>4, <2>1
  <2>3. CASE Next_(s)
    BY <2>2, <2>3 DEF Next_, Begin
  <2>4. CASE Insert(s)
    BY <2>2, <2>4 DEF Insert, Begin
  <2>5. CASE Remove(s)
    BY <2>2, <2>5 DEF Remove, Begin, OnRecord
  <2>6. CASE \E w \in Vals : SetVal(s, w)
    BY <2>6 DEF SetVal, OnRecord
  <2> QED BY <2>3, <2>4, <2>5, <2>6
<1>2. /\ lost = {} /\ scan[s].pc = "idle" /\ Ready(Mine(s))
      /\ UNCHANGED <<file, lock, pins, undo, committed, twice, lost>>
      /\ ops' = ops \/ (ops' = ops + 1 /\ ops < MaxOps)
  BY DEF Next_, Insert, Remove, SetVal, Begin, At
<1>3. /\ TypesOK /\ PinsOK /\ PinsBalanced /\ StateOK(s) /\ SeenOK(s)
      /\ scan \in [Scans -> ScanType] /\ seen \in [Scans -> Seq(Nat \X Nat)]
  BY <1>2 DEF IInv, TypesOK
<1>4. PICK t \in Txs : t = Mine(s)
  BY <1>2, ScanFacts
<1>5. /\ \A u \in Scans \ {s} : scan'[u] = scan[u]
      /\ scan'[s] = [scan[s] EXCEPT !.pc = pc, !.val = v]
  BY <1>1, <1>3
<1>6. scan'[s].tx = t /\ scan'[s].pc = pc /\ scan'[s].blk = scan[s].blk /\ scan'[s].slot = scan[s].slot /\ scan'[s].ended = scan[s].ended
  BY <1>3, <1>4, <1>5 DEF ScanType, Mine
<1>7. scan' \in [Scans -> ScanType]
  <2>1. [scan[s] EXCEPT !.pc = pc, !.val = v] \in ScanType
    BY <1>3 DEF ScanType, Steps
  <2> QED BY <2>1, <1>1, <1>3
<1>8. Only(s, t) /\ OneOp(s, t)
  BY <1>2, <1>4, <1>5, <1>6 DEF Only, OneOp
<1>9. Grabs(t) /\ \A b \in Blocks : lock'[t][b] = lock[t][b]
  BY <1>2, <1>3 DEF Grabs, TypesOK
<1>10. seen' \in [Scans -> Seq(Nat \X Nat)] /\ \A u \in Scans \ {s} : seen'[u] = seen[u]
  <2>1. Dirty \in Seq(Nat \X Nat)
    BY DEF Dirty
  <2> QED BY <2>1, <1>1, <1>3
<1>11. PinsOK' /\ PinsBalanced'
  <2>1. OneGoes(s) /\ OnePage(s)
    BY <1>2, <1>4, <1>5, <1>6 DEF OneGoes, OnePage, Mine
  <2> QED BY ONLY <2>1, <1>2, <1>3, s \in Scans, PagesStay
<1>12. StateOK(s)'
  BY <1>1, <1>2, <1>3, <1>4, <1>6, TxsAssumption DEF StateOK, Moves
<1>13. SeenOK(s)'
  <2>1. CASE pc = "next" /\ scan[s].ended
    BY <2>1, <1>1, <1>3 DEF SeenOK
  <2>2. CASE ~(pc = "next" /\ scan[s].ended)
    <3>1. seen'[s] = seen[s]
      BY <2>2, <1>1, <1>3
    <3>2. \A b \in Blocks : Holds(s, b) => Holds(s, b)'
      BY <1>2, <1>4, <1>6 DEF Holds, Mine
    <3>3. /\ scan'[s].tx = scan[s].tx
          /\ \/ scan'[s].pc \notin {"none", "size", "append", "idle", "next", "nextEnd"}
             \/ scan[s].pc = "idle" /\ scan'[s].pc = "next" /\ ~scan[s].ended
      BY <2>2, <1>2, <1>4, <1>6 DEF Mine
    <3> QED BY ONLY <3>1, <3>2, <3>3, <1>2, <1>6, IInv, s \in Scans, SeenGoes
  <2> QED BY <2>1, <2>2
<1>14. ops' \in 0..MaxOps /\ (ops' = ops + 1 \/ (ops' = ops /\ (s \notin Growers' \/ s \in Growers)))
  <2>1. pc # "insert" => s \notin Growers'
    BY <1>6 DEF Growers
  <2>2. ops \in 0..MaxOps /\ MaxOps \in Nat
    BY ScanFacts
  <2> QED BY <2>1, <2>2, <1>1, <1>2
<1>15. /\ UNCHANGED <<file, undo, committed, lost>>
       /\ pins' \in [Txs -> [Blocks -> Nat]] /\ twice' \subseteq Blocks
       /\ \A b \in Blocks : lock'[t][b] # "none" => lock[t][b] # "none" \/ b <= Len(file)
       /\ scan'[s].pc = "append" => lock'[t][EOF] # "none" /\ (scan'[s].blk = 0 => file = << >>)
  BY <1>1, <1>2, <1>3, <1>6, <1>9 DEF TypesOK
<1> QED BY ONLY <1>2, <1>7, <1>8, <1>9, <1>10, <1>11, <1>12, <1>13, <1>14, <1>15, IInv, s \in Scans, t \in Txs, Quietly

(* What a scan is after it has moved.                                      *)
LEMMA MoveIs ==
  ASSUME scan \in [Scans -> ScanType], NEW s \in Scans, NEW b \in Nat, NEW slot \in 0..SlotsPerBlock,
         NEW pc \in Steps \cup {"none", "idle", "closed"}, MoveTo(s, b, slot, pc)
  PROVE  /\ scan' \in [Scans -> ScanType] /\ \A u \in Scans \ {s} : scan'[u] = scan[u]
         /\ scan'[s].tx = Mine(s) /\ scan'[s].pc = pc /\ scan'[s].blk = b /\ scan'[s].slot = slot /\ ~scan'[s].ended
<1>1. PICK r \in ScanType : r = scan[s]
  OBVIOUS
<1>2. PICK q : q = [r EXCEPT !.pc = pc, !.blk = b, !.slot = slot, !.ended = FALSE]
  OBVIOUS
<1>3. q \in ScanType /\ q.tx = r.tx /\ q.pc = pc /\ q.blk = b /\ q.slot = slot /\ ~q.ended
  BY <1>2 DEF ScanType
<1>4. scan' = [scan EXCEPT ![s] = q]
  BY <1>1, <1>2 DEF MoveTo
<1> QED BY <1>1, <1>3, <1>4 DEF Mine

(* A scan at the start of the file has nothing behind it.                  *)
LEMMA SeenStart ==
  ASSUME NEW s \in Scans, seen'[s] \in {<< >>, Dirty}, scan'[s].blk = 1, scan'[s].slot = 0,
         scan'[s].pc = "idle", ~scan'[s].ended
  PROVE  SeenOK(s)'
<1> SUFFICES ASSUME seen'[s] = << >> PROVE SeenOK(s)'
  BY DEF SeenOK
<1>1. Rises(seen[s])' /\ Returned(s)' = {}
  BY DEF Rises, Returned
<1>2. ASSUME NEW x \in Used' PROVE ~Reached(s, x)'
  <2>1. x[1] \in 1..Len(file') /\ x[2] \in Slots
    BY DEF Used
  <2>2. x[1] \in Int /\ x[1] >= 1 /\ x[2] \in Int /\ x[2] >= 1
    BY <2>1 DEF Slots
  <2> QED BY <2>2 DEF Reached
<1>3. \A b \in 1..Len(file') : ~Passed(s, b)'
  BY DEF Passed
<1> QED BY <1>1, <1>2, <1>3 DEF SeenOK

(* A scan moves to a page of the file.                                     *)
LEMMA MoveKeeps ==
  ASSUME IInv, lost = {}, NEW s \in Scans, NEW t \in Txs, Mine(s) = t, NEW b \in 1..Len(file),
         NEW slot \in 0..SlotsPerBlock, NEW pc \in {"idle", "next", "insert"}, MoveTo(s, b, slot, pc),
         OneOp(s, t), Grabs(t),
         UNCHANGED <<file, undo, committed, lost, ops>>,
         seen' \in [Scans -> Seq(Nat \X Nat)], \A u \in Scans \ {s} : seen'[u] = seen[u],
         pc = "insert" => s \in Growers,
         \A c \in Blocks : lock'[t][c] # "none" => lock[t][c] # "none" \/ c <= Len(file),
         SeenOK(s)'
  PROVE  IInv'
<1>1. TypesOK /\ PinsOK /\ PinsBalanced /\ scan \in [Scans -> ScanType]
  BY DEF IInv, TypesOK
<1>2. scan[s].blk \in Blocks /\ b \in Blocks \ {EOF} /\ b \in Nat
  BY ScanFacts
<1>3. /\ scan' \in [Scans -> ScanType] /\ \A u \in Scans \ {s} : scan'[u] = scan[u]
      /\ scan'[s].tx = t /\ scan'[s].pc = pc /\ scan'[s].blk = b /\ scan'[s].slot = slot /\ ~scan'[s].ended
  <2>1. pc \in Steps \cup {"none", "idle", "closed"}
    BY DEF Steps
  <2> QED BY <2>1, <1>1, <1>2, MoveIs
<1>4. PinsOK' /\ PinsBalanced' /\ pins' \in [Txs -> [Blocks -> Nat]] /\ twice' \subseteq Blocks
  <2>1. pc # "closed" /\ Mine(s) \in Txs
    OBVIOUS
  <2> QED BY ONLY <2>1, <1>1, <1>2, s \in Scans, MoveTo(s, b, slot, pc), PinsMove
<1>5. Only(s, t)
  BY <1>3 DEF Only
<1>6. StateOK(s)'
  <2>1. scan'[s].tx # 0
    BY <1>3, TxsAssumption
  <2>2. scan'[s].blk # 0 /\ scan'[s].blk <= Len(file')
    BY <1>3, ScanFacts
  <2> QED BY <2>1, <2>2, <1>3 DEF StateOK
<1>7. ops' \in 0..MaxOps /\ (ops' = ops + 1 \/ (ops' = ops /\ (s \notin Growers' \/ s \in Growers)))
  BY <1>3, ScanFacts DEF Growers
<1>8. scan'[s].pc = "append" => lock'[t][EOF] # "none" /\ (scan'[s].blk = 0 => file = << >>)
  BY <1>3
<1>9. UNCHANGED <<file, undo, committed, lost>>
  OBVIOUS
<1> QED BY <1>3, <1>4, <1>5, <1>6, <1>7, <1>8, <1>9, Quietly

(* A scan is opened.                                                       *)
LEMMA OpenKeeps ==
  ASSUME IInv, NEW s \in Scans, NEW t \in Txs, Open(s, t) PROVE IInv'
<1>1. /\ lost = {} /\ scan[s].pc = "none" /\ Ready(t)
      /\ scan' = [scan EXCEPT ![s] = [NoScan EXCEPT !.tx = t, !.pc = "size"]]
      /\ seen' = [seen EXCEPT ![s] = << >>]
      /\ UNCHANGED <<file, lock, pins, undo, committed, twice, lost, ops>>
  BY DEF Open, At
<1>2. /\ TypesOK /\ PinsOK /\ PinsBalanced /\ StateOK(s) /\ scan \in [Scans -> ScanType]
      /\ seen \in [Scans -> Seq(Nat \X Nat)]
  BY DEF IInv, TypesOK
<1>3. PICK r : r = [NoScan EXCEPT !.tx = t, !.pc = "size"]
  OBVIOUS
<1>4. r \in ScanType /\ r.tx = t /\ r.pc = "size" /\ r.blk = 0 /\ r.slot = 0 /\ ~r.ended
  <2>1. r = [tx |-> t, pc |-> "size", blk |-> 0, slot |-> 0, val |-> 0, ended |-> FALSE]
    BY <1>3 DEF NoScan
  <2>2. 0 \in 0..SlotsPerBlock
    BY SlotsAssumption
  <2> QED BY <2>1, <2>2 DEF ScanType, Steps
<1>5. scan' \in [Scans -> ScanType] /\ scan'[s] = r /\ \A u \in Scans \ {s} : scan'[u] = scan[u]
  BY <1>1, <1>2, <1>3, <1>4
<1>6. Only(s, t) /\ OneOp(s, t)
  BY <1>1, <1>4, <1>5 DEF Only, OneOp
<1>7. Grabs(t) /\ \A b \in Blocks : lock'[t][b] # "none" => lock[t][b] # "none" \/ b <= Len(file)
  BY <1>1, <1>2 DEF Grabs, TypesOK
<1>8. PinsOK' /\ PinsBalanced'
  <2>1. scan[s].tx = 0 /\ scan[s].blk = 0
    BY <1>1, <1>2 DEF StateOK
  <2>2. ASSUME NEW u \in Txs, NEW b \in Blocks \ {EOF} PROVE ScansAt(u, b)' = ScansAt(u, b) /\ OpenAt(u, b)' = OpenAt(u, b)
    BY <2>1, <1>4, <1>5 DEF ScansAt, OpenAt, ScansOf, EOF
  <2> QED BY ONLY <2>2, <1>1, <1>2, PinsStay
<1>9. StateOK(s)'
  <2>1. 0 <= Len(file')
    BY <1>1, ScanFacts
  <2> QED BY <2>1, <1>4, <1>5, TxsAssumption DEF StateOK, Moves
<1>10. SeenOK(s)'
  <2>1. seen'[s] = << >>
    BY <1>1, <1>2
  <2> QED BY <2>1, <1>4, <1>5 DEF SeenOK, Rises
<1>11. ops' \in 0..MaxOps /\ (ops' = ops + 1 \/ (ops' = ops /\ (s \notin Growers' \/ s \in Growers)))
  BY <1>1, <1>4, <1>5, ScanFacts DEF Growers
<1>12. /\ UNCHANGED <<file, undo, committed, lost>>
       /\ pins' \in [Txs -> [Blocks -> Nat]] /\ twice' \subseteq Blocks
       /\ seen' \in [Scans -> Seq(Nat \X Nat)] /\ \A u \in Scans \ {s} : seen'[u] = seen[u]
       /\ scan'[s].pc = "append" => lock'[t][EOF] # "none" /\ (scan'[s].blk = 0 => file = << >>)
  BY <1>1, <1>2, <1>4, <1>5 DEF TypesOK
<1> QED BY ONLY <1>1, <1>5, <1>6, <1>7, <1>8, <1>9, <1>10, <1>11, <1>12, IInv, s \in Scans, t \in Txs, Quietly

(* The constructor has the size of the file.                               *)
LEMMA SizeKeeps ==
  ASSUME IInv, NEW s \in Scans, Size(s) PROVE IInv'
<1>1. /\ lost = {} /\ scan[s].pc = "size" /\ Share(Mine(s), EOF)
      /\ UNCHANGED <<file, undo, committed, seen, lost, ops>>
      /\ \/ file = << >> /\ Goto(s, "append") /\ UNCHANGED <<pins, twice>>
         \/ file # << >> /\ MoveTo(s, 1, 0, "idle")
  BY DEF Size, At
<1>2. /\ TypesOK /\ PinsOK /\ PinsBalanced /\ StateOK(s) /\ SeenOK(s) /\ scan \in [Scans -> ScanType]
      /\ seen \in [Scans -> Seq(Nat \X Nat)] /\ EOF \in Blocks /\ Blocks \subseteq Nat /\ EOF = 0 /\ Len(file) \in Nat
      /\ LocksOK
  BY <1>1, ScanFacts DEF IInv, TypesOK
<1>3. PICK t \in Txs : t = Mine(s)
  BY <1>1, ScanFacts
<1>4. OneOp(s, t) /\ seen[s] \in {<< >>, Dirty}
  BY <1>1, <1>2, <1>3 DEF OneOp, InOp, Steps, SeenOK
<1>5. Grabs(t) /\ \A c \in Blocks : lock'[t][c] # "none" => lock[t][c] # "none" \/ c = EOF
  BY <1>1, <1>2, <1>3, OneLock
<1>6. \A c \in Blocks : lock'[t][c] # "none" => lock[t][c] # "none" \/ c <= Len(file)
  BY <1>2, <1>5
<1>7. CASE file = << >> /\ Goto(s, "append") /\ UNCHANGED <<pins, twice>>
  <2>1. /\ scan' \in [Scans -> ScanType] /\ \A u \in Scans \ {s} : scan'[u] = scan[u]
        /\ scan'[s] = [scan[s] EXCEPT !.pc = "append"]
    BY <1>2, <1>7 DEF Goto, ScanType, Steps
  <2>2. /\ scan'[s].tx = t /\ scan'[s].pc = "append" /\ scan'[s].blk = scan[s].blk /\ scan'[s].slot = scan[s].slot
        /\ scan'[s].ended = scan[s].ended
    BY <2>1, <1>2, <1>3 DEF ScanType, Mine
  <2>3. Only(s, t) /\ OneGoes(s) /\ OnePage(s)
    BY <2>1, <2>2, <1>1, <1>3 DEF Only, OneGoes, OnePage, Mine
  <2>4. PinsOK' /\ PinsBalanced'
    BY ONLY <2>3, <1>2, <1>7, s \in Scans, PagesStay
  <2>5. StateOK(s)' /\ scan[s].blk = 0
    BY <2>2, <1>1, <1>2, <1>3, TxsAssumption DEF StateOK, Moves
  <2>6. lock'[t][EOF] # "none"
    BY <1>1, <1>2, <1>3 DEF Share, TypesOK
  <2>7. SeenOK(s)'
    <3>1. \A b \in Blocks : Holds(s, b) => Holds(s, b)'
      <4>1. Excludes(lock)
        BY <1>2 DEF LocksOK, Excludes
      <4>2. \A b \in Blocks : lock[t][b] # "none" => lock'[t][b] # "none"
        BY ONLY <4>1, <1>2, <1>5, t \in Txs, LocksGrow
      <4> QED BY <4>2, <2>2, <1>3 DEF Holds, Mine
    <3> QED BY <3>1, <2>2, <1>1, <1>3, SeenGoes DEF Mine
  <2>8. ops' \in 0..MaxOps /\ (ops' = ops + 1 \/ (ops' = ops /\ (s \notin Growers' \/ s \in Growers)))
    BY <1>1, <2>2, <2>5, ScanFacts DEF Growers
  <2>9. /\ UNCHANGED <<file, undo, committed, lost>>
        /\ pins' \in [Txs -> [Blocks -> Nat]] /\ twice' \subseteq Blocks
        /\ seen' \in [Scans -> Seq(Nat \X Nat)] /\ \A u \in Scans \ {s} : seen'[u] = seen[u]
        /\ scan'[s].pc = "append" => lock'[t][EOF] # "none" /\ (scan'[s].blk = 0 => file = << >>)
    BY <1>1, <1>2, <1>7, <2>6 DEF TypesOK
  <2> QED BY ONLY <1>1, <1>4, <1>5, <1>6, <2>1, <2>3, <2>4, <2>5, <2>7, <2>8, <2>9, IInv, s \in Scans, t \in Txs, Quietly
<1>8. CASE file # << >> /\ MoveTo(s, 1, 0, "idle")
  <2>1. 1 \in 1..Len(file) /\ 0 \in 0..SlotsPerBlock
    BY <1>2, <1>8, SlotsAssumption DEF TypesOK, FileType
  <2>2. SeenOK(s)'
    <3>1. scan'[s].blk = 1 /\ scan'[s].slot = 0 /\ scan'[s].pc = "idle" /\ ~scan'[s].ended
      BY <2>1, <1>2, <1>8, MoveIs
    <3> QED BY <3>1, <1>1, <1>4, SeenStart
  <2>3. seen' \in [Scans -> Seq(Nat \X Nat)] /\ \A u \in Scans \ {s} : seen'[u] = seen[u]
    BY <1>1, <1>2
  <2> QED BY ONLY <2>1, <2>2, <2>3, <1>1, <1>3, <1>4, <1>5, <1>6, <1>8, IInv, s \in Scans, t \in Txs, "idle" \in {"idle", "next", "insert"}, MoveKeeps
<1> QED BY <1>1, <1>7, <1>8

(* beforeFirst and moveToRid.                                              *)
LEMMA RestartKeeps ==
  ASSUME IInv, NEW s \in Scans, BeforeFirst(s) \/ \E b \in 1..Len(file), i \in Slots : MoveToRid(s, b, i)
  PROVE  IInv'
<1>1. PICK b \in 1..Len(file), i \in 0..SlotsPerBlock :
        /\ scan[s].pc \in {"idle", "closed"} /\ lost = {} /\ Ready(Mine(s))
        /\ MoveTo(s, b, i, "idle")
        /\ UNCHANGED <<file, lock, undo, committed, lost, ops>>
        /\ \/ b = 1 /\ i = 0 /\ seen' = [seen EXCEPT ![s] = << >>]
           \/ seen' = [seen EXCEPT ![s] = Dirty]
  <2>1. CASE BeforeFirst(s)
    <3>1. scan[s].blk \in 1..Len(file)
      BY <2>1, ScanFacts DEF BeforeFirst, Moves
    <3>2. 1 \in 1..Len(file) /\ 0 \in 0..SlotsPerBlock
      BY <3>1, ScanFacts, SlotsAssumption
    <3> QED BY <3>2, <2>1 DEF BeforeFirst
  <2>2. CASE \E b \in 1..Len(file), i \in Slots : MoveToRid(s, b, i)
    <3>1. Slots \subseteq 0..SlotsPerBlock
      BY SlotsAssumption DEF Slots
    <3> QED BY <3>1, <2>2 DEF MoveToRid
  <2> QED BY <2>1, <2>2
<1>2. /\ TypesOK /\ scan \in [Scans -> ScanType] /\ seen \in [Scans -> Seq(Nat \X Nat)]
  BY DEF IInv, TypesOK
<1>3. PICK t \in Txs : t = Mine(s)
  BY <1>1, ScanFacts
<1>4. OneOp(s, t) /\ Grabs(t) /\ \A c \in Blocks : lock'[t][c] # "none" => lock[t][c] # "none" \/ c <= Len(file)
  BY <1>1, <1>2, <1>3 DEF OneOp, Grabs, TypesOK
<1>5. seen' \in [Scans -> Seq(Nat \X Nat)] /\ \A u \in Scans \ {s} : seen'[u] = seen[u]
  <2>1. Dirty \in Seq(Nat \X Nat) /\ << >> \in Seq(Nat \X Nat)
    BY DEF Dirty
  <2> QED BY <2>1, <1>1, <1>2
<1>6. SeenOK(s)'
  <2>1. CASE seen' = [seen EXCEPT ![s] = Dirty]
    BY <2>1, <1>2 DEF SeenOK
  <2>2. CASE b = 1 /\ i = 0 /\ seen' = [seen EXCEPT ![s] = << >>]
    <3>1. scan'[s].blk = b /\ scan'[s].slot = i /\ scan'[s].pc = "idle" /\ ~scan'[s].ended
      <4>1. b \in Nat
        BY ScanFacts
      <4> QED BY <4>1, <1>1, <1>2, MoveIs
    <3> QED BY <3>1, <2>2, <1>2, SeenStart
  <2> QED BY <2>1, <2>2, <1>1
<1>7. UNCHANGED <<file, undo, committed, lost, ops>> /\ lost = {} /\ MoveTo(s, b, i, "idle")
  BY <1>1
<1> QED BY ONLY <1>3, <1>4, <1>5, <1>6, <1>7, IInv, s \in Scans, b \in 1..Len(file), i \in 0..SlotsPerBlock, "idle" \in {"idle", "next", "insert"}, MoveKeeps

(* close() takes the scan's pin back, or none if it had taken it before.   *)
LEMMA PinsClose ==
  ASSUME TypesOK, PinsOK, PinsBalanced, NEW s \in Scans, Mine(s) \in Txs, scan[s].blk \in Blocks \ {EOF},
         Only(s, Mine(s)), scan'[s].blk = scan[s].blk, scan'[s].pc = "closed",
         pins' = [pins EXCEPT ![Mine(s)] = Unpinned(@, scan[s].blk)],
         twice' = IF scan[s].pc = "closed" THEN twice \cup {scan[s].blk} ELSE twice
  PROVE  PinsOK' /\ PinsBalanced' /\ pins' \in [Txs -> [Blocks -> Nat]] /\ twice' \subseteq Blocks
<1>1. PICK t \in Txs, o \in Blocks \ {EOF}, p \in [Blocks -> Nat] : t = Mine(s) /\ o = scan[s].blk /\ p = pins[t]
  BY DEF TypesOK
<1>2. PICK q : q = Unpinned(p, o)
  OBVIOUS
<1>3. /\ q \in [Blocks -> Nat]
      /\ q[o] = IF p[o] = 0 THEN 0 ELSE p[o] - 1
      /\ \A c \in Blocks \ {o} : q[c] = p[c]
  BY <1>1, <1>2 DEF Unpinned, EOF
<1>4. pins \in [Txs -> [Blocks -> Nat]] /\ pins' = [pins EXCEPT ![t] = q]
  BY <1>1, <1>2 DEF TypesOK
<1>5. pins' \in [Txs -> [Blocks -> Nat]] /\ pins'[t] = q /\ \A u \in Txs \ {t} : pins'[u] = pins[u]
  BY <1>3, <1>4
<1>6. twice' \subseteq Blocks
  BY <1>1 DEF TypesOK
<1>7. /\ \A u \in Scans \ {s} : scan'[u] = scan[u]
      /\ scan'[s].tx = t /\ scan'[s].blk = o /\ scan'[s].pc = "closed"
      /\ scan[s].tx = t /\ scan[s].blk = o
  BY <1>1 DEF Only, Mine
<1>8. \A u \in Txs : \A c : ScansAt(u, c)' = ScansAt(u, c)
  BY <1>7 DEF ScansAt, ScansOf
<1>9. \A u \in Txs : \A c : u # t \/ c # o => OpenAt(u, c)' = OpenAt(u, c)
  BY <1>7 DEF OpenAt, ScansOf
<1>10. OpenAt(t, o)' = OpenAt(t, o) \ {s} /\ (s \in OpenAt(t, o) <=> scan[s].pc # "closed") /\ OpenAt(t, o) \subseteq Scans
  BY <1>7 DEF OpenAt, ScansOf
<1>11. /\ Cardinality(OpenAt(t, o)) \in Nat
       /\ Cardinality(OpenAt(t, o) \ {s}) = IF s \in OpenAt(t, o) THEN Cardinality(OpenAt(t, o)) - 1 ELSE Cardinality(OpenAt(t, o))
       /\ Cardinality(OpenAt(t, o) \ {s}) \in Nat
  <2>1. OpenAt(t, o) \ {s} \subseteq Scans /\ OpenAt(t, o) \subseteq Scans
    BY <1>10
  <2> HIDE DEF OpenAt
  <2> QED BY ONLY <2>1, s \in Scans, OneMoreOrLess
<1>12. PinsOK'
  <2>1. ASSUME NEW u \in Txs
        PROVE pins'[u][EOF] = 0 /\ \A c \in Blocks \ {EOF} : pins'[u][c] <= Cardinality(ScansAt(u, c)')
    <3>1. pins[u][EOF] = 0 /\ \A c \in Blocks \ {EOF} : pins[u][c] <= Cardinality(ScansAt(u, c))
      BY DEF PinsOK
    <3>2. EOF \in Blocks
      BY BoundsAssumption DEF EOF, Blocks, MaxBlocks
    <3>3. CASE u # t
      BY <3>1, <3>3, <1>5, <1>8
    <3>4. CASE u = t
      <4>1. q[EOF] = 0
        BY <3>1, <3>2, <3>4, <1>1, <1>3
      <4>2. ASSUME NEW c \in Blocks \ {EOF} PROVE q[c] <= Cardinality(ScansAt(t, c)')
        <5>1. p[c] <= Cardinality(ScansAt(t, c)) /\ Cardinality(ScansAt(t, c)) \in Nat /\ p[c] \in Nat
          <6>1. ScansAt(t, c) \subseteq Scans
            BY DEF ScansAt, ScansOf
          <6> QED BY <6>1, <3>1, <3>4, <1>1, ScanSets
        <5>2. q[c] <= p[c]
          BY <5>1, <1>3
        <5> QED BY <5>1, <5>2, <1>3, <1>8
      <4> QED BY <4>1, <4>2, <3>4, <1>5
    <3> QED BY <3>3, <3>4
  <2> QED BY <2>1 DEF PinsOK
<1>13. PinsBalanced'
  <2>1. ASSUME NEW u \in Txs, NEW c \in Blocks \ {EOF}, c \notin twice' PROVE pins'[u][c] = Cardinality(OpenAt(u, c)')
    <3>0. pins[u][c] = Cardinality(OpenAt(u, c)) /\ (c = o => scan[s].pc # "closed")
      BY <2>1, <1>1 DEF PinsBalanced, OpenAt
    <3>1. CASE u # t
      BY <3>0, <3>1, <1>5, <1>9
    <3>2. CASE u = t /\ c # o
      BY <3>0, <3>2, <1>1, <1>3, <1>5, <1>9
    <3>3. CASE u = t /\ c = o
      <4>1. p[o] = Cardinality(OpenAt(t, o)) /\ p[o] \in Nat /\ s \in OpenAt(t, o)
        BY <3>0, <3>3, <1>1, <1>10
      <4>2. q[o] = Cardinality(OpenAt(t, o) \ {s})
        BY <4>1, <1>3, <1>11
      <4> QED BY <4>2, <3>3, <1>5, <1>10
    <3> QED BY <3>1, <3>2, <3>3
  <2> QED BY <2>1 DEF PinsBalanced, OpenAt
<1> QED BY <1>5, <1>6, <1>12, <1>13

(* A scan is closed.                                                       *)
LEMMA CloseKeeps ==
  ASSUME IInv, NEW s \in Scans, Close(s) PROVE IInv'
<1>1. /\ lost = {} /\ scan[s].pc \in {"idle", "closed"} /\ Ready(Mine(s))
      /\ pins' = [pins EXCEPT ![Mine(s)] = Unpinned(@, scan[s].blk)]
      /\ twice' = IF scan[s].pc = "closed" THEN twice \cup {scan[s].blk} ELSE twice
      /\ scan' = [scan EXCEPT ![s].pc = "closed"]
      /\ UNCHANGED <<file, lock, undo, committed, seen, lost, ops>>
  BY DEF Close, Goto
<1>2. /\ TypesOK /\ PinsOK /\ PinsBalanced /\ StateOK(s) /\ scan \in [Scans -> ScanType]
      /\ seen \in [Scans -> Seq(Nat \X Nat)]
  BY DEF IInv, TypesOK
<1>3. PICK t \in Txs : t = Mine(s)
  BY <1>1, ScanFacts
<1>4. /\ scan' \in [Scans -> ScanType] /\ \A u \in Scans \ {s} : scan'[u] = scan[u]
      /\ scan'[s] = [scan[s] EXCEPT !.pc = "closed"]
  BY <1>1, <1>2 DEF ScanType
<1>5. /\ scan'[s].tx = t /\ scan'[s].pc = "closed" /\ scan'[s].blk = scan[s].blk /\ scan'[s].slot = scan[s].slot
      /\ scan'[s].ended = scan[s].ended
  BY <1>2, <1>3, <1>4 DEF ScanType, Mine
<1>6. Only(s, t) /\ OneOp(s, t)
  BY <1>1, <1>3, <1>4, <1>5 DEF Only, OneOp
<1>7. Grabs(t) /\ \A c \in Blocks : lock'[t][c] # "none" => lock[t][c] # "none" \/ c <= Len(file)
  BY <1>1, <1>2 DEF Grabs, TypesOK
<1>8. PinsOK' /\ PinsBalanced' /\ pins' \in [Txs -> [Blocks -> Nat]] /\ twice' \subseteq Blocks
  <2>1. scan[s].blk \in Blocks \ {EOF}
    BY <1>1, ScanFacts DEF Moves
  <2>2. Only(s, Mine(s)) /\ Mine(s) \in Txs
    BY <1>3, <1>6
  <2> QED BY ONLY <2>1, <2>2, <1>1, <1>2, <1>5, s \in Scans, PinsClose
<1>9. StateOK(s)'
  BY <1>1, <1>2, <1>3, <1>5, TxsAssumption DEF StateOK, Moves
<1>10. SeenOK(s)'
  <2>1. \A b \in Blocks : Holds(s, b) => Holds(s, b)'
    BY <1>1, <1>3, <1>5 DEF Holds, Mine
  <2>2. seen'[s] = seen[s] /\ scan'[s].tx = scan[s].tx /\ scan[s].pc # "none"
        /\ scan'[s].pc \notin {"none", "size", "append", "idle", "next", "nextEnd"}
    BY <1>1, <1>3, <1>5 DEF Mine
  <2> QED BY ONLY <2>1, <2>2, <1>1, <1>5, IInv, s \in Scans, SeenGoes
<1>11. ops' \in 0..MaxOps /\ (ops' = ops + 1 \/ (ops' = ops /\ (s \notin Growers' \/ s \in Growers)))
  BY <1>1, <1>5, ScanFacts DEF Growers
<1>12. /\ UNCHANGED <<file, undo, committed, lost>>
       /\ seen' \in [Scans -> Seq(Nat \X Nat)] /\ \A u \in Scans \ {s} : seen'[u] = seen[u]
       /\ scan'[s].pc = "append" => lock'[t][EOF] # "none" /\ (scan'[s].blk = 0 => file = << >>)
  BY <1>1, <1>2, <1>5
<1> QED BY ONLY <1>1, <1>4, <1>6, <1>7, <1>8, <1>9, <1>10, <1>11, <1>12, IInv, s \in Scans, t \in Txs, Quietly

(* searchAfter finds the next slot with the flag.                          *)
LEMMA SearchFinds ==
  ASSUME NEW s, NEW flag \in BOOLEAN, scan[s].slot \in Nat
  PROVE  /\ SearchAfter(s, flag) \in 0..SlotsPerBlock
         /\ SearchAfter(s, flag) = 0 =>
              \A j \in Slots : j > scan[s].slot => file[scan[s].blk][j].used # flag
         /\ SearchAfter(s, flag) # 0 =>
              /\ SearchAfter(s, flag) \in Slots /\ SearchAfter(s, flag) > scan[s].slot
              /\ file[scan[s].blk][SearchAfter(s, flag)].used = flag
              /\ \A j \in Slots : j > scan[s].slot /\ j < SearchAfter(s, flag) => file[scan[s].blk][j].used # flag
<1> DEFINE found == {i \in Slots : i > scan[s].slot /\ file[scan[s].blk][i].used = flag}
           least == CHOOSE i \in found : \A j \in found : i <= j
<1>1. SearchAfter(s, flag) = IF found = {} THEN 0 ELSE least
  BY DEF SearchAfter
<1>2. Slots = 1..SlotsPerBlock /\ SlotsPerBlock \in Nat /\ found \subseteq Slots /\ found \subseteq Nat
  BY SlotsAssumption DEF Slots
<1>3. CASE found = {}
  <2>1. SearchAfter(s, flag) = 0
    BY <1>1, <1>3
  <2>2. \A j \in Slots : j > scan[s].slot => file[scan[s].blk][j].used # flag
    BY <1>3
  <2> QED BY <2>1, <2>2, <1>2
<1>4. CASE found # {}
  <2>1. \E i \in found : \A j \in found : i <= j
    <3> HIDE DEF found
    <3> QED BY <1>2, <1>4, LeastExists
  <2>2. least \in found /\ \A j \in found : least <= j
    <3> HIDE DEF found
    <3> QED BY <2>1
  <2>3. PICK i : i = least
    OBVIOUS
  <2> HIDE DEF least
  <2>4. i \in Slots /\ i > scan[s].slot /\ file[scan[s].blk][i].used = flag
    BY <2>2, <2>3
  <2>5. ASSUME NEW j \in Slots, j > scan[s].slot, j < i PROVE file[scan[s].blk][j].used # flag
    <3>1. j \notin found
      <4> HIDE DEF found
      <4> QED BY <2>2, <2>3, <2>4, <2>5, <1>2
    <3> QED BY <3>1, <2>5
  <2> HIDE DEF found
  <2>6. SearchAfter(s, flag) = i
    BY <1>1, <1>4, <2>3
  <2> QED BY <2>4, <2>5, <2>6, <1>2
<1> QED BY <1>3, <1>4

SlotGoes(s, i, pc) == scan' = [scan EXCEPT ![s].slot = i, ![s].pc = pc]

(* Types of a scan that goes to another slot.                              *)
LEMMA SlotIs ==
  ASSUME scan \in [Scans -> ScanType], NEW s \in Scans, NEW i \in 0..SlotsPerBlock, NEW pc \in Steps \cup {"idle"},
         SlotGoes(s, i, pc)
  PROVE  /\ scan' \in [Scans -> ScanType] /\ \A u \in Scans \ {s} : scan'[u] = scan[u]
         /\ scan'[s].tx = Mine(s) /\ scan'[s].pc = pc /\ scan'[s].blk = scan[s].blk /\ scan'[s].slot = i
         /\ scan'[s].ended = scan[s].ended
<1>1. PICK r \in ScanType : r = scan[s]
  OBVIOUS
<1>2. PICK q : q = [r EXCEPT !.slot = i, !.pc = pc]
  OBVIOUS
<1>3. q \in ScanType /\ q.tx = r.tx /\ q.pc = pc /\ q.blk = r.blk /\ q.slot = i /\ q.ended = r.ended
  BY <1>2 DEF ScanType
<1>4. scan' = [scan EXCEPT ![s] = q]
  BY <1>1, <1>2 DEF SlotGoes
<1> QED BY <1>1, <1>3, <1>4 DEF Mine

(* next() in a block: the scan comes to the next record, or to the end.    *)
LEMMA NextSeen ==
  ASSUME IInv, NEW s \in Scans, NextAfter(s), Mine(s) \in Txs,
         \A b \in Blocks : Holds(s, b) => Holds(s, b)'
  PROVE  SeenOK(s)' /\ seen' \in [Scans -> Seq(Nat \X Nat)] /\ \A u \in Scans \ {s} : seen'[u] = seen[u]
<1>1. PICK i : i = SearchAfter(s, TRUE)
  OBVIOUS
<1>2. PICK b : b = scan[s].blk
  OBVIOUS
<1>3. /\ lost = {} /\ scan[s].pc = "next" /\ Share(Mine(s), b) /\ file' = file
      /\ scan' = [scan EXCEPT ![s].slot = i, ![s].pc = IF i = 0 THEN "nextEnd" ELSE "idle"]
      /\ seen' = [seen EXCEPT ![s] = IF i = 0 \/ @ = Dirty THEN @ ELSE Append(@, <<b, i>>)]
  BY <1>1, <1>2 DEF NextAfter, At
<1>4. /\ scan \in [Scans -> ScanType] /\ seen \in [Scans -> Seq(Nat \X Nat)] /\ SeenOK(s)
      /\ lock \in [Txs -> [Blocks -> {"none", "S", "X"}]]
  BY <1>3 DEF IInv, TypesOK
<1>5. /\ b \in 1..Len(file) /\ scan[s].slot \in Nat /\ Len(file) \in Nat /\ 0..Len(file) \subseteq Blocks /\ file \in FileType
      /\ b \in Nat
  BY <1>2, <1>3, ScanFacts DEF Moves
<1>6. PICK k \in Nat : k = scan[s].slot
  BY <1>5
<1>7. /\ i \in 0..SlotsPerBlock
      /\ i = 0 => \A j \in Slots : j > k => file[b][j].used # TRUE
      /\ i # 0 => /\ i \in Slots /\ i > k /\ file[b][i].used = TRUE
                  /\ \A j \in Slots : j > k /\ j < i => file[b][j].used # TRUE
  <2>1. TRUE \in BOOLEAN /\ scan[s].slot \in Nat
    BY <1>5
  <2>2. /\ SearchAfter(s, TRUE) \in 0..SlotsPerBlock
        /\ SearchAfter(s, TRUE) = 0 => \A j \in Slots : j > scan[s].slot => file[scan[s].blk][j].used # TRUE
        /\ SearchAfter(s, TRUE) # 0 =>
              /\ SearchAfter(s, TRUE) \in Slots /\ SearchAfter(s, TRUE) > scan[s].slot
              /\ file[scan[s].blk][SearchAfter(s, TRUE)].used = TRUE
              /\ \A j \in Slots : j > scan[s].slot /\ j < SearchAfter(s, TRUE) => file[scan[s].blk][j].used # TRUE
    BY ONLY <2>1, SearchFinds
  <2> QED BY <2>2, <1>1, <1>2, <1>6
<1>8. /\ scan'[s].tx = Mine(s) /\ scan'[s].blk = b /\ scan'[s].slot = i /\ scan'[s].ended = scan[s].ended
      /\ scan'[s].pc = IF i = 0 THEN "nextEnd" ELSE "idle"
  <2>1. (IF i = 0 THEN "nextEnd" ELSE "idle") \in Steps \cup {"idle"}
    BY DEF Steps
  <2>2. PICK pc \in Steps \cup {"idle"} : pc = IF i = 0 THEN "nextEnd" ELSE "idle"
    BY <2>1
  <2>3. SlotGoes(s, i, pc)
    BY <2>2, <1>3 DEF SlotGoes
  <2>4. i \in 0..SlotsPerBlock /\ scan \in [Scans -> ScanType]
    BY <1>4, <1>7
  <2>5. /\ scan'[s].tx = Mine(s) /\ scan'[s].pc = pc /\ scan'[s].blk = scan[s].blk /\ scan'[s].slot = i
        /\ scan'[s].ended = scan[s].ended
    BY ONLY <2>3, <2>4, s \in Scans, pc \in Steps \cup {"idle"}, SlotIs
  <2> QED BY <2>2, <2>5, <1>2
<1>9. PICK q \in Seq(Nat \X Nat) : q = seen[s]
  BY <1>4
<1>10. i # 0 => <<b, i>> \in Nat \X Nat
  BY <1>5, <1>7 DEF Slots
<1>11. seen' \in [Scans -> Seq(Nat \X Nat)] /\ \A u \in Scans \ {s} : seen'[u] = seen[u]
  <2>1. (IF i = 0 \/ q = Dirty THEN q ELSE Append(q, <<b, i>>)) \in Seq(Nat \X Nat)
    BY <1>10
  <2>2. PICK p \in Seq(Nat \X Nat) : p = IF i = 0 \/ q = Dirty THEN q ELSE Append(q, <<b, i>>)
    BY <2>1
  <2>3. seen' = [seen EXCEPT ![s] = p]
    BY <2>2, <1>3, <1>9
  <2> QED BY <2>2, <2>3, <1>4
<1>12. seen'[s] = IF i = 0 \/ q = Dirty THEN q ELSE Append(q, <<b, i>>)
  BY <1>3, <1>4, <1>9
<1>13. SeenOK(s)'
  <2>0. CASE q = Dirty
    BY <2>0, <1>12 DEF SeenOK
  <2>1. CASE q # Dirty
    <3>0. ~scan[s].ended /\ Rises(q) /\ Returned(s) = {q[j] : j \in DOMAIN q}
      BY <2>1, <1>3, <1>4, <1>9 DEF SeenOK, Returned
    <3>1. /\ Returned(s) = {x \in Used : Reached(s, x)}
          /\ \A c \in 1..Len(file) : Passed(s, c) => Holds(s, c)
      BY <2>1, <3>0, <1>3, <1>4, <1>9 DEF SeenOK
    <3>2. \A x : Reached(s, x) <=> x[1] < b \/ (x[1] = b /\ x[2] <= k)
      BY <1>2, <1>3, <1>6 DEF Reached
    <3>3. \A x : Reached(s, x)' <=> x[1] < b \/ (x[1] = b /\ (i = 0 \/ x[2] <= i))
      BY <1>8 DEF Reached
    <3>4. \A x : x \in Used <=> x \in (1..Len(file)) \X Slots /\ file[x[1]][x[2]].used = TRUE
      <4>1. ASSUME NEW x, x \in (1..Len(file)) \X Slots PROVE file[x[1]][x[2]].used \in BOOLEAN
        BY <4>1, <1>5 DEF FileType, Slot
      <4> QED BY <4>1 DEF Used
    <3>5. Used' = Used
      BY <1>3 DEF Used
    <3>6. \A c \in 1..Len(file) : Passed(s, c)' => Holds(s, c)'
      <4>1. lock'[Mine(s)][b] # "none"
        BY <1>3, <1>4, <1>5 DEF Share
      <4>2. ASSUME NEW c \in 1..Len(file), Passed(s, c)' PROVE Holds(s, c)'
        <5>1. CASE c = b
          BY <5>1, <4>1, <1>8 DEF Holds, Mine
        <5>2. CASE c # b
          <6>1. c < b
            BY <5>2, <4>2, <1>8 DEF Passed
          <6>2. Passed(s, c) /\ c \in Blocks
            BY <6>1, <1>2, <1>5 DEF Passed
          <6> QED BY <6>2, <3>1
        <5> QED BY <5>1, <5>2
      <4> QED BY <4>2
    <3>7. CASE i = 0
      <4>1. seen'[s] = q /\ Returned(s)' = Returned(s)
        BY <3>7, <1>9, <1>12 DEF Returned
      <4>2. ASSUME NEW x \in Used PROVE Reached(s, x)' <=> Reached(s, x)
        <5>1. x[1] \in 1..Len(file) /\ x[2] \in Slots /\ file[x[1]][x[2]].used = TRUE
          BY <3>4
        <5>2. x[2] \in Nat
          BY <5>1 DEF Slots
        <5>3. ASSUME x[1] = b PROVE x[2] <= k
          <6>1. PICK j \in Slots : j = x[2] /\ file[b][j].used = TRUE
            BY <5>1, <5>3
          <6>2. ~(j > k)
            BY <6>1, <3>7, <1>7
          <6> QED BY <6>1, <6>2, <5>2
        <5> QED BY <5>3, <3>2, <3>3, <3>7
      <4>3. Returned(s)' = {x \in Used' : Reached(s, x)'}
        BY <4>1, <4>2, <3>1, <3>5
      <4>4. Rises(seen[s])'
        BY <4>1, <3>0 DEF Rises, Before
      <4> QED BY <4>1, <4>3, <4>4, <3>0, <3>6, <3>7, <1>3, <1>8 DEF SeenOK
    <3>8. CASE i # 0
      <4>0. PICK n \in Nat : n = Len(q)
        OBVIOUS
      <4>1. PICK p : p = Append(q, <<b, i>>)
        OBVIOUS
      <4>2. seen'[s] = p /\ DOMAIN p = 1..n + 1 /\ DOMAIN q = 1..n /\ p[n + 1] = <<b, i>> /\ \A j \in 1..n : p[j] = q[j]
        BY <4>0, <4>1, <2>1, <3>8, <1>10, <1>12
      <4>3. Returned(s)' = Returned(s) \cup {<<b, i>>}
        <5>1. Returned(s)' = {p[j] : j \in 1..n + 1}
          BY <4>2 DEF Returned
        <5>2. ASSUME NEW x PROVE x \in {p[j] : j \in 1..n + 1} <=> x \in {q[j] : j \in 1..n} \cup {<<b, i>>}
          <6>1. 1..n + 1 = (1..n) \cup {n + 1}
            OBVIOUS
          <6> QED BY <6>1, <4>2
        <5>3. {p[j] : j \in 1..n + 1} = {q[j] : j \in 1..n} \cup {<<b, i>>}
          BY <5>2
        <5> QED BY <5>1, <5>3, <4>2, <3>0
      <4>4. ASSUME NEW x \in Used PROVE Reached(s, x)' <=> Reached(s, x) \/ x = <<b, i>>
        <5>1. x[1] \in 1..Len(file) /\ x[2] \in Slots /\ file[x[1]][x[2]].used = TRUE /\ x = <<x[1], x[2]>>
          BY <3>4
        <5>2. x[2] \in Nat /\ i \in Nat
          BY <5>1, <3>8, <1>7 DEF Slots
        <5>3. ASSUME x[1] = b, x[2] <= i PROVE x[2] <= k \/ x[2] = i
          <6>1. PICK j \in Slots : j = x[2] /\ file[b][j].used = TRUE
            BY <5>1, <5>3
          <6>2. ~(j > k /\ j < i)
            BY <6>1, <3>8, <1>7
          <6> QED BY <6>1, <6>2, <5>2, <5>3
        <5>4. x = <<b, i>> <=> x[1] = b /\ x[2] = i
          BY <5>1
        <5> QED BY <5>2, <5>3, <5>4, <3>2, <3>3, <3>8, <1>6, <1>7
      <4>5. <<b, i>> \in Used
        BY <3>4, <3>8, <1>5, <1>7
      <4>6. Returned(s)' = {x \in Used' : Reached(s, x)'}
        BY <4>3, <4>4, <4>5, <3>1, <3>5
      <4>7. Rises(seen[s])'
        <5>1. ASSUME NEW a \in 1..n + 1, NEW c \in 1..n + 1, a < c PROVE Before(p[a], p[c])
          <6>1. CASE c \in 1..n
            <7>1. a \in DOMAIN q /\ c \in DOMAIN q
              BY <6>1, <5>1, <4>2
            <7> QED BY <7>1, <5>1, <4>2, <3>0 DEF Rises
          <6>2. CASE c = n + 1
            <7>1. a \in 1..n /\ p[a] = q[a] /\ p[c] = <<b, i>>
              BY <6>2, <5>1, <4>2
            <7>2. p[a] \in Returned(s)
              BY <7>1, <4>2, <3>0
            <7>3. p[a] \in Used /\ Reached(s, p[a])
              BY <7>2, <3>1
            <7>4. p[a][2] \in Nat /\ p[a][1] \in Nat
              BY <7>3, <3>4, <1>5 DEF Slots
            <7>5. p[a][1] < b \/ (p[a][1] = b /\ p[a][2] <= k)
              BY <7>3, <3>2
            <7>6. i > k /\ i \in Nat
              BY <3>8, <1>7
            <7> QED BY <7>1, <7>4, <7>5, <7>6, <1>6 DEF Before
          <6> QED BY <6>1, <6>2
        <5> QED BY <5>1, <4>2 DEF Rises, Before
      <4> QED BY <4>2, <4>6, <4>7, <3>0, <3>6, <3>8, <1>3, <1>8 DEF SeenOK
    <3> QED BY <3>7, <3>8
  <2> QED BY <2>0, <2>1
<1> QED BY <1>11, <1>13

(* A shared lock, of a block that is there or of the end of the file.      *)
LEMMA ShareGrabs ==
  ASSUME IInv, lost = {}, NEW t \in Txs, NEW b \in Blocks, b <= Len(file), Share(t, b)
  PROVE  /\ Grabs(t) /\ lock'[t][b] # "none"
         /\ \A c \in Blocks : lock'[t][c] # "none" => lock[t][c] # "none" \/ c <= Len(file)
         /\ \A c \in Blocks : lock[t][c] # "none" => lock'[t][c] # "none"
<1>1. TypesOK /\ Excludes(lock) /\ lock \in [Txs -> [Blocks -> {"none", "S", "X"}]]
  BY DEF IInv, LocksOK, Excludes, TypesOK
<1>2. Grabs(t) /\ \A c \in Blocks : lock'[t][c] # "none" => lock[t][c] # "none" \/ c = b
  BY <1>1, OneLock
<1>3. \A c \in Blocks : lock[t][c] # "none" => lock'[t][c] # "none"
  BY ONLY <1>1, <1>2, t \in Txs, LocksGrow
<1>4. lock'[t][b] # "none"
  BY <1>1 DEF Share
<1> QED BY <1>2, <1>3, <1>4

(* The search in a block, for next() and for insert().                     *)
LEMMA SearchKeeps ==
  ASSUME IInv, NEW s \in Scans, NextAfter(s) \/ InsertAfter(s) PROVE IInv'
<1>1. PICK i \in 0..SlotsPerBlock, pc \in {"nextEnd", "idle", "insertEnd", "flag"} :
        /\ SlotGoes(s, i, pc)
        /\ \/ NextAfter(s) /\ pc = IF i = 0 THEN "nextEnd" ELSE "idle"
           \/ /\ InsertAfter(s) /\ i = SearchAfter(s, FALSE)
              /\ pc = IF i = 0 THEN "insertEnd" ELSE "flag"
  <2>1. scan[s].slot \in Nat
    BY ScanFacts
  <2>2. SearchAfter(s, TRUE) \in 0..SlotsPerBlock /\ SearchAfter(s, FALSE) \in 0..SlotsPerBlock
    BY <2>1, SearchFinds
  <2>3. CASE NextAfter(s)
    BY <2>2, <2>3 DEF NextAfter, SlotGoes
  <2>4. CASE InsertAfter(s)
    BY <2>2, <2>4 DEF InsertAfter, SlotGoes
  <2> QED BY <2>3, <2>4
<1>2. /\ lost = {} /\ scan[s].pc \in {"next", "insert"} /\ Share(Mine(s), scan[s].blk)
      /\ UNCHANGED <<file, pins, undo, committed, twice, lost, ops>>
      /\ InsertAfter(s) => seen' = seen /\ scan[s].pc = "insert"
  BY DEF NextAfter, InsertAfter, At
<1>3. /\ TypesOK /\ PinsOK /\ PinsBalanced /\ StateOK(s) /\ scan \in [Scans -> ScanType]
      /\ seen \in [Scans -> Seq(Nat \X Nat)]
  BY DEF IInv, TypesOK
<1>4. PICK t \in Txs : t = Mine(s)
  BY <1>2, ScanFacts
<1>5. /\ scan' \in [Scans -> ScanType] /\ \A u \in Scans \ {s} : scan'[u] = scan[u]
      /\ scan'[s].tx = t /\ scan'[s].pc = pc /\ scan'[s].blk = scan[s].blk /\ scan'[s].slot = i
      /\ scan'[s].ended = scan[s].ended
  <2>1. pc \in Steps \cup {"idle"} /\ SlotGoes(s, i, pc)
    BY <1>1 DEF Steps
  <2>2. /\ scan' \in [Scans -> ScanType] /\ \A u \in Scans \ {s} : scan'[u] = scan[u]
        /\ scan'[s].tx = Mine(s) /\ scan'[s].pc = pc /\ scan'[s].blk = scan[s].blk /\ scan'[s].slot = i
        /\ scan'[s].ended = scan[s].ended
    BY ONLY <2>1, <1>3, s \in Scans, i \in 0..SlotsPerBlock, SlotIs
  <2> QED BY <2>2, <1>4
<1>6. /\ scan[s].blk \in 1..Len(file) /\ Len(file) \in Nat /\ scan[s].blk \in Blocks
      /\ scan[s].slot \in Nat /\ ops \in 0..MaxOps
  BY <1>2, ScanFacts DEF Moves
<1>7. /\ Grabs(t) /\ lock'[t][scan[s].blk] # "none"
      /\ \A c \in Blocks : lock'[t][c] # "none" => lock[t][c] # "none" \/ c <= Len(file)
      /\ \A c \in Blocks : lock[t][c] # "none" => lock'[t][c] # "none"
  <2>1. scan[s].blk <= Len(file) /\ Share(t, scan[s].blk)
    BY <1>2, <1>4, <1>6
  <2> QED BY ONLY <2>1, <1>2, <1>6, IInv, t \in Txs, ShareGrabs
<1>8. \A b \in Blocks : Holds(s, b) => Holds(s, b)'
  BY <1>4, <1>5, <1>7 DEF Holds, Mine
<1>9. Only(s, t) /\ OneOp(s, t) /\ OneGoes(s) /\ OnePage(s)
  BY <1>1, <1>2, <1>4, <1>5 DEF Only, OneOp, InOp, Steps, OneGoes, OnePage, Mine
<1>10. PinsOK' /\ PinsBalanced'
  BY ONLY <1>9, <1>2, <1>3, s \in Scans, PagesStay
<1>11. StateOK(s)'
  BY <1>1, <1>2, <1>3, <1>4, <1>5, <1>6, TxsAssumption DEF StateOK, Moves
<1>12. SeenOK(s)' /\ seen' \in [Scans -> Seq(Nat \X Nat)] /\ \A u \in Scans \ {s} : seen'[u] = seen[u]
  <2>1. CASE NextAfter(s)
    BY ONLY <2>1, <1>4, <1>8, IInv, s \in Scans, t \in Txs, NextSeen
  <2>2. CASE InsertAfter(s) /\ ~NextAfter(s)
    <3>1. seen' = seen /\ scan'[s].pc \in {"insertEnd", "flag"}
      BY <2>2, <1>1, <1>2, <1>5
    <3>2. SeenOK(s)'
      <4> SUFFICES ASSUME seen[s] # Dirty PROVE SeenOK(s)'
        BY <3>1 DEF SeenOK
      <4>1. SeenOK(s) /\ 0..Len(file) \subseteq Blocks
        BY <1>2, ScanFacts DEF IInv
      <4>2. Returned(s)' = Returned(s) /\ (Rises(seen[s])' <=> Rises(seen[s])) /\ Used' = Used
        BY <3>1, <1>2 DEF Returned, Rises, Before, Used
      <4>3. Rises(seen[s]) /\ (scan[s].ended => Returned(s) = Used /\ \A b \in 0..Len(file) : Holds(s, b))
        BY <4>1 DEF SeenOK
      <4>4. scan'[s].ended => Returned(s)' = Used' /\ \A b \in 0..Len(file') : Holds(s, b)'
        BY <4>1, <4>2, <4>3, <1>2, <1>5, <1>8
      <4> QED BY <4>2, <4>3, <4>4, <3>1 DEF SeenOK
    <3> QED BY <3>1, <3>2, <1>3
  <2> QED BY <2>1, <2>2, <1>1
<1>13. ops' \in 0..MaxOps /\ (ops' = ops + 1 \/ (ops' = ops /\ (s \notin Growers' \/ s \in Growers)))
  <2>1. CASE s \notin Growers'
    BY <2>1, <1>2, <1>6
  <2>2. CASE s \in Growers'
    <3>1. pc = "insertEnd" /\ i = 0
      BY <2>2, <1>1, <1>5 DEF Growers
    <3>2. InsertAfter(s) /\ SearchAfter(s, FALSE) = 0
      BY <3>1, <1>1
    <3>3. ~Fresh(s)
      <4> SUFFICES ASSUME Fresh(s) PROVE FALSE
        OBVIOUS
      <4>1. scan[s].slot = 0 /\ ~file[scan[s].blk][1].used /\ 1 \in Slots
        BY SlotsAssumption DEF Fresh, Slots
      <4>2. file[scan[s].blk][1].used # FALSE
        <5>1. FALSE \in BOOLEAN
          OBVIOUS
        <5>2. \A j \in Slots : j > scan[s].slot => file[scan[s].blk][j].used # FALSE
          BY ONLY <5>1, <3>2, <1>6, SearchFinds
        <5>3. 1 \in Slots /\ 1 > scan[s].slot
          BY <4>1
        <5> QED BY ONLY <5>2, <5>3
      <4>3. file[scan[s].blk][1].used \in BOOLEAN
        BY <4>1, <1>3, <1>6 DEF TypesOK, FileType, Slot
      <4> QED BY <4>1, <4>2, <4>3
    <3>4. s \in Growers
      BY <3>2, <3>3, <1>2, <1>6 DEF Growers
    <3> QED BY <3>4, <1>2, <1>6
  <2> QED BY <2>1, <2>2
<1>14. /\ UNCHANGED <<file, undo, committed, lost>>
       /\ pins' \in [Txs -> [Blocks -> Nat]] /\ twice' \subseteq Blocks
       /\ scan'[s].pc = "append" => lock'[t][EOF] # "none" /\ (scan'[s].blk = 0 => file = << >>)
  BY <1>1, <1>2, <1>3, <1>5 DEF TypesOK
<1> QED BY ONLY <1>2, <1>5, <1>7, <1>9, <1>10, <1>11, <1>12, <1>13, <1>14, IInv, s \in Scans, t \in Txs, Quietly

(* A shared lock before an exclusive one.                                  *)
LEMMA ShareFirstKeeps ==
  ASSUME IInv, NEW s \in Scans, ShareFirst(s) PROVE IInv'
<1>1. /\ lost = {} /\ WantsX(s) /\ Share(Mine(s), Wanted(s))
      /\ UNCHANGED <<file, scan, pins, undo, committed, seen, twice, lost, ops>>
  BY DEF ShareFirst
<1>2. /\ TypesOK /\ PinsOK /\ PinsBalanced /\ StateOK(s) /\ SeenOK(s) /\ LocksOK
  BY <1>1 DEF IInv
<1>3. PICK t \in Txs : t = Mine(s)
  BY <1>1, ScanFacts DEF WantsX
<1>4. Wanted(s) \in Blocks /\ Wanted(s) <= Len(file)
  BY ScanFacts DEF Wanted
<1>5. /\ Grabs(t)
      /\ \A c \in Blocks : lock'[t][c] # "none" => lock[t][c] # "none" \/ c <= Len(file)
      /\ \A c \in Blocks : lock[t][c] # "none" => lock'[t][c] # "none"
  BY ONLY <1>1, <1>3, <1>4, IInv, ShareGrabs
<1>6. Only(s, t) /\ OneOp(s, t) /\ OneGoes(s) /\ OnePage(s)
  BY <1>1, <1>3 DEF Only, OneOp, InOp, WantsX, Steps, OneGoes, OnePage, Mine
<1>7. PinsOK' /\ PinsBalanced'
  BY ONLY <1>6, <1>1, <1>2, s \in Scans, PagesStay
<1>8. StateOK(s)'
  BY <1>1, <1>2 DEF StateOK
<1>9. SeenOK(s)'
  <2>1. \A b \in Blocks : Holds(s, b) => Holds(s, b)'
    BY <1>1, <1>3, <1>5 DEF Holds, Mine
  <2> QED BY <2>1, <1>1, SeenGoes DEF WantsX
<1>10. s \in Growers' => s \in Growers
  BY <1>1 DEF Growers, WantsX, Fresh
<1>11. ops' \in 0..MaxOps /\ (ops' = ops + 1 \/ (ops' = ops /\ (s \notin Growers' \/ s \in Growers)))
  BY <1>1, <1>10, ScanFacts
<1>12. /\ UNCHANGED <<file, undo, committed, lost>>
       /\ scan' \in [Scans -> ScanType] /\ seen' \in [Scans -> Seq(Nat \X Nat)]
       /\ \A u \in Scans \ {s} : seen'[u] = seen[u]
       /\ pins' \in [Txs -> [Blocks -> Nat]] /\ twice' \subseteq Blocks
  BY <1>1, <1>2 DEF TypesOK
<1>13. scan'[s].pc = "append" => lock'[t][EOF] # "none" /\ (scan'[s].blk = 0 => file = << >>)
  <2> SUFFICES ASSUME scan[s].pc = "append" PROVE lock'[t][EOF] # "none" /\ (scan[s].blk = 0 => file = << >>)
    BY <1>1
  <2>1. lock[t][EOF] # "none" /\ (scan[s].blk = 0 => file = << >>)
    BY <1>2, <1>3 DEF LocksOK
  <2> QED BY <2>1, <1>5, ScanFacts
<1> QED BY ONLY <1>1, <1>5, <1>6, <1>7, <1>8, <1>9, <1>11, <1>12, <1>13, IInv, s \in Scans, t \in Txs, Quietly

(* Behind the last slot of a block: the next block, the end, or a new block. *)
LEMMA EndOfBlockKeeps ==
  ASSUME IInv, NEW s \in Scans, AtEndOfBlock(s) PROVE IInv'
<1>1. /\ lost = {} /\ scan[s].pc \in {"nextEnd", "insertEnd"} /\ Share(Mine(s), EOF)
      /\ UNCHANGED <<file, undo, committed, seen, lost, ops>>
      /\ \/ scan[s].blk # Len(file) /\ MoveTo(s, scan[s].blk + 1, 0, IF scan[s].pc = "nextEnd" THEN "next" ELSE "insert")
         \/ /\ scan[s].blk = Len(file) /\ UNCHANGED <<pins, twice>>
            /\ scan' = IF scan[s].pc = "nextEnd" THEN [scan EXCEPT ![s].pc = "idle", ![s].ended = TRUE]
                       ELSE [scan EXCEPT ![s].pc = "append"]
  BY DEF AtEndOfBlock, PastBlock, At
<1>2. /\ TypesOK /\ PinsOK /\ PinsBalanced /\ StateOK(s) /\ SeenOK(s) /\ scan \in [Scans -> ScanType]
      /\ seen \in [Scans -> Seq(Nat \X Nat)]
  BY <1>1 DEF IInv, TypesOK
<1>3. PICK t \in Txs : t = Mine(s)
  BY <1>1, ScanFacts
<1>4. /\ scan[s].blk \in 1..Len(file) /\ Len(file) \in Nat /\ EOF \in Blocks /\ EOF = 0 /\ EOF <= Len(file)
      /\ 0..Len(file) \subseteq Blocks /\ ops \in 0..MaxOps
  BY <1>1, ScanFacts DEF Moves
<1>5. /\ Grabs(t) /\ lock'[t][EOF] # "none"
      /\ \A c \in Blocks : lock'[t][c] # "none" => lock[t][c] # "none" \/ c <= Len(file)
      /\ \A c \in Blocks : lock[t][c] # "none" => lock'[t][c] # "none"
  BY ONLY <1>1, <1>3, <1>4, IInv, ShareGrabs
<1>6. OneOp(s, t) /\ (scan[s].pc = "insertEnd" => s \in Growers)
  BY <1>1, <1>3, <1>4 DEF OneOp, InOp, Steps, Growers, Fresh
<1>7. PICK r \in ScanType : r = scan[s]
  BY <1>2
<1>8. Used' = Used /\ Returned(s)' = Returned(s) /\ (Rises(seen[s])' <=> Rises(seen[s]))
  BY <1>1 DEF Used, Returned, Rises, Before
<1>9. seen[s] # Dirty => Rises(seen[s])
  BY <1>2 DEF SeenOK
<1>10. ASSUME seen[s] # Dirty, scan[s].pc = "nextEnd"
       PROVE  /\ Returned(s) = {x \in Used : x[1] <= scan[s].blk}
              /\ \A b \in 1..Len(file) : b <= scan[s].blk => Holds(s, b)
  <2>1. /\ Returned(s) = {x \in Used : Reached(s, x)}
        /\ \A b \in 1..Len(file) : Passed(s, b) => Holds(s, b)
    BY <1>2, <1>10 DEF SeenOK
  <2>2. ASSUME NEW x \in Used PROVE Reached(s, x) <=> x[1] <= scan[s].blk
    <3>1. x[1] \in 1..Len(file)
      BY DEF Used
    <3> QED BY <3>1, <1>4, <1>10 DEF Reached
  <2>3. ASSUME NEW b \in 1..Len(file) PROVE Passed(s, b) <=> b <= scan[s].blk
    BY <1>4, <1>10 DEF Passed
  <2> QED BY <2>1, <2>2, <2>3
<1>11. CASE scan[s].blk # Len(file) /\ MoveTo(s, scan[s].blk + 1, 0, IF scan[s].pc = "nextEnd" THEN "next" ELSE "insert")
  <2>1. PICK b \in 1..Len(file), pc \in {"idle", "next", "insert"} :
          b = scan[s].blk + 1 /\ pc = IF scan[s].pc = "nextEnd" THEN "next" ELSE "insert"
    BY <1>4, <1>11
  <2>2. MoveTo(s, b, 0, pc) /\ 0 \in 0..SlotsPerBlock /\ b \in Nat
    BY <2>1, <1>11, SlotsAssumption
  <2>3. /\ scan'[s].tx = t /\ scan'[s].pc = pc /\ scan'[s].blk = b /\ scan'[s].slot = 0 /\ ~scan'[s].ended
    <3>1. pc \in Steps \cup {"none", "idle", "closed"}
      BY DEF Steps
    <3> QED BY <3>1, <2>2, <1>2, <1>3, MoveIs
  <2>4. SeenOK(s)'
    <3> SUFFICES ASSUME seen[s] # Dirty PROVE SeenOK(s)'
      BY <1>1 DEF SeenOK
    <3>1. CASE scan[s].pc # "nextEnd"
      BY <3>1, <2>1, <2>3, <1>1, <1>8, <1>9 DEF SeenOK
    <3>2. CASE scan[s].pc = "nextEnd"
      <4>1. ASSUME NEW x \in Used PROVE Reached(s, x)' <=> x[1] <= scan[s].blk
        <5>1. x[1] \in 1..Len(file) /\ x[2] \in Slots
          BY DEF Used
        <5>2. x[1] \in Nat /\ x[2] \in Nat /\ x[2] # 0
          BY <5>1, <1>4 DEF Slots
        <5> QED BY <5>2, <3>2, <2>1, <2>3, <1>4 DEF Reached
      <4>2. ASSUME NEW c \in 1..Len(file) PROVE Passed(s, c)' <=> c <= scan[s].blk
        BY <3>2, <2>1, <2>3, <1>4 DEF Passed
      <4>3. Returned(s)' = {x \in Used' : Reached(s, x)'}
        BY <4>1, <3>2, <1>8, <1>10
      <4>4. \A c \in 1..Len(file') : Passed(s, c)' => Holds(s, c)'
        <5>1. ASSUME NEW c \in 1..Len(file), Passed(s, c)' PROVE Holds(s, c)'
          <6>1. lock[Mine(s)][c] # "none"
            BY <5>1, <4>2, <3>2, <1>10 DEF Holds
          <6>2. lock'[t][c] # "none"
            BY <6>1, <1>3, <1>4, <1>5
          <6> QED BY <6>2, <2>3 DEF Holds, Mine
        <5> QED BY <5>1, <1>1
      <4> QED BY <4>3, <4>4, <3>2, <2>1, <2>3, <1>1, <1>8, <1>9 DEF SeenOK
    <3> QED BY <3>1, <3>2
  <2>5. seen' \in [Scans -> Seq(Nat \X Nat)] /\ (\A u \in Scans \ {s} : seen'[u] = seen[u])
        /\ Mine(s) = t /\ (pc = "insert" => s \in Growers) /\ UNCHANGED <<file, undo, committed, lost, ops>>
    BY <2>1, <1>1, <1>2, <1>3, <1>6
  <2> QED BY ONLY <2>2, <2>4, <2>5, <1>1, <1>5, <1>6, IInv, s \in Scans, t \in Txs, b \in 1..Len(file), pc \in {"idle", "next", "insert"}, MoveKeeps
<1>12. CASE /\ scan[s].blk = Len(file) /\ UNCHANGED <<pins, twice>>
            /\ scan' = IF scan[s].pc = "nextEnd" THEN [scan EXCEPT ![s].pc = "idle", ![s].ended = TRUE]
                       ELSE [scan EXCEPT ![s].pc = "append"]
  <2>1. PICK q : q = IF r.pc = "nextEnd" THEN [r EXCEPT !.pc = "idle", !.ended = TRUE] ELSE [r EXCEPT !.pc = "append"]
    OBVIOUS
  <2>2. /\ q \in ScanType /\ q.tx = r.tx /\ q.blk = r.blk /\ q.slot = r.slot
        /\ r.pc = "nextEnd" => q.pc = "idle" /\ q.ended
        /\ r.pc # "nextEnd" => q.pc = "append" /\ q.ended = r.ended
    <3>1. CASE r.pc = "nextEnd"
      BY <3>1, <2>1 DEF ScanType
    <3>2. CASE r.pc # "nextEnd"
      BY <3>2, <2>1 DEF ScanType, Steps
    <3> QED BY <3>1, <3>2
  <2>3. scan' = [scan EXCEPT ![s] = q]
    <3>1. CASE r.pc = "nextEnd"
      BY <3>1, <2>1, <1>7, <1>12
    <3>2. CASE r.pc # "nextEnd"
      BY <3>2, <2>1, <1>7, <1>12
    <3> QED BY <3>1, <3>2
  <2>4. scan' \in [Scans -> ScanType] /\ scan'[s] = q /\ \A u \in Scans \ {s} : scan'[u] = scan[u]
    BY <2>2, <2>3, <1>2
  <2>5. Only(s, t) /\ OneGoes(s) /\ OnePage(s)
    BY <2>2, <2>4, <1>1, <1>3, <1>7 DEF Only, OneGoes, OnePage, Mine
  <2>6. PinsOK' /\ PinsBalanced'
    BY ONLY <2>5, <1>2, <1>12, s \in Scans, PagesStay
  <2>7. StateOK(s)'
    BY <2>2, <2>4, <1>1, <1>2, <1>3, <1>4, <1>7, TxsAssumption DEF StateOK, Moves
  <2>8. SeenOK(s)'
    <3> SUFFICES ASSUME seen[s] # Dirty PROVE SeenOK(s)'
      BY <1>1 DEF SeenOK
    <3>1. CASE r.pc = "nextEnd"
      <4>1. Returned(s)' = Used'
        <5>1. \A x \in Used : x[1] <= scan[s].blk
          BY <1>4, <1>12 DEF Used
        <5> QED BY <5>1, <3>1, <1>7, <1>8, <1>10
      <4>2. ASSUME NEW b \in 0..Len(file) PROVE Holds(s, b)'
        <5>1. lock'[t][b] # "none"
          <6>1. CASE b = 0
            BY <6>1, <1>4, <1>5
          <6>2. CASE b # 0
            <7>1. b \in 1..Len(file) /\ b <= scan[s].blk /\ b \in Blocks
              BY <6>2, <1>4, <1>12
            <7>2. lock[t][b] # "none"
              BY <7>1, <3>1, <1>3, <1>7, <1>10 DEF Holds
            <7> QED BY <7>1, <7>2, <1>5
          <6> QED BY <6>1, <6>2
        <5> QED BY <5>1, <2>2, <2>4, <1>3, <1>7 DEF Holds, Mine
      <4> QED BY <4>1, <4>2, <3>1, <2>2, <2>4, <1>1, <1>8, <1>9 DEF SeenOK
    <3>2. CASE r.pc # "nextEnd"
      <4>1. \A b \in Blocks : Holds(s, b) => Holds(s, b)'
        BY <2>2, <2>4, <1>3, <1>5, <1>7 DEF Holds, Mine
      <4>2. /\ scan'[s].tx = scan[s].tx /\ scan'[s].blk = scan[s].blk /\ scan'[s].slot = scan[s].slot
            /\ scan'[s].ended = scan[s].ended /\ scan[s].pc = "insertEnd" /\ scan'[s].pc = "append" /\ seen'[s] = seen[s]
        BY <3>2, <2>2, <2>4, <1>1, <1>7
      <4> QED BY ONLY <4>1, <4>2, <1>1, IInv, s \in Scans, SeenGoes
    <3> QED BY <3>1, <3>2
  <2>9. ops' \in 0..MaxOps /\ (ops' = ops + 1 \/ (ops' = ops /\ (s \notin Growers' \/ s \in Growers)))
    BY <2>2, <2>4, <1>1, <1>4, <1>6, <1>7 DEF Growers
  <2>10. /\ UNCHANGED <<file, undo, committed, lost>>
         /\ pins' \in [Txs -> [Blocks -> Nat]] /\ twice' \subseteq Blocks
         /\ seen' \in [Scans -> Seq(Nat \X Nat)] /\ \A u \in Scans \ {s} : seen'[u] = seen[u]
         /\ scan'[s].pc = "append" => lock'[t][EOF] # "none" /\ (scan'[s].blk = 0 => file = << >>)
    BY <2>2, <2>4, <1>1, <1>2, <1>4, <1>5, <1>7, <1>12 DEF TypesOK
  <2> QED BY ONLY <1>1, <1>5, <1>6, <2>4, <2>5, <2>6, <2>7, <2>8, <2>9, <2>10, IInv, s \in Scans, t \in Txs, Quietly
<1> QED BY <1>1, <1>11, <1>12

(***************************************************************************)
(* Changes of the file.                                                    *)
(***************************************************************************)
(* What a transaction has changed is in its log, locked, and its alone.    *)
LEMMA UndoFits ==
  ASSUME IInv, lost = {}, NEW t \in Txs
  PROVE  /\ Fits(undo[t], file) /\ Changed(t) = ChangedIn(undo[t])
         /\ \A b, i : <<b, i>> \in Changed(t) =>
              /\ b \in 1..Len(file) /\ b \in Blocks /\ i \in Slots /\ lock[t][b] = "X"
              /\ \A u \in Others(t) : lock[u][b] = "none" /\ <<b, i>> \notin Changed(u)
<1>1. /\ undo \in [Txs -> Seq(UndoType)] /\ file \in FileType /\ Len(file) <= MaxBlocks
      /\ Excludes(lock) /\ UndoOK /\ MaxBlocks \in Nat /\ Len(file) \in Nat
  BY BoundsAssumption DEF IInv, TypesOK, LocksOK, Excludes, MaxBlocks, FileType
<1>2. ASSUME NEW u \in Txs, NEW k \in DOMAIN undo[u]
      PROVE  /\ undo[u][k].blk \in 1..Len(file) /\ undo[u][k].slot \in Slots
             /\ lock[u][undo[u][k].blk] = "X"
  <2>1. undo[u][k].blk \in 1..Len(file) /\ lock[u][undo[u][k].blk] = "X"
    BY <1>1 DEF UndoOK
  <2>2. undo[u][k] \in UndoType
    BY <1>1
  <2> QED BY <2>1, <2>2 DEF UndoType
<1>3. ASSUME NEW u \in Txs, NEW b, NEW i, <<b, i>> \in Changed(u)
      PROVE  b \in 1..Len(file) /\ i \in Slots /\ lock[u][b] = "X"
  <2>1. PICK k \in DOMAIN undo[u] : <<b, i>> = <<undo[u][k].blk, undo[u][k].slot>>
    BY <1>3 DEF Changed
  <2>2. b = undo[u][k].blk /\ i = undo[u][k].slot
    BY <2>1
  <2> QED BY <2>2, <1>2
<1>4. Fits(undo[t], file)
  BY <1>1, <1>2 DEF Fits
<1>5. Changed(t) = ChangedIn(undo[t])
  BY DEF Changed, ChangedIn
<1>6. ASSUME NEW b, NEW i, <<b, i>> \in Changed(t)
      PROVE  /\ b \in 1..Len(file) /\ b \in Blocks /\ i \in Slots /\ lock[t][b] = "X"
             /\ \A u \in Others(t) : lock[u][b] = "none" /\ <<b, i>> \notin Changed(u)
  <2>1. b \in 1..Len(file) /\ i \in Slots /\ lock[t][b] = "X" /\ b \in Blocks
    BY <1>1, <1>3, <1>6 DEF Blocks
  <2>2. ASSUME NEW u \in Others(t) PROVE lock[u][b] = "none" /\ <<b, i>> \notin Changed(u)
    <3>1. u \in Txs /\ lock[u][b] = "none"
      BY <2>1, <1>1 DEF Others, Excludes
    <3>2. <<b, i>> \notin Changed(u)
      <4> SUFFICES ASSUME <<b, i>> \in Changed(u) PROVE FALSE
        OBVIOUS
      <4>1. lock[u][b] = "X"
        BY <3>1, <1>3
      <4> QED BY <3>1, <4>1
    <3> QED BY <3>1, <3>2
  <2> QED BY <2>1, <2>2
<1> QED BY <1>4, <1>5, <1>6

\* The parts of a record's place.
Place(r) == <<r[1], r[2]>>

(* Two files whose slots agree on a set have there the same records.       *)
LEMMA SameRecords ==
  ASSUME NEW f \in FileType, NEW g \in FileType, NEW P,
         \A b, i : <<b, i>> \in P =>
           (b \in 1..Len(f) /\ i \in Slots <=> b \in 1..Len(g) /\ i \in Slots) /\ (b \in 1..Len(f) /\ i \in Slots => f[b][i] = g[b][i])
  PROVE  \A r : r \in RecordsIn(f) /\ Place(r) \in P <=> r \in RecordsIn(g) /\ Place(r) \in P
<1>1. ASSUME NEW h \in FileType, NEW r
      PROVE r \in RecordsIn(h) <=> \E b \in 1..Len(h), i \in Slots : h[b][i].used /\ r = <<b, i, h[b][i].val>>
  BY RecordsAre
<1>2. ASSUME NEW r, r \in RecordsIn(f), Place(r) \in P PROVE r \in RecordsIn(g)
  <2>1. PICK b \in 1..Len(f), i \in Slots : f[b][i].used /\ r = <<b, i, f[b][i].val>>
    BY <1>1, <1>2
  <2>2. Place(r) = <<b, i>>
    BY <2>1 DEF Place
  <2>3. b \in 1..Len(g) /\ f[b][i] = g[b][i]
    BY <2>2, <1>2
  <2> QED BY <2>1, <2>3, <1>1
<1>3. ASSUME NEW r, r \in RecordsIn(g), Place(r) \in P PROVE r \in RecordsIn(f)
  <2>1. PICK b \in 1..Len(g), i \in Slots : g[b][i].used /\ r = <<b, i, g[b][i].val>>
    BY <1>1, <1>3
  <2>2. Place(r) = <<b, i>>
    BY <2>1 DEF Place
  <2>3. b \in 1..Len(f) /\ f[b][i] = g[b][i]
    BY <2>2, <1>3
  <2> QED BY <2>1, <2>3, <1>1
<1> QED BY <1>2, <1>3

(* A block more.                                                           *)
LEMMA Longer ==
  ASSUME NEW f \in FileType
  PROVE  /\ Append(f, Empty) \in FileType /\ Len(Append(f, Empty)) = Len(f) + 1 /\ Len(f) \in Nat
         /\ \A b \in 1..Len(f) : Append(f, Empty)[b] = f[b]
         /\ \A i \in Slots : Append(f, Empty)[Len(f) + 1][i] = [used |-> FALSE, val |-> 0]
         /\ RecordsIn(Append(f, Empty)) = RecordsIn(f)
<1>1. Empty \in [Slots -> Slot] /\ \A i \in Slots : Empty[i] = [used |-> FALSE, val |-> 0]
  BY DEF Empty, Slot
<1>2. PICK g : g = Append(f, Empty)
  OBVIOUS
<1>3. /\ g \in FileType /\ Len(g) = Len(f) + 1 /\ Len(f) \in Nat
      /\ \A b \in 1..Len(f) : g[b] = f[b]
      /\ g[Len(f) + 1] = Empty
  <2> HIDE DEF Empty
  <2> QED BY <1>1, <1>2 DEF FileType
<1>4. ASSUME NEW r, r \in RecordsIn(f) PROVE r \in RecordsIn(g)
  <2>1. PICK b \in 1..Len(f), i \in Slots : f[b][i].used /\ r = <<b, i, f[b][i].val>>
    BY <1>4, RecordsAre
  <2>2. b \in 1..Len(g) /\ g[b] = f[b]
    BY <1>3
  <2> QED BY <2>1, <2>2, <1>3, RecordsAre
<1>5. ASSUME NEW r, r \in RecordsIn(g) PROVE r \in RecordsIn(f)
  <2>1. PICK b \in 1..Len(g), i \in Slots : g[b][i].used /\ r = <<b, i, g[b][i].val>>
    BY <1>3, <1>5, RecordsAre
  <2>2. b # Len(f) + 1
    BY <2>1, <1>1, <1>3
  <2>3. b \in 1..Len(f) /\ g[b] = f[b]
    BY <2>2, <1>3
  <2> QED BY <2>1, <2>3, RecordsAre
<1> QED BY <1>1, <1>2, <1>3, <1>4, <1>5

(* A block is appended.                                                    *)
LEMMA AppendKeeps ==
  ASSUME IInv, NEW s \in Scans, MoveToNewBlock(s) PROVE IInv'
<1>1. PICK n \in Nat, m \in Nat, t \in Txs : n = Len(file) /\ m = n + 1 /\ t = Mine(s)
  <2>1. scan[s].pc # "none"
    BY DEF MoveToNewBlock, At
  <2> QED BY <2>1, ScanFacts
<1>2. /\ lost = {} /\ scan[s].pc = "append"
      /\ lock[t][EOF] # "none" /\ CanExclude(t, EOF)
      /\ lock' = [lock EXCEPT ![t][EOF] = "X", ![t][m] = "X"]
      /\ file' = Append(file, Empty)
      /\ MoveTo(s, m, 0, IF scan[s].blk = 0 THEN "idle" ELSE "insert")
      /\ UNCHANGED <<undo, committed, seen, lost, ops>>
  BY <1>1 DEF MoveToNewBlock, At
<1>3. /\ TypesOK /\ PinsOK /\ PinsBalanced /\ OneThread /\ LocksOK /\ UndoOK /\ GrowthOK /\ CommittedOK
      /\ \A u \in Scans : StateOK(u) /\ SeenOK(u)
      /\ scan \in [Scans -> ScanType] /\ seen \in [Scans -> Seq(Nat \X Nat)]
      /\ lock \in [Txs -> [Blocks -> {"none", "S", "X"}]]
  BY <1>2 DEF IInv, TypesOK
<1>4. /\ file \in FileType /\ file' \in FileType /\ Len(file') = m
      /\ \A b \in 1..n : file'[b] = file[b]
      /\ \A i \in Slots : ~file'[m][i].used
  BY <1>1, <1>2, <1>3, Longer DEF TypesOK
<1>5. /\ scan[s].blk \in 0..n /\ 0..n \subseteq Blocks /\ Blocks \subseteq Nat /\ EOF \in Blocks /\ EOF = 0
      /\ ops \in 0..MaxOps /\ MaxOps \in Nat /\ MaxOld \in Nat
  BY <1>1, ScanFacts, BoundsAssumption
<1>6. /\ scan[s].blk = 0 => n = 0
      /\ scan[s].blk # 0 => s \in Growers
  <2>1. scan[s].blk = 0 => file = << >>
    BY <1>2, <1>3 DEF LocksOK
  <2> QED BY <2>1, <1>1, <1>2 DEF Growers, Fresh
<1>7. m <= MaxBlocks /\ m \in Blocks \ {EOF}
  <2>1. m <= MaxOld + 1 + ops
    <3>1. CASE scan[s].blk = 0
      BY <3>1, <1>1, <1>5, <1>6
    <3>2. CASE scan[s].blk # 0
      <4>1. PICK G : G = Growers
        OBVIOUS
      <4>2. G \subseteq Scans /\ s \in G
        BY <4>1, <3>2, <1>6 DEF Growers
      <4>3. /\ Cardinality(G) \in Nat /\ Cardinality(G \ {s}) = Cardinality(G) - 1
            /\ Cardinality(G \ {s}) \in Nat
        <5>1. G \ {s} \subseteq Scans
          BY <4>2
        <5> QED BY ONLY <4>2, <5>1, s \in Scans, OneMoreOrLess
      <4>4. n + Cardinality(G) <= MaxOld + 1 + ops
        BY <4>1, <1>1, <1>3 DEF GrowthOK
      <4> QED BY <4>3, <4>4, <1>1, <1>5
    <3> QED BY <3>1, <3>2
  <2> QED BY <2>1, <1>1, <1>5 DEF MaxBlocks, Blocks
<1>8. /\ scan' \in [Scans -> ScanType] /\ \A u \in Scans \ {s} : scan'[u] = scan[u]
      /\ scan'[s].tx = t /\ scan'[s].blk = m /\ scan'[s].slot = 0 /\ ~scan'[s].ended
      /\ scan'[s].pc = IF scan[s].blk = 0 THEN "idle" ELSE "insert"
  <2>1. PICK pc \in Steps \cup {"none", "idle", "closed"} : pc = IF scan[s].blk = 0 THEN "idle" ELSE "insert"
    BY DEF Steps
  <2>2. MoveTo(s, m, 0, pc) /\ 0 \in 0..SlotsPerBlock
    BY <2>1, <1>2, SlotsAssumption
  <2> QED BY <2>1, <2>2, <1>1, <1>3, MoveIs
<1>9. PinsOK' /\ PinsBalanced' /\ pins' \in [Txs -> [Blocks -> Nat]] /\ twice' \subseteq Blocks
  <2>1. PICK pc : pc = IF scan[s].blk = 0 THEN "idle" ELSE "insert"
    OBVIOUS
  <2>2. pc # "closed" /\ Mine(s) \in Txs /\ scan[s].blk \in Blocks /\ MoveTo(s, m, 0, pc)
    BY <2>1, <1>1, <1>2, <1>5
  <2> QED BY ONLY <2>2, <1>3, <1>7, s \in Scans, PinsMove
<1>10. /\ lock' \in [Txs -> [Blocks -> {"none", "S", "X"}]]
       /\ lock'[t][EOF] = "X" /\ lock'[t][m] = "X"
       /\ \A c \in Blocks \ {EOF, m} : lock'[t][c] = lock[t][c]
       /\ \A u \in Txs \ {t} : lock'[u] = lock[u]
  <2>1. PICK l \in [Blocks -> {"none", "S", "X"}] : l = lock[t]
    BY <1>3
  <2>2. PICK k : k = [l EXCEPT ![EOF] = "X", ![m] = "X"]
    OBVIOUS
  <2>3. k \in [Blocks -> {"none", "S", "X"}] /\ k[EOF] = "X" /\ k[m] = "X" /\ \A c \in Blocks \ {EOF, m} : k[c] = l[c]
    BY <2>2, <1>5, <1>7
  <2>4. lock' = [lock EXCEPT ![t] = k]
    BY <2>1, <2>2, <1>2, <1>3
  <2> QED BY <2>1, <2>3, <2>4, <1>3
<1>11. \A u \in Others(t) : lock[u][EOF] = "none" /\ lock[u][m] = "none"
  <2>1. ASSUME NEW u \in Others(t) PROVE lock[u][m] = "none"
    <3>1. lock[u][m] # "none" => m <= Len(file)
      BY <1>3, <1>7 DEF LocksOK, Others
    <3> QED BY <3>1, <1>1
  <2> QED BY <2>1, <1>2 DEF CanExclude
<1>12. Grabs(t)
  BY <1>10, <1>11 DEF Grabs, Others
<1>13. /\ Excludes(lock')
       /\ \A u \in Txs, b \in Blocks : /\ lock[u][b] = "X" => lock'[u][b] = "X"
                                       /\ lock[u][b] # "none" => lock'[u][b] # "none"
  <2>1. Excludes(lock)
    BY <1>3 DEF LocksOK, Excludes
  <2> QED BY ONLY <2>1, <1>3, <1>12, t \in Txs, LocksGrow
<1>14. TypesOK'
  BY <1>2, <1>3, <1>4, <1>7, <1>8, <1>9, <1>10 DEF TypesOK
<1>15. Only(s, t) /\ OneOp(s, t)
  BY <1>1, <1>2, <1>8 DEF Only, OneOp, InOp, Steps
<1>16. StateOK(s)'
  BY <1>1, <1>4, <1>8, TxsAssumption DEF StateOK
<1>17. \A u \in Scans : StateOK(u)'
  <2>1. Len(file) <= Len(file') /\ Only(s, t)
    BY <1>1, <1>4, <1>15
  <2> QED BY ONLY <2>1, <1>3, <1>4, <1>16, s \in Scans, OtherStates
<1>18. OneThread'
  BY <1>3, <1>15, OneOpStays
<1>19. LocksOK'
  <2>1. ASSUME NEW u \in Txs, NEW b \in Blocks, lock'[u][b] # "none" PROVE b <= Len(file')
    <3>0. lock[u][b] # "none" => b <= n
      BY <1>1, <1>3 DEF LocksOK
    <3>1. lock[u][b] # "none" \/ b = EOF \/ b = m
      BY <2>1, <1>10
    <3> QED BY <3>0, <3>1, <1>1, <1>4, <1>5
  <2>2. ASSUME NEW u \in Scans, scan'[u].pc = "append" PROVE FALSE
    <3>1. u # s /\ scan[u].pc = "append"
      BY <2>2, <1>8
    <3>2. Mine(u) \in Txs /\ lock[Mine(u)][EOF] # "none"
      BY <3>1, <1>3, ScanFacts DEF LocksOK
    <3>3. Mine(u) = t
      BY <3>2, <1>11 DEF Others
    <3> QED BY <3>1, <3>3, <1>1, <1>2, <1>3 DEF OneThread, InOp, Steps
  <2> QED BY <2>1, <2>2, <1>13 DEF LocksOK, Excludes
<1>20. UndoOK'
  <2>1. ASSUME NEW u \in Txs, NEW k \in DOMAIN undo[u]
        PROVE  undo[u][k].blk \in 1..m /\ lock'[u][undo[u][k].blk] = "X"
    <3>1. undo[u][k].blk \in 1..n /\ lock[u][undo[u][k].blk] = "X"
      BY <1>1, <1>3 DEF UndoOK
    <3>2. undo[u][k].blk \in Blocks /\ undo[u][k].blk \in 1..m
      BY <3>1, <1>1, <1>5
    <3> QED BY <3>1, <3>2, <1>13
  <2> QED BY <2>1, <1>2, <1>4 DEF UndoOK
<1>21. GrowthOK'
  <2>1. ASSUME NEW u \in Growers', u # s PROVE u \in Growers
    <3>1. u \in Scans /\ scan'[u] = scan[u] /\ ~Fresh(u)' /\ scan[u].pc # "none" /\ scan[u].blk # 0
      BY <2>1, <1>8 DEF Growers
    <3>2. ~Fresh(u)
      <4> SUFFICES ASSUME Fresh(u) PROVE FALSE
        OBVIOUS
      <4>1. Mine(u) \in Txs /\ scan[u].blk \in Blocks /\ scan[u].blk \in 1..n
        BY <3>1, <1>1, ScanFacts
      <4>2. lock'[Mine(u)][scan[u].blk] = "X" /\ file'[scan[u].blk] = file[scan[u].blk]
        BY <4>1, <1>4, <1>13 DEF Fresh
      <4> QED BY <4>2, <3>1, FreshStays
    <3> QED BY <3>1, <3>2, <2>1 DEF Growers
  <2>2. CASE scan[s].blk # 0
    <3>1. Fresh(s)'
      BY <2>2, <1>4, <1>8, <1>10 DEF Fresh, Mine
    <3>2. s \in Growers /\ s \notin Growers'
      BY <3>1, <2>2, <1>6 DEF Growers
    <3>3. /\ Growers' \subseteq Growers \cup {s} /\ ops' \in Nat /\ ops' = ops
          /\ Len(file') = Len(file) + 1
      BY <2>1, <1>1, <1>2, <1>4, <1>5
    <3> QED BY ONLY <3>2, <3>3, <1>3, <1>4, s \in Scans, Room
  <2>3. CASE scan[s].blk = 0
    <3>1. Growers' = {}
      <4>1. ASSUME NEW u \in Growers' PROVE FALSE
        <5>1. u # s
          BY <2>3, <1>8 DEF Growers
        <5>2. u \in Scans /\ scan[u].blk # 0
          BY <5>1, <1>8 DEF Growers
        <5>3. scan[u].blk \in 0..n
          BY <5>2, <1>1, ScanFacts
        <5> QED BY <5>2, <5>3, <2>3, <1>6
      <4> QED BY <4>1
    <3>2. Cardinality(Growers') = 0
      BY <3>1, FS_EmptySet
    <3>3. m + 0 <= MaxOld + 1 + ops
      BY <2>3, <1>1, <1>5, <1>6
    <3> QED BY <3>2, <3>3, <1>2, <1>4 DEF GrowthOK
  <2> QED BY <2>2, <2>3
<1>22. CommittedOK'
  <2>1. PICK w \in FileType : TakenBack(w)
    BY <1>3 DEF CommittedOK, TakenBack
  <2>2. PICK v : v = Append(w, Empty)
    OBVIOUS
  <2>3. Len(w) = n /\ committed = RecordsIn(w)
    BY <2>1, <1>1 DEF TakenBack
  <2>4. /\ v \in FileType /\ Len(v) = m /\ RecordsIn(v) = committed
        /\ \A b \in 1..n : v[b] = w[b]
        /\ \A i \in Slots : v[m][i] = file'[m][i]
    BY <2>2, <2>3, <1>1, <1>2, <1>3, <1>4, Longer
  <2>5. \A u : Changed(u)' = Changed(u)
    BY <1>2 DEF Changed
  <2>6. ASSUME NEW b \in 1..m, NEW i \in Slots
        PROVE  /\ (\A u \in Txs : <<b, i>> \notin Changed(u)) => v[b][i] = file'[b][i]
               /\ \A u \in Txs : <<b, i>> \in Changed(u) => v[b][i] = Undone(file', undo[u])[b][i]
    <3>1. CASE b = m
      <4>1. \A u \in Txs : <<b, i>> \notin Changed(u)
        <5>1. ASSUME NEW u \in Txs, <<b, i>> \in Changed(u) PROVE FALSE
          <6>1. b \in 1..n
            BY <5>1, <1>1, <1>2, UndoFits
          <6> QED BY <6>1, <3>1, <1>1
        <5> QED BY <5>1
      <4> QED BY <4>1, <3>1, <2>4
    <3>2. CASE b # m
      <4>1. b \in 1..n /\ v[b] = w[b] /\ file'[b] = file[b]
        BY <3>2, <2>4, <1>1, <1>4
      <4>2. ASSUME NEW u \in Txs, <<b, i>> \in Changed(u) PROVE v[b][i] = Undone(file', undo[u])[b][i]
        <5>1. w[b][i] = Undone(file, undo[u])[b][i]
          BY <4>1, <4>2, <2>1, <1>1 DEF TakenBack
        <5>2. Fits(undo[u], file) /\ <<b, i>> \in ChangedIn(undo[u])
          BY <4>2, <1>2, UndoFits
        <5>3. Fits(undo[u], file')
          <6>1. 1..Len(file) \subseteq 1..Len(file')
            BY <1>1, <1>4
          <6> QED BY <6>1, <5>2 DEF Fits
        <5>4. b \in 1..Len(file) /\ b \in 1..Len(file')
          BY <4>1, <1>1, <1>4
        <5>5. Undone(file', undo[u])[b][i] = Undone(file, undo[u])[b][i]
          <6>1. PICK h \in FileType : h = file'
            BY <1>4
          <6> QED BY ONLY <6>1, <5>2, <5>3, <5>4, <1>4, i \in Slots, UndoneSlots
        <5> QED BY <5>1, <5>5, <4>1
      <4>3. (\A u \in Txs : <<b, i>> \notin Changed(u)) => w[b][i] = file[b][i]
        BY <4>1, <2>1, <1>1 DEF TakenBack
      <4> QED BY <4>1, <4>2, <4>3
    <3> QED BY <3>1, <3>2
  <2>7. TakenBack(v)'
    BY <2>4, <2>5, <2>6, <1>2, <1>4 DEF TakenBack
  <2> QED BY <2>7 DEF CommittedOK
<1>23. \A u \in Scans : SeenOK(u)'
  <2>1. SeenOK(s)'
    <3>1. CASE scan[s].blk = 0
      <4>1. seen'[s] \in {<< >>, Dirty}
        BY <3>1, <1>2, <1>3 DEF SeenOK
      <4>2. scan'[s].blk = 1 /\ scan'[s].slot = 0 /\ scan'[s].pc = "idle" /\ ~scan'[s].ended
        BY <3>1, <1>1, <1>6, <1>8
      <4> QED BY <4>1, <4>2, SeenStart
    <3>2. CASE scan[s].blk # 0
      <4>1. seen[s] # Dirty => Rises(seen[s])'
        <5>1. seen[s] # Dirty => Rises(seen[s])
          BY <1>3 DEF SeenOK
        <5>2. Rises(seen[s])' <=> Rises(seen[s])
          BY <1>2 DEF Rises, Before
        <5> QED BY <5>1, <5>2
      <4> QED BY <4>1, <3>2, <1>2, <1>8 DEF SeenOK
    <3> QED BY <3>1, <3>2
  <2>2. ASSUME NEW u \in Scans \ {s} PROVE SeenOK(u)'
    <3>1. scan'[u] = scan[u] /\ seen'[u] = seen[u] /\ StateOK(u) /\ SeenOK(u) /\ u \in Scans
      BY <1>2, <1>3, <1>8
    <3>2. Mine(u) \in Txs => \A b \in Blocks : Holds(u, b) => Holds(u, b)'
      BY <3>1, <1>13 DEF Holds, Mine
    <3>3. /\ Len(file) <= Len(file') /\ file' \in FileType /\ Len(file') <= MaxBlocks
          /\ Mine(u) \in Txs => \A b \in 1..Len(file) : Holds(u, b) => file'[b] = file[b]
      BY <1>1, <1>4, <1>7
    <3>4. ASSUME NEW b \in 1..Len(file'), b > Len(file), Holds(u, EOF), Mine(u) \in Txs
          PROVE  Holds(u, b)' /\ \A i \in Slots : ~file'[b][i].used
      <4>1. b = m
        BY <3>4, <1>1, <1>4
      <4>2. Mine(u) = t
        BY <3>4, <1>11 DEF Holds, Others
      <4> QED BY <4>1, <4>2, <3>1, <1>4, <1>10 DEF Holds, Mine
    <3> QED BY ONLY <3>1, <3>2, <3>3, <3>4, <1>3, SeenStays
  <2> QED BY <2>1, <2>2
<1> QED BY <1>9, <1>14, <1>17, <1>18, <1>19, <1>20, <1>21, <1>22, <1>23 DEF IInv

(* A slot is written.                                                      *)
LEMMA WriteKeeps ==
  ASSUME IInv, NEW s \in Scans, SetFlag(s) \/ ClearFlag(s) \/ SetInt(s) PROVE IInv'
<1>1. /\ lost = {} /\ scan[s].pc \in {"flag", "unflag", "write"}
      /\ \/ Write(s, [Content(s) EXCEPT !.used = TRUE])
         \/ Write(s, [Content(s) EXCEPT !.used = FALSE])
         \/ Write(s, [Content(s) EXCEPT !.val = scan[s].val])
  BY DEF SetFlag, ClearFlag, SetInt, At
<1>2. /\ TypesOK /\ PinsOK /\ PinsBalanced /\ OneThread /\ LocksOK /\ UndoOK /\ GrowthOK /\ CommittedOK
      /\ \A u \in Scans : StateOK(u) /\ SeenOK(u)
      /\ scan \in [Scans -> ScanType] /\ seen \in [Scans -> Seq(Nat \X Nat)]
      /\ lock \in [Txs -> [Blocks -> {"none", "S", "X"}]] /\ undo \in [Txs -> Seq(UndoType)]
      /\ file \in FileType
  BY <1>1 DEF IInv, TypesOK
<1>3. PICK t \in Txs, b \in 1..Len(file), i \in Slots : t = Mine(s) /\ b = scan[s].blk /\ i = scan[s].slot
  <2>1. Mine(s) \in Txs /\ scan[s].blk \in 1..Len(file)
    BY <1>1, ScanFacts DEF Moves
  <2>2. scan[s].slot # 0 /\ scan[s].slot \in 0..SlotsPerBlock
    BY <1>1, <1>2 DEF StateOK, ScanType
  <2>3. scan[s].slot \in Slots
    BY <2>2, SlotsAssumption DEF Slots
  <2> QED BY <2>1, <2>3
<1>4. PICK c \in Slot : Write(s, c)
  <2>1. file[b][i] \in Slot
    BY <1>2 DEF FileType
  <2>2. PICK o \in Slot, v \in Vals \cup {0} : o = file[b][i] /\ v = scan[s].val
    BY <2>1, <1>2 DEF ScanType
  <2>3. Content(s) = o
    BY <2>2, <1>3 DEF Content
  <2>4. [o EXCEPT !.used = TRUE] \in Slot /\ [o EXCEPT !.used = FALSE] \in Slot /\ [o EXCEPT !.val = v] \in Slot
    BY DEF Slot
  <2> QED BY <2>2, <2>3, <2>4, <1>1
<1>5. PICK r : r = [blk |-> b, slot |-> i, old |-> file[b][i]]
  OBVIOUS
<1>6. PICK o \in Slot : o = file[b][i]
  BY <1>2 DEF FileType
<1>7. /\ Exclude(t, b)
      /\ undo' = [undo EXCEPT ![t] = Append(undo[t], r)]
      /\ file' = Put(file, b, i, c)
      /\ seen' = [u \in Scans |-> IF Mine(u) = t THEN Dirty ELSE seen[u]]
      /\ scan' = [scan EXCEPT ![s].pc = "idle", ![s].ended = FALSE]
      /\ UNCHANGED <<pins, committed, twice, lost, ops>>
  BY <1>3, <1>4, <1>5 DEF Write, Put
<1>8. /\ file' \in FileType /\ Len(file') = Len(file)
      /\ \A d \in 1..Len(file), j \in Slots : file'[d][j] = IF d = b /\ j = i THEN c ELSE file[d][j]
  <2>1. /\ Put(file, b, i, c) \in FileType /\ Len(Put(file, b, i, c)) = Len(file)
        /\ \A d \in 1..Len(file), j \in Slots : Put(file, b, i, c)[d][j] = IF d = b /\ j = i THEN c ELSE file[d][j]
    BY ONLY <1>2, b \in 1..Len(file), i \in Slots, c \in Slot, PutFacts
  <2> QED BY <2>1, <1>7
<1>9. \A d \in 1..Len(file) : d # b => file'[d] = file[d]
  <2>1. ASSUME NEW d \in 1..Len(file), d # b PROVE file'[d] = file[d]
    <3>1. file'[d] \in [Slots -> Slot] /\ file[d] \in [Slots -> Slot]
      BY <1>2, <1>8 DEF FileType
    <3>2. \A j \in Slots : file'[d][j] = file[d][j]
      BY <2>1, <1>8
    <3> QED BY <3>1, <3>2
  <2> QED BY <2>1
<1>10. /\ Len(file) \in Nat /\ Len(file) <= MaxBlocks /\ 0..Len(file) \subseteq Blocks /\ b \in Blocks /\ EOF \in Blocks
       /\ ops \in 0..MaxOps
  BY ScanFacts
<1>11. /\ Grabs(t) /\ lock'[t][b] = "X"
       /\ \A d \in Blocks : lock'[t][d] # "none" => lock[t][d] # "none" \/ d = b
       /\ \A u \in Others(t) : lock[u][b] = "none"
  <2>1. Grabs(t) /\ \A d \in Blocks : lock'[t][d] # "none" => lock[t][d] # "none" \/ d = b
    BY <1>2, <1>7, <1>10, OneLock
  <2> QED BY <2>1, <1>2, <1>7, <1>10 DEF Exclude, CanExclude
<1>12. /\ Excludes(lock')
       /\ \A u \in Txs, d \in Blocks : /\ lock[u][d] = "X" => lock'[u][d] = "X"
                                       /\ lock[u][d] # "none" => lock'[u][d] # "none"
  <2>1. Excludes(lock)
    BY <1>2 DEF LocksOK, Excludes
  <2> QED BY ONLY <2>1, <1>2, <1>11, t \in Txs, LocksGrow
<1>13. /\ scan' \in [Scans -> ScanType] /\ \A u \in Scans \ {s} : scan'[u] = scan[u]
       /\ scan'[s].tx = t /\ scan'[s].pc = "idle" /\ scan'[s].blk = b /\ scan'[s].slot = i /\ ~scan'[s].ended
  <2>1. PICK q \in ScanType : q = scan[s]
    BY <1>2
  <2>2. PICK p : p = [q EXCEPT !.pc = "idle", !.ended = FALSE]
    OBVIOUS
  <2>3. p \in ScanType /\ p.tx = q.tx /\ p.pc = "idle" /\ p.blk = q.blk /\ p.slot = q.slot /\ ~p.ended
    BY <2>2 DEF ScanType
  <2>4. scan' = [scan EXCEPT ![s] = p]
    BY <2>1, <2>2, <1>7
  <2> QED BY <2>1, <2>3, <2>4, <1>2, <1>3 DEF Mine
<1>14. /\ Fits(undo[t], file) /\ Changed(t) = ChangedIn(undo[t])
       /\ undo' \in [Txs -> Seq(UndoType)] /\ undo'[t] = Append(undo[t], r) /\ \A u \in Txs \ {t} : undo'[u] = undo[u]
       /\ r \in UndoType
  <2>1. Fits(undo[t], file) /\ Changed(t) = ChangedIn(undo[t])
    BY <1>1, UndoFits
  <2>2. r \in UndoType
    BY <1>5, <1>6, <1>10 DEF UndoType
  <2>3. PICK a \in Seq(UndoType) : a = Append(undo[t], r)
    <3>1. PICK a \in Seq(UndoType) : a = undo[t]
      BY <1>2
    <3>2. Append(a, r) \in Seq(UndoType)
      BY <2>2
    <3> QED BY <3>1, <3>2
  <2>4. undo' = [undo EXCEPT ![t] = a]
    BY <2>3, <1>7
  <2> QED BY <2>1, <2>2, <2>3, <2>4, <1>2
<1>15. /\ Fits(undo'[t], file') /\ Changed(t)' = Changed(t) \cup {<<b, i>>}
       /\ \A d \in 1..Len(file), j \in Slots : Undone(file', undo'[t])[d][j] = Undone(file, undo[t])[d][j]
       /\ \A u \in Txs \ {t} : Changed(u)' = Changed(u)
  <2>1. PICK a : a = undo[t]
    OBVIOUS
  <2>2. /\ Fits(Append(a, r), Put(file, b, i, c))
        /\ ChangedIn(Append(a, r)) = ChangedIn(a) \cup {<<b, i>>}
        /\ \A d \in 1..Len(file), j \in Slots : Undone(Put(file, b, i, c), Append(a, r))[d][j] = Undone(file, a)[d][j]
    <3>1. Fits(a, file) /\ file \in FileType
      BY <2>1, <1>2, <1>14
    <3> QED BY ONLY <3>1, b \in 1..Len(file), i \in Slots, c \in Slot, <1>5, UndoneAfterWrite
  <2>3. Changed(t)' = ChangedIn(undo'[t])
    BY DEF Changed, ChangedIn
  <2>4. undo'[t] = Append(a, r) /\ file' = Put(file, b, i, c)
    BY <2>1, <1>7, <1>14
  <2>5. \A u \in Txs \ {t} : Changed(u)' = Changed(u)
    BY <1>14 DEF Changed
  <2> QED BY <2>1, <2>2, <2>3, <2>4, <2>5, <1>14
<1>16. \A u \in Scans : /\ Mine(u) = t => seen'[u] = Dirty
                        /\ Mine(u) # t => seen'[u] = seen[u]
  BY <1>7
<1>17. TypesOK'
  <2>1. seen' \in [Scans -> Seq(Nat \X Nat)]
    <3>1. Dirty \in Seq(Nat \X Nat)
      BY DEF Dirty
    <3> QED BY <3>1, <1>2, <1>7
  <2> QED BY <2>1, <1>2, <1>7, <1>8, <1>11, <1>13, <1>14 DEF TypesOK, Grabs
<1>18. Only(s, t) /\ OneOp(s, t) /\ OneGoes(s) /\ OnePage(s)
  BY <1>1, <1>3, <1>13 DEF Only, OneOp, InOp, Steps, OneGoes, OnePage, Mine
<1>19. \A u \in Scans : StateOK(u)'
  <2>1. StateOK(s)'
    BY <1>8, <1>10, <1>13, TxsAssumption DEF StateOK
  <2>2. Len(file) <= Len(file')
    BY <1>8, <1>10
  <2> QED BY ONLY <2>1, <2>2, <1>2, <1>8, <1>18, s \in Scans, OtherStates
<1>20. OneThread'
  BY <1>2, <1>18, OneOpStays
<1>21. PinsOK' /\ PinsBalanced'
  BY <1>2, <1>7, <1>18, PagesStay
<1>22. LocksOK'
  <2>0. /\ \A u \in Txs, d \in Blocks : lock[u][d] # "none" => d <= Len(file)
        /\ \A u \in Scans : scan[u].pc = "append" => lock[Mine(u)][EOF] # "none" /\ (scan[u].blk = 0 => file = << >>)
    BY <1>2 DEF LocksOK
  <2>1. ASSUME NEW u \in Txs, NEW d \in Blocks, lock'[u][d] # "none" PROVE d <= Len(file')
    <3>1. CASE u = t
      BY <3>1, <2>0, <2>1, <1>8, <1>10, <1>11
    <3>2. CASE u # t
      <4>1. lock'[u] = lock[u]
        BY <3>2, <1>11 DEF Grabs, Others
      <4> QED BY <4>1, <2>0, <2>1, <1>8
    <3> QED BY <3>1, <3>2
  <2>2. ASSUME NEW u \in Scans, scan'[u].pc = "append"
        PROVE  lock'[Mine(u)'][EOF] # "none" /\ (scan'[u].blk = 0 => file' = << >>)
    <3>1. u # s /\ scan'[u] = scan[u]
      BY <2>2, <1>13
    <3>2. Mine(u) \in Txs /\ Mine(u)' = Mine(u) /\ scan[u].pc = "append"
      BY <3>1, <2>2, ScanFacts DEF Mine
    <3>3. lock[Mine(u)][EOF] # "none" /\ (scan[u].blk = 0 => file = << >>)
      BY <3>2, <2>0
    <3>4. file # << >>
      BY <1>3
    <3> QED BY <3>1, <3>2, <3>3, <3>4, <1>10, <1>12
  <2> QED BY <2>1, <2>2, <1>12 DEF LocksOK, Excludes
<1>23. UndoOK'
  <2>1. ASSUME NEW u \in Txs, NEW k \in DOMAIN undo'[u]
        PROVE  undo'[u][k].blk \in 1..Len(file') /\ lock'[u][undo'[u][k].blk] = "X"
    <3>1. undo'[u][k].blk \in 1..Len(file') /\ undo'[u] \in Seq(UndoType)
      <4>1. CASE u = t
        BY <4>1, <1>14, <1>15 DEF Fits
      <4>2. CASE u # t
        BY <4>2, <1>2, <1>8, <1>14 DEF UndoOK
      <4> QED BY <4>1, <4>2
    <3>2. undo'[u][k].blk \in Blocks
      BY <3>1, <1>8, <1>10
    <3>3. CASE u # t
      <4>1. lock[u][undo'[u][k].blk] = "X"
        BY <3>3, <1>2, <1>14 DEF UndoOK
      <4> QED BY <4>1, <3>1, <3>2, <1>12
    <3>4. CASE u = t
      <4>1. PICK n \in Nat : n = Len(undo[t])
        BY <1>2
      <4>2. k \in 1..n + 1 /\ DOMAIN undo[t] = 1..n
        BY <4>1, <3>4, <1>2, <1>14
      <4>3. CASE k = n + 1
        <5>1. undo'[t][k] = r /\ r.blk = b
          BY <4>1, <4>3, <1>2, <1>5, <1>14
        <5> QED BY <5>1, <3>1, <3>4, <1>11
      <4>4. CASE k # n + 1
        <5>1. k \in DOMAIN undo[t] /\ undo'[t][k] = undo[t][k]
          BY <4>1, <4>2, <4>4, <1>2, <1>14
        <5>2. lock[t][undo[t][k].blk] = "X"
          BY <5>1, <1>2 DEF UndoOK
        <5> QED BY <5>1, <5>2, <3>1, <3>2, <3>4, <1>12
      <4> QED BY <4>3, <4>4
    <3> QED BY <3>1, <3>3, <3>4
  <2> QED BY <2>1 DEF UndoOK
<1>24. ASSUME NEW u \in Scans, Mine(u) \in Txs, Mine(u) # t, NEW d \in 1..Len(file), lock[Mine(u)][d] # "none"
       PROVE  file'[d] = file[d]
  <2>1. d # b
    BY <1>11, <1>24 DEF Others
  <2> QED BY <2>1, <1>9
<1>25. GrowthOK'
  <2>1. ASSUME NEW u \in Growers' PROVE u \in Growers /\ u # s
    <3>1. u \in Scans /\ u # s /\ scan'[u] = scan[u] /\ ~Fresh(u)'
      BY <2>1, <1>13 DEF Growers
    <3>2. ~Fresh(u)
      <4> SUFFICES ASSUME Fresh(u) PROVE FALSE
        OBVIOUS
      <4>0. scan[u].pc = "insert"
        BY DEF Fresh
      <4>1. Mine(u) \in Txs /\ scan[u].blk \in 1..Len(file) /\ scan[u].blk \in Blocks
        BY <4>0, <3>1, ScanFacts DEF Moves
      <4>2. Mine(u) # t
        BY <4>0, <3>1, <1>1, <1>2, <1>3 DEF OneThread, InOp, Steps
      <4>3. lock[Mine(u)][scan[u].blk] = "X"
        BY DEF Fresh
      <4>4. lock'[Mine(u)][scan[u].blk] = "X" /\ file'[scan[u].blk] = file[scan[u].blk]
        BY <4>1, <4>2, <4>3, <3>1, <1>12, <1>24
      <4> QED BY <4>4, <3>1, FreshStays
    <3> QED BY <3>1, <3>2, <2>1 DEF Growers
  <2>2. /\ Growers' \subseteq Growers \cup {s} /\ s \notin Growers' /\ ops' \in Nat /\ ops' >= ops /\ Len(file') = Len(file)
    BY <2>1, <1>7, <1>8, <1>10
  <2> QED BY ONLY <2>2, <1>2, <1>8, s \in Scans, Room
<1>26. CommittedOK'
  <2>1. PICK w \in FileType : TakenBack(w)
    BY <1>2 DEF CommittedOK, TakenBack
  <2>2. ASSUME NEW d \in 1..Len(file), NEW j \in Slots
        PROVE  /\ (\A u \in Txs : <<d, j>> \notin Changed(u)) => w[d][j] = file[d][j]
               /\ \A u \in Txs : <<d, j>> \in Changed(u) => w[d][j] = Undone(file, undo[u])[d][j]
    BY <2>1 DEF TakenBack
  <2>3. ASSUME NEW d \in 1..Len(file), NEW j \in Slots, \A u \in Txs : <<d, j>> \notin Changed(u)'
        PROVE  w[d][j] = file'[d][j]
    <3>1. \A u \in Txs : <<d, j>> \notin Changed(u)
      BY <2>3, <1>15
    <3>2. ~(d = b /\ j = i)
      BY <2>3, <1>15
    <3> QED BY <3>1, <3>2, <2>2, <1>8
  <2>4. ASSUME NEW d \in 1..Len(file), NEW j \in Slots, NEW u \in Txs, <<d, j>> \in Changed(u)'
        PROVE  w[d][j] = Undone(file', undo'[u])[d][j]
    <3>1. CASE u # t
      <4>1. <<d, j>> \in Changed(u) /\ undo'[u] = undo[u]
        BY <3>1, <2>4, <1>14, <1>15
      <4>2. Fits(undo[u], file) /\ <<d, j>> \in ChangedIn(undo[u])
        BY <4>1, <1>1, UndoFits
      <4>3. Fits(undo[u], file') /\ d \in 1..Len(file')
        BY <4>2, <1>8 DEF Fits
      <4>4. Undone(file', undo[u])[d][j] = Undone(file, undo[u])[d][j]
        <5>1. PICK h \in FileType : h = file'
          BY <1>8
        <5> QED BY ONLY <5>1, <4>2, <4>3, <1>2, d \in 1..Len(file), j \in Slots, UndoneSlots
      <4> QED BY <4>1, <4>4, <2>2
    <3>2. CASE u = t
      <4>1. Undone(file', undo'[t])[d][j] = Undone(file, undo[t])[d][j]
        BY <1>15
      <4>2. CASE <<d, j>> \in Changed(t)
        BY <4>1, <4>2, <3>2, <2>2
      <4>3. CASE <<d, j>> \notin Changed(t)
        <5>1. d = b /\ j = i
          BY <4>3, <3>2, <2>4, <1>15
        <5>2. \A v \in Txs : <<d, j>> \notin Changed(v)
          <6>1. ASSUME NEW v \in Txs, <<d, j>> \in Changed(v) PROVE FALSE
            <7>1. v # t
              BY <6>1, <4>3
            <7>2. lock[v][d] = "X"
              BY <6>1, <1>1, UndoFits
            <7> QED BY <7>1, <7>2, <5>1, <1>11 DEF Others
          <6> QED BY <6>1
        <5>3. w[d][j] = file[d][j]
          BY <5>2, <2>2
        <5>4. Undone(file, undo[t])[d][j] = file[d][j]
          <6>1. <<d, j>> \notin ChangedIn(undo[t])
            BY <4>3, <1>14
          <6> QED BY ONLY <6>1, <1>2, <1>14, d \in 1..Len(file), j \in Slots, UndoneSlots
        <5> QED BY <5>3, <5>4, <4>1, <3>2
      <4> QED BY <4>2, <4>3
    <3> QED BY <3>1, <3>2
  <2>5. Len(w) = Len(file') /\ committed' = RecordsIn(w)
    BY <2>1, <1>7, <1>8 DEF TakenBack
  <2>6. TakenBack(w)'
    BY <2>3, <2>4, <2>5, <1>8 DEF TakenBack
  <2> QED BY <2>6 DEF CommittedOK
<1>27. \A u \in Scans : SeenOK(u)'
  <2>1. ASSUME NEW u \in Scans, Mine(u) = t PROVE SeenOK(u)'
    BY <2>1, <1>16 DEF SeenOK
  <2>2. ASSUME NEW u \in Scans, Mine(u) # t PROVE SeenOK(u)'
    <3>1. u # s /\ scan'[u] = scan[u] /\ seen'[u] = seen[u] /\ StateOK(u) /\ SeenOK(u)
      BY <2>2, <1>2, <1>3, <1>13, <1>16
    <3>2. Mine(u) \in Txs => \A d \in Blocks : Holds(u, d) => Holds(u, d)'
      BY <3>1, <1>12 DEF Holds, Mine
    <3>3. Mine(u) \in Txs => \A d \in 1..Len(file) : Holds(u, d) => file'[d] = file[d]
      BY <2>2, <1>24 DEF Holds
    <3>4. /\ Len(file) <= Len(file') /\ file' \in FileType /\ Len(file') <= MaxBlocks
          /\ \A d \in 1..Len(file') : ~(d > Len(file))
      BY <1>8, <1>10
    <3> QED BY ONLY <3>1, <3>2, <3>3, <3>4, <1>2, u \in Scans, SeenStays
  <2> QED BY <2>1, <2>2
<1> QED BY <1>17, <1>19, <1>20, <1>21, <1>22, <1>23, <1>25, <1>26, <1>27 DEF IInv

(***************************************************************************)
(* The end of a transaction.                                               *)
(***************************************************************************)
(* The locks, pins and scans of a transaction go; its blocks may change    *)
(* once more before.                                                       *)
LEMMA ReleaseKeeps ==
  ASSUME IInv, lost = {}, NEW t \in Txs, NEW s \in Scans, Mine(s) = t, Release(t), UNCHANGED <<twice, ops>>,
         file' \in FileType, Len(file') = Len(file),
         \A b \in 1..Len(file) : lock[t][b] # "X" => file'[b] = file[b],
         lost' \subseteq Blocks, committed' \subseteq Blocks \X Slots \X (Vals \cup {0}),
         lost' = {} => CommittedOK'
  PROVE  IInv'
<1>1. /\ TypesOK /\ PinsOK /\ PinsBalanced /\ OneThread /\ LocksOK /\ UndoOK /\ GrowthOK
      /\ \A u \in Scans : StateOK(u) /\ SeenOK(u)
      /\ scan \in [Scans -> ScanType] /\ seen \in [Scans -> Seq(Nat \X Nat)]
      /\ lock \in [Txs -> [Blocks -> {"none", "S", "X"}]] /\ undo \in [Txs -> Seq(UndoType)]
      /\ pins \in [Txs -> [Blocks -> Nat]] /\ file \in FileType
  BY DEF IInv, TypesOK
<1>2. /\ Len(file) \in Nat /\ Len(file) <= MaxBlocks /\ 0..Len(file) \subseteq Blocks /\ EOF \in Blocks
      /\ ops \in 0..MaxOps
  BY ScanFacts
<1>3. /\ lock' \in [Txs -> [Blocks -> {"none", "S", "X"}]]
      /\ \A b \in Blocks : lock'[t][b] = "none"
      /\ \A u \in Txs \ {t} : lock'[u] = lock[u]
  BY <1>1 DEF Release
<1>4. undo' \in [Txs -> Seq(UndoType)] /\ undo'[t] = << >> /\ \A u \in Txs \ {t} : undo'[u] = undo[u]
  <2>1. << >> \in Seq(UndoType)
    OBVIOUS
  <2> QED BY <2>1, <1>1 DEF Release
<1>5. /\ scan' \in [Scans -> ScanType]
      /\ \A u \in Scans : /\ Mine(u) = t => scan'[u] = NoScan
                          /\ Mine(u) # t => scan'[u] = scan[u]
  <2>1. NoScan \in ScanType
    BY SlotsAssumption DEF NoScan, ScanType
  <2> QED BY <2>1, <1>1 DEF Release
<1>6. /\ seen' \in [Scans -> Seq(Nat \X Nat)]
      /\ \A u \in Scans : /\ Mine(u) = t => seen'[u] = << >>
                          /\ Mine(u) # t => seen'[u] = seen[u]
  <2>1. << >> \in Seq(Nat \X Nat)
    OBVIOUS
  <2> QED BY <2>1, <1>1 DEF Release
<1>7. /\ pins' \in [Txs -> [Blocks -> Nat]]
      /\ \A b \in Blocks : pins'[t][b] = 0
      /\ \A u \in Txs \ {t} : pins'[u] = pins[u]
  BY <1>1 DEF Release
<1>8. NoScan.tx = 0 /\ NoScan.pc = "none" /\ NoScan.blk = 0 /\ ~NoScan.ended /\ 0 # t
  BY TxsAssumption DEF NoScan
<1>9. TypesOK'
  BY <1>1, <1>2, <1>3, <1>4, <1>5, <1>6, <1>7 DEF TypesOK
<1>10. \A u \in Scans : StateOK(u)'
  <2>1. ASSUME NEW u \in Scans PROVE StateOK(u)'
    <3>1. CASE Mine(u) = t
      <4>1. scan'[u] = NoScan /\ 0 <= Len(file')
        BY <3>1, <1>2, <1>5
      <4> QED BY <4>1, <1>8 DEF StateOK, Moves
    <3>2. CASE Mine(u) # t
      <4>1. scan'[u] = scan[u] /\ StateOK(u)
        BY <3>2, <1>1, <1>5
      <4> QED BY <4>1 DEF StateOK
    <3> QED BY <3>1, <3>2
  <2> QED BY <2>1
<1>11. OneThread'
  <2>1. \A u \in Scans : InOp(u)' => InOp(u) /\ Mine(u)' = Mine(u)
    BY <1>5, <1>8 DEF InOp, Steps, Mine
  <2> QED BY <2>1, <1>1 DEF OneThread
<1>12. /\ \A b : ScansAt(t, b)' = {} /\ OpenAt(t, b)' = {}
       /\ \A u \in Txs \ {t} : \A b : ScansAt(u, b)' = ScansAt(u, b) /\ OpenAt(u, b)' = OpenAt(u, b)
  <2>1. \A v \in Scans : scan'[v].tx # t
    BY <1>5, <1>8 DEF Mine
  <2>2. \A v \in Scans, u \in Txs \ {t} : /\ scan'[v].tx = u <=> scan[v].tx = u
                                          /\ scan[v].tx = u => scan'[v] = scan[v]
    BY <1>5, <1>8, TxsAssumption DEF Mine
  <2>3. ASSUME NEW u \in Txs \ {t}, NEW b PROVE ScansAt(u, b)' = ScansAt(u, b) /\ OpenAt(u, b)' = OpenAt(u, b)
    BY <2>2 DEF ScansAt, OpenAt, ScansOf
  <2> QED BY <2>1, <2>3 DEF ScansAt, OpenAt, ScansOf
<1>13. PinsOK'
  <2>1. ASSUME NEW u \in Txs
        PROVE pins'[u][EOF] = 0 /\ \A b \in Blocks \ {EOF} : pins'[u][b] <= Cardinality(ScansAt(u, b)')
    <3>1. CASE u = t
      <4>1. \A b : Cardinality(ScansAt(t, b)') = 0
        BY <1>12, FS_EmptySet
      <4>2. pins'[t][EOF] = 0 /\ \A b \in Blocks : pins'[t][b] = 0
        BY <1>2, <1>7
      <4>3. 0 <= 0
        OBVIOUS
      <4> QED BY ONLY <3>1, <4>1, <4>2, <4>3
    <3>2. CASE u # t
      BY <3>2, <1>1, <1>7, <1>12 DEF PinsOK
    <3> QED BY <3>1, <3>2
  <2> QED BY <2>1 DEF PinsOK
<1>14. PinsBalanced'
  <2>1. ASSUME NEW u \in Txs, NEW b \in Blocks \ {EOF}, b \notin twice' PROVE pins'[u][b] = Cardinality(OpenAt(u, b)')
    <3>1. CASE u = t
      BY <3>1, <1>7, <1>12, FS_EmptySet
    <3>2. CASE u # t
      <4>1. pins[u][b] = Cardinality(OpenAt(u, b))
        BY <2>1, <1>1 DEF PinsBalanced, OpenAt
      <4> QED BY <4>1, <3>2, <1>7, <1>12
    <3> QED BY <3>1, <3>2
  <2> QED BY <2>1 DEF PinsBalanced, OpenAt
<1>15. Excludes(lock)
  BY <1>1 DEF LocksOK, Excludes
<1>16. LocksOK'
  <2>1. ASSUME NEW u \in Txs, NEW v \in Others(u), NEW b \in Blocks, lock'[u][b] = "X" PROVE lock'[v][b] = "none"
    BY <2>1, <1>3, <1>15 DEF Excludes, Others
  <2>2. ASSUME NEW u \in Txs, NEW b \in Blocks, lock'[u][b] # "none" PROVE b <= Len(file')
    <3>1. u # t /\ lock[u][b] # "none"
      BY <2>2, <1>3
    <3> QED BY <3>1, <1>1 DEF LocksOK
  <2>3. ASSUME NEW u \in Scans, scan'[u].pc = "append"
        PROVE  lock'[Mine(u)'][EOF] # "none" /\ (scan'[u].blk = 0 => file' = << >>)
    <3>1. Mine(u) # t /\ scan'[u] = scan[u]
      BY <2>3, <1>5, <1>8
    <3>2. lock[Mine(u)][EOF] # "none" /\ (scan[u].blk = 0 => file = << >>)
      BY <3>1, <2>3, <1>1 DEF LocksOK
    <3>3. Mine(u) \in Txs /\ Mine(u)' = Mine(u)
      BY <3>1, <2>3, ScanFacts DEF Mine
    <3>4. file = << >> => file' = << >>
      <4>1. file = << >> => Len(file') = 0
        OBVIOUS
      <4> QED BY <4>1 DEF FileType
    <3> QED BY <3>1, <3>2, <3>3, <3>4, <1>3
  <2> QED BY <2>1, <2>2, <2>3 DEF LocksOK
<1>17. UndoOK'
  <2>1. ASSUME NEW u \in Txs, NEW k \in DOMAIN undo'[u]
        PROVE  undo'[u][k].blk \in 1..Len(file') /\ lock'[u][undo'[u][k].blk] = "X"
    <3>1. u # t
      BY <2>1, <1>4
    <3> QED BY <3>1, <1>1, <1>3, <1>4 DEF UndoOK
  <2> QED BY <2>1 DEF UndoOK
<1>18. ASSUME NEW u \in Scans, Mine(u) \in Txs, Mine(u) # t, NEW b \in 1..Len(file), lock[Mine(u)][b] # "none"
       PROVE  file'[b] = file[b]
  <2>1. b \in Blocks
    BY <1>2
  <2>2. lock[t][b] # "X"
    BY <2>1, <1>15, <1>18 DEF Excludes, Others
  <2> QED BY <2>2
<1>19. GrowthOK'
  <2>1. ASSUME NEW u \in Growers' PROVE u \in Growers /\ u # s
    <3>1. u \in Scans /\ Mine(u) # t /\ scan'[u] = scan[u] /\ ~Fresh(u)'
      BY <2>1, <1>5, <1>8 DEF Growers
    <3>2. ~Fresh(u)
      <4> SUFFICES ASSUME Fresh(u) PROVE FALSE
        OBVIOUS
      <4>1. Mine(u) \in Txs /\ scan[u].blk \in 1..Len(file) /\ scan[u].blk \in Blocks
        BY <3>1, ScanFacts DEF Moves, Fresh
      <4>2. lock[Mine(u)][scan[u].blk] = "X"
        BY DEF Fresh
      <4>3. lock'[Mine(u)][scan[u].blk] = "X" /\ file'[scan[u].blk] = file[scan[u].blk]
        BY <4>1, <4>2, <3>1, <1>3, <1>18
      <4> QED BY <4>3, <3>1, FreshStays
    <3> QED BY <3>1, <3>2, <2>1 DEF Growers
  <2>2. /\ Growers' \subseteq Growers \cup {s} /\ s \notin Growers' /\ ops' \in Nat /\ ops' >= ops /\ Len(file') = Len(file)
    BY <2>1, <1>2
  <2>3. file' \in FileType
    OBVIOUS
  <2> QED BY ONLY <2>2, <2>3, <1>1, s \in Scans, Room
<1>20. \A u \in Scans : SeenOK(u)'
  <2>1. ASSUME NEW u \in Scans, Mine(u) = t PROVE SeenOK(u)'
    <3>1. scan'[u] = NoScan /\ seen'[u] = << >>
      BY <2>1, <1>5, <1>6
    <3> QED BY <3>1, <1>8 DEF SeenOK, Rises
  <2>2. ASSUME NEW u \in Scans, Mine(u) # t PROVE SeenOK(u)'
    <3>1. scan'[u] = scan[u] /\ seen'[u] = seen[u] /\ StateOK(u) /\ SeenOK(u)
      BY <2>2, <1>1, <1>5, <1>6
    <3>2. Mine(u) \in Txs => \A d \in Blocks : Holds(u, d) => Holds(u, d)'
      BY <2>2, <3>1, <1>3 DEF Holds, Mine
    <3>3. Mine(u) \in Txs => \A d \in 1..Len(file) : Holds(u, d) => file'[d] = file[d]
      BY <2>2, <1>18 DEF Holds
    <3>4. /\ Len(file) <= Len(file') /\ file' \in FileType /\ Len(file') <= MaxBlocks
          /\ \A d \in 1..Len(file') : ~(d > Len(file))
      BY <1>2
    <3> QED BY ONLY <3>1, <3>2, <3>3, <3>4, <1>1, u \in Scans, SeenStays
  <2> QED BY <2>1, <2>2
<1> QED BY <1>9, <1>10, <1>11, <1>13, <1>14, <1>16, <1>17, <1>19, <1>20 DEF IInv

(* A rollback restores what the transaction found.                         *)
LEMMA RestoredIs ==
  ASSUME IInv, lost = {}, NEW t \in Txs
  PROVE  /\ Restored(t) \in FileType /\ Len(Restored(t)) = Len(file)
         /\ \A b \in 1..Len(file), i \in Slots :
              Restored(t)[b][i] = IF <<b, i>> \in Changed(t) THEN Undone(file, undo[t])[b][i] ELSE file[b][i]
         /\ \A b \in 1..Len(file) : lock[t][b] # "X" => Restored(t)[b] = file[b]
<1>1. file \in FileType /\ Fits(undo[t], file) /\ Changed(t) = ChangedIn(undo[t]) /\ Restored(t) = Undone(file, undo[t])
  BY UndoFits DEF IInv, TypesOK, Restored
<1>2. PICK g : g = Undone(file, undo[t])
  OBVIOUS
<1>3. g \in FileType /\ Len(g) = Len(file)
  BY <1>1, <1>2, UndoneIs
<1>4. ASSUME NEW b \in 1..Len(file), NEW i \in Slots, <<b, i>> \notin Changed(t) PROVE g[b][i] = file[b][i]
  <2>1. <<b, i>> \notin ChangedIn(undo[t])
    BY <1>1, <1>4
  <2> QED BY ONLY <2>1, <1>1, <1>2, b \in 1..Len(file), i \in Slots, UndoneSlots
<1>5. ASSUME NEW b \in 1..Len(file), lock[t][b] # "X" PROVE g[b] = file[b]
  <2>1. g[b] \in [Slots -> Slot] /\ file[b] \in [Slots -> Slot]
    BY <1>1, <1>3 DEF FileType
  <2>2. ASSUME NEW i \in Slots PROVE g[b][i] = file[b][i]
    <3>1. <<b, i>> \notin Changed(t)
      BY <1>5, UndoFits
    <3> QED BY <3>1, <1>4
  <2> QED BY <2>1, <2>2
<1> QED BY <1>1, <1>2, <1>3, <1>4, <1>5

(* After a rollback the others' changes remain to be taken back.           *)
LEMMA RollbackTakesBack ==
  ASSUME IInv, lost = {}, NEW t \in Txs, file' = Restored(t), committed' = committed, Release(t)
  PROVE  CommittedOK'
<1>1. file \in FileType /\ CommittedOK /\ undo \in [Txs -> Seq(UndoType)]
  BY DEF IInv, TypesOK
<1>2. PICK w \in FileType : TakenBack(w)
  BY <1>1 DEF CommittedOK, TakenBack
<1>3. ASSUME NEW d \in 1..Len(file), NEW j \in Slots
      PROVE  /\ (\A u \in Txs : <<d, j>> \notin Changed(u)) => w[d][j] = file[d][j]
             /\ \A u \in Txs : <<d, j>> \in Changed(u) => w[d][j] = Undone(file, undo[u])[d][j]
  BY <1>2 DEF TakenBack
<1>4. /\ file' \in FileType /\ Len(file') = Len(file)
      /\ \A b \in 1..Len(file), i \in Slots :
           file'[b][i] = IF <<b, i>> \in Changed(t) THEN Undone(file, undo[t])[b][i] ELSE file[b][i]
  BY RestoredIs
<1>5. undo'[t] = << >> /\ \A u \in Txs \ {t} : undo'[u] = undo[u]
  BY <1>1 DEF Release
<1>6. Changed(t)' = {} /\ \A u \in Txs \ {t} : Changed(u)' = Changed(u)
  BY <1>5 DEF Changed
<1>7. ASSUME NEW d \in 1..Len(file), NEW j \in Slots, \A u \in Txs : <<d, j>> \notin Changed(u)'
      PROVE  w[d][j] = file'[d][j]
  <2>1. \A u \in Txs \ {t} : <<d, j>> \notin Changed(u)
    BY <1>6, <1>7
  <2>2. CASE <<d, j>> \in Changed(t)
    BY <2>2, <1>3, <1>4
  <2>3. CASE <<d, j>> \notin Changed(t)
    BY <2>1, <2>3, <1>3, <1>4
  <2> QED BY <2>2, <2>3
<1>8. ASSUME NEW d \in 1..Len(file), NEW j \in Slots, NEW u \in Txs, <<d, j>> \in Changed(u)'
      PROVE  w[d][j] = Undone(file', undo'[u])[d][j]
  <2>1. u # t /\ <<d, j>> \in Changed(u) /\ undo'[u] = undo[u]
    BY <1>5, <1>6, <1>8
  <2>2. Fits(undo[u], file) /\ <<d, j>> \in ChangedIn(undo[u])
    BY <2>1, UndoFits
  <2>3. Fits(undo[u], file') /\ d \in 1..Len(file')
    BY <2>2, <1>4 DEF Fits
  <2>4. Undone(file', undo[u])[d][j] = Undone(file, undo[u])[d][j]
    <3>1. PICK h \in FileType : h = file'
      BY <1>4
    <3> QED BY ONLY <3>1, <2>2, <2>3, <1>1, d \in 1..Len(file), j \in Slots, UndoneSlots
  <2> QED BY <2>1, <2>4, <1>3
<1>9. Len(w) = Len(file') /\ committed' = RecordsIn(w)
  BY <1>2, <1>4 DEF TakenBack
<1>10. TakenBack(w)'
  BY <1>4, <1>7, <1>8, <1>9 DEF TakenBack
<1> QED BY <1>10 DEF CommittedOK

(* After a commit its changes are not taken back any more.                 *)
LEMMA CommitTakesBack ==
  ASSUME IInv, NEW t \in Txs, Commit(t)
  PROVE  CommittedOK' /\ committed' \subseteq Blocks \X Slots \X (Vals \cup {0})
<1>1. /\ lost = {} /\ Release(t) /\ file' = file
      /\ committed' = {r \in committed : Place(r) \notin Changed(t)} \cup {r \in RecordsIn(file) : Place(r) \in Changed(t)}
  BY DEF Commit, Place
<1>2. file \in FileType /\ CommittedOK /\ undo \in [Txs -> Seq(UndoType)] /\ Len(file) \in Nat /\ 0..Len(file) \subseteq Blocks
  <2>1. file \in FileType /\ Len(file) <= MaxBlocks /\ CommittedOK /\ undo \in [Txs -> Seq(UndoType)]
    BY <1>1 DEF IInv, TypesOK
  <2> QED BY <2>1, BoundsAssumption DEF FileType, Blocks, MaxBlocks
<1>3. PICK w \in FileType : TakenBack(w)
  BY <1>2 DEF CommittedOK, TakenBack
<1>4. ASSUME NEW d \in 1..Len(file), NEW j \in Slots
      PROVE  /\ (\A u \in Txs : <<d, j>> \notin Changed(u)) => w[d][j] = file[d][j]
             /\ \A u \in Txs : <<d, j>> \in Changed(u) => w[d][j] = Undone(file, undo[u])[d][j]
  BY <1>3 DEF TakenBack
<1>5. Len(w) = Len(file) /\ committed = RecordsIn(w)
  BY <1>3 DEF TakenBack
<1>6. undo'[t] = << >> /\ \A u \in Txs \ {t} : undo'[u] = undo[u]
  BY <1>1, <1>2 DEF Release
<1>7. Changed(t)' = {} /\ \A u \in Txs \ {t} : Changed(u)' = Changed(u)
  BY <1>6 DEF Changed
<1> DEFINE v == [b \in 1..Len(file) |-> [i \in Slots |-> IF <<b, i>> \in Changed(t) THEN file[b][i] ELSE w[b][i]]]
<1>8. /\ v \in FileType /\ Len(v) = Len(file)
      /\ \A b \in 1..Len(file), i \in Slots : v[b][i] = IF <<b, i>> \in Changed(t) THEN file[b][i] ELSE w[b][i]
  <2>1. \A b \in 1..Len(file), i \in Slots : file[b][i] \in Slot /\ w[b][i] \in Slot
    BY <1>2, <1>5 DEF FileType
  <2>2. v \in [1..Len(file) -> [Slots -> Slot]]
    BY <2>1
  <2>3. \A b \in 1..Len(file), i \in Slots : v[b][i] = IF <<b, i>> \in Changed(t) THEN file[b][i] ELSE w[b][i]
    OBVIOUS
  <2>4. v \in FileType /\ Len(v) = Len(file)
    <3> HIDE DEF v
    <3>0. PICK n \in Nat : n = Len(file)
      BY <1>2
    <3>1. PICK S : S = [Slots -> Slot]
      OBVIOUS
    <3>2. v \in [1..n -> S]
      BY <2>2, <3>0, <3>1
    <3>3. v \in Seq(S) /\ Len(v) = n
      BY ONLY <3>2, n \in Nat
    <3> QED BY <3>0, <3>1, <3>3 DEF FileType
  <2> QED BY <2>3, <2>4
<1>9. PICK x \in FileType : x = v
  BY <1>8
<1> HIDE DEF v
<1>10. RecordsIn(x) = committed'
  <2> DEFINE P == Changed(t)
             Q == ((1..Len(file)) \X Slots) \ Changed(t)
  <2>1. \A r : r \in RecordsIn(x) /\ Place(r) \in P <=> r \in RecordsIn(file) /\ Place(r) \in P
    <3>1. \A b, i : <<b, i>> \in P =>
            (b \in 1..Len(x) /\ i \in Slots <=> b \in 1..Len(file) /\ i \in Slots) /\ (b \in 1..Len(x) /\ i \in Slots => x[b][i] = file[b][i])
      BY <1>8, <1>9
    <3> HIDE DEF P
    <3> QED BY ONLY <3>1, <1>2, x \in FileType, SameRecords
  <2>2. \A r : r \in RecordsIn(x) /\ Place(r) \in Q <=> r \in RecordsIn(w) /\ Place(r) \in Q
    <3>1. \A b, i : <<b, i>> \in Q =>
            (b \in 1..Len(x) /\ i \in Slots <=> b \in 1..Len(w) /\ i \in Slots) /\ (b \in 1..Len(x) /\ i \in Slots => x[b][i] = w[b][i])
      BY <1>5, <1>8, <1>9
    <3> HIDE DEF Q
    <3> QED BY ONLY <3>1, w \in FileType, x \in FileType, SameRecords
  <2>3. ASSUME NEW g \in FileType, Len(g) = Len(file), NEW r \in RecordsIn(g) PROVE Place(r) \in (1..Len(file)) \X Slots
    <3>1. PICK b \in 1..Len(g), i \in Slots : r = <<b, i, g[b][i].val>>
      BY RecordsAre
    <3> QED BY <3>1, <2>3 DEF Place
  <2>4. ASSUME NEW r PROVE r \in RecordsIn(x) <=> r \in committed'
    <3>1. r \in committed' <=> (r \in RecordsIn(w) /\ Place(r) \notin P) \/ (r \in RecordsIn(file) /\ Place(r) \in P)
      BY <1>1, <1>5
    <3>2. r \in RecordsIn(w) => (Place(r) \in Q <=> Place(r) \notin P)
      BY <2>3, <1>5
    <3>3. r \in RecordsIn(x) => (Place(r) \in Q <=> Place(r) \notin P)
      BY <2>3, <1>8, <1>9
    <3> HIDE DEF P, Q
    <3> QED BY <3>1, <3>2, <3>3, <2>1, <2>2
  <2> QED BY <2>4
<1>11. committed' \subseteq Blocks \X Slots \X (Vals \cup {0})
  <2>1. RecordsIn(x) \subseteq (1..Len(x)) \X Slots \X (Vals \cup {0})
    BY RecordsAre
  <2>2. 1..Len(x) \subseteq Blocks
    BY <1>2, <1>8, <1>9
  <2> QED BY <2>1, <2>2, <1>10
<1>12. ASSUME NEW d \in 1..Len(file), NEW j \in Slots, \A u \in Txs : <<d, j>> \notin Changed(u)'
       PROVE  x[d][j] = file[d][j]
  <2>1. \A u \in Txs \ {t} : <<d, j>> \notin Changed(u)
    BY <1>7, <1>12
  <2>2. CASE <<d, j>> \in Changed(t)
    BY <2>2, <1>8, <1>9
  <2>3. CASE <<d, j>> \notin Changed(t)
    BY <2>1, <2>3, <1>4, <1>8, <1>9
  <2> QED BY <2>2, <2>3
<1>13. ASSUME NEW d \in 1..Len(file), NEW j \in Slots, NEW u \in Txs, <<d, j>> \in Changed(u)'
       PROVE  x[d][j] = Undone(file', undo'[u])[d][j]
  <2>1. u # t /\ <<d, j>> \in Changed(u) /\ undo'[u] = undo[u]
    BY <1>6, <1>7, <1>13
  <2>2. <<d, j>> \notin Changed(t)
    BY <2>1, <1>1, UndoFits DEF Others
  <2> QED BY <2>1, <2>2, <1>1, <1>4, <1>8, <1>9
<1>14. TakenBack(x)'
  BY <1>1, <1>8, <1>9, <1>10, <1>12, <1>13 DEF TakenBack
<1> QED BY <1>11, <1>14 DEF CommittedOK

(* The ends of transactions keep the invariant.                            *)
LEMMA EndKeeps ==
  ASSUME IInv, (\E t \in Txs : Commit(t) \/ Rollback(t)) \/ \E s \in Scans : TimeOut(s)
  PROVE  IInv'
<1>1. PICK t \in Txs, s \in Scans :
        /\ Mine(s) = t /\ lost = {} /\ Release(t) /\ UNCHANGED <<twice, ops>>
        /\ \/ Commit(t)
           \/ file' = Restored(t) /\ committed' = committed
        /\ lost' \subseteq {Wanted(s)}
  <2>1. CASE \E t \in Txs : Commit(t) \/ Rollback(t)
    <3>1. PICK t \in Txs : Commit(t) \/ Rollback(t)
      BY <2>1
    <3>2. PICK s \in Scans : Mine(s) = t
      BY <3>1 DEF Commit, Rollback, ScansOf, Mine
    <3> QED BY <3>1, <3>2 DEF Commit, Rollback
  <2>2. CASE \E s \in Scans : TimeOut(s)
    <3>1. PICK s \in Scans : TimeOut(s)
      BY <2>2
    <3>2. PICK t : t = Mine(s)
      OBVIOUS
    <3>3. scan[s].pc # "none"
      BY <3>1 DEF TimeOut, Blocked, InOp, Steps
    <3>4. t \in Txs
      BY <3>2, <3>3, ScanFacts
    <3> QED BY <3>1, <3>2, <3>4 DEF TimeOut
  <2> QED BY <2>1, <2>2
<1>2. Wanted(s) \in Blocks
  BY ScanFacts DEF Wanted
<1>3. committed \subseteq Blocks \X Slots \X (Vals \cup {0}) /\ file \in FileType
  BY DEF IInv, TypesOK
<1>4. CommittedOK' /\ committed' \subseteq Blocks \X Slots \X (Vals \cup {0})
  <2>1. CASE Commit(t)
    BY <2>1, CommitTakesBack
  <2>2. CASE file' = Restored(t) /\ committed' = committed
    BY <2>2, <1>1, <1>3, RollbackTakesBack
  <2> QED BY <2>1, <2>2, <1>1
<1>5. /\ file' \in FileType /\ Len(file') = Len(file)
      /\ \A b \in 1..Len(file) : lock[t][b] # "X" => file'[b] = file[b]
  <2>1. CASE Commit(t)
    BY <2>1, <1>3 DEF Commit
  <2>2. CASE file' = Restored(t)
    BY <2>2, <1>1, RestoredIs
  <2> QED BY <2>1, <2>2, <1>1
<1>6. lost' \subseteq Blocks
  BY <1>1, <1>2
<1> QED BY ONLY <1>1, <1>4, <1>5, <1>6, IInv, ReleaseKeeps

(***************************************************************************)
(* The theorems.                                                           *)
(***************************************************************************)
(* A step that changes nothing keeps the invariant.                        *)
LEMMA StutterKeeps ==
  ASSUME IInv, UNCHANGED vars PROVE IInv'
<1>1. UNCHANGED <<file, lock, scan, pins, undo, committed, seen, twice, lost, ops>>
  BY DEF vars
<1>2. TypesOK' /\ OneThread' /\ \A s \in Scans : StateOK(s)'
  BY <1>1 DEF IInv, TypesOK, OneThread, StateOK, InOp, Mine
<1>3. \A t, b : ScansAt(t, b)' = ScansAt(t, b) /\ OpenAt(t, b)' = OpenAt(t, b)
  BY <1>1 DEF ScansAt, OpenAt, ScansOf
<1>4. PinsOK' /\ PinsBalanced'
  BY <1>1, <1>3, PinsStay DEF IInv
<1>5. ASSUME lost' = {} PROVE LocksOK' /\ UndoOK' /\ GrowthOK' /\ CommittedOK' /\ \A s \in Scans : SeenOK(s)'
  <2>1. LocksOK /\ UndoOK /\ GrowthOK /\ CommittedOK /\ \A s \in Scans : SeenOK(s)
    BY <1>1, <1>5 DEF IInv
  <2>2. LocksOK' /\ UndoOK'
    BY <2>1, <1>1 DEF LocksOK, UndoOK, Mine
  <2>3. GrowthOK'
    <3>1. Growers' = Growers
      BY <1>1 DEF Growers, Fresh, Mine
    <3> QED BY <3>1, <2>1, <1>1 DEF GrowthOK
  <2>4. CommittedOK'
    <3>1. PICK w : TakenBack(w)
      BY <2>1 DEF CommittedOK
    <3>2. \A u : Changed(u)' = Changed(u)
      BY <1>1 DEF Changed
    <3>3. TakenBack(w)'
      BY <3>1, <3>2, <1>1 DEF TakenBack
    <3> QED BY <3>3 DEF CommittedOK
  <2>5. ASSUME NEW s \in Scans PROVE SeenOK(s)'
    <3>1. SeenOK(s)
      BY <2>1
    <3>2. /\ Used' = Used /\ Returned(s)' = Returned(s) /\ (Rises(seen[s])' <=> Rises(seen[s]))
          /\ \A x : (Reached(s, x)' <=> Reached(s, x)) /\ (Passed(s, x)' <=> Passed(s, x)) /\ (Holds(s, x)' <=> Holds(s, x))
      BY <1>1 DEF Used, Returned, Rises, Before, Reached, Passed, Holds, Mine
    <3> QED BY <3>1, <3>2, <1>1 DEF SeenOK
  <2> QED BY <2>2, <2>3, <2>4, <2>5
<1> QED BY <1>2, <1>4, <1>5 DEF IInv

(* Every step of a scan, a client or a transaction keeps the invariant.    *)
LEMMA StepKeeps ==
  ASSUME IInv, [Next]_vars PROVE IInv'
<1>1. ASSUME NEW s \in Scans, Step(s) PROVE IInv'
  <2>1. CASE Size(s)
    BY <2>1, SizeKeeps
  <2>2. CASE MoveToNewBlock(s)
    BY <2>2, AppendKeeps
  <2>3. CASE NextAfter(s) \/ InsertAfter(s)
    BY <2>3, SearchKeeps
  <2>4. CASE AtEndOfBlock(s)
    BY <2>4, EndOfBlockKeeps
  <2>5. CASE SetFlag(s) \/ ClearFlag(s) \/ SetInt(s)
    BY <2>5, WriteKeeps
  <2>6. CASE ShareFirst(s)
    BY <2>6, ShareFirstKeeps
  <2>7. CASE TimeOut(s)
    BY <2>7, EndKeeps
  <2> QED BY <1>1, <2>1, <2>2, <2>3, <2>4, <2>5, <2>6, <2>7 DEF Step
<1>2. ASSUME NEW s \in Scans, Call(s) PROVE IInv'
  <2>1. CASE \E t \in Txs : Open(s, t)
    BY <2>1, OpenKeeps
  <2>2. CASE BeforeFirst(s) \/ \E b \in 1..Len(file), i \in Slots : MoveToRid(s, b, i)
    BY <2>2, RestartKeeps
  <2>3. CASE Close(s)
    BY <2>3, CloseKeeps
  <2>4. CASE Next_(s) \/ Insert(s) \/ Remove(s) \/ \E v \in Vals : SetVal(s, v)
    BY <2>4, BeginKeeps
  <2> QED BY <1>2, <2>1, <2>2, <2>3, <2>4 DEF Call
<1>3. ASSUME NEW t \in Txs, Commit(t) \/ Rollback(t) PROVE IInv'
  BY <1>3, EndKeeps
<1>4. CASE UNCHANGED vars
  BY <1>4, StutterKeeps
<1> QED BY <1>1, <1>2, <1>3, <1>4 DEF Next

(* In every reachable state the inductive invariant holds.                 *)
THEOREM Invariant == Spec => []IInv
<1>1. Init => IInv
  BY InitHolds
<1>2. IInv /\ [Next]_vars => IInv'
  BY StepKeeps
<1> QED BY <1>1, <1>2, PTL DEF Spec

(* The types hold; the file has no block that no insertion asked for, and  *)
(* no transaction has more pins than there are scans.                      *)
THEOREM TypeCorrect == Spec => []TypeOK
<1>1. ASSUME IInv PROVE TypeOK
  <2>1. TypesOK /\ PinsOK /\ \A s \in Scans : StateOK(s)
    BY <1>1 DEF IInv
  <2>2. \A s \in Scans : scan[s] \in ScanType /\ scan[s].blk \in 0..Len(file)
    BY <1>1, ScanFacts
  <2>3. pins \in [Txs -> [Blocks -> 0..Cardinality(Scans)]]
    <3>1. Cardinality(Scans) \in Nat
      BY ScanSets
    <3>2. ASSUME NEW t \in Txs, NEW b \in Blocks PROVE pins[t][b] \in 0..Cardinality(Scans)
      <4>1. pins[t][b] \in Nat
        BY <2>1 DEF TypesOK
      <4>2. CASE b = EOF
        BY <4>2, <2>1, <3>1 DEF PinsOK
      <4>3. CASE b # EOF
        <5>1. pins[t][b] <= Cardinality(ScansAt(t, b))
          BY <4>3, <2>1 DEF PinsOK
        <5>2. ScansAt(t, b) \subseteq Scans
          BY DEF ScansAt, ScansOf
        <5>3. Cardinality(ScansAt(t, b)) \in Nat /\ Cardinality(ScansAt(t, b)) <= Cardinality(Scans)
          BY <5>2, ScanSets
        <5> QED BY <5>1, <5>3, <4>1, <3>1
      <4> QED BY <4>2, <4>3
    <3> QED BY <3>2, <2>1 DEF TypesOK
  <2>4. \A s \in Scans : /\ scan[s].tx \in Txs \cup {0}
                         /\ scan[s].pc \in Steps \cup {"none", "idle", "closed"}
                         /\ scan[s].slot \in 0..SlotsPerBlock
                         /\ scan[s].val \in Vals \cup {0}
                         /\ scan[s].ended \in BOOLEAN
    BY <2>2 DEF ScanType
  <2> QED BY <2>1, <2>2, <2>3, <2>4 DEF TypeOK, TypesOK, FileType
<1> QED BY <1>1, Invariant, PTL

(* What is committed is what is left when the running transactions' changes *)
(* are taken back, however their scans, insertions and rollbacks interleave. *)
THEOREM CommittedStay == Spec => []CommittedRecords
<1>1. ASSUME IInv PROVE CommittedRecords
  <2> SUFFICES ASSUME lost = {}
               PROVE  /\ \A t \in Txs : \A u \in Others(t) : Changed(t) \cap Changed(u) = {}
                      /\ committed = {r \in RecordsIn(file) : \A t \in Txs : Place(r) \notin Changed(t)}
                           \cup UNION {{r \in RecordsIn(Undone(file, undo[t])) : Place(r) \in Changed(t)} : t \in Txs}
    BY DEF CommittedRecords, Place
  <2>1. file \in FileType /\ CommittedOK
    BY <1>1 DEF IInv, TypesOK
  <2>2. PICK w \in FileType : TakenBack(w)
    BY <2>1 DEF CommittedOK, TakenBack
  <2>3. /\ Len(w) = Len(file) /\ committed = RecordsIn(w)
        /\ \A b \in 1..Len(file), i \in Slots :
             /\ (\A t \in Txs : <<b, i>> \notin Changed(t)) => w[b][i] = file[b][i]
             /\ \A t \in Txs : <<b, i>> \in Changed(t) => w[b][i] = Undone(file, undo[t])[b][i]
    BY <2>2 DEF TakenBack
  <2>4. ASSUME NEW t \in Txs, NEW u \in Others(t) PROVE Changed(t) \cap Changed(u) = {}
    <3>1. ASSUME NEW x, x \in Changed(t) PROVE x \notin Changed(u)
      <4>1. PICK b, i : x = <<b, i>>
        BY <3>1 DEF Changed
      <4> QED BY <4>1, <3>1, <1>1, UndoFits
    <3> QED BY <3>1
  <2> DEFINE P == ((1..Len(file)) \X Slots) \ UNION {Changed(t) : t \in Txs}
  <2>5. \A r : r \in RecordsIn(w) /\ Place(r) \in P <=> r \in RecordsIn(file) /\ Place(r) \in P
    <3>1. \A b, i : <<b, i>> \in P =>
            (b \in 1..Len(w) /\ i \in Slots <=> b \in 1..Len(file) /\ i \in Slots) /\ (b \in 1..Len(w) /\ i \in Slots => w[b][i] = file[b][i])
      BY <2>3
    <3> HIDE DEF P
    <3> QED BY ONLY <3>1, <2>1, w \in FileType, SameRecords
  <2>6. ASSUME NEW t \in Txs
        PROVE  \A r : r \in RecordsIn(w) /\ Place(r) \in Changed(t) <=>
                      r \in RecordsIn(Undone(file, undo[t])) /\ Place(r) \in Changed(t)
    <3>1. PICK g : g = Undone(file, undo[t])
      OBVIOUS
    <3>2. g \in FileType /\ Len(g) = Len(file)
      BY <3>1, <1>1, RestoredIs DEF Restored
    <3>3. \A b, i : <<b, i>> \in Changed(t) =>
            (b \in 1..Len(w) /\ i \in Slots <=> b \in 1..Len(g) /\ i \in Slots) /\ (b \in 1..Len(w) /\ i \in Slots => w[b][i] = g[b][i])
      BY <3>1, <3>2, <2>3
    <3>4. PICK Q : Q = Changed(t)
      OBVIOUS
    <3>5. \A r : r \in RecordsIn(w) /\ Place(r) \in Q <=> r \in RecordsIn(g) /\ Place(r) \in Q
      BY ONLY <3>2, <3>3, <3>4, w \in FileType, SameRecords
    <3> QED BY <3>1, <3>4, <3>5
  <2>7. \A r \in RecordsIn(w) : Place(r) \in (1..Len(file)) \X Slots
    <3>1. ASSUME NEW r \in RecordsIn(w) PROVE Place(r) \in (1..Len(file)) \X Slots
      <4>1. PICK b \in 1..Len(w), i \in Slots : r = <<b, i, w[b][i].val>>
        BY RecordsAre
      <4> QED BY <4>1, <2>3 DEF Place
    <3> QED BY <3>1
  <2>8. \A r \in RecordsIn(file) : Place(r) \in (1..Len(file)) \X Slots
    <3>1. ASSUME NEW r \in RecordsIn(file) PROVE Place(r) \in (1..Len(file)) \X Slots
      <4>1. PICK b \in 1..Len(file), i \in Slots : r = <<b, i, file[b][i].val>>
        BY <2>1, RecordsAre
      <4> QED BY <4>1 DEF Place
    <3> QED BY <3>1
  <2>9. \A r : Place(r) \in P <=> Place(r) \in (1..Len(file)) \X Slots /\ \A t \in Txs : Place(r) \notin Changed(t)
    OBVIOUS
  <2> HIDE DEF P
  <2>10. ASSUME NEW r
         PROVE  r \in RecordsIn(w) <=>
                  \/ r \in RecordsIn(file) /\ \A t \in Txs : Place(r) \notin Changed(t)
                  \/ \E t \in Txs : r \in RecordsIn(Undone(file, undo[t])) /\ Place(r) \in Changed(t)
    BY <2>5, <2>6, <2>7, <2>8, <2>9
  <2>11. committed = {r \in RecordsIn(file) : \A t \in Txs : Place(r) \notin Changed(t)}
                       \cup UNION {{r \in RecordsIn(Undone(file, undo[t])) : Place(r) \in Changed(t)} : t \in Txs}
    BY <2>3, <2>10
  <2> QED BY <2>4, <2>11
<1> QED BY <1>1, Invariant, PTL

(* A scan that has come to its end in a transaction that changed nothing   *)
(* has returned every record once and in order, and nobody adds one.       *)
THEOREM ScansComplete == Spec => []ScanIsComplete
<1>1. ASSUME IInv PROVE ScanIsComplete
  <2>1. ASSUME NEW s \in Scans, lost = {}, scan[s].ended, seen[s] # Dirty
        PROVE  Returned(s) = Used /\ Rises(seen[s])
    BY <1>1, <2>1 DEF IInv, SeenOK
  <2> QED BY <2>1 DEF ScanIsComplete, Returned, Rises
<1> QED BY <1>1, Invariant, PTL

(* A block is pinned once for every open scan on it.                       *)
THEOREM PinsBalance == Spec => []PinsBalanced
<1>1. IInv => PinsBalanced
  BY DEF IInv
<1> QED BY <1>1, Invariant, PTL
=============================================================================
