---------------------------- MODULE LogMgrProofs ----------------------------
(***************************************************************************)
(* Proofs about LogMgr, for executions in which iterator() does not run    *)
(* beside an append (Quiet): the records are read back in order, a flushed *)
(* record stays, and the log implements StableLog.                         *)
(*                                                                         *)
(* The first part says what the iterator reads from a page and from the    *)
(* file, by induction over positions and over blocks.  The second states   *)
(* the inductive invariant, the third shows that every step keeps it, and  *)
(* the last draws the theorems from it.                                    *)
(***************************************************************************)
EXTENDS LogMgr, NatLemmas, TLAPS

-----------------------------------------------------------------------------
(* Lists of consecutive records: 1 .. n, m + 1 .. n and n .. m + 1.        *)
UpTo(n) == [i \in 1 .. n |-> i]
Rising(m, n) == [i \in 1 .. n - m |-> m + i]
Falling(m, n) == [i \in 1 .. n - m |-> n + 1 - i]

(* How these lists are put together.                                       *)
LEMMA Lists ==
  ASSUME NEW m \in Nat, NEW n \in Nat, m <= n
  PROVE  /\ Len(UpTo(n)) = n
         /\ UpTo(0) = <<>> /\ Falling(n, n) = <<>>
         /\ Reverse(Falling(m, n)) = Rising(m, n)
         /\ UpTo(m) \o Rising(m, n) = UpTo(n)
         /\ <<n + 1>> \o Falling(m, n) = Falling(m, n + 1)
<1>1. Len(UpTo(n)) = n
  BY DEF UpTo
<1>2. UpTo(0) = <<>> /\ Falling(n, n) = <<>>
  BY DEF UpTo, Falling
<1>3. Reverse(Falling(m, n)) = Rising(m, n)
  <2>1. Len(Falling(m, n)) = n - m
    BY DEF Falling
  <2>2. \A i \in 1 .. n - m : Falling(m, n)[n - m - i + 1] = m + i
    BY DEF Falling
  <2> HIDE DEF Falling
  <2> QED BY <2>1, <2>2 DEF Rising, Reverse
<1>4. UpTo(m) \o Rising(m, n) = UpTo(n)
  BY DEF UpTo, Rising
<1>5. <<n + 1>> \o Falling(m, n) = Falling(m, n + 1)
  BY DEF Falling
<1> QED BY <1>1, <1>2, <1>3, <1>4, <1>5

-----------------------------------------------------------------------------
(* What the iterator reads from a page.                                    *)

(* A page as this log writes it: no record reaches beyond its end, and the *)
(* header is 0, the block size, or the position of a record.               *)
PageOK(p) ==
    /\ p \in Pages
    /\ \A pos \in Positions : pos + p.body[pos].size <= BlockSize
    /\ p.boundary \in Positions => p.body[p.boundary].size > 0

ReadOf(body) == CHOOSE from : from = [pos \in 0 .. BlockSize |->
                  IF pos \in Positions /\ body[pos].size > 0
                    THEN <<body[pos].id>> \o from[pos + body[pos].size]
                    ELSE <<>>]

(* The reading is defined, from the end of the page downwards.             *)
LEMMA ReadIs ==
  ASSUME NEW body, \A pos \in Positions : body[pos].size \in Nat /\ pos + body[pos].size <= BlockSize
  PROVE  ReadOf(body) = [pos \in 0 .. BlockSize |->
                  IF pos \in Positions /\ body[pos].size > 0
                    THEN <<body[pos].id>> \o ReadOf(body)[pos + body[pos].size]
                    ELSE <<>>]
<1> DEFINE Is(f, k) == f = [pos \in k .. BlockSize |->
                  IF pos \in Positions /\ body[pos].size > 0
                    THEN <<body[pos].id>> \o f[pos + body[pos].size]
                    ELSE <<>>]
           T == {n \in Nat : n <= BlockSize => \E f : Is(f, BlockSize - n)}
<1>0. BlockSize \in Nat /\ BlockSize > 1 /\ Positions = 1 .. BlockSize - 1
  BY BlockSizeAssumption DEF Positions
<1>1. 0 \in T
  <2>1. \E f : Is(f, BlockSize)
    <3>1. Is([pos \in BlockSize .. BlockSize |-> <<>>], BlockSize)
      BY <1>0
    <3> QED BY <3>1
  <2>2. BlockSize - 0 = BlockSize
    BY <1>0
  <2> HIDE DEF Is
  <2> QED BY <2>1, <2>2
<1>2. ASSUME NEW n \in Nat, n \in T PROVE n + 1 \in T
  <2> SUFFICES ASSUME n + 1 <= BlockSize PROVE \E f : Is(f, BlockSize - (n + 1))
    OBVIOUS
  <2>1. PICK k \in Nat : k = BlockSize - (n + 1) /\ k + 1 = BlockSize - n /\ k + 1 <= BlockSize
    BY <1>0
  <2>2. PICK f : Is(f, k + 1)
    <3>1. n <= BlockSize
      BY <1>0
    <3> HIDE DEF Is
    <3> QED BY <1>2, <2>1, <3>1
  <2> DEFINE g == [pos \in k .. BlockSize |->
                     IF pos > k THEN f[pos]
                     ELSE IF pos \in Positions /\ body[pos].size > 0
                            THEN <<body[pos].id>> \o f[pos + body[pos].size] ELSE <<>>]
  <2>3. ASSUME NEW pos \in k .. BlockSize
        PROVE  g[pos] = IF pos \in Positions /\ body[pos].size > 0
                          THEN <<body[pos].id>> \o g[pos + body[pos].size] ELSE <<>>
    <3>1. CASE pos \in Positions /\ body[pos].size > 0
      <4>1. pos + body[pos].size \in k + 1 .. BlockSize
        BY <1>0, <2>1, <3>1
      <4>2. g[pos + body[pos].size] = f[pos + body[pos].size]
        BY <4>1, <2>1
      <4>3. pos > k => pos \in k + 1 .. BlockSize
        BY <1>0, <2>1
      <4>4. pos > k => f[pos] = <<body[pos].id>> \o f[pos + body[pos].size]
        BY <2>2, <3>1, <4>3
      <4> QED BY <3>1, <4>2, <4>4
    <3>2. CASE ~(pos \in Positions /\ body[pos].size > 0)
      <4>1. pos > k => f[pos] = <<>>
        BY <2>1, <2>2, <3>2
      <4> QED BY <3>2, <4>1
    <3> QED BY <3>1, <3>2
  <2>4. Is(g, k)
    BY <2>3
  <2> QED BY <2>1, <2>4
<1>3. \E f : Is(f, 0)
  <2>1. BlockSize \in T
    <3> HIDE DEF T
    <3> QED BY <1>0, <1>1, <1>2, SetInduction
  <2>2. BlockSize - BlockSize = 0 /\ BlockSize <= BlockSize
    BY <1>0
  <2> HIDE DEF Is
  <2> QED BY <2>1, <2>2
<1> QED BY <1>3 DEF ReadOf

(* PageRecords reads from the boundary.                                    *)
LEMMA PageRead == \A p : PageRecords(p) = ReadOf(p.body)[p.boundary]
  BY DEF PageRecords, ReadOf

BodyOK(body) ==
    \A pos \in Positions : /\ body[pos].size \in Nat /\ body[pos].id \in Nat
                           /\ pos + body[pos].size <= BlockSize

(* What is read at a position.                                             *)
LEMMA ReadAt ==
  ASSUME NEW body, BodyOK(body), NEW pos \in 0 .. BlockSize
  PROVE  /\ (pos \in Positions /\ body[pos].size > 0) =>
               ReadOf(body)[pos] = <<body[pos].id>> \o ReadOf(body)[pos + body[pos].size]
         /\ ~(pos \in Positions /\ body[pos].size > 0) => ReadOf(body)[pos] = <<>>
<1> DEFINE F == ReadOf(body)
<1>1. F = [q \in 0 .. BlockSize |->
             IF q \in Positions /\ body[q].size > 0
               THEN <<body[q].id>> \o F[q + body[q].size]
               ELSE <<>>]
  BY ReadIs DEF BodyOK
<1> HIDE DEF F
<1>2. F[pos] = IF pos \in Positions /\ body[pos].size > 0
                 THEN <<body[pos].id>> \o F[pos + body[pos].size]
                 ELSE <<>>
  BY <1>1
<1> QED BY <1>2 DEF F

(* It is a list, and depends only on what is stored from there on.         *)
LEMMA ReadFrom ==
  ASSUME NEW body, NEW other, BodyOK(body), BodyOK(other), NEW k \in 0 .. BlockSize,
         \A pos \in Positions : k <= pos => other[pos] = body[pos]
  PROVE  \A pos \in k .. BlockSize : /\ ReadOf(body)[pos] \in Seq(Nat)
                                     /\ ReadOf(other)[pos] = ReadOf(body)[pos]
<1> DEFINE Good(pos) == /\ ReadOf(body)[pos] \in Seq(Nat)
                        /\ ReadOf(other)[pos] = ReadOf(body)[pos]
           T == {n \in Nat : \A pos \in k .. BlockSize : BlockSize - pos <= n => Good(pos)}
<1>0. BlockSize \in Nat /\ k \in Nat /\ Positions = 1 .. BlockSize - 1
  BY BlockSizeAssumption DEF Positions
<1>1. ASSUME NEW n \in Nat, NEW pos \in k .. BlockSize, BlockSize - pos <= n,
             \A q \in k .. BlockSize : BlockSize - q <= n - 1 => Good(q)
      PROVE  Good(pos)
  <2>0. pos \in 0 .. BlockSize
    BY <1>0
  <2>1. CASE pos \in Positions /\ body[pos].size > 0
    <3>1. body[pos].size \in Nat /\ body[pos].id \in Nat /\ pos + body[pos].size <= BlockSize
          /\ other[pos] = body[pos]
      BY <1>0, <2>1 DEF BodyOK
    <3>2. PICK q \in k .. BlockSize : q = pos + body[pos].size /\ BlockSize - q <= n - 1
      BY <1>0, <1>1, <2>1, <3>1
    <3>3. Good(q)
      BY <1>1, <3>2
    <3>4. /\ ReadOf(body)[pos] = <<body[pos].id>> \o ReadOf(body)[q]
          /\ ReadOf(other)[pos] = <<body[pos].id>> \o ReadOf(other)[q]
      BY <2>0, <2>1, <3>1, <3>2, ReadAt
    <3> QED BY <3>1, <3>3, <3>4
  <2>2. CASE ~(pos \in Positions /\ body[pos].size > 0)
    <3>1. ~(pos \in Positions /\ other[pos].size > 0)
      BY <1>0, <2>2
    <3>2. ReadOf(body)[pos] = <<>> /\ ReadOf(other)[pos] = <<>>
      BY <2>0, <2>2, <3>1, ReadAt
    <3> QED BY <3>2
  <2> QED BY <2>1, <2>2
<1> HIDE DEF Good
<1>2. 0 \in T
  BY <1>0, <1>1
<1>3. ASSUME NEW n \in Nat, n \in T PROVE n + 1 \in T
  <2>1. n + 1 \in Nat /\ (n + 1) - 1 = n
    OBVIOUS
  <2>2. \A q \in k .. BlockSize : BlockSize - q <= (n + 1) - 1 => Good(q)
    BY <1>3, <2>1
  <2> QED BY <1>1, <2>1, <2>2
<1>4. BlockSize \in T
  <2> HIDE DEF T
  <2> QED BY <1>0, <1>2, <1>3, SetInduction
<1>5. \A pos \in k .. BlockSize : Good(pos)
  BY <1>0, <1>4
<1> QED BY <1>5 DEF Good

(* The boundary and the body of a page.                                    *)
LEMMA PageFields ==
  ASSUME NEW p, PageOK(p)
  PROVE  /\ p.boundary \in 0 .. BlockSize /\ BodyOK(p.body)
         /\ p.boundary \in Positions \/ p.boundary = 0 \/ p.boundary = BlockSize
         /\ BlockSize \in Nat /\ BlockSize > 1 /\ Positions = 1 .. BlockSize - 1
         /\ \A pos \in Positions : p.body[pos] \in [id : 0 .. MaxRecords, size : 0 .. BlockSize]
<1>1. BlockSize \in Nat /\ BlockSize > 1 /\ Positions = 1 .. BlockSize - 1
  BY BlockSizeAssumption DEF Positions
<1>2. /\ p.boundary \in 0 .. BlockSize
      /\ \A pos \in Positions : p.body[pos] \in [id : 0 .. MaxRecords, size : 0 .. BlockSize]
  BY DEF PageOK, Pages
<1>3. BodyOK(p.body)
  BY <1>1, <1>2 DEF BodyOK, PageOK
<1> QED BY <1>1, <1>2, <1>3

(* An empty page, one with a record, and what an append makes of a page.   *)
LEMMA EmptyRead ==
  ASSUME NEW p, PageOK(p)
  PROVE  p.boundary \notin Positions <=> PageRecords(p) = <<>>
<1>1. p.boundary \in 0 .. BlockSize /\ BodyOK(p.body)
  BY PageFields
<1>2. PageRecords(p) = ReadOf(p.body)[p.boundary]
  BY PageRead
<1>3. CASE p.boundary \notin Positions
  BY <1>1, <1>2, <1>3, ReadAt
<1>4. CASE p.boundary \in Positions
  <2>1. p.body[p.boundary].size > 0 /\ p.body[p.boundary].size \in Nat
        /\ p.boundary + p.body[p.boundary].size <= BlockSize
    BY <1>1, <1>4 DEF PageOK, BodyOK
  <2>2. PICK q \in 0 .. BlockSize : q = p.boundary + p.body[p.boundary].size
    BY <1>1, <2>1
  <2>3. ReadOf(p.body)[q] \in Seq(Nat)
    BY <1>1, <2>2, ReadFrom
  <2>4. ReadOf(p.body)[p.boundary] = <<p.body[p.boundary].id>> \o ReadOf(p.body)[q]
    BY <1>1, <1>4, <2>1, <2>2, ReadAt
  <2>5. Len(ReadOf(p.body)[p.boundary]) > 0
    BY <2>3, <2>4
  <2> QED BY <1>2, <1>4, <2>5
<1> QED BY <1>3, <1>4

(* A record stored below the boundary is not read yet.                     *)
LEMMA PutRead ==
  ASSUME NEW p, PageOK(p), NEW size \in Sizes, p.boundary - size >= 1,
         NEW q \in Pages, q.boundary = p.boundary,
         q.body[p.boundary - size].size = size,
         \A i \in Positions : i # p.boundary - size => q.body[i] = p.body[i]
  PROVE  PageOK(q) /\ PageRecords(q) = PageRecords(p)
<1>0. /\ p.boundary \in 0 .. BlockSize /\ BodyOK(p.body)
      /\ BlockSize \in Nat /\ BlockSize > 1 /\ Positions = 1 .. BlockSize - 1
      /\ \A pos \in Positions : p.body[pos] \in [id : 0 .. MaxRecords, size : 0 .. BlockSize]
  BY PageFields
<1>1. size \in Nat /\ size \in 1 .. BlockSize - 1
  BY <1>0, SizesAssumption
<1>2. PICK pos \in Positions : pos = p.boundary - size
  BY <1>0, <1>1
<1>5. /\ q.body[pos].size = size
      /\ \A i \in Positions : i # pos => q.body[i] = p.body[i]
  BY <1>2
<1>6. PageOK(q)
  <2>1. /\ \A i \in Positions : i + p.body[i].size <= BlockSize
        /\ p.boundary \in Positions => p.body[p.boundary].size > 0
    BY DEF PageOK
  <2>2. \A i \in Positions : i + q.body[i].size <= BlockSize
    <3>1. pos + q.body[pos].size <= BlockSize
      BY <1>0, <1>1, <1>2, <1>5
    <3> QED BY <1>5, <2>1, <3>1
  <2>3. q.boundary \in Positions => q.body[q.boundary].size > 0
    <3>1. p.boundary # pos
      BY <1>0, <1>1, <1>2
    <3> QED BY <1>5, <2>1, <3>1
  <2> QED BY <2>2, <2>3 DEF PageOK
<1>7. PageRecords(q) = PageRecords(p)
  <2>1. \A i \in Positions : p.boundary <= i => q.body[i] = p.body[i]
    BY <1>0, <1>1, <1>2, <1>5
  <2>2. BodyOK(q.body)
    BY <1>6, PageFields
  <2>3. ReadOf(q.body)[p.boundary] = ReadOf(p.body)[p.boundary]
    <3>1. PICK k \in 0 .. BlockSize : k = p.boundary
      BY <1>0
    <3>2. \A i \in Positions : k <= i => q.body[i] = p.body[i]
      BY <2>1, <3>1
    <3>3. k \in k .. BlockSize
      BY <1>0
    <3>4. BodyOK(p.body)
      BY <1>0
    <3>5. \A i \in k .. BlockSize : ReadOf(q.body)[i] = ReadOf(p.body)[i]
      BY ONLY <2>2, <3>2, <3>4, k \in 0 .. BlockSize, ReadFrom
    <3>6. ReadOf(q.body)[k] = ReadOf(p.body)[k]
      BY <3>3, <3>5
    <3> QED BY <3>1, <3>6
  <2> QED BY <2>3, PageRead
<1> QED BY <1>6, <1>7

(* It is read first once the boundary is moved there.                      *)
LEMMA ShownRead ==
  ASSUME NEW p, PageOK(p), NEW size \in Sizes, p.boundary - size >= 1,
         p.body[p.boundary - size].size = size,
         NEW q, q = [p EXCEPT !.boundary = @ - size]
  PROVE  /\ PageOK(q) /\ q.boundary = p.boundary - size /\ q.boundary \in Positions
         /\ PageRecords(q) = <<p.body[p.boundary - size].id>> \o PageRecords(p)
<1>0. /\ p.boundary \in 0 .. BlockSize /\ BodyOK(p.body)
      /\ BlockSize \in Nat /\ BlockSize > 1 /\ Positions = 1 .. BlockSize - 1
  BY PageFields
<1>1. size \in Nat /\ size \in 1 .. BlockSize - 1
  BY <1>0, SizesAssumption
<1>2. PICK pos \in Positions : pos = p.boundary - size /\ pos + size = p.boundary
  BY <1>0, <1>1
<1>3. /\ q.boundary = pos /\ q.body = p.body /\ q \in Pages
  BY <1>0, <1>2 DEF PageOK, Pages
<1>4. PageOK(q)
  BY <1>1, <1>2, <1>3 DEF PageOK
<1>5. ReadOf(p.body)[pos] = <<p.body[pos].id>> \o ReadOf(p.body)[p.boundary]
  <2>1. pos \in 0 .. BlockSize /\ p.body[pos].size = size /\ p.body[pos].size > 0
    BY <1>0, <1>1, <1>2
  <2>2. ReadOf(p.body)[pos] = <<p.body[pos].id>> \o ReadOf(p.body)[pos + p.body[pos].size]
    BY <1>0, <2>1, ReadAt
  <2> QED BY <1>2, <2>1, <2>2
<1> QED BY <1>2, <1>3, <1>4, <1>5, PageRead

-----------------------------------------------------------------------------
(* What the iterator reads from the whole file.                            *)

Flat(seqs) == CHOOSE flatten : flatten = [i \in 1 .. Len(seqs) |->
                IF i = 1 THEN seqs[i] ELSE flatten[i-1] \o seqs[i]]

(* The concatenation of a sequence of lists is defined.                    *)
LEMMA FlatIs ==
  ASSUME NEW seqs, Len(seqs) \in Nat
  PROVE  Flat(seqs) = [i \in 1 .. Len(seqs) |->
                IF i = 1 THEN seqs[i] ELSE Flat(seqs)[i-1] \o seqs[i]]
<1> DEFINE Is(f, n) == f = [i \in 1 .. n |-> IF i = 1 THEN seqs[i] ELSE f[i-1] \o seqs[i]]
           T == {n \in Nat : \E f : Is(f, n)}
<1>1. 0 \in T
  <2>1. \E f : Is(f, 0)
    <3>1. Is(<<>>, 0)
      OBVIOUS
    <3> QED BY <3>1
  <2> HIDE DEF Is
  <2> QED BY <2>1
<1>2. ASSUME NEW n \in Nat, n \in T PROVE n + 1 \in T
  <2>1. PICK f : Is(f, n)
    <3> HIDE DEF Is
    <3> QED BY <1>2
  <2> DEFINE g == [i \in 1 .. n + 1 |-> IF i <= n THEN f[i]
                                        ELSE IF i = 1 THEN seqs[i] ELSE f[i-1] \o seqs[i]]
  <2>2. ASSUME NEW i \in 1 .. n + 1
        PROVE  g[i] = IF i = 1 THEN seqs[i] ELSE g[i-1] \o seqs[i]
    <3>1. i # 1 => g[i-1] = f[i-1]
      OBVIOUS
    <3>2. ASSUME i <= n PROVE f[i] = IF i = 1 THEN seqs[i] ELSE f[i-1] \o seqs[i]
      <4>1. i \in 1 .. n
        BY <3>2
      <4>2. f = [j \in 1 .. n |-> IF j = 1 THEN seqs[j] ELSE f[j-1] \o seqs[j]]
        BY <2>1
      <4> QED BY ONLY <4>1, <4>2
    <3> QED BY <3>1, <3>2
  <2>3. Is(g, n + 1)
    BY <2>2
  <2>4. \E h : Is(h, n + 1)
    BY <2>3
  <2> HIDE DEF Is, g
  <2> QED BY <2>4
<1>3. \E f : Is(f, Len(seqs))
  <2> HIDE DEF Is
  <2>1. Len(seqs) \in T
    <3> HIDE DEF T
    <3> QED BY <1>1, <1>2, SetInduction
  <2> QED BY <2>1
<1> QED BY <1>3 DEF Flat

(* The concatenation one list at a time.                                   *)
LEMMA FlatAt ==
  ASSUME NEW seqs, Len(seqs) \in Nat, NEW k \in Nat, k < Len(seqs)
  PROVE  /\ k = 0 => Flat(seqs)[1] = seqs[1]
         /\ k # 0 => Flat(seqs)[k + 1] = Flat(seqs)[k] \o seqs[k + 1]
<1> DEFINE F == Flat(seqs)
<1>1. F = [i \in 1 .. Len(seqs) |-> IF i = 1 THEN seqs[i] ELSE F[i-1] \o seqs[i]]
  BY FlatIs
<1> HIDE DEF F
<1>2. /\ k = 0 => F[1] = seqs[1]
      /\ k # 0 => F[k + 1] = F[k] \o seqs[k + 1]
  <2>1. k + 1 \in 1 .. Len(seqs) /\ (k + 1) - 1 = k
    OBVIOUS
  <2>2. F[k + 1] = IF k + 1 = 1 THEN seqs[k + 1] ELSE F[(k + 1) - 1] \o seqs[k + 1]
    BY <1>1, <2>1
  <2>3. CASE k = 0
    <3>1. k + 1 = 1
      BY <2>3
    <3> QED BY <2>2, <2>3, <3>1
  <2>4. CASE k # 0
    <3>1. k + 1 # 1
      BY <2>4
    <3> QED BY <2>1, <2>2, <2>4, <3>1
  <2> QED BY <2>3, <2>4
<1> QED BY <1>2 DEF F

(* A list more is put behind the others.                                   *)
LEMMA FlattenMore ==
  ASSUME NEW n \in Nat, NEW seqs, NEW more, Len(seqs) = n, Len(more) = n + 1,
         \A i \in 1 .. n : more[i] = seqs[i], more[n + 1] \in Seq(Nat), n = 0 => seqs = <<>>
  PROVE  FlattenSeq(more) = FlattenSeq(seqs) \o more[n + 1]
<1>0. Len(seqs) \in Nat /\ Len(more) \in Nat /\ n < Len(more)
  OBVIOUS
<1>1. FlattenSeq(more) = Flat(more)[n + 1]
  BY DEF FlattenSeq, Flat
<1>2. CASE n = 0
  <2>1. FlattenSeq(seqs) = <<>>
    BY <1>2 DEF FlattenSeq
  <2>2. Flat(more)[n + 1] = more[n + 1]
    <3>1. Flat(more)[1] = more[1]
      <4>1. 0 \in Nat /\ 0 < Len(more)
        BY <1>0, <1>2
      <4> QED BY <1>0, <4>1, FlatAt
    <3>2. n + 1 = 1
      BY <1>2
    <3> QED BY <3>1, <3>2
  <2> QED BY <1>1, <2>1, <2>2
<1>3. CASE n # 0
  <2>1. FlattenSeq(seqs) = Flat(seqs)[n]
    BY <1>3 DEF FlattenSeq, Flat
  <2> DEFINE T == {k \in Nat : k \in 1 .. n => Flat(more)[k] = Flat(seqs)[k]}
  <2>2. 0 \in T
    OBVIOUS
  <2>3. ASSUME NEW k \in Nat, k \in T PROVE k + 1 \in T
    <3> SUFFICES ASSUME k + 1 \in 1 .. n PROVE Flat(more)[k + 1] = Flat(seqs)[k + 1]
      OBVIOUS
    <3>1. more[k + 1] = seqs[k + 1] /\ k < Len(more) /\ k < Len(seqs)
      OBVIOUS
    <3>2. CASE k = 0
      <4>1. Flat(more)[1] = more[1] /\ Flat(seqs)[1] = seqs[1]
        BY <1>0, <3>1, <3>2, FlatAt
      <4> QED BY <3>1, <3>2, <4>1
    <3>3. CASE k # 0
      <4>1. Flat(more)[k + 1] = Flat(more)[k] \o more[k + 1]
        BY <1>0, <3>1, <3>3, FlatAt
      <4>2. Flat(seqs)[k + 1] = Flat(seqs)[k] \o seqs[k + 1]
        BY <1>0, <3>1, <3>3, FlatAt
      <4>3. Flat(more)[k] = Flat(seqs)[k]
        BY <2>3, <3>3
      <4> QED BY <3>1, <4>1, <4>2, <4>3
    <3> QED BY <3>2, <3>3
  <2>4. n \in T
    <3> HIDE DEF T
    <3> QED BY <2>2, <2>3, SetInduction
  <2>5. Flat(more)[n] = Flat(seqs)[n]
    BY <1>3, <2>4
  <2>6. Flat(more)[n + 1] = Flat(more)[n] \o more[n + 1]
    BY <1>0, <1>3, FlatAt
  <2> QED BY <1>1, <2>1, <2>5, <2>6
<1> QED BY <1>2, <1>3

(* The records of the first k blocks, and of one block more.               *)
Upto(d, k) == [i \in 1 .. k |-> d[i]]

(* No block, no record.                                                    *)
LEMMA NoBlocks == \A d : Held(Upto(d, 0)) = <<>>
  BY DEF Held, Upto, FlattenSeq

(* Blocks with the same records hold the same.                             *)
LEMMA HeldSame ==
  ASSUME NEW d, NEW e, NEW k \in Nat, \A i \in 1 .. k : PageRecords(e[i]) = PageRecords(d[i])
  PROVE  Held(Upto(e, k)) = Held(Upto(d, k))
<1>1. /\ DOMAIN Upto(d, k) = 1 .. k /\ DOMAIN Upto(e, k) = 1 .. k
      /\ \A i \in 1 .. k : Upto(d, k)[i] = d[i] /\ Upto(e, k)[i] = e[i]
  BY DEF Upto
<1>2. [i \in DOMAIN Upto(d, k) |-> Reverse(PageRecords(Upto(d, k)[i]))]
        = [i \in DOMAIN Upto(e, k) |-> Reverse(PageRecords(Upto(e, k)[i]))]
  BY <1>1
<1> QED BY <1>2 DEF Held

(* A block more adds its records, oldest first.                            *)
LEMMA OneMoreBlock ==
  ASSUME NEW n \in Nat, NEW d, NEW e, DOMAIN e = 1 .. n + 1, e = [i \in DOMAIN e |-> e[i]],
         \A i \in 1 .. n : e[i] = d[i],
         PageRecords(e[n + 1]) \in Seq(Nat)
  PROVE  Held(e) = Held(Upto(d, n)) \o Reverse(PageRecords(e[n + 1]))
<1> DEFINE s == [i \in 1 .. n |-> Reverse(PageRecords(d[i]))]
           m == [i \in 1 .. n + 1 |-> Reverse(PageRecords(e[i]))]
<1>1. Reverse(PageRecords(e[n + 1])) \in Seq(Nat)
  BY DEF Reverse
<1>2. Held(Upto(d, n)) = FlattenSeq(s) /\ Held(e) = FlattenSeq(m)
  BY DEF Held, Upto
<1>3. /\ Len(s) = n /\ Len(m) = n + 1 /\ m[n + 1] = Reverse(PageRecords(e[n + 1]))
      /\ \A i \in 1 .. n : m[i] = s[i]
      /\ n = 0 => s = <<>>
  OBVIOUS
<1> HIDE DEF s, m
<1>4. m[n + 1] \in Seq(Nat)
  BY <1>1, <1>3
<1>5. FlattenSeq(m) = FlattenSeq(s) \o m[n + 1]
  BY ONLY n \in Nat, <1>3, <1>4, FlattenMore
<1> QED BY <1>2, <1>3, <1>5

(* A page reads as a list.                                                 *)
LEMMA PageList == ASSUME NEW p, PageOK(p) PROVE PageRecords(p) \in Seq(Nat)
<1>1. PICK k \in 0 .. BlockSize : k = p.boundary /\ BodyOK(p.body) /\ k \in k .. BlockSize
  BY PageFields
<1>2. ReadOf(p.body)[k] \in Seq(Nat)
  BY <1>1, ReadFrom
<1> QED BY <1>1, <1>2, PageRead

(* Empty lists one after the other are an empty list.                      *)
LEMMA FlatEmpty == \A n \in Nat : FlattenSeq([i \in 1 .. n |-> <<>>]) = <<>>
<1> DEFINE S(n) == [i \in 1 .. n |-> <<>>]
           T == {n \in Nat : FlattenSeq(S(n)) = <<>>}
<1>1. 0 \in T
  BY DEF FlattenSeq
<1>2. ASSUME NEW n \in Nat, n \in T PROVE n + 1 \in T
  <2>1. /\ Len(S(n)) = n /\ Len(S(n + 1)) = n + 1 /\ S(n + 1)[n + 1] = <<>>
        /\ \A i \in 1 .. n : S(n + 1)[i] = S(n)[i]
        /\ S(n + 1)[n + 1] \in Seq(Nat) /\ (n = 0 => S(n) = <<>>)
    OBVIOUS
  <2>2. FlattenSeq(S(n)) = <<>>
    BY <1>2
  <2> HIDE DEF S
  <2>3. FlattenSeq(S(n + 1)) = FlattenSeq(S(n)) \o S(n + 1)[n + 1]
    BY ONLY n \in Nat, <2>1, FlattenMore
  <2> QED BY <2>1, <2>2, <2>3
<1>3. \A n \in Nat : n \in T
  <2> HIDE DEF T
  <2> QED BY <1>1, <1>2, SetInduction
<1> QED BY <1>3

(* If block c is the last one without header, or c = 0 and there is none,  *)
(* an iterator over the first k blocks returns what they hold beyond the   *)
(* first c.                                                                *)
LEMMA ReadBehind ==
  ASSUME NEW d, NEW k \in Nat, NEW c \in 0 .. k, c # 0 => Headless(d[c]),
         \A i \in c + 1 .. k : ~Headless(d[i]),
         \A i \in 1 .. k : PageRecords(d[i]) \in Seq(Nat),
         Held(Upto(d, c)) \in Seq(Nat)
  PROVE  /\ Iterated(Upto(d, k)) \in Seq(Nat)
         /\ Held(Upto(d, k)) = Held(Upto(d, c)) \o Iterated(Upto(d, k))
<1> DEFINE H(j) == Held(Upto(d, j))
           It(j) == Iterated(Upto(d, j))
           R(j) == Reverse(PageRecords(d[j]))
           L(j) == [i \in 1 .. j |-> IF \E b \in i .. j : Headless(d[b]) THEN <<>> ELSE R(i)]
           T == {n \in Nat : c + n <= k => It(c + n) \in Seq(Nat) /\ H(c + n) = H(c) \o It(c + n)}
<1>1. ASSUME NEW j \in Nat PROVE It(j) = FlattenSeq(L(j))
  <2>1. DOMAIN Upto(d, j) = 1 .. j /\ Len(Upto(d, j)) = j /\ \A i \in 1 .. j : Upto(d, j)[i] = d[i]
    BY DEF Upto
  <2>2. L(j) = [i \in DOMAIN Upto(d, j) |->
                  IF \E b \in i .. Len(Upto(d, j)) : Headless(Upto(d, j)[b]) THEN <<>>
                  ELSE Reverse(PageRecords(Upto(d, j)[i]))]
    <3>1. ASSUME NEW i \in 1 .. j
          PROVE  (\E b \in i .. j : Headless(d[b])) <=> (\E b \in i .. j : Headless(Upto(d, j)[b]))
      BY <2>1
    <3> QED BY <2>1, <3>1
  <2> QED BY <2>2 DEF Iterated
<1>2. 0 \in T
  <2>1. L(c) = [i \in 1 .. c |-> <<>>]
    <3>1. ASSUME NEW i \in 1 .. c PROVE \E b \in i .. c : Headless(d[b])
      BY c \in i .. c, c # 0
    <3> QED BY <3>1
  <2>2. It(c) = <<>>
    <3>1. c \in Nat
      OBVIOUS
    <3> HIDE DEF It, L
    <3> QED BY <1>1, <2>1, <3>1, FlatEmpty
  <2>3. H(c) = H(c) \o <<>>
    <3> HIDE DEF H
    <3>1. H(c) \in Seq(Nat)
      BY DEF H
    <3> QED BY <3>1
  <2>4. c + 0 = c
    OBVIOUS
  <2>5. <<>> \in Seq(Nat)
    OBVIOUS
  <2> HIDE DEF H, It
  <2> QED BY <2>2, <2>3, <2>4, <2>5
<1>3. ASSUME NEW n \in Nat, n \in T PROVE n + 1 \in T
  <2> SUFFICES ASSUME c + (n + 1) <= k
               PROVE  It(c + (n + 1)) \in Seq(Nat) /\ H(c + (n + 1)) = H(c) \o It(c + (n + 1))
    OBVIOUS
  <2>1. PICK j \in Nat : j = c + n /\ j + 1 = c + (n + 1) /\ j + 1 <= k
    OBVIOUS
  <2>2. It(j) \in Seq(Nat) /\ H(j) = H(c) \o It(j)
    <3>1. c + n <= k
      BY <2>1
    <3> HIDE DEF It, H
    <3> QED BY <1>3, <2>1, <3>1
  <2>3. PageRecords(d[j + 1]) \in Seq(Nat) /\ R(j + 1) \in Seq(Nat)
    <3>1. PageRecords(d[j + 1]) \in Seq(Nat)
      BY <2>1
    <3> QED BY <3>1 DEF Reverse
  <2>4. H(j + 1) = H(j) \o R(j + 1)
    <3>1. PICK e : e = Upto(d, j + 1)
      OBVIOUS
    <3>2. /\ DOMAIN e = 1 .. j + 1 /\ e = [i \in DOMAIN e |-> e[i]] /\ e[j + 1] = d[j + 1]
          /\ \A i \in 1 .. j : e[i] = d[i]
      BY <3>1 DEF Upto
    <3>3. PageRecords(e[j + 1]) \in Seq(Nat)
      BY <2>3, <3>2
    <3>4. Held(e) = Held(Upto(d, j)) \o Reverse(PageRecords(e[j + 1]))
      BY ONLY j \in Nat, <3>2, <3>3, OneMoreBlock
    <3> QED BY <3>1, <3>2, <3>4
  <2>5. It(j + 1) = It(j) \o R(j + 1)
    <3>1. ~Headless(d[j + 1])
      BY <2>1
    <3>2. /\ Len(L(j)) = j /\ Len(L(j + 1)) = j + 1 /\ (j = 0 => L(j) = <<>>)
      OBVIOUS
    <3>3. L(j + 1)[j + 1] = R(j + 1)
      <4>1. \A b \in j + 1 .. j + 1 : ~Headless(d[b])
        BY <3>1
      <4> QED BY <4>1
    <3>4. ASSUME NEW i \in 1 .. j PROVE L(j + 1)[i] = L(j)[i]
      <4>1. \A b \in i .. j + 1 : b \in i .. j \/ b = j + 1
        OBVIOUS
      <4>2. \A b \in i .. j : b \in i .. j + 1
        OBVIOUS
      <4>3. (\E b \in i .. j + 1 : Headless(d[b])) <=> (\E b \in i .. j : Headless(d[b]))
        BY <3>1, <4>1, <4>2
      <4> QED BY <4>3
    <3>5. L(j + 1)[j + 1] \in Seq(Nat)
      BY <2>3, <3>3
    <3> HIDE DEF L, R
    <3>6. FlattenSeq(L(j + 1)) = FlattenSeq(L(j)) \o L(j + 1)[j + 1]
      BY ONLY j \in Nat, <3>2, <3>4, <3>5, FlattenMore
    <3>7. It(j + 1) = FlattenSeq(L(j + 1)) /\ It(j) = FlattenSeq(L(j))
      BY <1>1
    <3> HIDE DEF It
    <3> QED BY <3>3, <3>6, <3>7
  <2>6. H(c) \in Seq(Nat)
    OBVIOUS
  <2> HIDE DEF H, It, R
  <2>7. PICK x, y, z : x = H(c) /\ y = It(j) /\ z = R(j + 1)
    OBVIOUS
  <2>8. x \in Seq(Nat) /\ y \in Seq(Nat) /\ z \in Seq(Nat)
    BY <2>2, <2>3, <2>6, <2>7
  <2>9. y \o z \in Seq(Nat) /\ (x \o y) \o z = x \o (y \o z)
    BY ONLY <2>8
  <2>10. It(j + 1) = y \o z /\ H(j + 1) = (x \o y) \o z
    BY <2>2, <2>4, <2>5, <2>7
  <2>11. It(j + 1) \in Seq(Nat) /\ H(j + 1) = H(c) \o It(j + 1)
    BY <2>7, <2>9, <2>10
  <2> QED BY <2>1, <2>11
<1>4. k - c \in Nat /\ c + (k - c) = k
  OBVIOUS
<1>5. k - c \in T
  <2> HIDE DEF T
  <2> QED BY <1>2, <1>3, <1>4, SetInduction
<1> QED BY <1>4, <1>5

(* Of records 1 .. n, the first h are in the first c blocks: the others    *)
(* are returned.                                                           *)
LEMMA ReadBack ==
  ASSUME NEW d, NEW k \in Nat, NEW c \in 0 .. k, c # 0 => Headless(d[c]),
         \A i \in c + 1 .. k : ~Headless(d[i]),
         \A i \in 1 .. k : PageRecords(d[i]) \in Seq(Nat),
         NEW h \in Nat, NEW n \in Nat, Held(Upto(d, c)) = UpTo(h), Held(Upto(d, k)) = UpTo(n)
  PROVE  Iterated(Upto(d, k)) = Rising(h, n) /\ Len(Rising(h, n)) = n - h
<1>1. UpTo(h) \in Seq(Nat) /\ Len(UpTo(h)) = h /\ Len(UpTo(n)) = n
  BY DEF UpTo
<1>2. PICK x : x = Iterated(Upto(d, k))
  OBVIOUS
<1>3. x \in Seq(Nat) /\ UpTo(n) = UpTo(h) \o x
  BY <1>1, <1>2, ReadBehind
<1>4. n = h + Len(x) /\ Len(x) \in Nat
  <2>1. PICK u \in Seq(Nat) : u = UpTo(h)
    BY <1>1
  <2>2. Len(u \o x) = Len(u) + Len(x) /\ Len(x) \in Nat
    BY <1>3, <2>1
  <2> QED BY <1>1, <1>3, <2>1, <2>2
<1>5. ASSUME NEW i \in 1 .. n - h PROVE x[i] = h + i
  <2>1. (UpTo(h) \o x)[h + i] = x[i]
    <3>1. i \in 1 .. Len(x)
      BY <1>4
    <3>2. PICK u \in Seq(Nat) : u = UpTo(h) /\ Len(u) = h
      BY <1>1
    <3>3. (u \o x)[Len(u) + i] = x[i]
      BY <1>3, <3>1, <3>2
    <3> QED BY <3>2, <3>3
  <2>2. UpTo(n)[h + i] = h + i
    BY DEF UpTo
  <2> QED BY <1>3, <2>1, <2>2
<1>6. x = Rising(h, n)
  BY <1>3, <1>4, <1>5 DEF Rising
<1>7. Len(Rising(h, n)) = n - h
  BY <1>4 DEF Rising
<1> QED BY <1>2, <1>6, <1>7

-----------------------------------------------------------------------------
(* The inductive invariant, for executions in which iterator() does not    *)
(* run beside an append.                                                   *)

Busy(t) == pc[t].op \notin {"idle", "start"}
Iterates(t) == pc[t].op \in {"write", "save"} /\ pc[t].from = "iterate"
Opens(t) == pc[t].op \in {"grow", "reset", "writeNew", "setCurr"} /\ pc[t].size = 0
(* It writes the page as it is, for flush(lsn) or iterator().              *)
Copies(t) == pc[t].op \in {"write", "save"} /\ pc[t].from # "append"

(* The page is written, but the counter, the file or the block is behind.  *)
Saved == \E t \in Threads : pc[t].op \in {"save", "grow"}
(* The file has a block more, which is not yet the current one.            *)
Growing == \E t \in Threads : pc[t].op \in {"reset", "writeNew", "setCurr"}
Counting == \E t \in Threads : pc[t].op = "count"

(* Only threads that write the page as it is are at work together.  Each   *)
(* holds the mutex, or iterates, or opens the log while the others have    *)
(* not started.                                                            *)
AloneOK ==
    /\ \A t, u \in Threads : Busy(t) /\ Busy(u) => t = u \/ (Copies(t) /\ Copies(u))
    /\ \A t \in Threads : Busy(t) =>
         \/ mutex = {t}
         \/ Iterates(t)
         \/ Opens(t) /\ \A u \in Threads : u # t => pc[u].op = "start"

(* What a thread knows of the record it appends, and of the page.          *)
Room(s) ==
    /\ (s.op \in {"write", "save"} /\ s.from = "append") =>
         Len(log) < MaxRecords /\ ~Fits(s.size)
    /\ (s.op = "grow" /\ s.size # 0) => Len(log) < MaxRecords /\ ~Fits(s.size)
    /\ (s.op \in {"reset", "writeNew", "setCurr"} /\ s.size # 0) =>
         Len(log) < MaxRecords
    /\ s.op \in {"writeNew", "setCurr"} => logPage.boundary = BlockSize
    /\ s.op \in {"setBytes", "setHeader"} => Len(log) < MaxRecords /\ Fits(s.size)
    /\ s.op = "setHeader" => logPage.body[logPage.boundary - s.size]
                               = [id |-> Len(log) + 1, size |-> s.size]
RoomOK == \A t \in Threads : Room(pc[t])

(* The pages are as LogMgr writes them.                                    *)
PagesOK == PageOK(logPage) /\ \A i \in 1 .. Len(disk) : PageOK(disk[i])

(* The LSNs count the records of this process.                             *)
CountOK ==
    /\ Counting => base + latestLsn + 1 = Len(log)
    /\ ~Counting => base + latestLsn = Len(log)

(* The blocks before the last one hold records 1 .. m, the last block of   *)
(* the file m + 1 .. n, and the page in memory all that follow m.  Each    *)
(* block but those a crash left without header has a record.               *)
Layout(m, n) ==
    /\ m <= n /\ n <= Len(log)
    /\ Held(Upto(disk, Len(disk) - 1)) = UpTo(m)
    /\ PageRecords(disk[Len(disk)]) = Falling(m, n)
    /\ Growing => m = Len(log) /\ currBlk \in 1 .. Len(disk)
    /\ ~Growing => /\ PageRecords(logPage) = Falling(m, Len(log))
                   /\ currBlk = Len(disk)
                   /\ logPage.boundary = 0 => Len(disk) <= m + crashes
    /\ Saved => n = Len(log)
    /\ Len(disk) <= m + crashes + 1
    /\ promised <= n /\ base + lastSaveLsn <= n /\ hidden <= n
LayoutOK ==
    IF disk = <<>>
      THEN /\ logPage = ZeroPage /\ currBlk = 1
           /\ log = <<>> /\ base = 0 /\ promised = 0 /\ lastSaveLsn = 0 /\ latestLsn = 0
           /\ hidden = 0
           /\ \E t \in Threads : pc[t].op = "grow" /\ pc[t].size = 0
      ELSE /\ \E m, n \in 0 .. MaxRecords : Layout(m, n)
           /\ \A t \in Threads : pc[t].op = "grow" => pc[t].size # 0

(* The last block that a crash left without header is block c, or there    *)
(* is none and c = 0: the records up to there are hidden.  The page is     *)
(* without header exactly if the block it comes from is.                   *)
Hides(c) ==
    /\ Held(Upto(disk, c)) = UpTo(hidden)
    /\ c # 0 => Headless(disk[c])
    /\ \A i \in c + 1 .. Len(disk) : Headless(disk[i]) => i = Len(disk) /\ HeaderMissing
    /\ HeaderMissing => Headless(disk[Len(disk)])
    /\ Growing => /\ c < Len(disk)
                  /\ currBlk = Len(disk) - 1 \/ (currBlk = Len(disk) /\ Len(disk) = 1)
    /\ ~Growing => (Headless(logPage) <=> Headless(disk[Len(disk)]))
HiddenOK == disk # <<>> => \E c \in 0 .. Len(disk) : Hides(c)

IInv ==
    /\ TypeOK /\ crashes \in 0 .. MaxCrashes
    /\ AloneOK /\ RoomOK /\ PagesOK /\ CountOK /\ LayoutOK /\ HiddenOK

-----------------------------------------------------------------------------
(* The threads.                                                            *)

(* The fields of the states of a thread.                                   *)
LEMMA StateFields ==
  ASSUME NEW s \in States
  PROVE  /\ s.op \in {"idle", "start", "write", "save", "grow", "reset", "writeNew",
                      "setCurr", "setBytes", "setHeader", "count"}
         /\ s.op \in {"write", "save"} =>
              /\ s.from \in {"append", "flush", "iterate"}
              /\ s.from = "append" => s.size \in Sizes
              /\ s.from = "flush" => s.lsn \in -1 .. latestLsn
         /\ s.op \in {"grow", "reset", "writeNew", "setCurr"} => s.size \in Sizes \cup {0}
         /\ s.op \in {"setBytes", "setHeader", "count"} => s.size \in Sizes
  BY DEF States

(* The steps from one assignment to the next.                              *)
LEMMA NextState ==
  ASSUME NEW s \in States, NEW op, NEW r, r = [s EXCEPT !.op = op]
  PROVE  /\ s.op = "write" /\ op = "save" =>
              /\ r \in States /\ r.op = "save" /\ r.from = s.from
              /\ s.from = "append" => r.size = s.size
         /\ (\/ s.op = "grow" /\ op = "reset"
             \/ s.op = "reset" /\ op = "writeNew"
             \/ s.op = "writeNew" /\ op = "setCurr"
             \/ s.op = "setBytes" /\ op = "setHeader"
             \/ s.op = "setHeader" /\ op = "count") =>
              r \in States /\ r.op = op /\ r.size = s.size
  BY DEF States

(* A thread that does more than write the page is the only one at work.    *)
LEMMA OnlyOne ==
  ASSUME IInv, NEW t \in Threads, pc[t].op \notin {"idle", "start"},
         pc[t].op \notin {"write", "save"} \/ pc[t].from = "append"
  PROVE  /\ pc[t] \in States
         /\ \A u \in Threads : u # t => pc[u].op \in {"idle", "start"}
         /\ Growing <=> pc[t].op \in {"reset", "writeNew", "setCurr"}
         /\ HeaderMissing <=> pc[t].op \in {"reset", "writeNew"}
         /\ Saved <=> pc[t].op \in {"save", "grow"}
         /\ Counting <=> pc[t].op = "count"
<1>1. \A u \in Threads : u # t => pc[u].op \in {"idle", "start"}
  BY DEF IInv, AloneOK, Busy, Copies
<1>2. pc[t] \in States
  BY DEF IInv, TypeOK
<1> QED BY <1>1, <1>2 DEF Growing, HeaderMissing, Saved, Counting

(* Beside a thread that writes the page others may only do the same.       *)
LEMMA Writing ==
  ASSUME IInv, NEW t \in Threads, pc[t].op \in {"write", "save"}
  PROVE  /\ pc[t] \in States
         /\ \A u \in Threads : u # t =>
              \/ pc[u].op \in {"idle", "start"}
              \/ Copies(t) /\ Copies(u) /\ (mutex = {u} \/ Iterates(u))
         /\ ~Growing /\ ~Counting /\ disk # <<>>
         /\ \A u \in Threads : pc[u].op # "grow"
         /\ pc[t].op = "save" => Saved
         /\ mutex = {t} \/ pc[t].from = "iterate"
<1>1. ASSUME NEW u \in Threads, u # t
      PROVE  \/ pc[u].op \in {"idle", "start"}
             \/ Copies(t) /\ Copies(u) /\ (mutex = {u} \/ Iterates(u))
  BY <1>1 DEF IInv, AloneOK, Busy, Copies, Opens
<1>2. \A u \in Threads : pc[u].op \in {"idle", "start", "write", "save"}
  BY <1>1 DEF Copies
<1>3. pc[t] \in States
  BY DEF IInv, TypeOK
<1>4. ~Growing /\ ~Counting /\ \A u \in Threads : pc[u].op # "grow"
  BY <1>2 DEF Growing, Counting
<1>5. disk # <<>>
  BY <1>4 DEF IInv, LayoutOK
<1>6. mutex = {t} \/ pc[t].from = "iterate"
  BY DEF IInv, AloneOK, Busy, Iterates, Opens
<1> QED BY <1>1, <1>3, <1>4, <1>5, <1>6 DEF Saved

(* A thread that enters append is alone.                                   *)
LEMMA Enters ==
  ASSUME IInv, NEW t \in Threads, pc[t] = Idle, mutex = {}, ~Iterating
  PROVE  /\ \A u \in Threads : pc[u].op \in {"idle", "start"}
         /\ ~Growing /\ ~Saved /\ ~Counting
         /\ disk # <<>>
<1>1. pc[t].op = "idle"
  BY DEF Idle
<1>2. ASSUME NEW u \in Threads PROVE pc[u].op \in {"idle", "start"}
  <2> SUFFICES ASSUME Busy(u) PROVE FALSE
    BY DEF Busy
  <2>1. ~Iterates(u) /\ mutex # {u}
    BY DEF Iterating, Iterates
  <2>2. \A q \in Threads : q # u => pc[q].op = "start"
    BY <2>1 DEF IInv, AloneOK
  <2> QED BY <1>1, <2>2 DEF Busy
<1>3. ~Growing /\ ~Saved /\ ~Counting
  BY <1>2 DEF Growing, Saved, Counting
<1>4. disk # <<>>
  BY <1>2 DEF IInv, LayoutOK
<1> QED BY <1>2, <1>3, <1>4

(* A thread that enters flush(lsn) or iterator() may find others writing   *)
(* the page.                                                               *)
LEMMA EntersCopy ==
  ASSUME IInv, NEW t \in Threads, pc[t] = Idle, mutex = {} \/ ~Appending
  PROVE  /\ \A u \in Threads : \/ pc[u].op \in {"idle", "start"}
                               \/ Copies(u) /\ (mutex = {u} \/ Iterates(u))
         /\ ~Growing /\ ~Counting
         /\ disk # <<>>
<1>1. pc[t].op = "idle"
  BY DEF Idle
<1>2. ASSUME NEW u \in Threads
      PROVE  pc[u].op \in {"idle", "start"} \/ (Copies(u) /\ (mutex = {u} \/ Iterates(u)))
  <2> SUFFICES ASSUME Busy(u) PROVE Copies(u) /\ (mutex = {u} \/ Iterates(u))
    BY DEF Busy
  <2>1. mutex = {u} \/ Iterates(u)
    BY <1>1 DEF IInv, AloneOK, Busy
  <2>2. CASE mutex = {}
    BY <2>1, <2>2 DEF Iterates, Copies
  <2>3. CASE ~Appending
    <3>1. pc[u] \in States
      BY DEF IInv, TypeOK
    <3>2. pc[u].op \in {"write", "save"} /\ pc[u].from # "append"
      BY <2>3, <3>1, StateFields DEF Appending, Busy
    <3> QED BY <2>1, <3>2 DEF Copies
  <2> QED BY <2>2, <2>3
<1>3. \A u \in Threads : pc[u].op \in {"idle", "start", "write", "save"}
  BY <1>2 DEF Copies
<1>4. ~Growing /\ ~Counting
  BY <1>3 DEF Growing, Counting
<1>5. disk # <<>>
  BY <1>3 DEF IInv, LayoutOK
<1> QED BY <1>2, <1>4, <1>5

(* One thread takes a step while the others are outside.                   *)
LEMMA Turn ==
  ASSUME TypeOK, NEW t \in Threads, NEW s \in States', pc' = [pc EXCEPT ![t] = s],
         \A u \in Threads : u # t => pc[u].op \in {"idle", "start"}
  PROVE  /\ pc' \in [Threads -> States']
         /\ pc'[t] = s /\ \A u \in Threads : u # t => pc'[u] = pc[u]
         /\ Growing' <=> s.op \in {"reset", "writeNew", "setCurr"}
         /\ HeaderMissing' <=> s.op \in {"reset", "writeNew"}
         /\ Saved' <=> s.op \in {"save", "grow"}
         /\ Counting' <=> s.op = "count"
         /\ Room(s)' => RoomOK'
         /\ (\/ s.op \in {"idle", "start"}
             \/ mutex' = {t}
             \/ s.op \in {"write", "save"} /\ s.from = "iterate"
             \/ /\ s.op \in {"grow", "reset", "writeNew", "setCurr"} /\ s.size = 0
                /\ \A u \in Threads : u # t => pc[u].op = "start") => AloneOK'
<1>1. /\ pc'[t] = s /\ \A u \in Threads : u # t => pc'[u] = pc[u]
      /\ \A u \in Threads : u # t => pc'[u].op \in {"idle", "start"}
  BY DEF TypeOK
<1>2. pc' \in [Threads -> States']
  <2>1. \A u \in Threads : u # t => pc'[u] \in States'
    BY <1>1 DEF TypeOK, States
  <2>2. \A u \in Threads : pc'[u] \in States'
    BY <1>1, <2>1
  <2>3. DOMAIN pc' = Threads /\ pc' = [u \in Threads |-> pc'[u]]
    BY DEF TypeOK
  <2> QED BY <2>2, <2>3
<1>3. Room(s)' => RoomOK'
  <2>1. \A u \in Threads : u # t => Room(pc[u])'
    BY <1>1 DEF Room
  <2> QED BY <1>1, <2>1 DEF RoomOK
<1>4. /\ Growing' <=> s.op \in {"reset", "writeNew", "setCurr"}
      /\ HeaderMissing' <=> s.op \in {"reset", "writeNew"}
      /\ Saved' <=> s.op \in {"save", "grow"}
      /\ Counting' <=> s.op = "count"
  BY <1>1 DEF Growing, HeaderMissing, Saved, Counting
<1>5. (\/ s.op \in {"idle", "start"}
       \/ mutex' = {t}
       \/ s.op \in {"write", "save"} /\ s.from = "iterate"
       \/ /\ s.op \in {"grow", "reset", "writeNew", "setCurr"} /\ s.size = 0
          /\ \A u \in Threads : u # t => pc[u].op = "start") => AloneOK'
  <2>1. \A u \in Threads : u # t => ~Busy(u)'
    BY <1>1 DEF Busy
  <2> QED BY <1>1, <2>1 DEF AloneOK, Busy, Iterates, Opens
<1> QED BY <1>1, <1>2, <1>3, <1>4, <1>5

(* One thread begins or ends to write the page, beside others that do.     *)
LEMMA Joins ==
  ASSUME TypeOK, NEW t \in Threads, NEW s \in States', pc' = [pc EXCEPT ![t] = s],
         \/ s.op = "idle"
         \/ s.op \in {"write", "save"} /\ s.from # "append" /\ (mutex' = {t} \/ s.from = "iterate"),
         latestLsn' = latestLsn,
         \A u \in Threads : u # t =>
           \/ pc[u].op \in {"idle", "start"}
           \/ Copies(u) /\ (mutex' = {u} \/ Iterates(u))
  PROVE  /\ pc' \in [Threads -> States']
         /\ pc'[t] = s /\ \A u \in Threads : u # t => pc'[u] = pc[u]
         /\ ~Growing' /\ ~Counting'
         /\ Saved' => Saved \/ s.op = "save"
         /\ \A u \in Threads : pc'[u].op # "grow"
         /\ RoomOK' /\ AloneOK'
<1>1. pc'[t] = s /\ \A u \in Threads : u # t => pc'[u] = pc[u]
  BY DEF TypeOK
<1>2. pc' \in [Threads -> States']
  <2>1. \A u \in Threads : u # t => pc'[u] \in States'
    <3>1. States' = States
      BY DEF States
    <3> QED BY <1>1, <3>1 DEF TypeOK
  <2>2. DOMAIN pc' = Threads /\ pc' = [u \in Threads |-> pc'[u]]
    BY DEF TypeOK
  <2> QED BY <1>1, <2>1, <2>2
<1>3. /\ \A u \in Threads : u # t => pc'[u].op \in {"idle", "start"} \/ (Copies(u) /\ Copies(u)')
      /\ s.op \in {"idle", "start"} \/ Copies(t)'
  BY <1>1 DEF Copies
<1>4. ASSUME NEW u \in Threads PROVE pc'[u].op \in {"idle", "start"} \/ Copies(u)'
  BY <1>1, <1>3
<1>5. RoomOK'
  <2>1. ASSUME NEW u \in Threads PROVE Room(pc[u])'
    BY <1>4 DEF Room, Copies
  <2> QED BY <2>1 DEF RoomOK
<1>6. AloneOK'
  <2>1. ASSUME NEW u \in Threads, Busy(u)' PROVE (mutex = {u} \/ Iterates(u))'
    BY <1>1, <2>1 DEF Busy, Iterates
  <2> QED BY <1>4, <2>1 DEF AloneOK, Busy
<1>7. ~Growing' /\ ~Counting' /\ \A u \in Threads : pc'[u].op # "grow"
  BY <1>4 DEF Growing, Counting, Copies
<1>8. Saved' => Saved \/ s.op = "save"
  BY <1>1, <1>7 DEF Saved
<1> QED BY <1>1, <1>2, <1>5, <1>6, <1>7, <1>8

-----------------------------------------------------------------------------
(* Every step keeps the invariant.                                         *)

(* The counters are natural numbers within their bounds.                   *)
LEMMA Numbers ==
  ASSUME IInv
  PROVE  /\ latestLsn \in Nat /\ lastSaveLsn \in Nat /\ base \in Nat /\ promised \in Nat
         /\ hidden \in Nat
         /\ crashes \in Nat /\ Len(log) \in Nat /\ Len(log) <= MaxRecords /\ Len(disk) \in Nat
         /\ MaxRecords \in Nat /\ MaxCrashes \in Nat /\ TypeOK
         /\ base <= Len(log) /\ crashes <= MaxCrashes
  BY BoundsAssumption DEF IInv, TypeOK

(* The bounds of the types follow from the rest of the invariant.          *)
LEMMA TypesFollow ==
  ASSUME PagesOK', CountOK', LayoutOK',
         disk' \in Seq(Pages), pc' \in [Threads -> States'],
         mutex' = {} \/ \E t \in Threads : mutex' = {t},
         log' \in Seq(Sizes), Len(log') <= MaxRecords, base' \in 0 .. Len(log'),
         latestLsn' \in Nat, lastSaveLsn' \in Nat, promised' \in Nat, hidden' \in Nat,
         crashes' \in 0 .. MaxCrashes
  PROVE  TypeOK'
<1>0. /\ MaxRecords \in Nat /\ MaxCrashes \in Nat /\ Len(log') \in Nat /\ Len(disk') \in Nat
      /\ base' \in Nat /\ latestLsn' \in Nat /\ lastSaveLsn' \in Nat /\ promised' \in Nat
      /\ hidden' \in Nat /\ Len(log') <= MaxRecords
  BY BoundsAssumption
<1>1. /\ currBlk' \in 1 .. MaxRecords + MaxCrashes + 1
      /\ lastSaveLsn' <= MaxRecords /\ promised' <= Len(log') /\ hidden' <= Len(log')
  <2>1. CASE disk' = <<>>
    BY <1>0, <2>1 DEF LayoutOK
  <2>2. CASE disk' # <<>>
    <3>1. PICK m \in 0 .. MaxRecords, n \in 0 .. MaxRecords : Layout(m, n)'
      BY <2>2 DEF LayoutOK
    <3>2. Len(disk') >= 1
      BY <2>2
    <3>0. /\ Len(disk') <= m + crashes' + 1
          /\ currBlk' = Len(disk') \/ currBlk' \in 1 .. Len(disk')
      BY <3>1 DEF Layout
    <3>3. Len(disk') <= MaxRecords + MaxCrashes + 1
      BY <1>0, <3>0
    <3>4. currBlk' \in 1 .. Len(disk')
      BY <1>0, <3>0, <3>2
    <3>5. n <= Len(log') /\ promised' <= n /\ base' + lastSaveLsn' <= n /\ hidden' <= n
      BY <3>1 DEF Layout
    <3>6. currBlk' \in 1 .. MaxRecords + MaxCrashes + 1
      BY <1>0, <3>3, <3>4
    <3>7. PICK b \in Nat, l \in Nat : b = base' /\ l = lastSaveLsn'
      BY <1>0
    <3>8. b + l <= n
      BY <3>5, <3>7
    <3>9. l <= MaxRecords
      BY <1>0, <3>8
    <3> QED BY <1>0, <3>5, <3>6, <3>7, <3>9
  <2> QED BY <2>1, <2>2
<1>2. latestLsn' \in 0 .. MaxRecords
  <2>1. base' + latestLsn' + 1 = Len(log') \/ base' + latestLsn' = Len(log')
    BY DEF CountOK
  <2>2. PICK k \in Nat, b \in Nat, l \in Nat : /\ k = Len(log') /\ k <= MaxRecords
                                               /\ b = base' /\ l = latestLsn'
    BY <1>0
  <2>3. b + l + 1 = k \/ b + l = k
    BY <2>1, <2>2
  <2>4. l <= k
    BY ONLY <2>3, k \in Nat, b \in Nat, l \in Nat
  <2>5. l \in 0 .. MaxRecords
    BY <1>0, <2>2, <2>4
  <2> QED BY <2>2, <2>5
<1>3. logPage' \in Pages
  BY DEF PagesOK, PageOK
<1> QED BY <1>0, <1>1, <1>2, <1>3 DEF TypeOK

(* A step that leaves the file as it is, and the page with or without      *)
(* header as it was, hides nothing.                                        *)
LEMMA HiddenStays ==
  ASSUME IInv, disk # <<>>, UNCHANGED <<disk, currBlk, hidden>>,
         Growing' <=> Growing, HeaderMissing' <=> HeaderMissing,
         ~Growing => (Headless(logPage') <=> Headless(logPage))
  PROVE  HiddenOK'
<1>1. PICK c \in 0 .. Len(disk) : Hides(c)
  BY DEF IInv, HiddenOK
<1>2. Hides(c)'
  BY <1>1 DEF Hides, Held, Upto
<1> QED BY <1>1, <1>2 DEF HiddenOK

(* A step that changes neither the file nor what is read from the page.    *)
LEMMA LayoutStays ==
  ASSUME IInv, disk # <<>>, UNCHANGED <<disk, currBlk, log, base, hidden, crashes>>,
         PageRecords(logPage') = PageRecords(logPage), logPage'.boundary = logPage.boundary,
         ~Growing, ~Growing', Saved' => Saved,
         \A n \in 0 .. MaxRecords :
            (promised <= n /\ base + lastSaveLsn <= n /\ (Saved => n = Len(log))) =>
              promised' <= n /\ base + lastSaveLsn' <= n,
         \A t \in Threads : pc'[t].op = "grow" => pc'[t].size # 0
  PROVE  LayoutOK' /\ HiddenOK'
<1>1. PICK m \in 0 .. MaxRecords, n \in 0 .. MaxRecords : Layout(m, n)
  BY DEF IInv, LayoutOK
<1>2. Layout(m, n)'
  BY <1>1 DEF Layout, Held, Upto
<1>3. ~HeaderMissing /\ ~HeaderMissing'
  BY DEF HeaderMissing, Growing
<1>4. HiddenOK'
  BY <1>3, HiddenStays DEF Headless
<1> QED BY <1>2, <1>4 DEF LayoutOK

(* SaveLsn keeps the invariant: the page has just been written.            *)
LEMMA SaveLsnKeeps == ASSUME IInv, NEW t \in Threads, SaveLsn(t) PROVE IInv'
<1>0. /\ pc[t].op = "save" /\ At(t, "save") /\ pc[t] \in States
      /\ \A u \in Threads : pc[u].op # "grow"
      /\ ~Growing /\ Saved /\ ~Counting /\ disk # <<>>
      /\ UNCHANGED <<disk, logPage, currBlk, latestLsn, log, base, hidden, crashes>>
      /\ lastSaveLsn' = latestLsn
  <2>1. pc[t].op = "save"
    BY DEF SaveLsn, At
  <2> QED BY <2>1, Writing DEF SaveLsn, At
<1>1. /\ latestLsn \in Nat /\ base \in Nat /\ promised \in Nat /\ Len(log) \in Nat /\ TypeOK
      /\ base + latestLsn = Len(log)
  BY <1>0, Numbers DEF IInv, CountOK
<1>2. PICK s : /\ s \in States /\ pc' = [pc EXCEPT ![t] = s]
               /\ \/ s = Idle
                     /\ pc[t].from # "append"
                  \/ /\ s = [op |-> "grow", size |-> pc[t].size] /\ pc[t].from = "append"
                     /\ pc[t].size \in Sizes /\ mutex' = mutex
  <2>1. CASE pc[t].from = "append"
    <3>1. pc[t].size \in Sizes
      BY <1>0, <2>1, StateFields
    <3>2. [op |-> "grow", size |-> pc[t].size] \in States
      BY <3>1 DEF States
    <3> QED BY <2>1, <3>1, <3>2 DEF SaveLsn, Goto
  <2>2. CASE pc[t].from # "append"
    <3>1. Idle \in States
      BY DEF Idle, States
    <3> QED BY <2>2, <3>1 DEF SaveLsn, Goto
  <2> QED BY <2>1, <2>2
<1>3. States' = States
  BY <1>0 DEF States
<1>4. /\ pc' \in [Threads -> States']
      /\ pc'[t] = s /\ \A u \in Threads : u # t => pc'[u] = pc[u]
      /\ ~Growing' /\ ~Counting' /\ RoomOK' /\ AloneOK'
  <2>1. CASE s = Idle /\ pc[t].from # "append"
    <3>1. ASSUME NEW u \in Threads, u # t
          PROVE  \/ pc[u].op \in {"idle", "start"}
                 \/ Copies(u) /\ (mutex' = {u} \/ Iterates(u))
      <4>1. \/ pc[u].op \in {"idle", "start"}
            \/ Copies(u) /\ (mutex = {u} \/ Iterates(u))
        BY <1>0, <3>1, Writing
      <4>2. pc[t].from = "flush" => mutex # {u}
        BY <1>0, <3>1, Writing
      <4>3. pc[t].from # "flush" => mutex' = mutex
        BY DEF SaveLsn
      <4> QED BY <4>1, <4>2, <4>3
    <3>2. s.op = "idle" /\ s \in States'
      BY <1>2, <1>3, <2>1 DEF Idle
    <3> QED BY <1>0, <1>1, <1>2, <3>1, <3>2, Joins
  <2>2. CASE s = [op |-> "grow", size |-> pc[t].size] /\ pc[t].from = "append" /\ mutex' = mutex
    <3>1. Len(log) < MaxRecords /\ ~Fits(s.size)
      BY <1>0, <2>2 DEF IInv, RoomOK, Room
    <3>2. Room(s)' /\ s.op = "grow" /\ s \in States'
      BY <1>0, <1>2, <1>3, <2>2, <3>1 DEF Room, Fits
    <3>3. mutex' = {t} /\ \A u \in Threads : u # t => pc[u].op \in {"idle", "start"}
      BY <1>0, <2>2, Writing, OnlyOne
    <3> QED BY <1>1, <1>2, <3>2, <3>3, Turn
  <2> QED BY <1>2, <2>1, <2>2
<1>5. s.op \in {"idle", "grow"}
  BY <1>2 DEF Idle
<1>8. PagesOK' /\ CountOK'
  BY <1>0, <1>1, <1>4, <1>5 DEF IInv, PagesOK, CountOK
<1>9. promised' \in Nat /\ promised' <= IF promised > Len(log) THEN promised ELSE Len(log)
  <2>1. pc[t].from = "flush" => pc[t].lsn \in -1 .. latestLsn
    BY <1>0, StateFields
  <2>2. \/ promised' = promised
        \/ /\ pc[t].from = "flush"
           /\ promised' = IF base + pc[t].lsn > promised THEN base + pc[t].lsn ELSE promised
    BY DEF SaveLsn
  <2> QED BY <1>1, <2>1, <2>2
<1>10. LayoutOK' /\ HiddenOK'
  <2>1. \A u \in Threads : pc'[u].op = "grow" => pc'[u].size # 0
    <3>1. 0 \notin Sizes
      BY SizesAssumption
    <3> QED BY <1>0, <1>2, <1>4, <3>1 DEF Idle
  <2>2. \A n \in 0 .. MaxRecords :
            (promised <= n /\ base + lastSaveLsn <= n /\ (Saved => n = Len(log))) =>
              promised' <= n /\ base + lastSaveLsn' <= n
    BY <1>0, <1>1, <1>9
  <2> QED BY <1>0, <1>4, <1>5, <2>1, <2>2, LayoutStays
<1>11. mutex' = {} \/ \E u \in Threads : mutex' = {u}
  BY <1>1 DEF SaveLsn, TypeOK
<1>12. TypeOK'
  BY <1>0, <1>1, <1>4, <1>8, <1>9, <1>10, <1>11, TypesFollow DEF IInv, TypeOK
<1> QED BY <1>0, <1>4, <1>8, <1>10, <1>12 DEF IInv

(* The steps that leave the file, the page and the log as they are.        *)
LEMMA IdleState ==
  /\ Idle \in States' /\ Idle.op = "idle" /\ Room(Idle)'
  BY DEF Idle, States, Room

(* CountLsn keeps the invariant: the record is counted.                    *)
LEMMA CountLsnKeeps == ASSUME IInv, NEW t \in Threads, CountLsn(t) PROVE IInv'
<1>0. /\ pc[t].op = "count" /\ pc' = [pc EXCEPT ![t] = Idle]
      /\ \A u \in Threads : u # t => pc[u].op \in {"idle", "start"}
      /\ ~Growing /\ ~Saved /\ Counting /\ disk # <<>>
      /\ UNCHANGED <<disk, logPage, currBlk, lastSaveLsn, log, base, promised, hidden, crashes>>
      /\ latestLsn' = latestLsn + 1 /\ mutex' = {}
  <2>1. pc[t].op = "count"
    BY DEF CountLsn, At
  <2>2. disk # <<>>
    BY <2>1, OnlyOne DEF IInv, LayoutOK
  <2> QED BY <2>1, <2>2, OnlyOne DEF CountLsn, At, Goto, history
<1>1. /\ latestLsn \in Nat /\ base \in Nat /\ Len(log) \in Nat /\ TypeOK
      /\ base + latestLsn + 1 = Len(log)
  BY <1>0, Numbers DEF IInv, CountOK
<1>2. /\ pc' \in [Threads -> States']
      /\ pc'[t] = Idle /\ \A u \in Threads : u # t => pc'[u] = pc[u]
      /\ ~Growing' /\ ~Saved' /\ ~Counting'
      /\ RoomOK' /\ AloneOK'
  BY <1>0, <1>1, Turn, IdleState
<1>3. PagesOK' /\ CountOK'
  <2>1. base' + latestLsn' = Len(log')
    BY <1>0, <1>1
  <2> QED BY <1>0, <1>2, <2>1 DEF IInv, PagesOK, CountOK
<1>4. LayoutOK' /\ HiddenOK'
  <2>1. \A u \in Threads : pc'[u].op # "grow"
    BY <1>0, <1>2, IdleState
  <2> QED BY <1>0, <1>2, <2>1, LayoutStays
<1>5. TypeOK'
  BY <1>0, <1>1, <1>2, <1>3, <1>4, TypesFollow DEF IInv, TypeOK
<1> QED BY <1>0, <1>2, <1>3, <1>4, <1>5 DEF IInv

(* flush(lsn) enters, or finds nothing to do.                              *)
LEMMA FlushEnters ==
  ASSUME IInv, NEW t \in Threads, NEW lsn \in -1 .. latestLsn, Flush(t, lsn)
  PROVE  IInv'
<1>0. /\ pc[t] = Idle /\ mutex = {}
      /\ \A u \in Threads : \/ pc[u].op \in {"idle", "start"}
                            \/ Copies(u) /\ (mutex = {u} \/ Iterates(u))
      /\ ~Growing /\ ~Counting /\ disk # <<>>
      /\ UNCHANGED <<disk, logPage, currBlk, latestLsn, lastSaveLsn, log, base, hidden, crashes>>
  BY EntersCopy DEF Flush, counters
<1>1. /\ latestLsn \in Nat /\ lastSaveLsn \in Nat /\ base \in Nat /\ promised \in Nat
      /\ Len(log) \in Nat /\ TypeOK /\ lsn \in Int
  BY Numbers
<1>2. PICK s : /\ s \in States' /\ pc' = [pc EXCEPT ![t] = s]
               /\ \/ s = Idle /\ mutex' = {}
                  \/ s = [op |-> "write", from |-> "flush", lsn |-> lsn] /\ mutex' = {t}
  <2>1. CASE NeedsFlush(lsn)
    <3>1. [op |-> "write", from |-> "flush", lsn |-> lsn] \in States'
      BY <1>0 DEF States
    <3> QED BY <2>1, <3>1 DEF Flush, Goto
  <2>2. CASE ~NeedsFlush(lsn)
    <3>1. pc' = [pc EXCEPT ![t] = Idle]
      BY <1>0, <1>1, <2>2 DEF Flush, TypeOK
    <3> QED BY <1>0, <2>2, <3>1, IdleState DEF Flush
  <2> QED BY <2>1, <2>2
<1>4. /\ pc' \in [Threads -> States']
      /\ pc'[t] = s /\ \A u \in Threads : u # t => pc'[u] = pc[u]
      /\ ~Growing' /\ ~Counting' /\ (Saved' => Saved)
      /\ \A u \in Threads : pc'[u].op # "grow"
      /\ RoomOK' /\ AloneOK'
  <2>1. \/ s.op = "idle"
        \/ s.op = "write" /\ s.from = "flush" /\ mutex' = {t}
    BY <1>2 DEF Idle
  <2>2. \A u \in Threads : u # t =>
          pc[u].op \in {"idle", "start"} \/ (Copies(u) /\ (mutex' = {u} \/ Iterates(u)))
    <3>1. ASSUME NEW u \in Threads
          PROVE  pc[u].op \in {"idle", "start"} \/ (Copies(u) /\ Iterates(u))
      <4>1. mutex # {u}
        BY <1>0
      <4> QED BY <1>0, <4>1
    <3> QED BY <3>1
  <2> QED BY <1>0, <1>1, <1>2, <2>1, <2>2, Joins
<1>5. PagesOK' /\ CountOK'
  BY <1>0, <1>4 DEF IInv, PagesOK, CountOK
<1>6. /\ promised' \in Nat
      /\ \A n \in 0 .. MaxRecords : (promised <= n /\ base + lastSaveLsn <= n) => promised' <= n
  <2>1. \/ promised' = promised
        \/ /\ lsn < lastSaveLsn
           /\ promised' = IF base + lsn > promised THEN base + lsn ELSE promised
    BY <1>1 DEF Flush, NeedsFlush
  <2> QED BY <1>1, <2>1
<1>7. LayoutOK' /\ HiddenOK'
  <2>2. \A n \in 0 .. MaxRecords :
            (promised <= n /\ base + lastSaveLsn <= n /\ (Saved => n = Len(log))) =>
              promised' <= n /\ base + lastSaveLsn' <= n
    BY <1>0, <1>6
  <2> QED BY <1>0, <1>4, <2>2, LayoutStays
<1>8. mutex' = {} \/ \E u \in Threads : mutex' = {u}
  BY <1>2
<1>9. TypeOK'
  BY <1>0, <1>1, <1>4, <1>5, <1>6, <1>7, <1>8, TypesFollow DEF IInv, TypeOK
<1> QED BY <1>0, <1>4, <1>5, <1>7, <1>9 DEF IInv

(* iterator() enters while nobody appends.                                 *)
LEMMA IterateEnters == ASSUME IInv, Quiet, NEW t \in Threads, Iterate(t) PROVE IInv'
<1> DEFINE s == [op |-> "write", from |-> "iterate"]
<1>0. /\ pc[t] = Idle /\ pc' = [pc EXCEPT ![t] = s]
      /\ \A u \in Threads : \/ pc[u].op \in {"idle", "start"}
                            \/ Copies(u) /\ (mutex = {u} \/ Iterates(u))
      /\ ~Growing /\ ~Counting /\ disk # <<>>
      /\ UNCHANGED <<disk, logPage, currBlk, latestLsn, lastSaveLsn, mutex, log, base, promised,
                     hidden, crashes>>
  BY EntersCopy DEF Iterate, Goto, counters, history
<1>1. TypeOK
  BY Numbers
<1>2. s \in States' /\ s.op = "write" /\ s.from = "iterate" /\ Room(s)'
  BY DEF States, Room
<1> HIDE DEF s
<1>3. /\ pc' \in [Threads -> States']
      /\ pc'[t] = s /\ \A u \in Threads : u # t => pc'[u] = pc[u]
      /\ ~Growing' /\ ~Counting' /\ (Saved' => Saved)
      /\ \A u \in Threads : pc'[u].op # "grow"
      /\ RoomOK' /\ AloneOK'
  BY <1>0, <1>1, <1>2, Joins
<1>4. PagesOK' /\ CountOK'
  BY <1>0, <1>3 DEF IInv, PagesOK, CountOK
<1>5. LayoutOK' /\ HiddenOK'
  BY <1>0, <1>3, LayoutStays
<1>6. TypeOK'
  BY <1>0, <1>1, <1>3, <1>4, <1>5, Numbers, TypesFollow DEF IInv, TypeOK
<1> QED BY <1>0, <1>3, <1>4, <1>5, <1>6 DEF IInv

(* append enters, with or without room for the record.                     *)
LEMMA AppendEnters ==
  ASSUME IInv, Quiet, NEW t \in Threads, NEW size \in Sizes, EnterAppend(t, size)
  PROVE  IInv'
<1>s. PICK s : s = IF Fits(size) THEN [op |-> "setBytes", size |-> size]
                   ELSE [op |-> "write", from |-> "append", size |-> size]
  OBVIOUS
<1>0. /\ pc[t] = Idle /\ pc' = [pc EXCEPT ![t] = s]
      /\ \A u \in Threads : pc[u].op \in {"idle", "start"}
      /\ ~Growing /\ ~Saved /\ ~Counting /\ disk # <<>>
      /\ Len(log) < MaxRecords /\ mutex' = {t}
      /\ UNCHANGED <<disk, logPage, currBlk, latestLsn, lastSaveLsn, log, base, promised,
                     hidden, crashes>>
  BY <1>s, Enters DEF EnterAppend, Goto, counters, history
<1>1. TypeOK
  BY Numbers
<1>2. s \in States' /\ s.op \in {"setBytes", "write"} /\ Room(s)'
  <2>1. CASE Fits(size)
    BY <1>s, <1>0, <2>1 DEF States, Room, Fits
  <2>2. CASE ~Fits(size)
    BY <1>s, <1>0, <2>2 DEF States, Room, Fits
  <2> QED BY <2>1, <2>2
<1>3. /\ pc' \in [Threads -> States']
      /\ pc'[t] = s /\ \A u \in Threads : u # t => pc'[u] = pc[u]
      /\ ~Growing' /\ ~Saved' /\ ~Counting'
      /\ RoomOK' /\ AloneOK'
  BY <1>0, <1>1, <1>2, Turn
<1>4. PagesOK' /\ CountOK'
  BY <1>0, <1>3 DEF IInv, PagesOK, CountOK
<1>5. LayoutOK' /\ HiddenOK'
  <2>1. \A u \in Threads : pc'[u].op # "grow"
    BY <1>0, <1>2, <1>3
  <2> QED BY <1>0, <1>3, <2>1, LayoutStays
<1>6. TypeOK'
  BY <1>0, <1>1, <1>3, <1>4, <1>5, Numbers, TypesFollow DEF IInv, TypeOK
<1> QED BY <1>0, <1>3, <1>4, <1>5, <1>6 DEF IInv

(* The steps of append that change the page.                               *)
LEMMA SetBytesKeeps == ASSUME IInv, NEW t \in Threads, SetBytes(t) PROVE IInv'
<1>0. /\ pc[t].op = "setBytes" /\ pc[t] \in States /\ pc[t].size \in Sizes
      /\ \A u \in Threads : u # t => pc[u].op \in {"idle", "start"}
      /\ ~Growing /\ ~Saved /\ ~Counting /\ disk # <<>>
      /\ UNCHANGED <<disk, currBlk, latestLsn, lastSaveLsn, mutex, log, base, promised, hidden, crashes>>
  <2>1. pc[t].op = "setBytes"
    BY DEF SetBytes, At
  <2>2. disk # <<>>
    BY <2>1, OnlyOne DEF IInv, LayoutOK
  <2>3. pc[t].size \in Sizes
    BY <2>1, OnlyOne, StateFields
  <2> QED BY <2>1, <2>2, <2>3, OnlyOne DEF SetBytes, counters, history
<1>1. /\ TypeOK /\ Len(log) < MaxRecords /\ Fits(pc[t].size) /\ Len(log) + 1 \in 0 .. MaxRecords
      /\ PageOK(logPage)
  <2>1. Len(log) < MaxRecords => Len(log) + 1 \in 0 .. MaxRecords
    BY Numbers
  <2>2. Room(pc[t]) /\ PageOK(logPage) /\ TypeOK
    BY DEF IInv, RoomOK, PagesOK
  <2> QED BY <1>0, <2>1, <2>2 DEF Room
<1>s. PICK s, size : s = [pc[t] EXCEPT !.op = "setHeader"] /\ size = pc[t].size
  OBVIOUS
<1>2. s \in States /\ s.op = "setHeader" /\ s.size = size /\ size \in Sizes /\ pc[t].size = size
      /\ s = [pc[t] EXCEPT !.op = "setHeader"]
  BY <1>s, <1>0, NextState
<1>3. /\ PageOK(logPage') /\ PageRecords(logPage') = PageRecords(logPage)
      /\ logPage'.boundary = logPage.boundary
      /\ logPage'.body[logPage.boundary - size] = [id |-> Len(log) + 1, size |-> size]
  <2>0. PICK id \in 0 .. MaxRecords : id = Len(log) + 1
    BY <1>1
  <2>p. PICK page : page = logPage'
    OBVIOUS
  <2>9. PICK pos \in Positions : pos = logPage.boundary - size
    <3>1. logPage.boundary - size \in Positions
      <4>1. logPage.boundary - size >= 1 /\ size \in Sizes
        BY <1>1, <1>2 DEF Fits
      <4>2. BlockSize \in Nat /\ Positions = 1 .. BlockSize - 1 /\ logPage.boundary \in 0 .. BlockSize
            /\ size \in 1 .. BlockSize - 1
        BY <1>1, <4>1, PageFields, SizesAssumption
      <4> QED BY <4>1, <4>2
    <3> QED BY <3>1
  <2>1. id = Len(log) + 1 /\ page = logPage' /\ pos = logPage.boundary - size
    BY <2>0, <2>p, <2>9
  <2>2. page = [logPage EXCEPT !.body[pos] = [id |-> id, size |-> size]]
    BY <1>2, <2>1 DEF SetBytes
  <2>3. logPage \in [boundary : 0 .. BlockSize,
                     body : [Positions -> [id : 0 .. MaxRecords, size : 0 .. BlockSize]]]
    BY <1>1 DEF PageOK, Pages
  <2>4. size \in 0 .. BlockSize
    BY <1>2, SizesAssumption, BlockSizeAssumption
  <2>5. /\ page.boundary = logPage.boundary
        /\ page.body = [logPage.body EXCEPT ![pos] = [id |-> id, size |-> size]]
        /\ page = [boundary |-> page.boundary, body |-> page.body]
    BY <2>2, <2>3
  <2>6. /\ page.body \in [Positions -> [id : 0 .. MaxRecords, size : 0 .. BlockSize]]
        /\ page.body[pos] = [id |-> id, size |-> size]
        /\ \A i \in Positions : i # pos => page.body[i] = logPage.body[i]
    BY <2>3, <2>4, <2>5
  <2>7. page \in Pages
    BY <2>3, <2>5, <2>6 DEF Pages
  <2>8. PageOK(page) /\ PageRecords(page) = PageRecords(logPage)
    <3>1. logPage.boundary - size >= 1 /\ PageOK(logPage) /\ size \in Sizes
      BY <1>1, <1>2 DEF Fits
    <3> QED BY <2>1, <2>5, <2>6, <2>7, <3>1, PutRead
  <2> QED BY <2>1, <2>5, <2>6, <2>8
<1>4. s \in States' /\ pc' = [pc EXCEPT ![t] = s]
  BY <1>0, <1>2 DEF SetBytes, Goto, States
<1>5. Room(s)'
  BY <1>0, <1>1, <1>2, <1>3 DEF Room, Fits
<1>6. /\ pc' \in [Threads -> States']
      /\ pc'[t] = s /\ \A u \in Threads : u # t => pc'[u] = pc[u]
      /\ ~Growing' /\ ~Saved' /\ ~Counting'
      /\ RoomOK' /\ AloneOK'
  <2>1. mutex' = {t}
    BY <1>0 DEF IInv, AloneOK, Busy, Iterates, Opens
  <2> QED BY <1>0, <1>1, <1>2, <1>4, <1>5, <2>1, Turn
<1>7. PagesOK' /\ CountOK'
  BY <1>0, <1>3, <1>6 DEF IInv, PagesOK, CountOK
<1>8. LayoutOK' /\ HiddenOK'
  <2>1. \A u \in Threads : pc'[u].op # "grow"
    BY <1>0, <1>2, <1>6
  <2> QED BY <1>0, <1>3, <1>6, <2>1, LayoutStays
<1>9. TypeOK'
  BY <1>0, <1>1, <1>6, <1>7, <1>8, Numbers, TypesFollow DEF IInv, TypeOK
<1> QED BY <1>0, <1>6, <1>7, <1>8, <1>9 DEF IInv

(* SetHeader keeps the invariant: the record is now in the log.            *)
LEMMA SetHeaderKeeps == ASSUME IInv, NEW t \in Threads, SetHeader(t) PROVE IInv'
<1>0. /\ pc[t].op = "setHeader" /\ pc[t] \in States /\ pc[t].size \in Sizes
      /\ \A u \in Threads : u # t => pc[u].op \in {"idle", "start"}
      /\ ~Growing /\ ~Saved /\ ~Counting /\ disk # <<>>
      /\ UNCHANGED <<disk, currBlk, latestLsn, lastSaveLsn, mutex, base, promised, hidden, crashes>>
  <2>1. pc[t].op = "setHeader"
    BY DEF SetHeader, At
  <2>2. disk # <<>>
    BY <2>1, OnlyOne DEF IInv, LayoutOK
  <2>3. pc[t].size \in Sizes
    BY <2>1, OnlyOne, StateFields
  <2> QED BY <2>1, <2>2, <2>3, OnlyOne DEF SetHeader, counters
<1>1. /\ TypeOK /\ Len(log) < MaxRecords /\ Fits(pc[t].size) /\ PageOK(logPage)
      /\ logPage.body[logPage.boundary - pc[t].size]
           = [id |-> Len(log) + 1, size |-> pc[t].size]
  BY <1>0 DEF IInv, RoomOK, Room, PagesOK
<1>s. PICK s, size : s = [pc[t] EXCEPT !.op = "count"] /\ size = pc[t].size
  OBVIOUS
<1>2. s \in States /\ s.op = "count" /\ s.size = size /\ size \in Sizes /\ pc[t].size = size
      /\ s = [pc[t] EXCEPT !.op = "count"]
  <2>1. pc[t] \in States /\ pc[t].op = "setHeader"
    BY <1>0
  <2>2. s = [pc[t] EXCEPT !.op = "count"]
    BY <1>s
  <2>3. s \in States /\ s.op = "count" /\ s.size = pc[t].size
    BY ONLY <2>1, <2>2, NextState
  <2> QED BY <1>s, <1>0, <2>2, <2>3
<1>3. PICK k \in Nat : k = Len(log) /\ k < MaxRecords
  BY <1>1, Numbers
<1>4. log' \in Seq(Sizes) /\ Len(log') = k + 1 /\ k + 1 <= MaxRecords
  BY <1>1, <1>2, <1>3, BoundsAssumption DEF SetHeader, TypeOK
<1>5. /\ PageOK(logPage') /\ PageRecords(logPage') = <<k + 1>> \o PageRecords(logPage)
      /\ logPage'.boundary \in Positions
  <2>1. logPage' = [logPage EXCEPT !.boundary = @ - size]
    BY <1>2 DEF SetHeader
  <2>2. logPage.boundary - size >= 1 /\ logPage.body[logPage.boundary - size].size = size
        /\ logPage.body[logPage.boundary - size].id = k + 1
    BY <1>1, <1>2, <1>3 DEF Fits
  <2>3. PICK page : page = logPage'
    OBVIOUS
  <2>4. page = [logPage EXCEPT !.boundary = @ - size]
    BY <2>1, <2>3
  <2>5. PageOK(logPage) /\ size \in Sizes
    BY <1>1, <1>2
  <2>6. /\ PageOK(page) /\ page.boundary \in Positions
        /\ PageRecords(page)
             = <<logPage.body[logPage.boundary - size].id>> \o PageRecords(logPage)
    BY ONLY <2>2, <2>4, <2>5, ShownRead
  <2> QED BY <2>2, <2>3, <2>6
<1>6. s \in States' /\ pc' = [pc EXCEPT ![t] = s] /\ Room(s)'
  BY <1>0, <1>2 DEF SetHeader, Goto, States, Room
<1>7. /\ pc' \in [Threads -> States']
      /\ pc'[t] = s /\ \A u \in Threads : u # t => pc'[u] = pc[u]
      /\ ~Growing' /\ ~Saved' /\ Counting'
      /\ RoomOK' /\ AloneOK'
  <2>1. mutex' = {t}
    BY <1>0 DEF IInv, AloneOK, Busy, Iterates, Opens
  <2> QED BY <1>0, <1>1, <1>2, <1>6, <2>1, Turn
<1>8. PagesOK' /\ CountOK'
  <2>1. base' + latestLsn' + 1 = Len(log')
    <3>1. base + latestLsn = k
      BY <1>0, <1>3 DEF IInv, CountOK
    <3> QED BY <1>0, <1>4, <3>1
  <2> QED BY <1>0, <1>5, <1>7, <2>1 DEF IInv, PagesOK, CountOK
<1>9. LayoutOK' /\ HiddenOK'
  <2>1. \A u \in Threads : pc'[u].op # "grow"
    BY <1>0, <1>2, <1>7
  <2>2. PICK m \in 0 .. MaxRecords, n \in 0 .. MaxRecords : Layout(m, n)
    BY <1>0 DEF IInv, LayoutOK
  <2>3. /\ m <= n /\ n <= k
        /\ Held(Upto(disk, Len(disk) - 1)) = UpTo(m)
        /\ PageRecords(disk[Len(disk)]) = Falling(m, n)
        /\ PageRecords(logPage) = Falling(m, k)
        /\ currBlk = Len(disk)
        /\ Len(disk) <= m + crashes + 1
        /\ promised <= n /\ base + lastSaveLsn <= n /\ hidden <= n
    BY <1>0, <1>3, <2>2 DEF Layout
  <2>4. PageRecords(logPage') = Falling(m, k + 1)
    <3>1. m \in Nat /\ m <= k
      BY <2>3
    <3> QED BY <1>3, <1>5, <2>3, <3>1, Lists
  <2>5. logPage'.boundary # 0
    BY <1>5 DEF Positions
  <2>6. Layout(m, n)'
    <3>1. n <= k + 1
      BY <2>3
    <3> QED BY <1>0, <1>4, <1>7, <2>3, <2>4, <2>5, <3>1 DEF Layout
  <2>7. HiddenOK'
    <3>1. ~HeaderMissing /\ ~HeaderMissing'
      BY <1>0, <1>7 DEF HeaderMissing, Growing
    <3>2. ~Headless(logPage) /\ ~Headless(logPage')
      <4>1. logPage.boundary # 0
        <5>1. PICK z \in Sizes : z = pc[t].size
          BY <1>0
        <5>2. z \in 1 .. BlockSize - 1 /\ logPage.boundary - z >= 1
          BY <1>1, <5>1, SizesAssumption DEF Fits
        <5> QED BY <5>2, BlockSizeAssumption
      <4> QED BY <2>5, <4>1 DEF Headless
    <3> QED BY <1>0, <1>7, <3>1, <3>2, HiddenStays
  <2> QED BY <1>0, <2>1, <2>6, <2>7 DEF LayoutOK
<1>10. TypeOK'
  <2>1. base' \in 0 .. Len(log')
    BY <1>0, <1>3, <1>4, Numbers
  <2> QED BY <1>0, <1>1, <1>4, <1>7, <1>8, <1>9, <2>1, Numbers, TypesFollow DEF IInv, TypeOK
<1> QED BY <1>0, <1>7, <1>8, <1>9, <1>10 DEF IInv

(* ResetHeader keeps the invariant: what the page held is on disk.         *)
LEMMA ResetHeaderKeeps == ASSUME IInv, NEW t \in Threads, ResetHeader(t) PROVE IInv'
<1>0. /\ pc[t].op = "reset" /\ pc[t] \in States
      /\ \A u \in Threads : u # t => pc[u].op \in {"idle", "start"}
      /\ Growing /\ HeaderMissing /\ ~Saved /\ ~Counting /\ disk # <<>>
      /\ UNCHANGED <<disk, currBlk, latestLsn, lastSaveLsn, mutex, log, base, promised, hidden, crashes>>
  <2>1. pc[t].op = "reset"
    BY DEF ResetHeader, At
  <2>2. disk # <<>>
    BY <2>1, OnlyOne DEF IInv, LayoutOK
  <2> QED BY <2>1, <2>2, OnlyOne DEF ResetHeader, counters, history
<1>1. TypeOK /\ PageOK(logPage) /\ Room(pc[t])
  BY <1>0 DEF IInv, RoomOK, PagesOK
<1>s. PICK s : s = [pc[t] EXCEPT !.op = "writeNew"]
  OBVIOUS
<1>2. s \in States /\ s.op = "writeNew" /\ s.size = pc[t].size
      /\ s = [pc[t] EXCEPT !.op = "writeNew"]
  BY <1>s, <1>0, NextState
<1>3. PageOK(logPage') /\ logPage'.boundary = BlockSize
  <2>1. logPage \in [boundary : 0 .. BlockSize,
                     body : [Positions -> [id : 0 .. MaxRecords, size : 0 .. BlockSize]]]
    BY <1>1 DEF PageOK, Pages
  <2>2. logPage' = [logPage EXCEPT !.boundary = BlockSize]
    BY DEF ResetHeader
  <2>3. BlockSize \in 0 .. BlockSize /\ BlockSize \notin Positions
    BY BlockSizeAssumption DEF Positions
  <2>4. logPage'.boundary = BlockSize /\ logPage'.body = logPage.body /\ logPage' \in Pages
    BY <2>1, <2>2, <2>3 DEF Pages
  <2> QED BY <1>1, <2>3, <2>4 DEF PageOK
<1>4. s \in States' /\ pc' = [pc EXCEPT ![t] = s]
  BY <1>0, <1>2 DEF ResetHeader, Goto, States
<1>5. Room(s)'
  BY <1>0, <1>1, <1>2, <1>3 DEF Room
<1>6. /\ pc' \in [Threads -> States']
      /\ pc'[t] = s /\ \A u \in Threads : u # t => pc'[u] = pc[u]
      /\ Growing' /\ HeaderMissing' /\ ~Saved' /\ ~Counting'
      /\ RoomOK' /\ AloneOK'
  <2>1. mutex' = {t} \/ (s.size = 0 /\ \A u \in Threads : u # t => pc[u].op = "start")
    BY <1>0, <1>2 DEF IInv, AloneOK, Busy, Iterates, Opens
  <2> QED BY <1>0, <1>1, <1>2, <1>4, <1>5, <2>1, Turn
<1>7. PagesOK' /\ CountOK'
  BY <1>0, <1>3, <1>6 DEF IInv, PagesOK, CountOK
<1>8. LayoutOK' /\ HiddenOK'
  <2>1. \A u \in Threads : pc'[u].op # "grow"
    BY <1>0, <1>2, <1>6
  <2>2. PICK m \in 0 .. MaxRecords, n \in 0 .. MaxRecords : Layout(m, n)
    BY <1>0 DEF IInv, LayoutOK
  <2>3. Layout(m, n)'
    BY <1>0, <1>6, <2>2 DEF Layout, Held, Upto
  <2>4. HiddenOK'
    BY <1>0, <1>6, HiddenStays
  <2> QED BY <1>0, <2>1, <2>3, <2>4 DEF LayoutOK
<1>9. TypeOK'
  BY <1>0, <1>1, <1>6, <1>7, <1>8, Numbers, TypesFollow DEF IInv, TypeOK
<1> QED BY <1>0, <1>6, <1>7, <1>8, <1>9 DEF IInv

(* The steps that change the file.                                         *)

(* What the file holds in all.                                             *)
LEMMA Whole ==
  ASSUME TypeOK, disk # <<>>, NEW m \in 0 .. MaxRecords, NEW n \in 0 .. MaxRecords, Layout(m, n)
  PROVE  Held(Upto(disk, Len(disk))) = UpTo(n) /\ OnDisk = UpTo(n)
<1>0. disk \in Seq(Pages) /\ m \in Nat /\ n \in Nat /\ m <= n
  BY BoundsAssumption DEF TypeOK, Layout
<1>1. PICK k \in Nat : Len(disk) = k + 1
  <2>1. Len(disk) \in Nat /\ Len(disk) # 0
    BY <1>0
  <2>2. Len(disk) - 1 \in Nat /\ Len(disk) = (Len(disk) - 1) + 1
    BY <2>1
  <2> QED BY <2>2
<1>2. DOMAIN disk = 1 .. k + 1 /\ disk = [i \in DOMAIN disk |-> disk[i]]
  BY <1>0, <1>1
<1>3. /\ PageRecords(disk[k + 1]) = Falling(m, n)
      /\ Held(Upto(disk, k)) = UpTo(m)
  <2>1. Len(disk) - 1 = k
    BY <1>1
  <2> QED BY <1>1, <2>1 DEF Layout
<1>4. Falling(m, n) \in Seq(Nat)
  BY <1>0 DEF Falling
<1>5. Held(disk) = Held(Upto(disk, k)) \o Reverse(PageRecords(disk[k + 1]))
  <2>1. PICK d : d = disk
    OBVIOUS
  <2>2. /\ DOMAIN d = 1 .. k + 1 /\ d = [i \in DOMAIN d |-> d[i]]
        /\ PageRecords(d[k + 1]) \in Seq(Nat)
    BY <1>2, <1>3, <1>4, <2>1
  <2>3. Held(d) = Held(Upto(d, k)) \o Reverse(PageRecords(d[k + 1]))
    BY ONLY k \in Nat, <2>2, OneMoreBlock
  <2> QED BY <2>1, <2>3
<1>6. Held(disk) = UpTo(n)
  <2>1. Reverse(Falling(m, n)) = Rising(m, n) /\ UpTo(m) \o Rising(m, n) = UpTo(n)
    BY ONLY <1>0, Lists
  <2> QED BY ONLY <1>3, <1>5, <2>1
<1>7. Upto(disk, Len(disk)) = disk
  BY <1>1, <1>2 DEF Upto
<1> QED BY <1>6, <1>7 DEF OnDisk

(* The pages of a file with a page more, and with its last page replaced.  *)
LEMMA FileTypes ==
  ASSUME IInv, NEW page, PageOK(page)
  PROVE  /\ disk \in Seq(Pages)
         /\ \A d : d = Append(disk, page) =>
              /\ d \in Seq(Pages) /\ Len(d) = Len(disk) + 1 /\ d[Len(disk) + 1] = page
              /\ \A i \in 1 .. Len(disk) : d[i] = disk[i]
              /\ \A i \in 1 .. Len(d) : PageOK(d[i])
              /\ Upto(d, Len(disk)) = Upto(disk, Len(disk))
         /\ \A d : disk # <<>> /\ d = [disk EXCEPT ![Len(disk)] = page] =>
              /\ d \in Seq(Pages) /\ Len(d) = Len(disk) /\ d[Len(d)] = page
              /\ \A i \in 1 .. Len(d) : PageOK(d[i])
              /\ Upto(d, Len(disk) - 1) = Upto(disk, Len(disk) - 1)
<1>1. /\ disk \in Seq(Pages) /\ page \in Pages /\ Len(disk) \in Nat
      /\ \A i \in 1 .. Len(disk) : PageOK(disk[i])
  BY DEF IInv, TypeOK, PagesOK, PageOK
<1>2. ASSUME NEW d, d = Append(disk, page)
      PROVE  /\ d \in Seq(Pages) /\ Len(d) = Len(disk) + 1 /\ d[Len(disk) + 1] = page
             /\ \A i \in 1 .. Len(disk) : d[i] = disk[i]
             /\ \A i \in 1 .. Len(d) : PageOK(d[i])
             /\ Upto(d, Len(disk)) = Upto(disk, Len(disk))
  <2>1. /\ d \in Seq(Pages) /\ Len(d) = Len(disk) + 1 /\ d[Len(disk) + 1] = page
        /\ \A i \in 1 .. Len(disk) : d[i] = disk[i]
    BY <1>1, <1>2
  <2>2. \A i \in 1 .. Len(d) : PageOK(d[i])
    <3>1. \A i \in 1 .. Len(d) : i \in 1 .. Len(disk) \/ i = Len(disk) + 1
      BY <1>1, <2>1
    <3> QED BY <1>1, <2>1, <3>1
  <2> QED BY <2>1, <2>2 DEF Upto
<1>3. ASSUME NEW d, disk # <<>>, d = [disk EXCEPT ![Len(disk)] = page]
      PROVE  /\ d \in Seq(Pages) /\ Len(d) = Len(disk) /\ d[Len(d)] = page
             /\ \A i \in 1 .. Len(d) : PageOK(d[i])
             /\ Upto(d, Len(disk) - 1) = Upto(disk, Len(disk) - 1)
  <2>0. Len(disk) \in 1 .. Len(disk)
    BY <1>1, <1>3
  <2>1. /\ d \in Seq(Pages) /\ Len(d) = Len(disk) /\ d[Len(d)] = page
        /\ \A i \in 1 .. Len(disk) : i # Len(disk) => d[i] = disk[i]
    BY <1>1, <1>3, <2>0
  <2>2. \A i \in 1 .. Len(d) : PageOK(d[i])
    BY <1>1, <2>1
  <2>3. \A i \in 1 .. Len(disk) - 1 : i \in 1 .. Len(disk) /\ i # Len(disk)
    BY <1>1
  <2> QED BY <2>1, <2>2, <2>3 DEF Upto
<1> QED BY <1>1, <1>2, <1>3

(* The page of a block that FileMgr::append has just made is empty.        *)
LEMMA ZeroPageOK == PageOK(ZeroPage) /\ PageRecords(ZeroPage) = <<>> /\ ZeroPage.boundary = 0
<1>1. BlockSize \in Nat /\ MaxRecords \in Nat /\ Positions = 1 .. BlockSize - 1 /\ 0 \notin Positions
  BY BlockSizeAssumption, BoundsAssumption DEF Positions
<1>2. PageOK(ZeroPage) /\ ZeroPage.boundary = 0
  BY <1>1 DEF PageOK, ZeroPage, Pages, NoRec
<1> QED BY <1>1, <1>2, EmptyRead

(* WritePage keeps the invariant: the file holds all of the log.           *)
LEMMA WritePageKeeps == ASSUME IInv, NEW t \in Threads, WritePage(t) PROVE IInv'
<1>0. /\ pc[t].op = "write" /\ pc[t] \in States
      /\ ~Growing /\ ~Counting /\ disk # <<>>
      /\ UNCHANGED <<logPage, currBlk, latestLsn, lastSaveLsn, mutex, log, base, promised, hidden, crashes>>
  <2>1. pc[t].op = "write"
    BY DEF WritePage, At
  <2> QED BY <2>1, Writing DEF WritePage, counters, history
<1>1. TypeOK /\ PageOK(logPage) /\ Room(pc[t])
  BY <1>0 DEF IInv, RoomOK, PagesOK
<1>2. PICK m \in 0 .. MaxRecords, n \in 0 .. MaxRecords : Layout(m, n)
  BY <1>0 DEF IInv, LayoutOK
<1>s. PICK s : s = [pc[t] EXCEPT !.op = "save"]
  OBVIOUS
<1>3. /\ s \in States /\ s.op = "save" /\ s.from = pc[t].from
      /\ s.from = "append" => s.size = pc[t].size
      /\ s = [pc[t] EXCEPT !.op = "save"]
  <2>1. pc[t] \in States /\ pc[t].op = "write"
    BY <1>0
  <2> QED BY ONLY <1>s, <2>1, NextState
<1>4. PICK d : d = disk'
  OBVIOUS
<1>5. /\ d \in Seq(Pages) /\ Len(d) = Len(disk) /\ d[Len(d)] = logPage
      /\ \A i \in 1 .. Len(d) : PageOK(d[i])
      /\ Upto(d, Len(disk) - 1) = Upto(disk, Len(disk) - 1)
  <2>1. d = [disk EXCEPT ![Len(disk)] = logPage]
    BY <1>0, <1>2, <1>4 DEF WritePage, Layout
  <2> QED BY <1>0, <1>1, <2>1, FileTypes
<1>6. s \in States' /\ pc' = [pc EXCEPT ![t] = s] /\ Room(s)'
  BY <1>0, <1>1, <1>3 DEF WritePage, Goto, States, Room, Fits
<1>7. /\ pc' \in [Threads -> States']
      /\ pc'[t] = s /\ \A u \in Threads : u # t => pc'[u] = pc[u]
      /\ ~Growing' /\ ~Counting'
      /\ \A u \in Threads : pc'[u].op # "grow"
      /\ RoomOK' /\ AloneOK'
  <2>1. mutex' = {t} \/ s.from = "iterate"
    BY <1>0, <1>3, Writing
  <2>2. TypeOK /\ s \in States' /\ pc' = [pc EXCEPT ![t] = s] /\ s.op = "save"
    BY <1>1, <1>3, <1>6
  <2>3. CASE pc[t].from = "append"
    <3>1. \A u \in Threads : u # t => pc[u].op \in {"idle", "start"}
      BY <1>0, <2>3, OnlyOne
    <3>2. mutex' = {t}
      BY <1>3, <2>1, <2>3
    <3>3. /\ pc' \in [Threads -> States']
          /\ pc'[t] = s /\ \A u \in Threads : u # t => pc'[u] = pc[u]
          /\ ~Growing' /\ ~Counting' /\ RoomOK' /\ AloneOK'
      BY <1>6, <2>2, <3>1, <3>2, Turn
    <3> QED BY <2>2, <3>1, <3>3
  <2>4. CASE pc[t].from # "append"
    <3>1. \A u \in Threads : u # t =>
            pc[u].op \in {"idle", "start"} \/ (Copies(u) /\ (mutex' = {u} \/ Iterates(u)))
      BY <1>0, Writing
    <3>2. s.op \in {"write", "save"} /\ s.from # "append" /\ latestLsn' = latestLsn
      BY <1>0, <1>3, <2>4
    <3> QED BY <2>1, <2>2, <3>1, <3>2, Joins
  <2> QED BY <2>3, <2>4
<1>8. PagesOK' /\ CountOK'
  BY <1>0, <1>1, <1>4, <1>5, <1>7 DEF IInv, PagesOK, CountOK
<1>9. LayoutOK'
  <2>2. PICK k \in Nat : k = Len(log) /\ k \in 0 .. MaxRecords
    BY Numbers
  <2>3. /\ m <= n /\ n <= k
        /\ Held(Upto(disk, Len(disk) - 1)) = UpTo(m)
        /\ PageRecords(logPage) = Falling(m, k)
        /\ currBlk = Len(disk)
        /\ logPage.boundary = 0 => Len(disk) <= m + crashes
        /\ Len(disk) <= m + crashes + 1
        /\ promised <= n /\ base + lastSaveLsn <= n /\ hidden <= n
    BY <1>0, <1>2, <2>2 DEF Layout
  <2>4. m <= k /\ promised <= k /\ base + lastSaveLsn <= k /\ hidden <= k
    BY <2>2, <2>3, Numbers
  <2>5. d # <<>>
    <3>1. Len(disk) # 0 /\ disk \in Seq(Pages)
      BY <1>0, <1>1 DEF TypeOK
    <3> QED BY <1>5, <3>1
  <2>6. Layout(m, k)'
    BY <1>0, <1>4, <1>5, <1>7, <2>2, <2>3, <2>4 DEF Layout
  <2> QED BY <1>4, <1>7, <2>2, <2>5, <2>6 DEF LayoutOK
<1>11. HiddenOK'
  <2>1. PICK c \in 0 .. Len(disk) : Hides(c)
    BY <1>0 DEF IInv, HiddenOK
  <2>2. PICK k \in Nat : k = Len(disk) /\ Len(d) = k
    BY <1>1, <1>5 DEF TypeOK
  <2>3. ~HeaderMissing /\ ~HeaderMissing' /\ (Headless(logPage) <=> Headless(disk[k]))
    BY <1>0, <1>7, <2>1, <2>2 DEF Hides, HeaderMissing, Growing
  <2>4. /\ d[k] = logPage
        /\ \A i \in 1 .. k : i # k => d[i] = disk[i]
    BY <1>0, <1>1, <1>2, <1>4, <2>2 DEF WritePage, Layout, TypeOK
  <2>5. \A i \in 1 .. k : Headless(d[i]) <=> Headless(disk[i])
    BY <2>3, <2>4
  <2>6. \A i \in 1 .. c : PageRecords(d[i]) = PageRecords(disk[i])
    <3>1. CASE c = k
      <4>1. c # 0 => Headless(logPage) /\ Headless(disk[k])
        BY <2>1, <2>3, <3>1 DEF Hides
      <4>2. c # 0 => PageRecords(logPage) = <<>> /\ PageRecords(disk[k]) = <<>>
        <5>1. 0 \notin Positions
          BY BlockSizeAssumption DEF Positions
        <5>2. k # 0 => PageOK(disk[k])
          BY <2>2 DEF IInv, PagesOK
        <5> QED BY <1>1, <3>1, <4>1, <5>1, <5>2, EmptyRead DEF Headless
      <4> QED BY <2>2, <2>4, <3>1, <4>2
    <3>2. CASE c # k
      BY <2>1, <2>2, <2>4, <3>2
    <3> QED BY <3>1, <3>2
  <2>7. Held(Upto(d, c)) = Held(Upto(disk, c))
    BY <2>6, HeldSame
  <2>8. Hides(c)'
    <3>1. /\ Held(Upto(d, c)) = UpTo(hidden)
          /\ c # 0 => Headless(d[c])
          /\ \A i \in c + 1 .. k : ~Headless(d[i])
      BY <2>1, <2>2, <2>3, <2>5, <2>7 DEF Hides
    <3> QED BY <1>0, <1>4, <1>7, <2>2, <2>3, <2>4, <3>1 DEF Hides
  <2> QED BY <1>4, <2>1, <2>2, <2>8 DEF HiddenOK
<1>10. TypeOK'
  BY <1>0, <1>1, <1>4, <1>5, <1>7, <1>8, <1>9, Numbers, TypesFollow DEF IInv, TypeOK
<1> QED BY <1>0, <1>7, <1>8, <1>9, <1>10, <1>11 DEF IInv

(* WriteNew keeps the invariant: the new block is still empty.             *)
LEMMA WriteNewKeeps == ASSUME IInv, NEW t \in Threads, WriteNew(t) PROVE IInv'
<1>0. /\ pc[t].op = "writeNew" /\ pc[t] \in States
      /\ \A u \in Threads : u # t => pc[u].op \in {"idle", "start"}
      /\ Growing /\ ~Saved /\ ~Counting /\ disk # <<>>
      /\ UNCHANGED <<logPage, currBlk, latestLsn, lastSaveLsn, mutex, log, base, promised, hidden, crashes>>
  <2>1. pc[t].op = "writeNew"
    BY DEF WriteNew, At
  <2>2. disk # <<>>
    BY <2>1, OnlyOne DEF IInv, LayoutOK
  <2> QED BY <2>1, <2>2, OnlyOne DEF WriteNew, counters, history
<1>1. TypeOK /\ PageOK(logPage) /\ Room(pc[t]) /\ logPage.boundary = BlockSize
  BY <1>0 DEF IInv, RoomOK, PagesOK, Room
<1>2. PICK m \in 0 .. MaxRecords, n \in 0 .. MaxRecords : Layout(m, n)
  BY <1>0 DEF IInv, LayoutOK
<1>s. PICK s : s = [pc[t] EXCEPT !.op = "setCurr"]
  OBVIOUS
<1>3. /\ s \in States /\ s.op = "setCurr" /\ s.size = pc[t].size
      /\ s = [pc[t] EXCEPT !.op = "setCurr"]
  <2>1. pc[t] \in States /\ pc[t].op = "writeNew"
    BY <1>0
  <2> QED BY ONLY <1>s, <2>1, NextState
<1>4. PICK d : d = disk'
  OBVIOUS
<1>5. /\ d \in Seq(Pages) /\ Len(d) = Len(disk) /\ d[Len(d)] = logPage
      /\ \A i \in 1 .. Len(d) : PageOK(d[i])
      /\ Upto(d, Len(disk) - 1) = Upto(disk, Len(disk) - 1)
  <2>1. d = [disk EXCEPT ![Len(disk)] = logPage]
    BY <1>4 DEF WriteNew
  <2> QED BY <1>0, <1>1, <2>1, FileTypes
<1>6. s \in States' /\ pc' = [pc EXCEPT ![t] = s] /\ Room(s)'
  BY <1>0, <1>1, <1>3 DEF WriteNew, Goto, States, Room
<1>7. /\ pc' \in [Threads -> States']
      /\ pc'[t] = s /\ \A u \in Threads : u # t => pc'[u] = pc[u]
      /\ Growing' /\ ~HeaderMissing' /\ ~Saved' /\ ~Counting'
      /\ RoomOK' /\ AloneOK'
  <2>1. mutex' = {t} \/ (s.size = 0 /\ \A u \in Threads : u # t => pc[u].op = "start")
    BY <1>0, <1>3 DEF IInv, AloneOK, Busy, Iterates, Opens
  <2>2. /\ TypeOK /\ s.op = "setCurr" /\ Room(s)'
        /\ mutex' = {t} \/ (s.size = 0 /\ \A u \in Threads : u # t => pc[u].op = "start")
        /\ s \in States' /\ pc' = [pc EXCEPT ![t] = s] /\ t \in Threads
        /\ \A u \in Threads : u # t => pc[u].op \in {"idle", "start"}
    BY <1>0, <1>1, <1>3, <1>6, <2>1
  <2>3. CASE mutex' = {t}
    BY ONLY <2>2, <2>3, Turn
  <2>4. CASE s.size = 0 /\ \A u \in Threads : u # t => pc[u].op = "start"
    BY ONLY <2>2, <2>4, Turn
  <2> QED BY <2>2, <2>3, <2>4
<1>8. PagesOK' /\ CountOK'
  BY <1>0, <1>1, <1>4, <1>5, <1>7 DEF IInv, PagesOK, CountOK
<1>9. LayoutOK'
  <2>1. \A u \in Threads : pc'[u].op # "grow"
    BY <1>0, <1>3, <1>7
  <2>3. /\ m <= n /\ n <= Len(log) /\ m = Len(log) /\ currBlk \in 1 .. Len(disk)
        /\ Held(Upto(disk, Len(disk) - 1)) = UpTo(m)
        /\ Len(disk) <= m + crashes + 1
        /\ promised <= n /\ base + lastSaveLsn <= n /\ hidden <= n
    BY <1>0, <1>2 DEF Layout
  <2>4. PageRecords(logPage) = Falling(m, m) /\ n = m
    <3>1. BlockSize \notin Positions
      BY BlockSizeAssumption DEF Positions
    <3>2. PageRecords(logPage) = <<>>
      BY <1>1, <3>1, EmptyRead
    <3>3. m \in Nat /\ n = m
      BY <2>3, Numbers
    <3>4. Falling(m, m) = <<>>
      BY ONLY <3>3 DEF Falling
    <3> QED BY <3>2, <3>3, <3>4
  <2>5. d # <<>>
    <3>1. Len(disk) # 0 /\ disk \in Seq(Pages)
      BY <1>0, <1>1 DEF TypeOK
    <3> QED BY <1>5, <3>1
  <2>6. Layout(m, m)'
    BY <1>0, <1>4, <1>5, <1>7, <2>3, <2>4 DEF Layout
  <2> QED BY <1>0, <1>4, <2>1, <2>5, <2>6 DEF LayoutOK
<1>11. HiddenOK'
  <2>1. PICK c \in 0 .. Len(disk) : Hides(c)
    BY <1>0 DEF IInv, HiddenOK
  <2>2. PICK k \in Nat : k = Len(disk) /\ Len(d) = k
    BY <1>1, <1>5 DEF TypeOK
  <2>3. c < k /\ (currBlk = k - 1 \/ (currBlk = k /\ k = 1))
    BY <1>0, <2>1, <2>2 DEF Hides
  <2>4. /\ d[k] = logPage
        /\ \A i \in 1 .. k : i # k => d[i] = disk[i]
    BY <1>0, <1>1, <1>4, <2>2 DEF WriteNew, TypeOK
  <2>5. ~Headless(logPage)
    BY <1>1, BlockSizeAssumption DEF Headless
  <2>6. \A i \in c + 1 .. k : ~Headless(d[i])
    <3>1. \A i \in c + 1 .. k : i # k => d[i] = disk[i] /\ ~Headless(disk[i])
      BY <2>1, <2>2, <2>4 DEF Hides
    <3> QED BY <2>4, <2>5, <3>1
  <2>7. \A i \in 1 .. c : d[i] = disk[i]
    BY <2>1, <2>2, <2>3, <2>4
  <2>8. Held(Upto(d, c)) = Held(Upto(disk, c))
    BY <2>7, HeldSame
  <2>9. Hides(c)'
    <3>1. /\ Held(Upto(d, c)) = UpTo(hidden)
          /\ c # 0 => Headless(d[c])
      BY <2>1, <2>7, <2>8 DEF Hides
    <3> QED BY <1>0, <1>4, <1>7, <2>2, <2>3, <2>6, <3>1 DEF Hides
  <2> QED BY <1>4, <2>1, <2>2, <2>9 DEF HiddenOK
<1>10. TypeOK'
  BY <1>0, <1>1, <1>4, <1>5, <1>7, <1>8, <1>9, Numbers, TypesFollow DEF IInv, TypeOK
<1> QED BY <1>0, <1>7, <1>8, <1>9, <1>10, <1>11 DEF IInv

(* Each block but the last holds a record, or a crash left it.             *)
LEMMA BlocksCounted ==
  ASSUME TypeOK, PageOK(logPage), NEW m \in Nat, NEW size \in Sizes, ~Fits(size), ~Growing,
         Layout(m, Len(log)), crashes \in Nat
  PROVE  Len(disk) <= Len(log) + crashes
<1>1. /\ Len(disk) \in Nat /\ Len(log) \in Nat
      /\ m <= Len(log) /\ Len(disk) <= m + crashes + 1
      /\ PageRecords(logPage) = Falling(m, Len(log))
      /\ logPage.boundary = 0 => Len(disk) <= m + crashes
  BY DEF TypeOK, Layout
<1>2. CASE logPage.boundary = 0
  BY <1>1, <1>2
<1>3. CASE logPage.boundary = BlockSize
  <2>1. BlockSize \in Nat /\ size \in 1 .. BlockSize - 1
    BY BlockSizeAssumption, SizesAssumption
  <2> QED BY <1>3, <2>1 DEF Fits
<1>4. CASE logPage.boundary \in Positions
  <2>1. Falling(m, Len(log)) # <<>>
    BY <1>1, <1>4, EmptyRead
  <2>2. m # Len(log)
    <3>1. Falling(m, m) = <<>>
      BY DEF Falling
    <3> QED BY <2>1, <3>1
  <2> QED BY <1>1, <2>2
<1> QED BY <1>2, <1>3, <1>4, PageFields

(* Grow keeps the invariant: the full block stays on disk before the new   *)
(* one.                                                                    *)
LEMMA GrowKeeps == ASSUME IInv, NEW t \in Threads, Grow(t) PROVE IInv'
<1>0. /\ pc[t].op = "grow" /\ pc[t] \in States
      /\ \A u \in Threads : u # t => pc[u].op \in {"idle", "start"}
      /\ ~Growing /\ Saved /\ ~Counting
      /\ UNCHANGED <<logPage, currBlk, latestLsn, lastSaveLsn, mutex, log, base, promised, hidden, crashes>>
  <2>1. pc[t].op = "grow"
    BY DEF Grow, At
  <2> QED BY <2>1, OnlyOne DEF Grow, counters, history
<1>1. TypeOK /\ PageOK(logPage) /\ Room(pc[t])
  BY <1>0 DEF IInv, RoomOK, PagesOK
<1>s. PICK s : s = [pc[t] EXCEPT !.op = "reset"]
  OBVIOUS
<1>3. /\ s \in States /\ s.op = "reset" /\ s.size = pc[t].size
      /\ s = [pc[t] EXCEPT !.op = "reset"]
  <2>1. pc[t] \in States /\ pc[t].op = "grow"
    BY <1>0
  <2> QED BY ONLY <1>s, <2>1, NextState
<1>4. PICK d : d = disk'
  OBVIOUS
<1>5. /\ disk \in Seq(Pages)
      /\ d \in Seq(Pages) /\ Len(d) = Len(disk) + 1 /\ d[Len(disk) + 1] = ZeroPage
      /\ \A i \in 1 .. Len(d) : PageOK(d[i])
      /\ Upto(d, Len(disk)) = Upto(disk, Len(disk))
  <2>1. d = Append(disk, ZeroPage)
    BY <1>4 DEF Grow
  <2> QED BY <2>1, ZeroPageOK, FileTypes
<1>6. s \in States' /\ pc' = [pc EXCEPT ![t] = s] /\ Room(s)'
  BY <1>0, <1>1, <1>3 DEF Grow, Goto, States, Room
<1>7. /\ pc' \in [Threads -> States']
      /\ pc'[t] = s /\ \A u \in Threads : u # t => pc'[u] = pc[u]
      /\ Growing' /\ HeaderMissing' /\ ~Saved' /\ ~Counting'
      /\ RoomOK' /\ AloneOK'
  <2>1. mutex' = {t} \/ (s.size = 0 /\ \A u \in Threads : u # t => pc[u].op = "start")
    BY <1>0, <1>3 DEF IInv, AloneOK, Busy, Iterates, Opens
  <2>2. /\ TypeOK /\ s.op = "reset" /\ Room(s)'
        /\ mutex' = {t} \/ (s.size = 0 /\ \A u \in Threads : u # t => pc[u].op = "start")
        /\ s \in States' /\ pc' = [pc EXCEPT ![t] = s] /\ t \in Threads
        /\ \A u \in Threads : u # t => pc[u].op \in {"idle", "start"}
    BY <1>0, <1>1, <1>3, <1>6, <2>1
  <2>3. CASE mutex' = {t}
    BY ONLY <2>2, <2>3, Turn
  <2>4. CASE s.size = 0 /\ \A u \in Threads : u # t => pc[u].op = "start"
    BY ONLY <2>2, <2>4, Turn
  <2> QED BY <2>2, <2>3, <2>4
<1>8. PagesOK' /\ CountOK'
  BY <1>0, <1>1, <1>4, <1>5, <1>7 DEF IInv, PagesOK, CountOK
<1>9. LayoutOK'
  <2>0. PICK l \in 0 .. MaxRecords, k \in Nat, c \in Nat :
          l = Len(log) /\ k = Len(disk) /\ c = crashes
    <3>1. Len(log) \in 0 .. MaxRecords /\ Len(disk) \in Nat /\ crashes \in Nat
      BY Numbers
    <3> QED BY <3>1
  <2>1. \A u \in Threads : pc'[u].op # "grow"
    BY <1>0, <1>3, <1>7
  <2>2. /\ Held(Upto(disk, k)) = UpTo(l) /\ k <= l + c /\ currBlk \in 1 .. k + 1
        /\ promised <= l /\ base + lastSaveLsn <= l /\ hidden <= l
    <3>1. CASE disk = <<>>
      <4>1. l = 0 /\ k = 0 /\ promised = 0 /\ hidden = 0 /\ base = 0 /\ lastSaveLsn = 0 /\ currBlk = 1
        BY <2>0, <3>1 DEF IInv, LayoutOK
      <4>2. UpTo(0) = <<>>
        BY DEF UpTo
      <4> QED BY <4>1, <4>2, NoBlocks
    <3>2. CASE disk # <<>>
      <4>1. PICK m \in 0 .. MaxRecords, n \in 0 .. MaxRecords : Layout(m, n)
        BY <3>2 DEF IInv, LayoutOK
      <4>2. /\ n = l /\ currBlk = k /\ promised <= l /\ base + lastSaveLsn <= l /\ hidden <= l
        BY <1>0, <2>0, <4>1 DEF Layout
      <4>3. pc[t].size # 0
        BY <1>0, <3>2 DEF IInv, LayoutOK
      <4>4. pc[t].size \in Sizes /\ ~Fits(pc[t].size)
        BY <1>0, <1>1, <4>3, StateFields DEF Room
      <4>5. k <= l + c
        BY <1>0, <1>1, <2>0, <4>1, <4>2, <4>4, Numbers, BlocksCounted
      <4>6. Held(Upto(disk, k)) = UpTo(l)
        BY <1>1, <2>0, <3>2, <4>1, <4>2, Whole
      <4>7. k # 0
        BY <1>5, <2>0, <3>2
      <4> QED BY <4>2, <4>5, <4>6, <4>7
    <3> QED BY <3>1, <3>2
  <2>3. /\ Len(d) = k + 1 /\ d[Len(d)] = ZeroPage /\ Len(d) - 1 = k
        /\ Len(d) <= l + c + 1 /\ d # <<>>
    BY <1>5, <2>0, <2>2
  <2>4. PageRecords(ZeroPage) = Falling(l, l)
    <3>1. Falling(l, l) = <<>>
      BY DEF Falling
    <3> QED BY <3>1, ZeroPageOK
  <2>5. Held(Upto(d, Len(d) - 1)) = UpTo(l)
    BY <1>5, <2>0, <2>2, <2>3
  <2>6. Layout(l, l)'
    BY <1>0, <1>4, <1>7, <2>0, <2>2, <2>3, <2>4, <2>5 DEF Layout
  <2> QED BY <1>4, <2>1, <2>3, <2>6 DEF LayoutOK
<1>11. HiddenOK'
  <2>1. PICK k \in Nat : k = Len(disk) /\ Len(d) = k + 1
    BY <1>5
  <2>2. /\ d[k + 1] = ZeroPage
        /\ \A i \in 1 .. k : d[i] = disk[i]
    BY <1>4, <1>5, <2>1 DEF Grow
  <2>3. Headless(ZeroPage)
    BY ZeroPageOK DEF Headless
  <2>4. PICK c \in 0 .. k : /\ Held(Upto(disk, c)) = UpTo(hidden)
                            /\ c # 0 => Headless(disk[c])
                            /\ \A i \in c + 1 .. k : ~Headless(disk[i])
                            /\ currBlk = k \/ (currBlk = k + 1 /\ k = 0)
    <3>1. CASE disk = <<>>
      <4>1. hidden = 0 /\ k = 0 /\ currBlk = 1
        BY <2>1, <3>1 DEF IInv, LayoutOK
      <4>2. UpTo(0) = <<>>
        BY DEF UpTo
      <4> WITNESS 0 \in 0 .. k
      <4> QED BY <4>1, <4>2, NoBlocks
    <3>2. CASE disk # <<>>
      <4>1. PICK c \in 0 .. k : Hides(c)
        BY <2>1, <3>2 DEF IInv, HiddenOK
      <4>2. ~HeaderMissing
        BY <1>0 DEF HeaderMissing, Growing
      <4>3. currBlk = k
        BY <1>0, <2>1, <3>2 DEF IInv, LayoutOK, Layout
      <4> QED BY <2>1, <4>1, <4>2, <4>3 DEF Hides
    <3> QED BY <3>1, <3>2
  <2>5. Held(Upto(d, c)) = Held(Upto(disk, c))
    BY <2>2, <2>4, HeldSame
  <2>6. Hides(c)'
    <3>1. /\ Held(Upto(d, c)) = UpTo(hidden)
          /\ c # 0 => Headless(d[c])
          /\ \A i \in c + 1 .. k + 1 : Headless(d[i]) => i = k + 1
          /\ Headless(d[k + 1]) /\ c < k + 1
          /\ currBlk = (k + 1) - 1 \/ (currBlk = k + 1 /\ k + 1 = 1)
      <4>1. c # 0 => d[c] = disk[c]
        BY <2>2, <2>4
      <4>2. ASSUME NEW i \in c + 1 .. k + 1, i # k + 1 PROVE ~Headless(d[i])
        <5>1. i \in c + 1 .. k /\ i \in 1 .. k
          BY <2>4, <4>2
        <5>2. d[i] = disk[i] /\ ~Headless(disk[i])
          BY <2>2, <2>4, <5>1
        <5> QED BY <5>2
      <4>3. Headless(d[k + 1]) /\ (c # 0 => Headless(d[c]))
        BY <2>2, <2>3, <2>4, <4>1
      <4>4. c < k + 1 /\ (currBlk = (k + 1) - 1 \/ (currBlk = k + 1 /\ k + 1 = 1))
        BY <2>4
      <4> QED BY <2>4, <2>5, <4>2, <4>3, <4>4
    <3> QED BY <1>0, <1>4, <1>7, <2>1, <3>1 DEF Hides
  <2> QED BY <1>4, <2>1, <2>4, <2>6 DEF HiddenOK
<1>10. TypeOK'
  BY <1>0, <1>1, <1>4, <1>5, <1>7, <1>8, <1>9, Numbers, TypesFollow DEF IInv, TypeOK
<1> QED BY <1>0, <1>7, <1>8, <1>9, <1>10, <1>11 DEF IInv

(* The new block is the current one; opening the log, the threads start.   *)
LEMMA SetCurrHolds == ASSUME IInv, NEW t \in Threads, SetCurr(t) PROVE IInv'
<1>0. /\ pc[t].op = "setCurr" /\ pc[t] \in States /\ pc[t].size \in Sizes \cup {0}
      /\ \A u \in Threads : u # t => pc[u].op \in {"idle", "start"}
      /\ Growing /\ ~HeaderMissing /\ ~Saved /\ ~Counting /\ disk # <<>>
      /\ UNCHANGED <<disk, logPage, latestLsn, lastSaveLsn, mutex, log, base, promised, hidden, crashes>>
      /\ currBlk' = Len(disk)
  <2>1. pc[t].op = "setCurr"
    BY DEF SetCurr, At
  <2>2. disk # <<>>
    BY <2>1, OnlyOne DEF IInv, LayoutOK
  <2>3. pc[t].size \in Sizes \cup {0}
    BY <2>1, OnlyOne, StateFields
  <2> QED BY <2>1, <2>2, <2>3, OnlyOne DEF SetCurr, counters, history
<1>1. TypeOK /\ PageOK(logPage) /\ Room(pc[t]) /\ logPage.boundary = BlockSize
  BY <1>0 DEF IInv, RoomOK, PagesOK, Room
<1>2. /\ pc' \in [Threads -> States']
      /\ \A u \in Threads : pc'[u].op \in {"idle", "start", "setBytes"}
      /\ RoomOK' /\ AloneOK'
  <2>1. CASE pc[t].size = 0
    <3>1. \A u \in Threads : pc'[u] = Idle
      BY <2>1 DEF SetCurr
    <3>2. pc' = [u \in Threads |-> Idle]
      BY <2>1 DEF SetCurr
    <3> QED BY <3>1, <3>2, IdleState DEF RoomOK, AloneOK, Busy
  <2>2. CASE pc[t].size # 0
    <3>1. PICK s : s = [op |-> "setBytes", size |-> pc[t].size]
      OBVIOUS
    <3>2. s.op = "setBytes" /\ s \in States' /\ s.size \in Sizes /\ s.size = pc[t].size
      BY <1>0, <2>2, <3>1 DEF States
    <3>3. Room(s)'
      <4>1. Len(log) < MaxRecords
        BY <1>0, <1>1, <2>2 DEF Room
      <4>2. BlockSize - s.size >= 1
        <5>1. PICK z \in Sizes : z = s.size
          BY <3>2
        <5>2. BlockSize \in Nat /\ z \in 1 .. BlockSize - 1
          BY BlockSizeAssumption, SizesAssumption
        <5> QED BY <5>1, <5>2
      <4> QED BY <1>0, <1>1, <3>2, <4>1, <4>2 DEF Room, Fits
    <3>4. mutex' = {t}
      BY <1>0, <2>2 DEF IInv, AloneOK, Busy, Iterates, Opens
    <3>5. pc' = [pc EXCEPT ![t] = s]
      BY <2>2, <3>1 DEF SetCurr
    <3>6. \A u \in Threads : u # t => pc[u].op \in {"idle", "start"}
      BY <1>0
    <3>7. /\ pc' \in [Threads -> States'] /\ RoomOK' /\ AloneOK'
          /\ pc'[t] = s /\ \A u \in Threads : u # t => pc'[u] = pc[u]
      BY ONLY t \in Threads, <1>1, <3>2, <3>3, <3>4, <3>5, <3>6, Turn
    <3> QED BY <3>2, <3>6, <3>7
  <2> QED BY <2>1, <2>2
<1>3. ~Growing' /\ ~Saved' /\ ~Counting' /\ \A u \in Threads : pc'[u].op # "grow"
  BY <1>2 DEF Growing, Saved, Counting
<1>4. PagesOK' /\ CountOK'
  BY <1>0, <1>3 DEF IInv, PagesOK, CountOK
<1>5. LayoutOK'
  <2>1. PICK m \in 0 .. MaxRecords, n \in 0 .. MaxRecords : Layout(m, n)
    BY <1>0 DEF IInv, LayoutOK
  <2>2. m = Len(log) /\ m \in Nat
    BY <1>0, <2>1, Numbers DEF Layout
  <2>3. PageRecords(logPage) = Falling(m, Len(log)) /\ logPage.boundary # 0
    <3>1. BlockSize \notin Positions /\ BlockSize # 0
      BY BlockSizeAssumption DEF Positions
    <3>2. PageRecords(logPage) = <<>>
      BY <1>1, <3>1, EmptyRead
    <3>3. Falling(m, m) = <<>>
      BY ONLY <2>2 DEF Falling
    <3> QED BY <1>1, <2>2, <3>1, <3>2, <3>3
  <2>4. Layout(m, n)'
    BY <1>0, <1>3, <2>1, <2>3 DEF Layout, Held, Upto
  <2> QED BY <1>0, <1>3, <2>4 DEF LayoutOK
<1>7. HiddenOK'
  <2>1. PICK c \in 0 .. Len(disk) : Hides(c)
    BY <1>0 DEF IInv, HiddenOK
  <2>2. ~Headless(disk[Len(disk)]) /\ ~Headless(logPage)
    <3>1. Len(disk) \in c + 1 .. Len(disk)
      BY <1>0, <1>1, <2>1 DEF Hides, TypeOK
    <3> QED BY <1>0, <1>1, <2>1, <3>1, BlockSizeAssumption DEF Hides, Headless
  <2>3. ~HeaderMissing'
    BY <1>3 DEF HeaderMissing, Growing
  <2>4. Hides(c)'
    <3>1. /\ Held(Upto(disk, c)) = UpTo(hidden)
          /\ c # 0 => Headless(disk[c])
          /\ \A i \in c + 1 .. Len(disk) : ~Headless(disk[i])
      BY <1>0, <2>1 DEF Hides
    <3> QED BY <1>0, <1>3, <2>2, <2>3, <3>1 DEF Hides
  <2> QED BY <1>0, <2>1, <2>4 DEF HiddenOK
<1>6. TypeOK'
  BY <1>0, <1>1, <1>2, <1>4, <1>5, Numbers, TypesFollow DEF IInv, TypeOK
<1> QED BY <1>0, <1>2, <1>4, <1>5, <1>6, <1>7 DEF IInv

(* The process starts on an empty file, or on what the last one left.      *)
LEMMA OpensEmpty ==
  ASSUME disk' = <<>>, logPage' = ZeroPage, currBlk' = 1, latestLsn' = 0, lastSaveLsn' = 0,
         mutex' = {}, log' = <<>>, base' = 0, promised' = 0, hidden' = 0,
         crashes' \in 0 .. MaxCrashes,
         pc' = [t \in Threads |-> IF t = Main THEN [op |-> "grow", size |-> 0]
                                  ELSE [op |-> "start"]]
  PROVE  IInv'
<1>0. Main \in Threads
  BY ThreadsAssumption DEF Main
<1>1. /\ pc'[Main] = [op |-> "grow", size |-> 0]
      /\ \A u \in Threads : u # Main => pc'[u] = [op |-> "start"]
  BY <1>0
<1>2. pc' \in [Threads -> States']
  <2>1. [op |-> "grow", size |-> 0] \in States' /\ [op |-> "start"] \in States'
    BY DEF States
  <2> QED BY <2>1
<1>3. ~Growing' /\ ~Counting' /\ RoomOK' /\ AloneOK'
  BY <1>1 DEF Growing, Counting, RoomOK, Room, AloneOK, Busy, Iterates, Opens
<1>4. PagesOK' /\ CountOK' /\ LayoutOK' /\ HiddenOK'
  BY <1>0, <1>1, <1>3, ZeroPageOK DEF PagesOK, CountOK, LayoutOK, HiddenOK
<1>5. TypeOK'
  BY <1>2, <1>4, BoundsAssumption, TypesFollow
<1> QED BY <1>3, <1>4, <1>5 DEF IInv

(* Crash keeps the invariant: the log is cut to what the file holds.       *)
LEMMA CrashKeeps == ASSUME IInv, Crash PROVE IInv'
<1>0. /\ crashes' \in 0 .. MaxCrashes /\ crashes' = crashes + 1 /\ crashes \in Nat
      /\ UNCHANGED <<disk, promised>>
      /\ latestLsn' = 0 /\ lastSaveLsn' = 0 /\ mutex' = {}
  BY Numbers DEF Crash, Boot
<1>1. CASE disk = <<>>
  <2>1. log = <<>> /\ promised = 0 /\ hidden = 0
    BY <1>1 DEF IInv, LayoutOK
  <2>2. OnDisk = <<>>
    <3>1. Upto(disk, 0) = disk
      BY <1>1 DEF Upto
    <3> QED BY <3>1, NoBlocks DEF OnDisk
  <2>3. log' = <<>> /\ base' = 0 /\ hidden' = 0
    BY <2>1, <2>2 DEF Crash
  <2> QED BY <1>0, <1>1, <2>1, <2>3, OpensEmpty DEF Crash, Boot
<1>2. CASE disk # <<>>
  <2>1. PICK m \in 0 .. MaxRecords, n \in 0 .. MaxRecords : Layout(m, n)
    BY <1>2 DEF IInv, LayoutOK
  <2>2. OnDisk = UpTo(n) /\ Len(UpTo(n)) = n
    <3>1. OnDisk = UpTo(n)
      BY <1>2, <2>1, Numbers, Whole
    <3> QED BY <3>1, BoundsAssumption DEF UpTo
  <2>3. PICK k \in Nat : k = Len(disk) /\ k # 0
    BY <1>2 DEF IInv, TypeOK
  <2>4. /\ m \in Nat /\ n \in Nat /\ m <= n /\ n <= Len(log)
        /\ Held(Upto(disk, k - 1)) = UpTo(m)
        /\ PageRecords(disk[k]) = Falling(m, n)
        /\ k <= m + crashes + 1 /\ promised <= n /\ hidden <= n
    BY <2>1, <2>3, BoundsAssumption DEF Layout
  <2>5. log' \in Seq(Sizes) /\ Len(log') = n /\ base' = n
    <3>1. log' = SubSeq(log, 1, n) /\ log \in Seq(Sizes)
      BY <2>2 DEF Crash, IInv, TypeOK
    <3> QED BY <2>4, <3>1 DEF Crash
  <2>h. hidden' = IF HeaderMissing THEN n ELSE hidden
    BY <2>5 DEF Crash
  <2>6. logPage' = disk[k] /\ currBlk' = k /\ PageOK(disk[k])
    <3>1. k \in 1 .. Len(disk)
      BY <2>3
    <3> QED BY <1>2, <2>3, <3>1 DEF Crash, Boot, IInv, PagesOK
  <2>7. /\ \A u \in Threads : pc'[u] = Idle
        /\ pc' \in [Threads -> States']
    <3>1. pc' = [u \in Threads |-> Idle]
      BY <1>2 DEF Crash, Boot
    <3> QED BY <3>1, IdleState
  <2>8. \A u \in Threads : pc'[u].op = "idle" /\ Room(pc[u])'
    BY <2>7 DEF Idle, Room
  <2>9. ~Growing' /\ ~Saved' /\ ~Counting' /\ RoomOK' /\ AloneOK'
    BY <2>8 DEF Growing, Saved, Counting, RoomOK, AloneOK, Busy
  <2>10. PagesOK' /\ CountOK'
    <3>1. base' + latestLsn' = Len(log')
      BY <1>0, <2>4, <2>5
    <3> QED BY <1>0, <2>6, <2>9, <3>1 DEF IInv, PagesOK, CountOK
  <2>11. LayoutOK'
    <3>1. k <= m + crashes' /\ k <= m + crashes' + 1 /\ base' + lastSaveLsn' = n
      <4>1. PICK c \in Nat : c = crashes
        BY <1>0
      <4>2. crashes' = c + 1 /\ k <= m + c + 1
        BY <1>0, <2>4, <4>1
      <4>3. k <= m + (c + 1) /\ k <= m + (c + 1) + 1
        BY <2>4, <4>2
      <4> QED BY <1>0, <2>4, <2>5, <4>2, <4>3
    <3>2. Layout(m, n)'
      BY <1>0, <2>3, <2>4, <2>5, <2>6, <2>9, <2>h, <3>1 DEF Layout
    <3> QED BY <1>0, <1>2, <2>8, <3>2 DEF LayoutOK
  <2>13. HiddenOK'
    <3>1. PICK c \in 0 .. k : Hides(c)
      BY <1>2, <2>3 DEF IInv, HiddenOK
    <3>2. ~HeaderMissing'
      BY <2>8 DEF HeaderMissing
    <3>3. CASE HeaderMissing
      <4>1. Held(Upto(disk, k)) = UpTo(n)
        BY <1>2, <2>1, <2>3, Numbers, Whole
      <4>2. Headless(disk[k])
        BY <2>3, <3>1, <3>3 DEF Hides
      <4>3. Hides(k)'
        <5>1. \A i \in k + 1 .. k : FALSE
          OBVIOUS
        <5> QED BY <1>0, <2>3, <2>6, <2>9, <2>h, <3>2, <3>3, <4>1, <4>2, <5>1 DEF Hides
      <4> QED BY <1>0, <2>3, <4>3 DEF HiddenOK
    <3>4. CASE ~HeaderMissing
      <4>1. /\ Held(Upto(disk, c)) = UpTo(hidden)
            /\ c # 0 => Headless(disk[c])
            /\ \A i \in c + 1 .. k : ~Headless(disk[i])
        BY <2>3, <3>1, <3>4 DEF Hides
      <4>2. Hides(c)'
        BY <1>0, <2>3, <2>6, <2>9, <2>h, <3>2, <3>4, <4>1 DEF Hides
      <4> QED BY <1>0, <2>3, <4>2 DEF HiddenOK
    <3> QED BY <3>3, <3>4
  <2>12. TypeOK'
    <3>1. Len(log') <= MaxRecords /\ base' \in 0 .. Len(log') /\ promised' \in Nat /\ hidden' \in Nat
          /\ latestLsn' \in Nat /\ lastSaveLsn' \in Nat
      BY <1>0, <2>4, <2>5, <2>h, Numbers
    <3>2. disk' \in Seq(Pages)
      BY <1>0 DEF IInv, TypeOK
    <3> QED BY <1>0, <2>5, <2>7, <2>10, <2>11, <3>1, <3>2, TypesFollow
  <2> QED BY <1>0, <2>9, <2>10, <2>11, <2>12, <2>13 DEF IInv
<1> QED BY <1>1, <1>2

(* The first start finds an empty file.                                    *)
LEMMA InitHolds == ASSUME Init PROVE IInv
<1>0. Main \in Threads
  BY ThreadsAssumption DEF Main
<1>1. /\ pc[Main] = [op |-> "grow", size |-> 0]
      /\ \A u \in Threads : u # Main => pc[u] = [op |-> "start"]
  BY <1>0 DEF Init
<1>2. pc \in [Threads -> States]
  <2>1. [op |-> "grow", size |-> 0] \in States /\ [op |-> "start"] \in States
    BY DEF States
  <2> QED BY <2>1 DEF Init
<1>3. ~Growing /\ ~Counting /\ RoomOK /\ AloneOK
  BY <1>1 DEF Growing, Counting, RoomOK, Room, AloneOK, Busy, Iterates, Opens
<1>4. PagesOK /\ CountOK /\ LayoutOK /\ HiddenOK
  BY <1>0, <1>1, <1>3, ZeroPageOK DEF PagesOK, CountOK, LayoutOK, HiddenOK, Init
<1>5. TypeOK /\ crashes \in 0 .. MaxCrashes
  BY <1>2, ZeroPageOK, BoundsAssumption DEF TypeOK, Init, PageOK
<1> QED BY <1>3, <1>4, <1>5 DEF IInv

(* A step that changes nothing keeps the invariant.                        *)
LEMMA StutterKeeps == ASSUME IInv, UNCHANGED vars PROVE IInv'
<1>1. UNCHANGED <<disk, logPage, currBlk, latestLsn, lastSaveLsn, pc, mutex, log, base, promised,
                  hidden, crashes>>
  BY DEF vars
<1>2. TypeOK'
  BY <1>1 DEF IInv, TypeOK, States
<1>3. RoomOK' /\ AloneOK' /\ PagesOK' /\ CountOK'
  BY <1>1 DEF IInv, RoomOK, Room, Fits, AloneOK, Busy, Iterates, Opens, Copies, PagesOK, CountOK, Counting
<1>4. LayoutOK' /\ HiddenOK'
  <2>1. LayoutOK'
    BY <1>1 DEF IInv, LayoutOK, Layout, Held, Upto, Growing, Saved
  <2>2. HiddenOK'
    <3>1. (Growing' <=> Growing) /\ (HeaderMissing' <=> HeaderMissing)
      BY <1>1 DEF Growing, HeaderMissing
    <3>2. CASE disk # <<>>
      BY <1>1, <3>1, <3>2, HiddenStays
    <3>3. CASE disk = <<>>
      BY <1>1, <3>3 DEF HiddenOK
    <3> QED BY <3>2, <3>3
  <2> QED BY <2>1, <2>2
<1> QED BY <1>1, <1>2, <1>3, <1>4 DEF IInv

(* Every step keeps the invariant.                                         *)
LEMMA StepKeeps == ASSUME Quiet, IInv, [Next]_vars PROVE IInv'
<1>1. ASSUME NEW t \in Threads, Step(t) PROVE IInv'
  BY <1>1, WritePageKeeps, SaveLsnKeeps, GrowKeeps, ResetHeaderKeeps, WriteNewKeeps, SetCurrHolds,
     SetBytesKeeps, SetHeaderKeeps, CountLsnKeeps DEF Step
<1>2. ASSUME NEW t \in Threads, Iterate(t) PROVE IInv'
  BY <1>2, IterateEnters
<1>3. ASSUME NEW t \in Threads, NEW size \in Sizes, EnterAppend(t, size) PROVE IInv'
  BY <1>3, AppendEnters
<1>4. ASSUME NEW t \in Threads, NEW lsn \in -1 .. latestLsn, Flush(t, lsn) PROVE IInv'
  BY <1>4, FlushEnters
<1>5. CASE Crash
  BY <1>5, CrashKeeps
<1>6. CASE UNCHANGED vars
  BY <1>6, StutterKeeps
<1> QED BY <1>1, <1>2, <1>3, <1>4, <1>5, <1>6 DEF Next

-----------------------------------------------------------------------------
(* The inductive invariant holds if iterator() does not run beside an      *)
(* append.                                                                 *)
THEOREM Invariant == ASSUME Quiet PROVE Spec => []IInv
<1>1. Init => IInv
  BY InitHolds
<1>2. IInv /\ [Next]_vars => IInv'
  BY StepKeeps
<1> QED BY <1>1, <1>2, PTL DEF Spec

(* Every thread is at a step of the code, with what that step needs, and   *)
(* the page, the blocks and the counters stay within their bounds.         *)
THEOREM TypeCorrect == ASSUME Quiet PROVE Spec => []TypeOK
<1>1. IInv => TypeOK
  BY DEF IInv
<1> QED BY <1>1, Invariant, PTL

(* How many records are on disk.                                           *)
LEMMA DiskCounted ==
  IInv => /\ \E n \in Nat : OnDisk = UpTo(n) /\ Len(OnDisk) = n /\ n <= Len(log)
                            /\ promised <= n /\ base + lastSaveLsn <= n
          /\ (Saved \/ Growing) => Len(OnDisk) = Len(log)
<1> SUFFICES ASSUME IInv
             PROVE  \E n \in Nat : /\ OnDisk = UpTo(n) /\ Len(OnDisk) = n /\ n <= Len(log)
                                   /\ promised <= n /\ base + lastSaveLsn <= n
                                   /\ (Saved \/ Growing) => n = Len(log)
  OBVIOUS
<1>1. CASE disk = <<>>
  <2>1. log = <<>> /\ promised = 0 /\ base = 0 /\ lastSaveLsn = 0
    BY <1>1 DEF IInv, LayoutOK
  <2>2. OnDisk = <<>>
    <3>1. Upto(disk, 0) = disk
      BY <1>1 DEF Upto
    <3> QED BY <3>1, NoBlocks DEF OnDisk
  <2>3. UpTo(0) = <<>>
    BY DEF UpTo
  <2> QED BY <2>1, <2>2, <2>3
<1>2. CASE disk # <<>>
  <2>1. PICK m \in 0 .. MaxRecords, n \in 0 .. MaxRecords : Layout(m, n)
    BY <1>2 DEF IInv, LayoutOK
  <2>2. n \in Nat /\ m \in Nat /\ Len(log) \in Nat
    BY Numbers
  <2>3. OnDisk = UpTo(n) /\ Len(UpTo(n)) = n
    <3>1. OnDisk = UpTo(n)
      BY <1>2, <2>1, Numbers, Whole
    <3> QED BY <2>2, <3>1 DEF UpTo
  <2>4. /\ m <= n /\ n <= Len(log) /\ promised <= n /\ base + lastSaveLsn <= n
        /\ Saved => n = Len(log)
        /\ Growing => m = Len(log)
    BY <2>1 DEF Layout
  <2>5. (Saved \/ Growing) => n = Len(log)
    BY <2>2, <2>4
  <2> QED BY <2>2, <2>3, <2>4, <2>5
<1> QED BY <1>1, <1>2

(* If iterator() never runs beside an append, flush(lsn) returns only when *)
(* record lsn is on disk, neither a later write nor a crash takes it back, *)
(* and _lastSaveLsn never runs ahead of the file; for any number of        *)
(* threads, sizes of blocks and records, and crashes.  The condition is    *)
(* the caller's: doRollback calls iterator() without the mutex, and with a *)
(* second connection appending then neither holds.                         *)
THEOREM Durable == ASSUME Quiet PROVE Spec => []FlushedIsOnDisk
<1>1. IInv => FlushedIsOnDisk
  BY DiskCounted DEF FlushedIsOnDisk
<1> QED BY <1>1, Invariant, PTL

(* If iterator() never runs beside an append, the blocks hold the records  *)
(* of the log without a gap, a repetition or a change of order, and        *)
(* between calls an iterator returns all of them, or, once a crash left a  *)
(* block without header, exactly those appended since.                     *)
THEOREM InOrder == ASSUME Quiet PROVE Spec => []LogInOrder
<1>1. ASSUME IInv PROVE LogInOrder
  <2>1. \A i \in DOMAIN OnDisk : OnDisk[i] = i
    <3>1. PICK n \in Nat : OnDisk = UpTo(n)
      BY <1>1, DiskCounted
    <3> QED BY <3>1 DEF UpTo
  <2>2. ASSUME \A t \in Threads : pc[t] = Idle
        PROVE  Iterated([i \in 1 .. currBlk |-> IF i = currBlk THEN logPage ELSE disk[i]])
                 = [i \in 1 .. Len(log) - hidden |-> hidden + i]
    <3>1. ~Growing /\ ~Saved /\ disk # <<>>
      BY <1>1, <2>2 DEF Growing, Saved, Idle, IInv, LayoutOK
    <3>2. PICK m \in 0 .. MaxRecords, n \in 0 .. MaxRecords : Layout(m, n)
      BY <1>1, <3>1 DEF IInv, LayoutOK
    <3>3. PICK l \in Nat : l = Len(log) /\ m \in Nat /\ m <= l
      BY <1>1, <3>2, Numbers DEF Layout
    <3>4. PICK k \in Nat : Len(disk) = k + 1
      <4>1. Len(disk) \in Nat /\ Len(disk) # 0
        BY <1>1, <3>1 DEF IInv, TypeOK
      <4>2. Len(disk) - 1 \in Nat /\ Len(disk) = (Len(disk) - 1) + 1
        BY <4>1
      <4> QED BY <4>2
    <3>5. /\ currBlk = k + 1 /\ PageRecords(logPage) = Falling(m, l)
          /\ Held(Upto(disk, k)) = UpTo(m)
      <4>1. Len(disk) - 1 = k
        BY <3>4
      <4> QED BY <3>1, <3>2, <3>3, <3>4, <4>1 DEF Layout
    <3>6. PICK e : e = [i \in 1 .. k + 1 |-> IF i = k + 1 THEN logPage ELSE disk[i]]
      OBVIOUS
    <3>7. Falling(m, l) \in Seq(Nat)
      BY <3>3 DEF Falling
    <3>8. /\ DOMAIN e = 1 .. k + 1 /\ e = [i \in DOMAIN e |-> e[i]]
          /\ \A i \in 1 .. k : e[i] = disk[i]
          /\ e[k + 1] = logPage
      BY <3>6
    <3>9. PageRecords(e[k + 1]) \in Seq(Nat)
      BY <3>5, <3>7, <3>8
    <3>10. Held(e) = Held(Upto(disk, k)) \o Reverse(PageRecords(e[k + 1]))
      BY ONLY k \in Nat, <3>8, <3>9, OneMoreBlock
    <3>11. Reverse(Falling(m, l)) = Rising(m, l) /\ UpTo(m) \o Rising(m, l) = UpTo(l)
      BY ONLY <3>3, l \in Nat, Lists
    <3>12. Held(e) = UpTo(l) /\ e = Upto(e, k + 1)
      BY <3>5, <3>8, <3>10, <3>11 DEF Upto
    <3>13. PICK c \in 0 .. k + 1 : Hides(c)
      BY <1>1, <3>1, <3>4 DEF IInv, HiddenOK
    <3>14. ~HeaderMissing /\ (Headless(logPage) <=> Headless(disk[k + 1]))
      BY <3>1, <3>4, <3>13 DEF Hides, HeaderMissing, Growing
    <3>15. \A i \in 1 .. k + 1 : Headless(e[i]) <=> Headless(disk[i])
      BY <3>8, <3>14
    <3>16. PageOK(logPage) /\ \A i \in 1 .. k + 1 : PageOK(disk[i])
      BY <1>1, <3>4 DEF IInv, PagesOK
    <3>17. \A i \in 1 .. k + 1 : PageRecords(e[i]) \in Seq(Nat)
      <4>1. \A i \in 1 .. k + 1 : PageOK(e[i])
        BY <3>8, <3>16
      <4> QED BY <4>1, PageList
    <3>18. \A i \in 1 .. c : PageRecords(e[i]) = PageRecords(disk[i])
      <4>1. CASE c = k + 1
        <5>1. Headless(logPage) /\ Headless(disk[k + 1])
          BY <3>13, <3>14, <4>1 DEF Hides
        <5>2. 0 \notin Positions
          BY BlockSizeAssumption DEF Positions
        <5>3. PageRecords(logPage) = <<>> /\ PageRecords(disk[k + 1]) = <<>>
          BY <3>16, <5>1, <5>2, EmptyRead DEF Headless
        <5> QED BY <3>8, <4>1, <5>3
      <4>2. CASE c # k + 1
        BY <3>8, <3>13, <4>2
      <4> QED BY <4>1, <4>2
    <3>19. Held(Upto(e, c)) = UpTo(hidden)
      <4>1. Held(Upto(e, c)) = Held(Upto(disk, c))
        BY <3>18, HeldSame
      <4> QED BY <3>13, <4>1 DEF Hides
    <3>20. c # 0 => Headless(e[c])
      BY <3>13, <3>15 DEF Hides
    <3>21. \A i \in c + 1 .. k + 1 : ~Headless(e[i])
      BY <3>4, <3>13, <3>14, <3>15 DEF Hides
    <3>22. Iterated(e) = Rising(hidden, l)
      <4>1. PICK h \in Nat : h = hidden
        BY <1>1, Numbers
      <4>2. PICK b \in Nat : b = k + 1
        OBVIOUS
      <4>3. /\ Held(Upto(e, c)) = UpTo(h) /\ Held(Upto(e, b)) = UpTo(l) /\ c \in 0 .. b
            /\ \A i \in 1 .. b : PageRecords(e[i]) \in Seq(Nat)
            /\ c # 0 => Headless(e[c])
            /\ \A i \in c + 1 .. b : ~Headless(e[i])
        BY <3>12, <3>17, <3>19, <3>20, <3>21, <4>1, <4>2
      <4>4. Iterated(Upto(e, b)) = Rising(h, l)
        BY ONLY <4>3, b \in Nat, l \in Nat, h \in Nat, ReadBack
      <4> QED BY <3>12, <4>1, <4>2, <4>4
    <3> QED BY <3>3, <3>5, <3>6, <3>22 DEF Rising
  <2> QED BY <2>1, <2>2 DEF LogInOrder
<1> QED BY <1>1, Invariant, PTL

(* What no iterator over the file returns is what a crash hid.             *)
LEMMA UnreadIs == IInv => Unread = hidden
<1> SUFFICES ASSUME IInv PROVE Unread = hidden
  OBVIOUS
<1>1. CASE disk = <<>>
  BY <1>1 DEF Unread, IInv, LayoutOK
<1>2. CASE disk # <<>>
  <2>1. PICK m \in 0 .. MaxRecords, n \in 0 .. MaxRecords : Layout(m, n)
    BY <1>2 DEF IInv, LayoutOK
  <2>2. PICK k \in Nat, h \in Nat, l \in Nat : k = Len(disk) /\ h = hidden /\ l = Len(log)
    BY Numbers
  <2>3. m \in Nat /\ n \in Nat /\ m <= n /\ n <= l /\ h <= n
    BY <2>1, <2>2, BoundsAssumption DEF Layout
  <2>4. PICK c \in 0 .. k : Hides(c)
    BY <1>2, <2>2 DEF IInv, HiddenOK
  <2>5. \A i \in 1 .. k : PageRecords(disk[i]) \in Seq(Nat)
    BY <2>2, PageList DEF IInv, PagesOK
  <2>6. Held(Upto(disk, k)) = UpTo(n) /\ OnDisk = UpTo(n) /\ Len(UpTo(n)) = n
    <3>1. Len(UpTo(n)) = n
      BY <2>3 DEF UpTo
    <3> QED BY <1>2, <2>1, <2>2, <3>1, Numbers, Whole
  <2>7. Unread = n - Len(Iterated(Upto(disk, currBlk)))
    BY <1>2, <2>6 DEF Unread, Upto
  <2>8. SUFFICES Len(Iterated(Upto(disk, currBlk))) = n - h
    BY <2>2, <2>3, <2>7
  <2>9. Held(Upto(disk, c)) = UpTo(h) /\ (c # 0 => Headless(disk[c]))
    BY <2>2, <2>4 DEF Hides
  <2>10. ASSUME NEW b \in Nat, b = currBlk, b <= k, c <= b, Held(Upto(disk, b)) = UpTo(n),
                \A i \in c + 1 .. b : ~Headless(disk[i])
         PROVE  Len(Iterated(Upto(disk, currBlk))) = n - h
    <3>1. c \in 0 .. b /\ \A i \in 1 .. b : PageRecords(disk[i]) \in Seq(Nat)
      BY <2>5, <2>10
    <3>2. PICK d : d = disk
      OBVIOUS
    <3>3. /\ c \in 0 .. b /\ (c # 0 => Headless(d[c]))
          /\ \A i \in c + 1 .. b : ~Headless(d[i])
          /\ \A i \in 1 .. b : PageRecords(d[i]) \in Seq(Nat)
          /\ Held(Upto(d, c)) = UpTo(h) /\ Held(Upto(d, b)) = UpTo(n)
      BY <2>9, <2>10, <3>1, <3>2
    <3>4. Iterated(Upto(d, b)) = Rising(h, n) /\ Len(Rising(h, n)) = n - h
      BY ONLY <3>3, b \in Nat, h \in Nat, n \in Nat, <2>3, ReadBack
    <3> QED BY <2>10, <3>2, <3>4
  <2>11. CASE ~Growing
    <3>1. ~HeaderMissing
      BY <2>11 DEF HeaderMissing, Growing
    <3>2. currBlk = k /\ \A i \in c + 1 .. k : ~Headless(disk[i])
      BY <2>1, <2>2, <2>4, <2>11, <3>1 DEF Layout, Hides
    <3> QED BY <2>6, <2>10, <3>2
  <2>12. CASE Growing
    <3>1. /\ c < k /\ (currBlk = k - 1 \/ (currBlk = k /\ k = 1))
          /\ \A i \in c + 1 .. k : Headless(disk[i]) => i = k
      BY <2>2, <2>4, <2>12 DEF Hides
    <3>2. m = l /\ n = m /\ Held(Upto(disk, k - 1)) = UpTo(n)
      <4>1. m = l /\ Held(Upto(disk, k - 1)) = UpTo(m)
        BY <2>1, <2>2, <2>12 DEF Layout
      <4> QED BY <2>2, <2>3, <4>1
    <3>3. CASE currBlk = k - 1
      <4>1. PICK b \in Nat : b = k - 1
        BY <3>1
      <4>2. b = currBlk /\ b <= k /\ c <= b /\ Held(Upto(disk, b)) = UpTo(n)
        BY <3>1, <3>2, <3>3, <4>1
      <4>3. ASSUME NEW i \in c + 1 .. b PROVE ~Headless(disk[i])
        <5>1. i \in c + 1 .. k /\ i # k
          BY <4>1
        <5> QED BY <3>1, <5>1
      <4> QED BY <2>10, <4>2, <4>3
    <3>4. CASE currBlk = k /\ k = 1
      <4>1. c = 0 /\ h = 0 /\ n = 0
        <5>1. c = 0
          BY <3>1, <3>4
        <5>2. Held(Upto(disk, 0)) = <<>> /\ k - 1 = 0
          BY <3>4, NoBlocks
        <5>3. UpTo(h) = <<>> /\ UpTo(n) = <<>>
          BY <2>9, <3>2, <5>1, <5>2
        <5>4. Len(UpTo(h)) = h /\ Len(UpTo(n)) = n
          BY <2>3 DEF UpTo
        <5> QED BY <5>1, <5>3, <5>4
      <4>2. Iterated(Upto(disk, 1)) = <<>>
        <5>1. PICK p : p = disk[1] /\ PageRecords(p) = <<>>
          <6>1. PageRecords(disk[1]) = Falling(m, n)
            BY <2>1, <2>2, <3>4 DEF Layout
          <6>2. Falling(m, n) = <<>>
            BY <3>2, <4>1 DEF Falling
          <6> QED BY <6>1, <6>2
        <5>2. Reverse(PageRecords(p)) = <<>>
          BY <5>1 DEF Reverse
        <5>3. Iterated(Upto(disk, 1)) = FlattenSeq([i \in 1 .. 1 |-> <<>>])
          <6>1. /\ DOMAIN Upto(disk, 1) = 1 .. 1 /\ Upto(disk, 1)[1] = p
            BY <5>1 DEF Upto
          <6>2. [i \in DOMAIN Upto(disk, 1) |->
                   IF \E j \in i .. Len(Upto(disk, 1)) : Headless(Upto(disk, 1)[j]) THEN <<>>
                   ELSE Reverse(PageRecords(Upto(disk, 1)[i]))] = [i \in 1 .. 1 |-> <<>>]
            BY <5>2, <6>1
          <6> QED BY <6>2 DEF Iterated
        <5> QED BY <5>3, FlatEmpty
      <4> QED BY <3>4, <4>1, <4>2
    <3> QED BY <3>1, <3>3, <3>4
  <2> QED BY <2>11, <2>12
<1> QED BY <1>1, <1>2

(* If iterator() never runs beside an append, the blocks, the page and the *)
(* counters implement an append-only sequence with a stable prefix:        *)
(* SetHeader adds a record, WritePage makes all of them stable, a crash    *)
(* cuts the rest off, and if it leaves a block without header it puts the  *)
(* stable ones out of every iterator's reach.  Every other step changes    *)
(* neither the records nor what can be read of them.                       *)
THEOREM StableLogImplemented == ASSUME Quiet PROVE Spec => ImplementsStableLog
<1>1. Init => Stable!Init
  <2> SUFFICES ASSUME Init PROVE Stable!Init
    OBVIOUS
  <2>1. IInv /\ log = <<>> /\ Len(log) = 0
    BY InitHolds DEF Init
  <2>2. Len(OnDisk) = 0 /\ Unread = 0
    BY <2>1, DiskCounted, UnreadIs DEF Init
  <2> QED BY <2>1, <2>2 DEF Stable!Init
<1>2. /\ IInv => Len(OnDisk) \in Nat /\ Len(OnDisk) <= Len(log)
      /\ IInv /\ (Saved \/ Growing) => Len(OnDisk) = Len(log)
  BY DiskCounted
<1>3. /\ IInv' => (Len(OnDisk) \in Nat /\ Len(OnDisk) <= Len(log))'
      /\ (IInv /\ (Saved \/ Growing))' => (Len(OnDisk) = Len(log))'
  BY <1>2, PTL
<1>5. (IInv => Unread = hidden) /\ (IInv' => (Unread = hidden)')
  BY UnreadIs, PTL
<1>4. ASSUME IInv, IInv', [Next]_vars
      PROVE  Stable!Next \/ UNCHANGED <<log, Len(OnDisk), Unread>>
  <2>1. PICK n \in Nat, k \in Nat : n = Len(OnDisk) /\ k = (Len(OnDisk))'
    BY <1>2, <1>3, <1>4
  <2>0. Unread = hidden /\ Unread' = hidden'
    BY <1>4, <1>5
  <2>2. CASE UNCHANGED <<disk, log, hidden>>
    BY <2>0, <2>2 DEF OnDisk
  <2>3. ASSUME NEW t \in Threads, SetHeader(t) PROVE Stable!Next
    <3>1. pc[t].size \in Sizes
      BY <1>4, <2>3, StateFields DEF SetHeader, At, IInv, TypeOK
    <3>2. /\ Len(OnDisk)' = Len(OnDisk) /\ Unread' = Unread
          /\ log' = Append(log, pc[t].size)
      BY <2>0, <2>3 DEF SetHeader, OnDisk
    <3>3. Stable!Add(pc[t].size)
      BY <3>2 DEF Stable!Add
    <3> QED BY <3>1, <3>3 DEF Stable!Next
  <2>4. ASSUME NEW t \in Threads, WritePage(t) PROVE Stable!Next
    <3>1. pc[t].op = "write" /\ log' = log /\ Unread' = Unread
      BY <2>0, <2>4 DEF WritePage, At, history
    <3>2. pc'[t].op = "save"
      BY <1>4, <2>4 DEF WritePage, Goto, IInv, TypeOK
    <3>3. Saved'
      BY <3>2 DEF Saved
    <3>4. k = Len(log)
      BY <1>3, <1>4, <2>1, <3>1, <3>3
    <3>5. k \in n .. Len(log)
      BY <1>2, <1>4, <2>1, <3>4
    <3>6. Stable!Save
      BY <2>1, <3>1, <3>5 DEF Stable!Save
    <3> QED BY <3>6 DEF Stable!Next
  <2>5. ASSUME NEW t \in Threads, Grow(t) \/ WriteNew(t)
        PROVE  UNCHANGED <<log, Len(OnDisk), Unread>>
    <3>1. pc[t].op \in {"grow", "writeNew"} /\ log' = log /\ Unread' = Unread
      BY <2>0, <2>5 DEF Grow, WriteNew, At, history
    <3>2. pc'[t].op \in {"reset", "setCurr"}
      <4>1. pc[t] \in States
        BY <1>4 DEF IInv, TypeOK
      <4>2. \/ pc[t].op = "grow" /\ pc'[t] = [pc[t] EXCEPT !.op = "reset"]
            \/ pc[t].op = "writeNew" /\ pc'[t] = [pc[t] EXCEPT !.op = "setCurr"]
        BY <1>4, <2>5 DEF Grow, WriteNew, At, Goto, IInv, TypeOK
      <4> QED BY <4>1, <4>2, NextState
    <3>3. (Saved \/ Growing) /\ (Saved \/ Growing)'
      BY <3>1, <3>2 DEF Saved, Growing
    <3>4. n = Len(log) /\ k = Len(log)
      BY <1>2, <1>3, <1>4, <2>1, <3>1, <3>3
    <3> QED BY <2>1, <3>1, <3>4
  <2>6. ASSUME Crash PROVE Stable!Next
    <3>1. Len(OnDisk)' = Len(OnDisk) /\ log' = SubSeq(log, 1, Len(OnDisk))
      BY <2>6 DEF Crash, OnDisk
    <3>2. Unread' \in {Unread, Len(OnDisk)}
      <4>1. Len(log') = Len(OnDisk)
        <5>1. log \in Seq(Sizes) /\ n <= Len(log)
          BY <1>2, <1>4, <2>1 DEF IInv, TypeOK
        <5>2. log' = SubSeq(log, 1, n)
          BY <2>1, <3>1
        <5> QED BY <2>1, <5>1, <5>2
      <4> QED BY <2>0, <2>6, <4>1 DEF Crash
    <3>3. Stable!Crash
      BY <3>1, <3>2 DEF Stable!Crash
    <3> QED BY <3>3 DEF Stable!Next
  <2>7. ASSUME NEW t \in Threads, Step(t)
        PROVE  Stable!Next \/ UNCHANGED <<log, Len(OnDisk), Unread>>
    BY <2>2, <2>3, <2>4, <2>5, <2>7
       DEF Step, SaveLsn, ResetHeader, SetCurr, SetBytes, CountLsn, history
  <2>8. ASSUME NEW t \in Threads,
               \/ Iterate(t)
               \/ \E size \in Sizes : EnterAppend(t, size)
               \/ \E lsn \in -1 .. latestLsn : Flush(t, lsn)
        PROVE  UNCHANGED <<log, Len(OnDisk), Unread>>
    <3>1. UNCHANGED <<disk, log, hidden>>
      BY <2>8 DEF Iterate, EnterAppend, Flush, history
    <3> QED BY <2>0, <3>1 DEF OnDisk
  <2>9. CASE UNCHANGED vars
    BY <2>2, <2>9 DEF vars
  <2> QED BY <1>4, <2>6, <2>7, <2>8, <2>9 DEF Next
<1> QED BY <1>1, <1>4, Invariant, PTL DEF Spec, ImplementsStableLog, Stable!Spec
=============================================================================
