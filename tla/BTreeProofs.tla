----------------------------- MODULE BTreeProofs -----------------------------
(***************************************************************************)
(* The directory of a BTree is a tree over the leaves, in the order of the *)
(* keys, after any number of insertions and removals (DirectoryIsTree),    *)
(* and a lookup returns the entries of its key (LookupIsRight).            *)
(*                                                                         *)
(* The inductive invariant gives each directory block the set of the keys  *)
(* that are searched in it: the root has all, a child those of its parent  *)
(* from its slot's key up to the next slot's. A split divides such a set,  *)
(* and the new slot in the block above divides it at the same key. The     *)
(* records of the leaves and of their chains are the entries, each once;   *)
(* the blocks of a chain get older and have one key, and what an emptied   *)
(* one still shows is not found before the record itself.                  *)
(***************************************************************************)
EXTENDS BTree, NatLemmas, FiniteSetTheorems, TLAPS

-----------------------------------------------------------------------------
(* Pages and files *)

Record == [key : Int, val : Nat]
Pages(full) == [flag : Int, n : Int, slot : [Slots(full) -> Record]]
Size(f) == Cardinality(DOMAIN f)
Files(full) == UNION {[0..(m - 1) -> Pages(full)] : m \in Nat \ {0}}

(* The number of blocks of a file.                                         *)
LEMMA SizeIs ==
  ASSUME NEW S, NEW m \in Nat, NEW f \in [0..(m - 1) -> S]
  PROVE  Size(f) = m
<1>1. DOMAIN f = 0..(m - 1)
  OBVIOUS
<1>2. Cardinality(0..(m - 1)) = m
  BY FS_Interval
<1> QED BY <1>1, <1>2 DEF Size

(* The blocks of a file have the numbers from 0 on.                        *)
LEMMA FileHas ==
  ASSUME NEW full \in Nat, NEW f \in Files(full)
  PROVE  /\ Size(f) \in Nat \ {0}
         /\ f \in [0..(Size(f) - 1) -> Pages(full)]
         /\ DOMAIN f = 0..(Size(f) - 1)
         /\ \A b \in DOMAIN f : f[b] \in Pages(full)
<1>1. PICK m \in Nat \ {0} : f \in [0..(m - 1) -> Pages(full)]
  BY DEF Files
<1>2. Size(f) = m
  BY <1>1, SizeIs
<1> QED BY <1>1, <1>2

(* What pages a file's update has.                                         *)
LEMMA FileIs ==
  ASSUME NEW full \in Nat, NEW m \in Nat \ {0}, NEW f \in [0..(m - 1) -> Pages(full)]
  PROVE  f \in Files(full) /\ Size(f) = m /\ DOMAIN f = 0..(m - 1)
BY SizeIs DEF Files

(* findSlotBefore returns the last slot before the first key that is not   *)
(* smaller; all slots up to it have smaller keys.                          *)
LEMMA SlotBeforeIs ==
  ASSUME NEW full \in Nat, NEW p \in Pages(full), p.n \in 0..(full - 1), NEW k \in Int
  PROVE  /\ SlotBefore(p, k) \in -1..(p.n - 1)
         /\ \A i \in 0..SlotBefore(p, k) : p.slot[i].key < k
         /\ SlotBefore(p, k) + 1 < p.n => p.slot[SlotBefore(p, k) + 1].key >= k
<1> DEFINE Stops(s) == /\ s + 1 = p.n \/ (s + 1 < p.n /\ p.slot[s + 1].key >= k)
                       /\ \A i \in 0..s : p.slot[i].key < k
           T == {j \in 0..p.n : j = p.n \/ p.slot[j].key >= k}
<1>1. PICK j \in T : \A i \in T : j <= i
  <2>1. p.n \in T /\ T \subseteq Nat /\ T # {}
    OBVIOUS
  <2> HIDE DEF T
  <2> QED BY <2>1, LeastExists
<1>2. j - 1 \in -1..p.n /\ Stops(j - 1)
  <2>1. j \in 0..p.n
    OBVIOUS
  <2>2. ASSUME NEW i \in 0..(j - 1) PROVE p.slot[i].key < k
    <3>1. i \notin T /\ i \in 0..p.n /\ i # p.n
      BY <1>1, <2>1
    <3>2. p.slot[i].key \in Int
      BY <3>1 DEF Pages, Slots, Record
    <3> QED BY <3>1, <3>2
  <2> QED BY <2>1, <2>2
<1>3. SlotBefore(p, k) = CHOOSE s \in -1..p.n : Stops(s)
  BY DEF SlotBefore
<1>4. SlotBefore(p, k) \in -1..p.n /\ Stops(SlotBefore(p, k))
  <2> HIDE DEF Stops
  <2> QED BY <1>2, <1>3
<1> QED BY <1>4

(* insert moves the records from the slot on up by one.                    *)
LEMMA InsertAtIs ==
  ASSUME NEW full \in Nat, NEW p \in Pages(full), p.n \in 0..(full - 1),
         NEW s \in 0..p.n, NEW e \in Record
  PROVE  /\ InsertAt(p, s, e) \in Pages(full)
         /\ InsertAt(p, s, e).n = p.n + 1
         /\ InsertAt(p, s, e).flag = p.flag
         /\ \A i \in 0..(s - 1) : InsertAt(p, s, e).slot[i] = p.slot[i]
         /\ InsertAt(p, s, e).slot[s] = e
         /\ \A i \in (s + 1)..p.n : InsertAt(p, s, e).slot[i] = p.slot[i - 1]
<1> DEFINE slot == [i \in Slots(full) |-> IF i < s \/ i > p.n THEN p.slot[i]
                                          ELSE IF i = s THEN e ELSE p.slot[i - 1]]
<1>1. p.slot \in [Slots(full) -> Record] /\ p.flag \in Int /\ p.n \in Int
  BY DEF Pages
<1>2. slot \in [Slots(full) -> Record]
  BY <1>1 DEF Slots
<1>3. InsertAt(p, s, e) = [flag |-> p.flag, n |-> p.n + 1, slot |-> slot]
  <2>1. InsertAt(p, s, e) =
          [p EXCEPT !.n = p.n + 1, !.slot = [i \in DOMAIN p.slot |-> IF i < s \/ i > p.n THEN p.slot[i]
                                                      ELSE IF i = s THEN e ELSE p.slot[i - 1]]]
    BY DEF InsertAt
  <2>2. slot = [i \in DOMAIN p.slot |-> IF i < s \/ i > p.n THEN p.slot[i]
                                                      ELSE IF i = s THEN e ELSE p.slot[i - 1]]
    BY <1>1
  <2>3. InsertAt(p, s, e) = [p EXCEPT !.n = p.n + 1, !.slot = slot]
    BY <2>1, <2>2
  <2> HIDE DEF slot
  <2> QED BY <2>3 DEF Pages
<1>4. InsertAt(p, s, e) \in Pages(full)
  BY <1>1, <1>2, <1>3 DEF Pages
<1>5. \A i \in 0..p.n : i \in Slots(full)
  BY DEF Slots
<1> QED BY <1>3, <1>4, <1>5

(* remove moves the records behind the slot down by one.                   *)
LEMMA RemoveAtIs ==
  ASSUME NEW full \in Nat, NEW p \in Pages(full), p.n <= full, NEW s \in Nat
  PROVE  /\ RemoveAt(p, s) \in Pages(full)
         /\ RemoveAt(p, s).n = p.n - 1
         /\ RemoveAt(p, s).flag = p.flag
         /\ \A i \in Slots(full) :
              RemoveAt(p, s).slot[i] = IF i >= s /\ i < p.n - 1 THEN p.slot[i + 1] ELSE p.slot[i]
<1> DEFINE slot == [i \in Slots(full) |-> IF i >= s /\ i < p.n - 1 THEN p.slot[i + 1] ELSE p.slot[i]]
<1>1. p.slot \in [Slots(full) -> Record] /\ p.flag \in Int /\ p.n \in Int
  BY DEF Pages
<1>2. slot \in [Slots(full) -> Record]
  BY <1>1 DEF Slots
<1>3. RemoveAt(p, s) = [flag |-> p.flag, n |-> p.n - 1, slot |-> slot]
  <2>1. RemoveAt(p, s) =
          [p EXCEPT !.n = p.n - 1, !.slot = [i \in DOMAIN p.slot |-> IF i >= s /\ i < p.n - 1
                                                      THEN p.slot[i + 1] ELSE p.slot[i]]]
    BY DEF RemoveAt
  <2>2. slot = [i \in DOMAIN p.slot |-> IF i >= s /\ i < p.n - 1
                                                      THEN p.slot[i + 1] ELSE p.slot[i]]
    BY <1>1
  <2>3. RemoveAt(p, s) = [p EXCEPT !.n = p.n - 1, !.slot = slot]
    BY <2>1, <2>2
  <2> HIDE DEF slot
  <2> QED BY <2>3 DEF Pages
<1>4. RemoveAt(p, s) \in Pages(full)
  BY <1>1, <1>2, <1>3 DEF Pages
<1> QED BY <1>3, <1>4

(* What transferRecs leaves in the old page, and what it makes of the new. *)
LEMMA KeptIs ==
  ASSUME NEW full \in Nat, NEW p \in Pages(full), p.n \in 0..full, NEW pos \in 0..p.n
  PROVE  /\ Kept(p, pos) \in Pages(full)
         /\ Kept(p, pos).n = pos
         /\ Kept(p, pos).flag = p.flag
         /\ \A i \in 0..(pos - 1) : Kept(p, pos).slot[i] = p.slot[i]
<1> DEFINE slot == [i \in Slots(full) |-> IF i >= pos /\ i < p.n THEN p.slot[p.n - 1] ELSE p.slot[i]]
<1>1. p.slot \in [Slots(full) -> Record] /\ p.flag \in Int /\ p.n \in Int
  BY DEF Pages
<1>2. slot \in [Slots(full) -> Record]
  BY <1>1 DEF Slots
<1>3. Kept(p, pos) = [flag |-> p.flag, n |-> pos, slot |-> slot]
  <2>1. Kept(p, pos) =
          [p EXCEPT !.n = pos, !.slot = [i \in DOMAIN p.slot |-> IF i >= pos /\ i < p.n
                                                      THEN p.slot[p.n - 1] ELSE p.slot[i]]]
    BY DEF Kept
  <2>2. slot = [i \in DOMAIN p.slot |-> IF i >= pos /\ i < p.n
                                                      THEN p.slot[p.n - 1] ELSE p.slot[i]]
    BY <1>1
  <2>3. Kept(p, pos) = [p EXCEPT !.n = pos, !.slot = slot]
    BY <2>1, <2>2
  <2> HIDE DEF slot
  <2> QED BY <2>3 DEF Pages
<1>4. Kept(p, pos) \in Pages(full)
  BY <1>1, <1>2, <1>3 DEF Pages
<1>5. \A i \in 0..(pos - 1) : i \in Slots(full)
  BY DEF Slots
<1> QED BY <1>3, <1>4, <1>5

LEMMA MovedIs ==
  ASSUME NEW full \in Nat, NEW p \in Pages(full), p.n \in 0..full, NEW pos \in 0..p.n,
         NEW flag \in Int
  PROVE  /\ Moved(p, pos, flag) \in Pages(full)
         /\ Moved(p, pos, flag).n = p.n - pos
         /\ Moved(p, pos, flag).flag = flag
         /\ \A i \in 0..(p.n - pos - 1) : Moved(p, pos, flag).slot[i] = p.slot[pos + i]
         /\ pos = p.n /\ full > 0 => Moved(p, pos, flag).slot[0].key = 0
<1> DEFINE zero == [key |-> 0, val |-> 0]
           slot == [i \in Slots(full) |-> IF i < p.n - pos THEN p.slot[pos + i] ELSE zero]
<1>1. p.slot \in [Slots(full) -> Record] /\ p.flag \in Int /\ p.n \in Int
  BY ONLY p \in Pages(full) DEF Pages
<1>2. slot \in [Slots(full) -> Record]
  BY <1>1 DEF Slots, Record
<1>3. Cardinality(DOMAIN p.slot) = full
  BY <1>1, SizeIs DEF Slots, Size
<1>4. NewPage(flag, full) = [flag |-> flag, n |-> 0, slot |-> [i \in Slots(full) |-> zero]]
  BY DEF NewPage
<1>5. Moved(p, pos, flag) = [flag |-> flag, n |-> p.n - pos, slot |-> slot]
  <2> DEFINE new == NewPage(flag, full)
             blank == [i \in Slots(full) |-> zero]
  <2>1. Moved(p, pos, flag) =
          [new EXCEPT !.n = p.n - pos,
                      !.slot = [i \in DOMAIN new.slot |-> IF i < p.n - pos THEN p.slot[pos + i]
                                                          ELSE new.slot[i]]]
    BY <1>3 DEF Moved
  <2>2. new.slot = blank /\ new.flag = flag /\ new \in Pages(full)
    <3>1. new = [flag |-> flag, n |-> 0, slot |-> blank]
      BY <1>4
    <3>2. blank \in [Slots(full) -> Record]
      BY DEF Record
    <3> HIDE DEF new, blank
    <3> QED BY <3>1, <3>2 DEF Pages
  <2>3. slot = [i \in DOMAIN blank |-> IF i < p.n - pos THEN p.slot[pos + i] ELSE blank[i]]
    OBVIOUS
  <2> HIDE DEF slot, zero, blank, new
  <2>4. Moved(p, pos, flag) = [new EXCEPT !.n = p.n - pos, !.slot = slot]
    BY <2>1, <2>2, <2>3
  <2> QED BY <2>2, <2>4 DEF Pages
<1>6. Moved(p, pos, flag) \in Pages(full)
  BY <1>2, <1>5 DEF Pages
<1>7. \A i \in 0..(p.n - pos - 1) : i \in Slots(full)
  BY DEF Slots
<1>8. pos = p.n /\ full > 0 => slot[0].key = 0
  BY DEF Slots
<1> HIDE DEF slot
<1>9. \A i \in 0..(p.n - pos - 1) : slot[i] = p.slot[pos + i]
  BY <1>7 DEF slot
<1> QED BY <1>5, <1>6, <1>8, <1>9

(* The file after a split.                                                 *)
LEMMA SplitIs ==
  ASSUME NEW full \in Nat, NEW f \in Files(full), NEW b \in DOMAIN f,
         f[b].n \in 0..full, NEW pos \in 0..f[b].n, NEW flag \in Int
  PROVE  /\ Split(f, b, pos, flag) \in Files(full)
         /\ Size(Split(f, b, pos, flag)) = Size(f) + 1
         /\ DOMAIN Split(f, b, pos, flag) = 0..Size(f)
         /\ Split(f, b, pos, flag)[b] = Kept(f[b], pos)
         /\ Split(f, b, pos, flag)[Size(f)] = Moved(f[b], pos, flag)
         /\ \A c \in DOMAIN f \ {b} : Split(f, b, pos, flag)[c] = f[c]
<1>1. /\ Size(f) \in Nat \ {0} /\ DOMAIN f = 0..(Size(f) - 1)
      /\ \A c \in DOMAIN f : f[c] \in Pages(full)
  BY FileHas
<1>2. Split(f, b, pos, flag) =
        [c \in 0..Size(f) |-> IF c = b THEN Kept(f[b], pos)
                              ELSE IF c \in DOMAIN f THEN f[c] ELSE Moved(f[b], pos, flag)]
  BY DEF Split, Size
<1>3. Kept(f[b], pos) \in Pages(full) /\ Moved(f[b], pos, flag) \in Pages(full)
  BY <1>1, KeptIs, MovedIs
<1>4. Split(f, b, pos, flag) \in [0..((Size(f) + 1) - 1) -> Pages(full)]
  BY <1>1, <1>2, <1>3
<1>5. Split(f, b, pos, flag) \in Files(full) /\ Size(Split(f, b, pos, flag)) = Size(f) + 1
  <2>1. Size(f) + 1 \in Nat \ {0}
    BY <1>1
  <2> QED BY ONLY <2>1, <1>4, full \in Nat, FileIs
<1> QED BY <1>1, <1>2, <1>5

(* The same facts under names, to be cited together.                       *)
Placed(full, p, s, e, q) ==
  /\ q \in Pages(full) /\ q.n = p.n + 1 /\ q.flag = p.flag
  /\ \A i \in 0..(s - 1) : q.slot[i] = p.slot[i]
  /\ q.slot[s] = e
  /\ \A i \in (s + 1)..p.n : q.slot[i] = p.slot[i - 1]

LEMMA PlacedIs ==
  ASSUME NEW full \in Nat, NEW p \in Pages(full), p.n \in 0..(full - 1),
         NEW s \in 0..p.n, NEW e \in Record, NEW q, q = InsertAt(p, s, e)
  PROVE  Placed(full, p, s, e, q)
BY InsertAtIs DEF Placed

Lower(full, p, pos, q) ==
  /\ q \in Pages(full) /\ q.n = pos /\ q.flag = p.flag
  /\ \A i \in 0..(pos - 1) : q.slot[i] = p.slot[i]

LEMMA LowerIs ==
  ASSUME NEW full \in Nat, NEW p \in Pages(full), p.n \in 0..full, NEW pos \in 0..p.n,
         NEW q, q = Kept(p, pos)
  PROVE  Lower(full, p, pos, q)
BY KeptIs DEF Lower

Higher(full, p, pos, flag, q) ==
  /\ q \in Pages(full) /\ q.n = p.n - pos /\ q.flag = flag
  /\ \A i \in 0..(p.n - pos - 1) : q.slot[i] = p.slot[pos + i]
  /\ pos = p.n /\ full > 0 => q.slot[0].key = 0

LEMMA HigherIs ==
  ASSUME NEW full \in Nat, NEW p \in Pages(full), p.n \in 0..full, NEW pos \in 0..p.n,
         NEW flag \in Int, NEW q, q = Moved(p, pos, flag)
  PROVE  Higher(full, p, pos, flag, q)
BY MovedIs DEF Higher

(* A file in which one block has been split.                               *)
Cut(full, f, b, p, pos, flag, h) ==
  /\ h \in Files(full) /\ Size(h) = Size(f) + 1 /\ DOMAIN h = 0..Size(f)
  /\ h[b] = Kept(p, pos) /\ h[Size(f)] = Moved(p, pos, flag)
  /\ \A c \in DOMAIN f \ {b} : h[c] = f[c]

LEMMA CutIs ==
  ASSUME NEW full \in Nat, NEW f \in Files(full), NEW b \in DOMAIN f, NEW p, p = f[b],
         p.n \in 0..full, NEW pos \in 0..p.n, NEW flag \in Int, NEW h, h = Split(f, b, pos, flag)
  PROVE  Cut(full, f, b, p, pos, flag, h)
BY SplitIs DEF Cut

-----------------------------------------------------------------------------
(* The keys of a slot *)

(* The keys of o that belong to the child of slot i of page p: from the    *)
(* slot's key up to the next one's. Slot -1 has those below the first.     *)
Part(o, p, i) ==
  {k \in o : (i >= 0 => p.slot[i].key <= k) /\ (i + 1 < p.n => k < p.slot[i + 1].key)}

Sorted(p) == \A i, j \in 0..(p.n - 1) : i < j => p.slot[i].key < p.slot[j].key
KeysIn(p, o) == \A i \in 0..(p.n - 1) : p.slot[i].key \in o

(* Keys of slots in use are numbers.                                       *)
LEMMA KeyIsInt ==
  ASSUME NEW full \in Nat, NEW p \in Pages(full), NEW i \in 0..(full - 1)
  PROVE  p.slot[i] \in Record /\ p.slot[i].key \in Int /\ p.slot[i].val \in Nat
BY DEF Pages, Slots, Record

(* A key between those of two slots has the first one before it.           *)
LEMMA SlotIs ==
  ASSUME NEW full \in Nat, NEW p \in Pages(full), p.n \in 0..(full - 1), Sorted(p),
         NEW k \in Int, NEW i \in -1..(p.n - 1),
         i >= 0 => p.slot[i].key < k, i + 1 < p.n => k <= p.slot[i + 1].key
  PROVE  SlotBefore(p, k) = i
<1>1. PICK s \in -1..(p.n - 1) :
        /\ s = SlotBefore(p, k)
        /\ \A j \in 0..s : p.slot[j].key < k
        /\ s + 1 < p.n => p.slot[s + 1].key >= k
  BY SlotBeforeIs
<1>2. \A j \in 0..(p.n - 1) : p.slot[j].key \in Int
  BY KeyIsInt
<1>3. CASE s < i
  <2>1. s + 1 \in 0..(p.n - 1) /\ i \in 0..(p.n - 1) /\ p.slot[s + 1].key >= k
    BY <1>1, <1>3
  <2>2. p.slot[s + 1].key <= p.slot[i].key
    BY <1>2, <1>3, <2>1 DEF Sorted
  <2> QED BY <1>2, <1>3, <2>1, <2>2
<1>4. CASE i < s
  <2>1. i + 1 \in 0..s /\ i + 1 \in 0..(p.n - 1) /\ p.slot[i + 1].key < k
    BY <1>1, <1>4
  <2> QED BY <1>2, <2>1
<1> QED BY <1>1, <1>3, <1>4

(* A record put behind slot i divides the keys of slot i at its own.       *)
LEMMA PartInsert ==
  ASSUME NEW full \in Nat, NEW p \in Pages(full), p.n \in 0..(full - 1), Sorted(p),
         NEW o \in SUBSET Int, KeysIn(p, o), NEW i \in -1..(p.n - 1),
         NEW e \in Record, e.key \in Part(o, p, i), i >= 0 => p.slot[i].key < e.key,
         NEW q, q = InsertAt(p, i + 1, e)
  PROVE  /\ SlotBefore(p, e.key) = i
         /\ Sorted(q) /\ KeysIn(q, o)
         /\ \A j \in -1..(i - 1) : Part(o, q, j) = Part(o, p, j)
         /\ Part(o, q, i) = {k \in Part(o, p, i) : k < e.key}
         /\ Part(o, q, i + 1) = {k \in Part(o, p, i) : k >= e.key}
         /\ \A j \in (i + 2)..p.n : Part(o, q, j) = Part(o, p, j - 1)
<1>1. /\ q \in Pages(full) /\ q.n = p.n + 1
      /\ \A j \in 0..i : q.slot[j] = p.slot[j]
      /\ q.slot[i + 1] = e
      /\ \A j \in (i + 2)..p.n : q.slot[j] = p.slot[j - 1]
  <2>1. PICK m \in 0..p.n : m = i + 1
    OBVIOUS
  <2>2. q = InsertAt(p, m, e)
    BY <2>1
  <2>3. Placed(full, p, m, e, q)
    BY <2>2, PlacedIs
  <2>4. m - 1 = i /\ m + 1 = i + 2
    BY <2>1
  <2> QED BY ONLY <2>1, <2>3, <2>4 DEF Placed
<1>2. \A j \in 0..(p.n - 1) : p.slot[j].key \in Int
  BY KeyIsInt
<1>3. e.key \in Int /\ e.key \in o /\ (i + 1 < p.n => e.key < p.slot[i + 1].key)
  BY DEF Part
<1>4. SlotBefore(p, e.key) = i
  BY <1>3, <1>2, SlotIs
<1>5. KeysIn(q, o)
  <2> SUFFICES ASSUME NEW j \in 0..p.n PROVE q.slot[j].key \in o
    BY <1>1 DEF KeysIn
  <2>1. CASE j <= i
    <3>1. q.slot[j] = p.slot[j] /\ j \in 0..(p.n - 1)
      BY <1>1, <2>1
    <3> QED BY <3>1 DEF KeysIn
  <2>2. CASE j = i + 1
    BY <1>1, <1>3, <2>2
  <2>3. CASE j > i + 1
    <3>1. q.slot[j] = p.slot[j - 1] /\ j - 1 \in 0..(p.n - 1)
      BY <1>1, <2>3
    <3> QED BY <3>1 DEF KeysIn
  <2> QED BY <2>1, <2>2, <2>3
<1>6. Sorted(q)
  <2> SUFFICES ASSUME NEW j \in 0..p.n, NEW l \in 0..p.n, j < l
               PROVE  q.slot[j].key < q.slot[l].key
    BY <1>1 DEF Sorted
  <2>1. \A a, b \in 0..(p.n - 1) : a < b => p.slot[a].key < p.slot[b].key
    BY DEF Sorted
  <2>2. CASE l <= i
    <3>1. q.slot[j] = p.slot[j] /\ q.slot[l] = p.slot[l] /\ j \in 0..(p.n - 1) /\ l \in 0..(p.n - 1)
      BY <1>1, <2>2
    <3> QED BY <2>1, <3>1
  <2>3. CASE l = i + 1
    <3>1. q.slot[j] = p.slot[j] /\ q.slot[l] = e /\ j \in 0..(p.n - 1) /\ i \in 0..(p.n - 1)
      BY <1>1, <2>3
    <3>2. p.slot[j].key <= p.slot[i].key
      BY <2>1, <2>3, <3>1, <1>2
    <3> QED BY <3>1, <3>2, <1>2, <1>3
  <2>4. CASE l > i + 1
    <3>1. q.slot[l] = p.slot[l - 1] /\ l - 1 \in 0..(p.n - 1)
      BY <1>1, <2>4
    <3>2. CASE j <= i
      <4>1. q.slot[j] = p.slot[j] /\ j \in 0..(p.n - 1) /\ j < l - 1
        BY <1>1, <3>2, <2>4
      <4> QED BY <2>1, <3>1, <4>1
    <3>3. CASE j = i + 1
      <4>1. i + 1 \in 0..(p.n - 1) /\ q.slot[j] = e
        BY <1>1, <3>3, <2>4
      <4>2. p.slot[i + 1].key <= p.slot[l - 1].key
        BY <2>1, <3>1, <4>1, <2>4, <1>2
      <4> QED BY <1>2, <1>3, <3>1, <4>1, <4>2
    <3>4. CASE j > i + 1
      <4>1. q.slot[j] = p.slot[j - 1] /\ j - 1 \in 0..(p.n - 1) /\ j - 1 < l - 1
        BY <1>1, <3>4
      <4> QED BY <2>1, <3>1, <4>1
    <3> QED BY <3>2, <3>3, <3>4
  <2> QED BY <2>2, <2>3, <2>4
<1>7. ASSUME NEW j \in -1..(i - 1) PROVE Part(o, q, j) = Part(o, p, j)
  <2>1. j >= 0 => q.slot[j] = p.slot[j]
    BY <1>1
  <2>2. j + 1 < p.n /\ j + 1 < q.n /\ q.slot[j + 1] = p.slot[j + 1]
    BY <1>1
  <2> QED BY <2>1, <2>2 DEF Part
<1>8. Part(o, q, i) = {k \in Part(o, p, i) : k < e.key}
  <2>1. i >= 0 => q.slot[i] = p.slot[i]
    BY <1>1
  <2>2. i + 1 < q.n /\ q.slot[i + 1] = e
    BY <1>1
  <2>3. ASSUME NEW k \in o, k < e.key, i + 1 < p.n PROVE k < p.slot[i + 1].key
    <3>1. i + 1 \in 0..(p.n - 1)
      BY <2>3
    <3> QED BY <2>3, <3>1, <1>2, <1>3
  <2> QED BY <2>1, <2>2, <2>3 DEF Part
<1>9. Part(o, q, i + 1) = {k \in Part(o, p, i) : k >= e.key}
  <2>1. i + 1 >= 0 /\ q.slot[i + 1] = e
    BY <1>1
  <2>2. (i + 1) + 1 < q.n <=> i + 1 < p.n
    BY <1>1
  <2>3. i + 1 < p.n => q.slot[(i + 1) + 1] = p.slot[i + 1]
    <3>1. i + 1 < p.n => (i + 1) + 1 \in (i + 2)..p.n /\ ((i + 1) + 1) - 1 = i + 1
      OBVIOUS
    <3> QED BY <1>1, <3>1
  <2>4. ASSUME NEW k \in o, e.key <= k, i >= 0 PROVE p.slot[i].key <= k
    <3>1. i \in 0..(p.n - 1)
      BY <2>4
    <3> QED BY <2>4, <3>1, <1>2, <1>3
  <2>5. \A k \in o : k >= e.key <=> e.key <= k
    BY <1>3
  <2> QED BY <2>1, <2>2, <2>3, <2>4, <2>5 DEF Part
<1>10. ASSUME NEW j \in (i + 2)..p.n PROVE Part(o, q, j) = Part(o, p, j - 1)
  <2>1. j >= 0 /\ j - 1 >= 0 /\ q.slot[j] = p.slot[j - 1]
    BY <1>1
  <2>2. j + 1 < q.n <=> (j - 1) + 1 < p.n
    BY <1>1
  <2>3. (j - 1) + 1 < p.n => q.slot[j + 1] = p.slot[(j - 1) + 1]
    <3>1. (j - 1) + 1 < p.n => j + 1 \in (i + 2)..p.n /\ (j + 1) - 1 = (j - 1) + 1
      OBVIOUS
    <3> QED BY <1>1, <3>1
  <2> QED BY <2>1, <2>2, <2>3 DEF Part
<1> QED BY <1>4, <1>5, <1>6, <1>7, <1>8, <1>9, <1>10

(* What the lower part q of page p has to do with the keys below its end,  *)
(* and the upper part with the keys from its begin on.                     *)
LowerPart(p, o, pos, q, low) ==
  /\ Sorted(q) /\ KeysIn(q, low)
  /\ \A j \in -1..(pos - 1) : Part(low, q, j) = Part(o, p, j)
UpperPart(p, o, pos, q, high) ==
  /\ Sorted(q) /\ KeysIn(q, high)
  /\ \A k \in high : q.slot[0].key <= k
  /\ \A j \in 0..(q.n - 1) : Part(high, q, j) = Part(o, p, pos + j)

(* The lower part of a page has the keys below the first record left out.  *)
LEMMA PartLow ==
  ASSUME NEW full \in Nat, NEW p \in Pages(full), p.n \in 0..full, Sorted(p),
         NEW o \in SUBSET Int, KeysIn(p, o), NEW pos \in 1..(p.n - 1),
         NEW q, q.n = pos, \A i \in 0..(pos - 1) : q.slot[i] = p.slot[i],
         NEW low, low = {k \in o : k < p.slot[pos].key}
  PROVE  LowerPart(p, o, pos, q, low)
<1>1. \A j \in 0..(p.n - 1) : p.slot[j].key \in Int
  BY KeyIsInt
<1>2. \A a, b \in 0..(p.n - 1) : a < b => p.slot[a].key < p.slot[b].key
  BY DEF Sorted
<1>3. Sorted(q)
  BY <1>2 DEF Sorted
<1>4. KeysIn(q, low)
  <2> SUFFICES ASSUME NEW i \in 0..(pos - 1) PROVE q.slot[i].key \in low
    BY DEF KeysIn
  <2>1. i \in 0..(p.n - 1) /\ pos \in 0..(p.n - 1) /\ i < pos
    OBVIOUS
  <2>2. p.slot[i].key \in o /\ p.slot[i].key < p.slot[pos].key
    BY <1>2, <2>1 DEF KeysIn
  <2> QED BY <2>2
<1>5. ASSUME NEW j \in -1..(pos - 1) PROVE Part(low, q, j) = Part(o, p, j)
  <2>1. j >= 0 => q.slot[j] = p.slot[j]
    OBVIOUS
  <2>2. j + 1 < p.n
    OBVIOUS
  <2>3. CASE j + 1 = pos
    <3>1. ~(j + 1 < q.n)
      BY <2>3
    <3> QED BY <2>1, <2>2, <2>3, <3>1 DEF Part
  <2>4. CASE j + 1 # pos
    <3>1. j + 1 < q.n /\ q.slot[j + 1] = p.slot[j + 1]
      BY <2>4
    <3>2. j + 1 \in 0..(p.n - 1) /\ pos \in 0..(p.n - 1) /\ j + 1 < pos
      BY <2>4
    <3>3. p.slot[j + 1].key < p.slot[pos].key
      BY <1>2, <3>2
    <3>4. ASSUME NEW k \in o, k < p.slot[j + 1].key PROVE k < p.slot[pos].key
      BY <1>1, <3>2, <3>3, <3>4
    <3> QED BY <2>1, <2>2, <3>1, <3>4 DEF Part
  <2> QED BY <2>3, <2>4
<1> QED BY <1>3, <1>4, <1>5 DEF LowerPart

(* The upper part of a page has the keys from its first record on.         *)
LEMMA PartHigh ==
  ASSUME NEW full \in Nat, NEW p \in Pages(full), p.n \in 0..full, Sorted(p),
         NEW o \in SUBSET Int, KeysIn(p, o), NEW pos \in 0..(p.n - 1),
         NEW q, q.n = p.n - pos, \A i \in 0..(q.n - 1) : q.slot[i] = p.slot[pos + i],
         NEW high, high = {k \in o : p.slot[pos].key <= k}
  PROVE  UpperPart(p, o, pos, q, high)
<1>1. \A j \in 0..(p.n - 1) : p.slot[j].key \in Int
  BY KeyIsInt
<1>2. \A a, b \in 0..(p.n - 1) : a < b => p.slot[a].key < p.slot[b].key
  BY DEF Sorted
<1>0. \A j \in 0..(q.n - 1) : pos + j \in 0..(p.n - 1) /\ q.slot[j] = p.slot[pos + j]
  OBVIOUS
<1>3. Sorted(q)
  <2> SUFFICES ASSUME NEW a \in 0..(q.n - 1), NEW b \in 0..(q.n - 1), a < b
               PROVE  q.slot[a].key < q.slot[b].key
    BY DEF Sorted
  <2>1. pos + a < pos + b
    OBVIOUS
  <2> QED BY <1>0, <1>2, <2>1
<1>6. ASSUME NEW i \in 0..(q.n - 1) PROVE p.slot[pos].key <= p.slot[pos + i].key
  <2>1. i = 0 \/ pos < pos + i
    OBVIOUS
  <2>2. pos \in 0..(p.n - 1)
    OBVIOUS
  <2> QED BY <1>0, <1>1, <1>2, <2>1, <2>2
<1>4. KeysIn(q, high)
  <2> SUFFICES ASSUME NEW i \in 0..(q.n - 1) PROVE q.slot[i].key \in high
    BY DEF KeysIn
  <2>1. p.slot[pos + i].key \in o
    BY <1>0 DEF KeysIn
  <2> QED BY <1>0, <1>6, <2>1
<1>5. ASSUME NEW j \in 0..(q.n - 1) PROVE Part(high, q, j) = Part(o, p, pos + j)
  <2>1. j >= 0 /\ pos + j >= 0 /\ q.slot[j] = p.slot[pos + j]
    BY <1>0
  <2>2. j + 1 < q.n <=> (pos + j) + 1 < p.n
    OBVIOUS
  <2>3. j + 1 < q.n => q.slot[j + 1] = p.slot[(pos + j) + 1]
    <3>1. pos + (j + 1) = (pos + j) + 1
      OBVIOUS
    <3> QED BY <1>0, <3>1
  <2>4. ASSUME NEW k \in o, p.slot[pos + j].key <= k PROVE p.slot[pos].key <= k
    <3>1. pos + j \in 0..(p.n - 1) /\ pos \in 0..(p.n - 1)
      BY <1>0
    <3> QED BY <1>1, <1>6, <2>4, <3>1
  <2> QED BY <2>1, <2>2, <2>3, <2>4 DEF Part
<1>7. \A k \in high : q.slot[0].key <= k
  <2>1. 0 \in 0..(q.n - 1) /\ pos + 0 = pos
    OBVIOUS
  <2> QED BY <1>0, <2>1
<1> QED BY <1>3, <1>4, <1>5, <1>7 DEF UpperPart

(* Each key of o belongs to one slot.                                      *)
LEMMA PartExists ==
  ASSUME NEW full \in Nat, NEW p \in Pages(full), p.n \in 0..(full - 1), Sorted(p),
         NEW o \in SUBSET Int, NEW k \in o
  PROVE  \E i \in -1..(p.n - 1) : k \in Part(o, p, i)
<1>1. \A j \in 0..(p.n - 1) : p.slot[j].key \in Int
  BY KeyIsInt
<1>2. k \in Int
  OBVIOUS
<1>3. PICK s \in -1..(p.n - 1) :
        /\ \A i \in 0..s : p.slot[i].key < k
        /\ s + 1 < p.n => p.slot[s + 1].key >= k
  BY <1>2, SlotBeforeIs
<1>4. CASE s + 1 < p.n /\ p.slot[s + 1].key = k
  <2>1. s + 1 \in 0..(p.n - 1)
    BY <1>4
  <2>2. s + 2 < p.n => k < p.slot[s + 2].key
    <3>1. s + 2 < p.n => s + 2 \in 0..(p.n - 1) /\ s + 1 < s + 2
      OBVIOUS
    <3> QED BY <1>4, <2>1, <3>1 DEF Sorted
  <2>3. k \in Part(o, p, s + 1)
    <3>1. (s + 1) + 1 = s + 2
      OBVIOUS
    <3>2. p.slot[s + 1].key <= k
      BY <1>4, <2>1, <1>1
    <3> QED BY <2>2, <3>1, <3>2 DEF Part
  <2> QED BY <2>1, <2>3
<1>5. CASE ~(s + 1 < p.n /\ p.slot[s + 1].key = k)
  <2>1. s + 1 < p.n => k < p.slot[s + 1].key
    <3>1. s + 1 < p.n => s + 1 \in 0..(p.n - 1)
      OBVIOUS
    <3> QED BY <1>1, <1>2, <1>3, <1>5, <3>1
  <2>2. s >= 0 => p.slot[s].key <= k
    <3>1. s >= 0 => s \in 0..s /\ s \in 0..(p.n - 1)
      OBVIOUS
    <3> QED BY <1>1, <1>2, <1>3, <3>1
  <2>3. k \in Part(o, p, s)
    BY <2>1, <2>2 DEF Part
  <2> QED BY <2>3
<1> QED BY <1>4, <1>5

(* findChildBlock takes the child of the slot that a key belongs to, unless *)
(* a slot not in use misleads it.                                          *)
LEMMA ChildIs ==
  ASSUME NEW full \in Nat, NEW p \in Pages(full), p.n \in 0..(full - 1), Sorted(p),
         NEW o \in SUBSET Int, NEW i \in -1..(p.n - 1), NEW k \in Part(o, p, i),
         ~MisledAt(p, k)
  PROVE  FindChild(p, k) = ChildAt(p, i) /\ (i = -1 /\ p.n > 0 => p.flag <= 0)
<1>1. \A j \in 0..(full - 1) : p.slot[j].key \in Int
  BY KeyIsInt
<1>2. /\ k \in Int /\ k \in o
      /\ i >= 0 => p.slot[i].key <= k
      /\ i + 1 < p.n => k < p.slot[i + 1].key
  BY DEF Part
<1>3. CASE i >= 0 /\ p.slot[i].key = k
  <2>1. i \in 0..(p.n - 1) /\ i - 1 \in -1..(p.n - 1) /\ (i - 1) + 1 = i
    BY <1>3
  <2>2. i - 1 >= 0 => p.slot[i - 1].key < k
    <3>1. i - 1 >= 0 => i - 1 \in 0..(p.n - 1) /\ i - 1 < i
      OBVIOUS
    <3> QED BY <1>3, <2>1, <3>1 DEF Sorted
  <2>3. SlotBefore(p, k) = i - 1
    <3>1. k <= p.slot[(i - 1) + 1].key
      BY <1>2, <1>3, <2>1
    <3> QED BY <1>2, <2>1, <2>2, <3>1, SlotIs
  <2>4. ChildSlot(p, k) = i
    BY <1>3, <2>1, <2>3 DEF ChildSlot
  <2> QED BY <1>3, <2>4 DEF FindChild
<1>4. CASE ~(i >= 0 /\ p.slot[i].key = k)
  <2>1. i >= 0 => p.slot[i].key < k
    <3>1. i >= 0 => i \in 0..(full - 1)
      OBVIOUS
    <3> QED BY <1>1, <1>2, <1>4, <3>1
  <2>2. SlotBefore(p, k) = i
    <3>1. i + 1 < p.n => k <= p.slot[i + 1].key
      <4>1. i + 1 < p.n => i + 1 \in 0..(full - 1)
        OBVIOUS
      <4> QED BY <1>1, <1>2, <4>1
    <3> QED BY <1>2, <2>1, <3>1, SlotIs
  <2>3. CASE p.slot[i + 1].key = k
    <3>1. ~(i + 1 < p.n)
      <4>1. i + 1 < p.n => i + 1 \in 0..(full - 1)
        OBVIOUS
      <4> QED BY <1>1, <1>2, <2>3, <4>1
    <3>2. ChildSlot(p, k) = i + 1
      BY <2>2, <2>3 DEF ChildSlot
    <3>3. i + 1 >= p.n /\ i + 1 >= 0 /\ (i + 1) - 1 = i
      BY <3>1
    <3>4. ChildAt(p, i + 1) = ChildAt(p, i)
      BY <3>2, <3>3 DEF MisledAt
    <3>5. ~(i = -1 /\ p.n > 0)
      BY <3>1
    <3> QED BY <3>2, <3>4, <3>5 DEF FindChild
  <2>4. CASE p.slot[i + 1].key # k
    <3>1. ChildSlot(p, k) = i
      BY <2>2, <2>4 DEF ChildSlot
    <3>2. i = -1 => ~(p.flag > 0) /\ p.flag \in Int
      BY <3>1 DEF MisledAt, Pages
    <3> QED BY <3>1, <3>2 DEF FindChild
  <2> QED BY <2>3, <2>4
<1> QED BY <1>3, <1>4

-----------------------------------------------------------------------------
(* The tree *)

(* A leaf that is no overflow block and has the keys of S. The first slot  *)
(* of one with a chain has a key of S even when no record is left.         *)
LeafOK(p, S) ==
  /\ p.n \in 0..(LeafFull - 1)
  /\ \A i, j \in 0..(p.n - 1) : i <= j => p.slot[i].key <= p.slot[j].key
  /\ \A i \in 0..(p.n - 1) : p.slot[i].key \in S
  /\ p.flag >= 0 => p.slot[0].key \in S

LeavesOK(f) ==
  /\ f \in Files(LeafFull)
  /\ \A c \in DOMAIN f : f[c].flag \in -1..(Size(f) - 1) /\ f[c].n < LeafFull

(* The leaves that are no overflow blocks.                                 *)
Heads(f) == DOMAIN f \ Chained(f)

(* The slots of directory d that lead to a child. As long as a root without *)
(* first entry (rt is FALSE) has not split, its slot -1 leads to leaf 0.   *)
SlotsOf(rt, d) ==
  {s \in (DOMAIN d) \X (-1..(DirFull - 1)) :
     s[2] < d[s[1]].n /\ (s[2] = -1 => s[1] = 0 /\ ~rt /\ d[0].flag = 0)}

Upper(d, s) == d[s[1]].flag > 0
Child(d, s) == ChildAt(d[s[1]], s[2])
PartOf(d, own, s) == Part(own[s[1]], d[s[1]], s[2])

(* The child of a slot has the keys of the slot.                           *)
KidOK(d, f, own, s) ==
  /\ Upper(d, s) => /\ Child(d, s) \in DOMAIN d \ {0}
                    /\ d[Child(d, s)].flag = d[s[1]].flag - 1
                    /\ d[Child(d, s)].slot[0].key = d[s[1]].slot[s[2]].key
                    /\ own[Child(d, s)] = PartOf(d, own, s)
  /\ ~Upper(d, s) => Child(d, s) \in Heads(f) /\ LeafOK(f[Child(d, s)], PartOf(d, own, s))

BlockOK(p, o) ==
  p.flag \in Nat /\ p.n \in 0..DirFull /\ (p.n = 0 => p.flag = 0) /\ Sorted(p) /\ KeysIn(p, o)

Only(d, T) ==
  \A s, t \in T : (Upper(d, s) <=> Upper(d, t)) /\ Child(d, s) = Child(d, t) => s = t

(* Leaf 0 has no slot when a root without first entry has split. Its keys   *)
(* are below the first of the root.                                        *)
Lost(rt, d, f) == ~rt /\ d[0].flag > 0 /\ LeafOK(f[0], {k \in Int : k < d[0].slot[0].key})

Covered(rt, d, f, T) ==
  /\ \A c \in DOMAIN d \ {0} : \E s \in T : Upper(d, s) /\ Child(d, s) = c
  /\ \A c \in Heads(f) : \/ \E s \in T : ~Upper(d, s) /\ Child(d, s) = c
                         \/ c = 0 /\ Lost(rt, d, f)

(* The blocks of the directory, each with its keys.                        *)
Blocks(rt, d, own) ==
  /\ d \in Files(DirFull)
  /\ own \in [DOMAIN d -> SUBSET Int] /\ own[0] = Int
  /\ rt => d[0].n > 0 /\ d[0].slot[0].key = MinKey
  /\ \A b \in DOMAIN d : BlockOK(d[b], own[b])
  /\ \A b \in DOMAIN d \ {0} : d[b].n > 0 /\ \A k \in own[b] : d[b].slot[0].key <= k

(* The invariant. Between an insertion and the split that follows it, a    *)
(* block may be full.                                                      *)
Tree(rt, d, f, own) ==
  /\ Blocks(rt, d, own) /\ LeavesOK(f)
  /\ \A s \in SlotsOf(rt, d) : KidOK(d, f, own, s)
  /\ Only(d, SlotsOf(rt, d))
  /\ Covered(rt, d, f, SlotsOf(rt, d))

Room(d) == \A b \in DOMAIN d : d[b].n < DirFull

LEMMA Fulls == /\ DirFull \in Nat /\ DirFull > 2 /\ LeafFull \in Nat /\ LeafFull > 1
               /\ Keys \subseteq Int /\ MinKey \in Int /\ \A k \in Keys : MinKey <= k
BY KeysAssumption, FullAssumption

(* A slot's child keeps its keys when the slot moves and nothing changes   *)
(* about the child.                                                        *)
LEMMA KidStays ==
  ASSUME NEW d, NEW f, NEW own, NEW d2, NEW f2, NEW own2, NEW s, NEW t,
         KidOK(d, f, own, s),
         d2[t[1]].flag = d[s[1]].flag, Child(d2, t) = Child(d, s),
         PartOf(d2, own2, t) = PartOf(d, own, s),
         Upper(d, s) => /\ d2[t[1]].slot[t[2]].key = d[s[1]].slot[s[2]].key
                        /\ Child(d, s) \in DOMAIN d2
                        /\ d2[Child(d, s)].flag = d[Child(d, s)].flag
                        /\ d2[Child(d, s)].slot[0].key = d[Child(d, s)].slot[0].key
                        /\ own2[Child(d, s)] = own[Child(d, s)],
         ~Upper(d, s) => Child(d, s) \in Heads(f2) /\ f2[Child(d, s)] = f[Child(d, s)]
  PROVE  KidOK(d2, f2, own2, t)
<1>1. Upper(d2, t) <=> Upper(d, s)
  BY DEF Upper
<1> QED BY <1>1 DEF KidOK

(* Slots that come from slots of a tree and new slots with new children    *)
(* have a child each.                                                      *)
Moves(d, f, d2, T, T2, N, from) ==
  /\ Only(d, T)
  /\ \A s \in T : Child(d, s) \in (IF Upper(d, s) THEN DOMAIN d ELSE DOMAIN f)
  /\ from \in [T2 \ N -> T]
  /\ \A s, t \in T2 \ N : from[s] = from[t] => s = t
  /\ \A s \in T2 \ N : (Upper(d2, s) <=> Upper(d, from[s])) /\ Child(d2, s) = Child(d, from[s])
  /\ \A s \in N : Child(d2, s) \notin (IF Upper(d2, s) THEN DOMAIN d ELSE DOMAIN f)
  /\ \A s, t \in N : Child(d2, s) = Child(d2, t) => s = t

LEMMA OnlyStays ==
  ASSUME NEW d, NEW f, NEW d2, NEW T, NEW T2, NEW N, NEW from, Moves(d, f, d2, T, T2, N, from)
  PROVE  Only(d2, T2)
<1> USE DEF Moves
<1> SUFFICES ASSUME NEW s \in T2, NEW t \in T2, Upper(d2, s) <=> Upper(d2, t),
                    Child(d2, s) = Child(d2, t)
             PROVE  s = t
  BY DEF Only
<1>1. ASSUME NEW u \in T2 \ N
      PROVE  Child(d2, u) \in (IF Upper(d2, u) THEN DOMAIN d ELSE DOMAIN f)
  <2>1. from[u] \in T
    OBVIOUS
  <2> QED BY <2>1
<1>2. CASE s \in N /\ t \in N
  BY <1>2
<1>3. CASE s \in N /\ t \notin N
  BY <1>1, <1>3
<1>4. CASE s \notin N /\ t \in N
  BY <1>1, <1>4
<1>5. CASE s \notin N /\ t \notin N
  <2>1. from[s] \in T /\ from[t] \in T
    BY <1>5
  <2>2. from[s] = from[t]
    BY <1>5, <2>1 DEF Only
  <2> QED BY <1>5, <2>2
<1> QED BY <1>2, <1>3, <1>4, <1>5

(* A change of one leaf that no directory block notices.                   *)
LEMMA LeafChange ==
  ASSUME NEW rt, NEW d, NEW f, NEW own, Tree(rt, d, f, own), NEW f2, LeavesOK(f2),
         Heads(f2) = Heads(f), NEW s0 \in SlotsOf(rt, d), ~Upper(d, s0),
         LeafOK(f2[Child(d, s0)], PartOf(d, own, s0)),
         \A c \in Heads(f) \ {Child(d, s0)} : f2[c] = f[c]
  PROVE  Tree(rt, d, f2, own)
<1>1. ASSUME NEW s \in SlotsOf(rt, d) PROVE KidOK(d, f2, own, s)
  <2>1. KidOK(d, f, own, s)
    BY DEF Tree
  <2>2. CASE s = s0
    BY <2>1, <2>2 DEF KidOK
  <2>3. CASE s # s0
    <3>1. ~Upper(d, s) => Child(d, s) # Child(d, s0)
      BY <2>3 DEF Tree, Only
    <3> QED BY <2>1, <3>1 DEF KidOK
  <2> QED BY <2>2, <2>3
<1>2. Covered(rt, d, f2, SlotsOf(rt, d))
  <2>1. Child(d, s0) # 0 /\ 0 \in Heads(f) /\ Lost(rt, d, f) => Lost(rt, d, f2)
    BY DEF Lost
  <2> QED BY <2>1 DEF Tree, Covered
<1> QED BY <1>1, <1>2 DEF Tree

(* A block of the tree and its slots.                                      *)
LEMMA BlockHas ==
  ASSUME NEW rt, NEW d, NEW own, Blocks(rt, d, own), NEW b \in DOMAIN d
  PROVE  /\ Size(d) \in Nat \ {0} /\ DOMAIN d = 0..(Size(d) - 1)
         /\ d[b] \in Pages(DirFull) /\ d[b].n \in 0..DirFull /\ d[b].flag \in Nat
         /\ (d[b].n = 0 => d[b].flag = 0)
         /\ Sorted(d[b]) /\ KeysIn(d[b], own[b]) /\ own[b] \in SUBSET Int
         /\ \A i \in 0..(DirFull - 1) : d[b].slot[i] \in Record /\ d[b].slot[i].key \in Int
<1>1. d \in Files(DirFull) /\ BlockOK(d[b], own[b]) /\ own[b] \in SUBSET Int
  BY DEF Blocks
<1>2. DirFull \in Nat
  BY Fulls
<1>3. d[b] \in Pages(DirFull) /\ Size(d) \in Nat \ {0} /\ DOMAIN d = 0..(Size(d) - 1)
  BY <1>1, <1>2, FileHas
<1>4. \A i \in 0..(DirFull - 1) : d[b].slot[i] \in Record /\ d[b].slot[i].key \in Int
  BY <1>2, <1>3, KeyIsInt
<1> QED BY <1>1, <1>3, <1>4 DEF BlockOK

(* The record e put behind slot i of page p, whose keys are o, gives q.    *)
Shared(o, p, i, e, q) ==
  /\ SlotBefore(p, e.key) = i
  /\ Sorted(q) /\ KeysIn(q, o)
  /\ \A j \in -1..(i - 1) : Part(o, q, j) = Part(o, p, j)
  /\ Part(o, q, i) = {k \in Part(o, p, i) : k < e.key}
  /\ Part(o, q, i + 1) = {k \in Part(o, p, i) : k >= e.key}
  /\ \A j \in (i + 2)..p.n : Part(o, q, j) = Part(o, p, j - 1)

LEMMA SharedIs ==
  ASSUME NEW full \in Nat, NEW p \in Pages(full), p.n \in 0..(full - 1), Sorted(p),
         NEW o \in SUBSET Int, KeysIn(p, o), NEW i \in -1..(p.n - 1),
         NEW e \in Record, e.key \in Part(o, p, i), i >= 0 => p.slot[i].key < e.key,
         NEW q, q = InsertAt(p, i + 1, e)
  PROVE  Shared(o, p, i, e, q)
BY PartInsert DEF Shared

(* What a record put behind slot i of block b, which has the keys of S,     *)
(* does to directory d.                                                    *)
Inserted(rt, d, own, b, i, e, S, d2) ==
  /\ Blocks(rt, d2, own) /\ Size(d2) = Size(d) /\ DOMAIN d2 = DOMAIN d
  /\ \A c \in DOMAIN d \ {b} : d2[c] = d[c]
  /\ d2[b] = InsertAt(d[b], i + 1, e)
  /\ d2[b].flag = d[b].flag /\ d2[b].n = d[b].n + 1
  /\ \A j \in 0..i : d2[b].slot[j] = d[b].slot[j]
  /\ d2[b].slot[i + 1] = e
  /\ \A j \in (i + 2)..d[b].n : d2[b].slot[j] = d[b].slot[j - 1]
  /\ SlotBefore(d[b], e.key) = i
  /\ \A j \in -1..(i - 1) : PartOf(d2, own, <<b, j>>) = PartOf(d, own, <<b, j>>)
  /\ PartOf(d2, own, <<b, i>>) = {k \in S : k < e.key}
  /\ PartOf(d2, own, <<b, i + 1>>) = {k \in S : k >= e.key}
  /\ \A j \in (i + 2)..d[b].n : PartOf(d2, own, <<b, j>>) = PartOf(d, own, <<b, j - 1>>)

LEMMA BlocksInsert ==
  ASSUME NEW rt, NEW d, NEW own, Blocks(rt, d, own), NEW b \in DOMAIN d,
         NEW i \in -1..(d[b].n - 1), <<b, i>> \in SlotsOf(rt, d), d[b].n < DirFull,
         NEW e \in Record, e.key \in Part(own[b], d[b], i), i >= 0 => d[b].slot[i].key < e.key,
         NEW S, S = PartOf(d, own, <<b, i>>),
         NEW d2, d2 = [d EXCEPT ![b] = InsertAt(d[b], i + 1, e)]
  PROVE  Inserted(rt, d, own, b, i, e, S, d2)
<1> DEFINE p == d[b]
           q == InsertAt(p, i + 1, e)
<1>1. /\ Size(d) \in Nat \ {0} /\ DOMAIN d = 0..(Size(d) - 1)
      /\ p \in Pages(DirFull) /\ p.n \in 0..(DirFull - 1) /\ p.flag \in Nat
      /\ Sorted(p) /\ KeysIn(p, own[b]) /\ own[b] \in SUBSET Int
      /\ DirFull \in Nat
  BY BlockHas, Fulls
<1>2. i + 1 \in 0..p.n
  BY <1>1
<1>3. /\ q \in Pages(DirFull) /\ q.n = p.n + 1 /\ q.flag = p.flag
      /\ \A j \in 0..i : q.slot[j] = p.slot[j]
      /\ q.slot[i + 1] = e
      /\ \A j \in (i + 2)..p.n : q.slot[j] = p.slot[j - 1]
  <2>1. PICK m \in 0..p.n : m = i + 1
    BY <1>2
  <2> HIDE DEF p, q
  <2>2. q = InsertAt(p, m, e)
    BY <2>1 DEF q
  <2>3. Placed(DirFull, p, m, e, q)
    BY ONLY <1>1, <2>2, m \in 0..p.n, e \in Record, PlacedIs
  <2>4. m - 1 = i /\ m + 1 = i + 2
    BY <2>1
  <2> QED BY ONLY <2>1, <2>3, <2>4 DEF Placed
<1>4. /\ SlotBefore(p, e.key) = i
      /\ Sorted(q) /\ KeysIn(q, own[b])
      /\ \A j \in -1..(i - 1) : Part(own[b], q, j) = Part(own[b], p, j)
      /\ Part(own[b], q, i) = {k \in Part(own[b], p, i) : k < e.key}
      /\ Part(own[b], q, i + 1) = {k \in Part(own[b], p, i) : k >= e.key}
      /\ \A j \in (i + 2)..p.n : Part(own[b], q, j) = Part(own[b], p, j - 1)
  <2>1. e.key \in Part(own[b], p, i) /\ (i >= 0 => p.slot[i].key < e.key) /\ i \in -1..(p.n - 1)
    OBVIOUS
  <2>2. PICK o \in SUBSET Int : o = own[b]
    BY <1>1
  <2>3. PICK q1 : q1 = q
    OBVIOUS
  <2> HIDE DEF p, q
  <2>4. q1 = InsertAt(p, i + 1, e)
    BY <2>3 DEF q
  <2>5. Shared(o, p, i, e, q1)
    BY ONLY <1>1, <2>1, <2>2, <2>4, SharedIs, i \in -1..(p.n - 1), e \in Record
  <2> QED BY ONLY <2>2, <2>3, <2>5 DEF Shared
<1>5. /\ DOMAIN d2 = DOMAIN d /\ d2[b] = q /\ \A c \in DOMAIN d \ {b} : d2[c] = d[c]
      /\ d2 \in Files(DirFull) /\ Size(d2) = Size(d)
  <2>1. d \in [0..(Size(d) - 1) -> Pages(DirFull)]
    BY <1>1, FileHas DEF Blocks
  <2>2. d2 \in [0..(Size(d) - 1) -> Pages(DirFull)]
    BY <2>1, <1>3
  <2>3. d2 \in Files(DirFull) /\ Size(d2) = Size(d)
    BY <1>1, <2>2, FileIs
  <2> QED BY <2>1, <2>3
<1>6. i = -1 => b = 0 /\ ~rt /\ p.flag = 0
  BY DEF SlotsOf
<1>7. i >= 0 => q.slot[0] = p.slot[0] /\ p.n > 0
  <2>1. i >= 0 => 0 \in 0..i
    OBVIOUS
  <2> HIDE DEF q, p
  <2> QED BY <1>3, <2>1, <1>1 DEF p
<1>8. BlockOK(q, own[b])
  <2> HIDE DEF p, q
  <2>1. q.n \in 0..DirFull /\ q.flag \in Nat /\ q.n # 0
    BY ONLY <1>1, <1>3
  <2>2. Sorted(q) /\ KeysIn(q, own[b])
    BY ONLY <1>4
  <2> QED BY ONLY <2>1, <2>2 DEF BlockOK
<1>9. Blocks(rt, d2, own)
  <2>1. own \in [DOMAIN d2 -> SUBSET Int] /\ own[0] = Int
    BY <1>5 DEF Blocks
  <2>2. rt => d2[0].n > 0 /\ d2[0].slot[0].key = MinKey
    <3>0. rt => d[0].n > 0 /\ d[0].slot[0].key = MinKey
      BY DEF Blocks
    <3>1. CASE b = 0
      <4>1. rt => i >= 0
        BY <1>6
      <4>2. d2[0] = q /\ q.n > 0
        BY <1>1, <1>3, <1>5, <3>1
      <4> QED BY <3>0, <3>1, <4>1, <4>2, <1>7
    <3>2. CASE b # 0
      BY <1>1, <1>5, <3>2, <3>0
    <3> QED BY <3>1, <3>2
  <2>3. \A c \in DOMAIN d2 : BlockOK(d2[c], own[c])
    BY <1>5, <1>8 DEF Blocks
  <2>4. ASSUME NEW c \in DOMAIN d2 \ {0}
        PROVE  d2[c].n > 0 /\ \A k \in own[c] : d2[c].slot[0].key <= k
    <3>1. c \in DOMAIN d \ {0} /\ d[c].n > 0 /\ \A k \in own[c] : d[c].slot[0].key <= k
      BY <1>5 DEF Blocks
    <3>2. CASE c = b
      <4>1. i >= 0
        BY <1>6, <3>2
      <4>2. d2[c] = q /\ q.n > 0 /\ q.slot[0] = d[c].slot[0]
        BY <1>1, <1>3, <1>5, <1>7, <3>2, <4>1
      <4> QED BY <3>1, <4>2
    <3>3. CASE c # b
      BY <1>5, <3>1, <3>3
    <3> QED BY <3>2, <3>3
  <2> QED BY <1>5, <2>1, <2>2, <2>3, <2>4 DEF Blocks
<1>10. \A j : PartOf(d2, own, <<b, j>>) = Part(own[b], q, j)
                 /\ PartOf(d, own, <<b, j>>) = Part(own[b], p, j)
  BY <1>5 DEF PartOf
<1>11. /\ \A j \in -1..(i - 1) : PartOf(d2, own, <<b, j>>) = PartOf(d, own, <<b, j>>)
       /\ PartOf(d2, own, <<b, i>>) = {k \in S : k < e.key}
       /\ PartOf(d2, own, <<b, i + 1>>) = {k \in S : k >= e.key}
       /\ \A j \in (i + 2)..p.n : PartOf(d2, own, <<b, j>>) = PartOf(d, own, <<b, j - 1>>)
  <2>1. S = Part(own[b], p, i)
    BY <1>10
  <2> HIDE DEF p, q
  <2> QED BY ONLY <1>4, <1>10, <2>1
<1>12. /\ q.n = p.n + 1 /\ q.flag = p.flag
       /\ \A j \in 0..i : q.slot[j] = p.slot[j]
       /\ q.slot[i + 1] = e
       /\ \A j \in (i + 2)..p.n : q.slot[j] = p.slot[j - 1]
  BY <1>3
<1>13. SlotBefore(p, e.key) = i
  BY <1>4
<1>14. d2[b] = q
  BY <1>5
<1> QED BY ONLY <1>5, <1>9, <1>11, <1>12, <1>13, <1>14 DEF Inserted

(* The slots of a directory.                                               *)
LEMMA SlotHas ==
  ASSUME NEW rt, NEW d, NEW s \in SlotsOf(rt, d)
  PROVE  /\ s = <<s[1], s[2]>> /\ s[1] \in DOMAIN d
         /\ s[2] \in -1..(DirFull - 1) /\ s[2] < d[s[1]].n /\ s[2] \in Int
         /\ (s[2] = -1 => s[1] = 0 /\ ~rt /\ d[0].flag = 0)
<1>1. DirFull \in Nat
  BY Fulls
<1> QED BY <1>1 DEF SlotsOf

LEMMA PairHas ==
  ASSUME NEW rt, NEW d, NEW b, NEW i, <<b, i>> \in SlotsOf(rt, d)
  PROVE  /\ b \in DOMAIN d /\ i \in -1..(DirFull - 1) /\ i < d[b].n /\ i \in Int
         /\ (i = -1 => b = 0 /\ ~rt /\ d[0].flag = 0)
<1>1. DirFull \in Nat
  BY Fulls
<1> QED BY <1>1 DEF SlotsOf

LEMMA SlotIn ==
  ASSUME NEW rt, NEW d, NEW b \in DOMAIN d, NEW i \in -1..(DirFull - 1), i < d[b].n,
         i = -1 => b = 0 /\ ~rt /\ d[0].flag = 0
  PROVE  <<b, i>> \in SlotsOf(rt, d)
BY DEF SlotsOf

(* A slot's child, and the key of the slot.                                *)
LEMMA ChildSame ==
  ASSUME NEW d, NEW d2, NEW b, NEW c, NEW i \in Int, NEW j \in Int,
         d2[c].flag = d[b].flag, j < 0 <=> i < 0, i >= 0 => d2[c].slot[j] = d[b].slot[i]
  PROVE  /\ Child(d2, <<c, j>>) = Child(d, <<b, i>>)
         /\ Upper(d2, <<c, j>>) <=> Upper(d, <<b, i>>)
BY DEF Child, ChildAt, Upper

(* A leaf is divided, and the new leaf gets a slot behind its own.         *)
LEMMA LeafDivide ==
  ASSUME NEW rt, NEW d, NEW f, NEW own, Tree(rt, d, f, own), NEW f2, LeavesOK(f2),
         NEW b \in DOMAIN d, NEW i \in -1..(d[b].n - 1), <<b, i>> \in SlotsOf(rt, d),
         d[b].flag = 0, d[b].n < DirFull, NEW c, c = Child(d, <<b, i>>),
         NEW S, S = PartOf(d, own, <<b, i>>),
         NEW e \in Record, e.key \in S, i >= 0 => d[b].slot[i].key < e.key,
         e.val \notin DOMAIN f, Heads(f2) = Heads(f) \cup {e.val},
         LeafOK(f2[c], {k \in S : k < e.key}), LeafOK(f2[e.val], {k \in S : k >= e.key}),
         \A a \in Heads(f) \ {c} : f2[a] = f[a],
         NEW d2, d2 = [d EXCEPT ![b] = InsertAt(d[b], i + 1, e)]
  PROVE  Tree(rt, d2, f2, own)
<1> DEFINE T == SlotsOf(rt, d)
           T2 == SlotsOf(rt, d2)
           new == <<b, i + 1>>
           from == [s \in T2 \ {new} |-> IF s[1] = b /\ s[2] > i + 1 THEN <<b, s[2] - 1>> ELSE s]
<1>1. /\ Blocks(rt, d2, own) /\ DOMAIN d2 = DOMAIN d
      /\ \A a \in DOMAIN d \ {b} : d2[a] = d[a]
      /\ d2[b].flag = d[b].flag /\ d2[b].n = d[b].n + 1
      /\ \A j \in 0..i : d2[b].slot[j] = d[b].slot[j]
      /\ d2[b].slot[i + 1] = e
      /\ \A j \in (i + 2)..d[b].n : d2[b].slot[j] = d[b].slot[j - 1]
      /\ \A j \in -1..(i - 1) : PartOf(d2, own, <<b, j>>) = PartOf(d, own, <<b, j>>)
      /\ PartOf(d2, own, <<b, i>>) = {k \in S : k < e.key}
      /\ PartOf(d2, own, <<b, i + 1>>) = {k \in S : k >= e.key}
      /\ \A j \in (i + 2)..d[b].n : PartOf(d2, own, <<b, j>>) = PartOf(d, own, <<b, j - 1>>)
  <2>1. Blocks(rt, d, own) /\ e.key \in Part(own[b], d[b], i)
    BY DEF Tree, PartOf
  <2>2. /\ b \in DOMAIN d /\ i \in -1..(d[b].n - 1) /\ <<b, i>> \in SlotsOf(rt, d) /\ d[b].n < DirFull
        /\ e \in Record /\ (i >= 0 => d[b].slot[i].key < e.key)
        /\ d2 = [d EXCEPT ![b] = InsertAt(d[b], i + 1, e)] /\ S = PartOf(d, own, <<b, i>>)
    OBVIOUS
  <2>3. Inserted(rt, d, own, b, i, e, S, d2)
    BY ONLY <2>1, <2>2, BlocksInsert
  <2> QED BY ONLY <2>3 DEF Inserted
<1>2. d[b].n \in 0..(DirFull - 1) /\ DirFull \in Nat /\ \A a \in DOMAIN d : d[a].n \in 0..DirFull
  BY BlockHas, Fulls DEF Tree
<1>3. \A s \in T : KidOK(d, f, own, s)
  BY DEF Tree
<1>4. <<b, i>> \in T /\ <<b, i>> \in T2 \ {new} /\ new \in T2
  <2>1. i = -1 => b = 0 /\ ~rt /\ d[0].flag = 0
    BY SlotHas
  <2>2. d2[0].flag = d[0].flag \/ 0 \notin DOMAIN d
    BY <1>1
  <2>3. 0 \in DOMAIN d
    BY BlockHas DEF Tree
  <2>4. i \in -1..(DirFull - 1) /\ i < d2[b].n /\ i + 1 \in -1..(DirFull - 1) /\ i + 1 < d2[b].n /\ i + 1 # -1
    BY <1>1, <1>2
  <2>5. <<b, i>> \in T2 /\ new \in T2
    BY <1>1, <2>1, <2>2, <2>3, <2>4, SlotIn
  <2>6. <<b, i>> # new
    BY <2>4
  <2> QED BY <2>5, <2>6
\* where a slot comes from
<1>5. ASSUME NEW a, NEW j, <<a, j>> \in T2, <<a, j>> # new
      PROVE  /\ from[<<a, j>>] = IF a = b /\ j > i + 1 THEN <<b, j - 1>> ELSE <<a, j>>
             /\ from[<<a, j>>] \in T
             /\ d2[a].flag = d[from[<<a, j>>][1]].flag
             /\ Child(d2, <<a, j>>) = Child(d, from[<<a, j>>])
             /\ Upper(d2, <<a, j>>) <=> Upper(d, from[<<a, j>>])
             /\ <<a, j>> # <<b, i>> => PartOf(d2, own, <<a, j>>) = PartOf(d, own, from[<<a, j>>])
             /\ Upper(d, from[<<a, j>>]) => a # b
  <2>1. /\ a \in DOMAIN d /\ j \in -1..(DirFull - 1) /\ j < d2[a].n
        /\ (j = -1 => a = 0 /\ ~rt /\ d[0].flag = 0)
    <3>1. /\ a \in DOMAIN d2 /\ j \in -1..(DirFull - 1) /\ j < d2[a].n
          /\ (j = -1 => a = 0 /\ ~rt /\ d2[0].flag = 0)
      <4>1. <<a, j>> \in SlotsOf(rt, d2)
        BY <1>5
      <4> QED BY ONLY <4>1, PairHas
    <3>2. j = -1 => d2[0].flag = d[0].flag
      BY <1>1, <3>1
    <3> QED BY <1>1, <3>1, <3>2
  <2>2. from[<<a, j>>] = IF a = b /\ j > i + 1 THEN <<b, j - 1>> ELSE <<a, j>>
    <3>1. <<a, j>> \in T2 \ {new}
      BY <1>5
    <3> HIDE DEF T2, new
    <3> QED BY <3>1
  <2>3. Upper(d, from[<<a, j>>]) => a # b
    BY <2>2 DEF Upper
  <2>4. CASE a # b
    <3>1. from[<<a, j>>] = <<a, j>> /\ d2[a] = d[a]
      BY <1>1, <2>1, <2>2, <2>4
    <3>2. <<a, j>> \in T
      BY <2>1, <3>1, SlotIn
    <3>3. Child(d2, <<a, j>>) = Child(d, <<a, j>>) /\ PartOf(d2, own, <<a, j>>) = PartOf(d, own, <<a, j>>)
      BY <3>1 DEF Child, PartOf
    <3>4. Upper(d2, <<a, j>>) <=> Upper(d, <<a, j>>)
      BY <3>1 DEF Upper
    <3> HIDE DEF from, T, T2
    <3> QED BY <2>2, <2>3, <3>1, <3>2, <3>3, <3>4
  <2>5. CASE a = b /\ j <= i
    <3>1. from[<<a, j>>] = <<b, j>> /\ d2[a].flag = d[b].flag
      <4>1. ~(j > i + 1) /\ a = b
        BY <1>2, <2>1, <2>5
      <4> HIDE DEF from
      <4> QED BY <1>1, <2>2, <4>1
    <3>2. <<b, j>> \in T
      BY <1>2, <2>1, <2>5, SlotIn
    <3>3. /\ Child(d2, <<a, j>>) = Child(d, <<b, j>>)
          /\ Upper(d2, <<a, j>>) <=> Upper(d, <<b, j>>)
      <4>1. j >= 0 => d2[a].slot[j] = d[b].slot[j]
        BY <1>1, <2>1, <2>5
      <4>2. j \in Int
        BY <1>2, <2>1
      <4> QED BY ONLY <3>1, <4>1, <4>2, ChildSame
    <3>4. <<a, j>> # <<b, i>> => PartOf(d2, own, <<a, j>>) = PartOf(d, own, <<b, j>>)
      <4>1. <<a, j>> # <<b, i>> => j \in -1..(i - 1)
        BY <2>1, <2>5
      <4> QED BY <1>1, <2>5, <4>1
    <3> HIDE DEF from, T, T2
    <3> QED BY <2>2, <2>3, <3>1, <3>2, <3>3, <3>4
  <2>6. CASE a = b /\ j > i
    <3>1. j \in (i + 2)..d[b].n /\ j - 1 >= 0
      BY <1>1, <1>2, <1>5, <2>1, <2>6
    <3>2. from[<<a, j>>] = <<b, j - 1>> /\ d2[a].flag = d[b].flag
      <4>1. a = b /\ j > i + 1
        BY <1>2, <2>1, <2>6, <3>1
      <4> HIDE DEF from
      <4> QED BY <1>1, <2>2, <4>1
    <3>3. <<b, j - 1>> \in T
      <4>1. j - 1 \in -1..(DirFull - 1) /\ j - 1 < d[b].n /\ j - 1 # -1
        BY <1>2, <2>1, <3>1
      <4> QED BY <4>1, SlotIn
    <3>4. /\ Child(d2, <<a, j>>) = Child(d, <<b, j - 1>>)
          /\ Upper(d2, <<a, j>>) <=> Upper(d, <<b, j - 1>>)
      <4>1. d2[a].slot[j] = d[b].slot[j - 1]
        BY <1>1, <2>6, <3>1
      <4>2. ~(j < 0) /\ ~(j - 1 < 0) /\ j \in Int /\ j - 1 \in Int
        BY <1>2, <3>1
      <4> QED BY ONLY <3>2, <4>1, <4>2, ChildSame
    <3>5. PartOf(d2, own, <<a, j>>) = PartOf(d, own, <<b, j - 1>>)
      BY <1>1, <2>6, <3>1
    <3> HIDE DEF from, T, T2
    <3> QED BY <2>2, <2>3, <3>2, <3>3, <3>4, <3>5
  <2> QED BY <2>1, <2>4, <2>5, <2>6
<1>6. \A s \in T2 : s = <<s[1], s[2]>> /\ s[2] \in Int
  BY SlotHas
<1> HIDE DEF from, T, T2
<1>12. ASSUME NEW s \in T2 \ {new}
       PROVE  /\ from[s] \in T /\ d2[s[1]].flag = d[from[s][1]].flag
              /\ Child(d2, s) = Child(d, from[s]) /\ (Upper(d2, s) <=> Upper(d, from[s]))
  <2>1. PICK a, j : s = <<a, j>> /\ s[1] = a
    BY <1>6
  <2>2. <<a, j>> \in T2 /\ <<a, j>> # new
    BY <2>1
  <2>3. /\ from[<<a, j>>] \in T /\ d2[a].flag = d[from[<<a, j>>][1]].flag
        /\ Child(d2, <<a, j>>) = Child(d, from[<<a, j>>])
        /\ (Upper(d2, <<a, j>>) <=> Upper(d, from[<<a, j>>]))
    BY ONLY <1>5, <2>2
  <2> QED BY ONLY <2>1, <2>3
<1>7. Child(d2, new) = e.val /\ ~Upper(d2, new) /\ new \in T2
  <2>1. i + 1 >= 0
    OBVIOUS
  <2> QED BY <1>1, <1>4, <2>1 DEF Child, ChildAt, Upper
<1>8. ASSUME NEW s \in T2 PROVE KidOK(d2, f2, own, s)
  <2>1. PICK a, j : s = <<a, j>>
    BY <1>6
  <2>2. CASE s = new
    <3>1. PartOf(d2, own, s) = {k \in S : k >= e.key}
      BY <1>1, <2>2
    <3>2. e.val \in Heads(f2)
      OBVIOUS
    <3> QED BY <1>7, <2>2, <3>1, <3>2 DEF KidOK
  <2>3. CASE s = <<b, i>>
    <3>1. Child(d2, s) = c /\ ~Upper(d2, s) /\ PartOf(d2, own, s) = {k \in S : k < e.key}
      <4>1. from[<<b, i>>] = <<b, i>>
        <5>1. ~(i > i + 1) /\ <<b, i>> # new
          BY <1>2
        <5> HIDE DEF new
        <5> QED BY <1>4, <1>5, <5>1
      <4>2. ~Upper(d, <<b, i>>)
        BY DEF Upper
      <4>3. s \in T2 \ {new}
        BY <1>4, <2>3
      <4>4. Child(d2, s) = Child(d, from[s]) /\ (Upper(d2, s) <=> Upper(d, from[s]))
        BY ONLY <1>12, <4>3
      <4> QED BY <1>1, <2>3, <4>1, <4>2, <4>4
    <3>2. c \in Heads(f2)
      <4>1. KidOK(d, f, own, <<b, i>>) /\ ~Upper(d, <<b, i>>)
        BY <1>3, <1>4 DEF Upper
      <4> QED BY <4>1 DEF KidOK
    <3> QED BY <3>1, <3>2 DEF KidOK
  <2>4. CASE s # new /\ s # <<b, i>>
    <3> DEFINE t == from[s]
    <3>1. /\ t \in T /\ d2[a].flag = d[t[1]].flag /\ Child(d2, s) = Child(d, t)
          /\ PartOf(d2, own, s) = PartOf(d, own, t)
          /\ Upper(d, t) => a # b /\ t = s
      <4>1. <<a, j>> \in T2 /\ <<a, j>> # new /\ <<a, j>> # <<b, i>>
        BY <2>1, <2>4
      <4>2. /\ from[s] = IF a = b /\ j > i + 1 THEN <<b, j - 1>> ELSE <<a, j>>
            /\ from[s] \in T /\ d2[a].flag = d[from[s][1]].flag /\ Child(d2, s) = Child(d, from[s])
            /\ PartOf(d2, own, s) = PartOf(d, own, from[s])
            /\ Upper(d, from[s]) => a # b
        <5>1. /\ from[<<a, j>>] = IF a = b /\ j > i + 1 THEN <<b, j - 1>> ELSE <<a, j>>
              /\ from[<<a, j>>] \in T /\ d2[a].flag = d[from[<<a, j>>][1]].flag
              /\ Child(d2, <<a, j>>) = Child(d, from[<<a, j>>])
              /\ PartOf(d2, own, <<a, j>>) = PartOf(d, own, from[<<a, j>>])
              /\ Upper(d, from[<<a, j>>]) => a # b
          BY ONLY <1>5, <4>1
        <5> QED BY ONLY <2>1, <5>1
      <4>3. Upper(d, from[s]) => from[s] = s
        BY <2>1, <4>2
      <4> QED BY <4>2, <4>3
    <3>2. KidOK(d, f, own, t)
      BY <1>3, <3>1
    <3>3. t # <<b, i>>
      <4>1. t = (IF a = b /\ j > i + 1 THEN <<b, j - 1>> ELSE <<a, j>>)
        BY <1>5, <2>1, <2>4
      <4>2. j \in Int
        BY <1>6, <2>1
      <4> QED BY <2>1, <2>4, <4>1, <4>2
    <3>4. ~Upper(d, t) => Child(d, t) \in Heads(f2) /\ f2[Child(d, t)] = f[Child(d, t)]
      <4>1. ~Upper(d, <<b, i>>)
        BY DEF Upper
      <4>2. ~Upper(d, t) => Child(d, t) # c
        BY <3>1, <3>3, <1>4, <4>1 DEF Tree, Only, T
      <4>3. ~Upper(d, t) => Child(d, t) \in Heads(f)
        BY <3>2 DEF KidOK
      <4> QED BY <4>2, <4>3
    <3>5. Upper(d, t) => /\ d2[a].slot[s[2]].key = d[t[1]].slot[t[2]].key
                         /\ Child(d, t) \in DOMAIN d2
                         /\ d2[Child(d, t)].flag = d[Child(d, t)].flag
                         /\ d2[Child(d, t)].slot[0].key = d[Child(d, t)].slot[0].key
      <4> SUFFICES ASSUME Upper(d, t) PROVE Upper(d, t) =>
                         /\ d2[a].slot[s[2]].key = d[t[1]].slot[t[2]].key
                         /\ Child(d, t) \in DOMAIN d2
                         /\ d2[Child(d, t)].flag = d[Child(d, t)].flag
                         /\ d2[Child(d, t)].slot[0].key = d[Child(d, t)].slot[0].key
        OBVIOUS
      <4>1. t = s /\ a # b /\ d2[a] = d[a] /\ t[1] = a
        BY <1>1, <2>1, <3>1, PairHas DEF T
      <4>2. Child(d, t) \in DOMAIN d \ {0}
        BY <3>2 DEF KidOK
      <4>3. CASE Child(d, t) = b
        <5>1. i # -1
          BY <4>2, <4>3, SlotHas
        <5>2. 0 \in 0..i
          BY <5>1
        <5> QED BY <1>1, <4>1, <4>2, <4>3, <5>2
      <4>4. CASE Child(d, t) # b
        <5>1. d2[Child(d, t)] = d[Child(d, t)]
          BY <1>1, <4>2, <4>4
        <5> QED BY <1>1, <4>1, <4>2, <5>1
      <4> QED BY <4>3, <4>4
    <3>6. s[1] = a
      BY <2>1
    <3>7. Upper(d, t) => own[Child(d, t)] = own[Child(d, t)]
      OBVIOUS
    <3> HIDE DEF t
    <3> QED BY ONLY <3>1, <3>2, <3>4, <3>5, <3>6, <3>7, KidStays
  <2> QED BY <2>2, <2>3, <2>4
<1>9. Only(d2, T2)
  <2>1. from \in [T2 \ {new} -> T]
    <3>1. ASSUME NEW s \in T2 \ {new} PROVE from[s] \in T
      BY <1>12
    <3>2. from = [s \in T2 \ {new} |-> from[s]]
      BY DEF from
    <3> HIDE DEF new
    <3> QED BY <3>1, <3>2
  <2>2. ASSUME NEW s \in T2 \ {new}, NEW t \in T2 \ {new}, from[s] = from[t] PROVE s = t
    <3>1. PICK a, j : s = <<a, j>> /\ j \in Int
      BY <1>6
    <3>2. PICK a2, j2 : t = <<a2, j2>> /\ j2 \in Int
      BY <1>6
    <3>3. (IF a = b /\ j > i + 1 THEN <<b, j - 1>> ELSE <<a, j>>)
            = (IF a2 = b /\ j2 > i + 1 THEN <<b, j2 - 1>> ELSE <<a2, j2>>)
      BY <1>5, <2>2, <3>1, <3>2
    <3>4. ~(a = b /\ j = i + 1) /\ ~(a2 = b /\ j2 = i + 1)
      BY <3>1, <3>2
    <3> QED BY ONLY <3>1, <3>2, <3>3, <3>4, i \in Int
  <2>3. \A s \in T2 \ {new} : (Upper(d2, s) <=> Upper(d, from[s])) /\ Child(d2, s) = Child(d, from[s])
    BY <1>12
  <2>4. \A s \in {new} : Child(d2, s) \notin (IF Upper(d2, s) THEN DOMAIN d ELSE DOMAIN f)
    BY <1>7
  <2>5. Only(d, T)
    BY DEF Tree, T
  <2>6. \A s, t \in {new} : Child(d2, s) = Child(d2, t) => s = t
    OBVIOUS
  <2>7. PICK N : N = {new}
    OBVIOUS
  <2> HIDE DEF new
  <2>8. \A s \in T : Child(d, s) \in (IF Upper(d, s) THEN DOMAIN d ELSE DOMAIN f)
    BY <1>3 DEF KidOK, Heads
  <2>9. Moves(d, f, d2, T, T2, N, from)
    BY ONLY <2>1, <2>2, <2>3, <2>4, <2>5, <2>6, <2>7, <2>8 DEF Moves
  <2> QED BY ONLY <2>9, OnlyStays
<1>10. ASSUME NEW s \in T PROVE \E t \in T2 \ {new} : from[t] = s
  <2>1. PICK a, j : /\ s = <<a, j>> /\ a \in DOMAIN d /\ j \in -1..(DirFull - 1) /\ j < d[a].n
                    /\ (j = -1 => a = 0 /\ ~rt /\ d[0].flag = 0)
    BY SlotHas DEF T
  <2>2. j = -1 => d2[0].flag = d[0].flag
    BY <1>1, <2>1
  <2>3. CASE a = b /\ j > i
    <3>1. <<b, j + 1>> \in T2
      <4>1. j + 1 \in -1..(DirFull - 1) /\ j + 1 < d2[b].n /\ j + 1 # -1
        BY <1>1, <1>2, <2>1, <2>3
      <4> QED BY <1>1, <4>1, SlotIn DEF T2
    <3>2. <<b, j + 1>> # new /\ (j + 1) - 1 = j /\ j + 1 > i + 1
      BY <2>1, <2>3
    <3>3. from[<<b, j + 1>>] = <<b, (j + 1) - 1>>
      BY <1>5, <3>1, <3>2
    <3> QED BY <2>1, <2>3, <3>1, <3>2, <3>3
  <2>4. CASE ~(a = b /\ j > i)
    <3>1. <<a, j>> \in T2 /\ <<a, j>> # new
      <4>1. j < d2[a].n
        BY <1>1, <1>2, <2>1
      <4>2. <<a, j>> \in T2
        BY <1>1, <2>1, <2>2, <4>1, SlotIn DEF T2
      <4> QED BY <2>1, <2>4, <4>2
    <3>2. from[<<a, j>>] = <<a, j>>
      <4>1. ~(a = b /\ j > i + 1)
        BY <1>2, <2>1, <2>4
      <4> QED BY ONLY <1>5, <4>1, <3>1
    <3> QED BY <2>1, <3>1, <3>2
  <2> QED BY <2>3, <2>4
<1>11. Covered(rt, d2, f2, T2)
  <2>0. Covered(rt, d, f, T)
    BY DEF Tree, T
  <2>1. ASSUME NEW x \in DOMAIN d2 \ {0} PROVE \E s \in T2 : Upper(d2, s) /\ Child(d2, s) = x
    <3>1. PICK s \in T : Upper(d, s) /\ Child(d, s) = x
      BY <1>1, <2>0 DEF Covered
    <3>2. PICK t \in T2 \ {new} : from[t] = s
      BY <1>10
    <3> QED BY <1>12, <3>1, <3>2
  <2>2. ASSUME NEW x \in Heads(f2)
        PROVE  \/ \E s \in T2 : ~Upper(d2, s) /\ Child(d2, s) = x
               \/ x = 0 /\ Lost(rt, d2, f2)
    <3>1. CASE x = e.val
      BY <1>4, <1>7, <3>1
    <3>2. CASE x # e.val
      <4>1. x \in Heads(f)
        BY <3>2
      <4>2. CASE \E s \in T : ~Upper(d, s) /\ Child(d, s) = x
        <5>1. PICK s \in T : ~Upper(d, s) /\ Child(d, s) = x
          BY <4>2
        <5>2. PICK t \in T2 \ {new} : from[t] = s
          BY <1>10
        <5> QED BY <1>12, <5>1, <5>2
      <4>3. CASE x # c /\ x = 0 /\ Lost(rt, d, f)
        <5>1. 0 \in DOMAIN d \ {b}
          BY <4>3, BlockHas DEF Tree, Lost
        <5>2. d2[0] = d[0] /\ f2[0] = f[0]
          BY <1>1, <4>1, <4>3, <5>1
        <5> QED BY <4>3, <5>2 DEF Lost
      <4>4. x = c => \E s \in T : ~Upper(d, s) /\ Child(d, s) = x
        <5>1. ~Upper(d, <<b, i>>)
          BY DEF Upper
        <5> QED BY <1>4, <5>1
      <4> QED BY <2>0, <4>1, <4>2, <4>3, <4>4 DEF Covered
    <3> QED BY <3>1, <3>2
  <2> QED BY <2>1, <2>2 DEF Covered
<1> QED BY <1>1, <1>8, <1>9, <1>11 DEF Tree, T2

(* What the split of block x at slot pos does to directory d.              *)
Halved(rt, d, own, x, pos, y, d1, own1) ==
  /\ Blocks(rt, d1, own1) /\ Size(d1) = Size(d) + 1 /\ DOMAIN d1 = 0..Size(d)
  /\ \A c \in DOMAIN d \ {x} : d1[c] = d[c] /\ own1[c] = own[c]
  /\ d1[x].flag = d[x].flag /\ d1[x].n = pos
  /\ \A j \in 0..(pos - 1) : d1[x].slot[j] = d[x].slot[j]
  /\ d1[y].flag = d[x].flag /\ d1[y].n = d[x].n - pos
  /\ \A j \in 0..(d[x].n - pos - 1) : d1[y].slot[j] = d[x].slot[pos + j]
  /\ own1[x] = {k \in own[x] : k < d[x].slot[pos].key}
  /\ own1[y] = {k \in own[x] : k >= d[x].slot[pos].key}
  /\ \A j \in -1..(pos - 1) : PartOf(d1, own1, <<x, j>>) = PartOf(d, own, <<x, j>>)
  /\ \A j \in 0..(d[x].n - pos - 1) : PartOf(d1, own1, <<y, j>>) = PartOf(d, own, <<x, pos + j>>)

(* The keys of the two halves of a block, with pos for the first slot of   *)
(* the upper half.                                                         *)
Halves(d, own, x, pos) ==
  [c \in 0..Size(d) |-> IF c = x THEN {k \in own[x] : k < d[x].slot[pos].key}
                        ELSE IF c = Size(d) THEN {k \in own[x] : k >= d[x].slot[pos].key}
                        ELSE own[c]]

LEMMA BlocksSplit ==
  ASSUME NEW rt, NEW d, NEW own, Blocks(rt, d, own), NEW x \in DOMAIN d \ {0},
         NEW pos \in 1..(d[x].n - 1)
  PROVE  Halved(rt, d, own, x, pos, Size(d), Split(d, x, pos, d[x].flag), Halves(d, own, x, pos))
<1> DEFINE p == d[x]
           y == Size(d)
           sk == p.slot[pos].key
           o == own[x]
           low == {k \in o : k < sk}
           high == {k \in o : k >= sk}
           d1 == Split(d, x, pos, p.flag)
           own1 == Halves(d, own, x, pos)
<1>1. /\ y \in Nat \ {0} /\ DOMAIN d = 0..(y - 1)
      /\ p \in Pages(DirFull) /\ p.n \in 0..DirFull /\ p.flag \in Nat
      /\ Sorted(p) /\ KeysIn(p, o) /\ o \in SUBSET Int
      /\ \A i \in 0..(DirFull - 1) : p.slot[i] \in Record /\ p.slot[i].key \in Int
      /\ DirFull \in Nat /\ d \in Files(DirFull)
  BY BlockHas, Fulls DEF Blocks
<1>2. pos \in 0..p.n /\ pos \in 0..(p.n - 1) /\ pos \in 1..(p.n - 1) /\ sk \in Int /\ p.flag \in Int
  BY <1>1
<1>3. /\ d1 \in Files(DirFull) /\ Size(d1) = y + 1 /\ DOMAIN d1 = 0..y
      /\ d1[x] = Kept(p, pos) /\ d1[y] = Moved(p, pos, p.flag)
      /\ \A c \in DOMAIN d \ {x} : d1[c] = d[c]
  <2>1. x \in DOMAIN d /\ d[x] = p /\ d1 = Split(d, x, pos, p.flag)
    OBVIOUS
  <2> HIDE DEF p, d1
  <2>2. Cut(DirFull, d, x, p, pos, p.flag, d1)
    BY ONLY <1>1, <1>2, <2>1, CutIs
  <2> QED BY ONLY <2>2 DEF Cut
<1>4. /\ d1[x].n = pos /\ d1[x].flag = p.flag
      /\ \A i \in 0..(pos - 1) : d1[x].slot[i] = p.slot[i]
  <2> HIDE DEF p, d1
  <2> QED BY <1>1, <1>2, <1>3, KeptIs
<1>5. /\ d1[y].n = p.n - pos /\ d1[y].flag = p.flag
      /\ \A i \in 0..(p.n - pos - 1) : d1[y].slot[i] = p.slot[pos + i]
  <2> HIDE DEF p, d1, y
  <2> QED BY <1>1, <1>2, <1>3, MovedIs
<1>6. /\ own1[x] = low /\ own1[y] = high /\ x # y
      /\ \A c \in DOMAIN d \ {x} : own1[c] = own[c] /\ c # y
      /\ own1 \in [0..y -> SUBSET Int]
  <2>1. own \in [DOMAIN d -> SUBSET Int] /\ x \in DOMAIN d
    BY DEF Blocks
  <2> QED BY <1>1, <2>1 DEF Halves
<1>7. /\ Sorted(d1[x]) /\ KeysIn(d1[x], low)
      /\ \A j \in -1..(pos - 1) : Part(low, d1[x], j) = Part(o, p, j)
  <2>1. PICK L : L = low
    OBVIOUS
  <2>2. PICK q : q = d1[x]
    OBVIOUS
  <2>3. L = {k \in o : k < p.slot[pos].key}
    BY <2>1
  <2> HIDE DEF p, d1, o, low, sk
  <2>4. q.n = pos /\ \A i \in 0..(pos - 1) : q.slot[i] = p.slot[i]
    BY <1>4, <2>2
  <2>5. LowerPart(p, o, pos, q, L)
    BY ONLY <1>1, <1>2, <2>3, <2>4, PartLow
  <2> QED BY ONLY <2>1, <2>2, <2>5 DEF LowerPart
<1>8. /\ Sorted(d1[y]) /\ KeysIn(d1[y], high)
      /\ \A k \in high : d1[y].slot[0].key <= k
      /\ \A j \in 0..(p.n - pos - 1) : Part(high, d1[y], j) = Part(o, p, pos + j)
  <2>1. PICK H : H = high
    OBVIOUS
  <2>2. PICK q : q = d1[y]
    OBVIOUS
  <2>3. H = {k \in o : p.slot[pos].key <= k}
    BY <1>1, <1>2, <2>1
  <2> HIDE DEF p, d1, o, high, sk, y
  <2>4. q.n = p.n - pos /\ \A i \in 0..(q.n - 1) : q.slot[i] = p.slot[pos + i]
    BY <1>5, <2>2
  <2>5. UpperPart(p, o, pos, q, H)
    BY ONLY <1>1, <1>2, <2>3, <2>4, PartHigh
  <2> QED BY ONLY <2>1, <2>2, <2>4, <2>5 DEF UpperPart
<1>9. Blocks(rt, d1, own1)
  <2>0. DOMAIN d1 = DOMAIN d \cup {y}
    BY <1>1, <1>3
  <2>1. own1 \in [DOMAIN d1 -> SUBSET Int] /\ own1[0] = Int
    <3>1. 0 \in DOMAIN d \ {x}
      BY <1>1
    <3> QED BY <1>3, <1>6, <3>1 DEF Blocks
  <2>2. rt => d1[0].n > 0 /\ d1[0].slot[0].key = MinKey
    <3>1. 0 \in DOMAIN d \ {x}
      BY <1>1
    <3> QED BY <1>3, <3>1 DEF Blocks
  <2>3. ASSUME NEW c \in DOMAIN d1 PROVE BlockOK(d1[c], own1[c])
    <3>1. CASE c = x
      <4>1. pos \in 1..DirFull
        BY <1>1, <1>2
      <4>2. BlockOK(d1[x], low)
        <5> HIDE DEF p, d1, low
        <5> QED BY <1>1, <1>4, <1>7, <4>1 DEF BlockOK
      <4> QED BY <1>6, <3>1, <4>2
    <3>2. CASE c = y
      <4>1. p.n - pos \in 1..DirFull
        BY <1>1, <1>2
      <4>2. BlockOK(d1[y], high)
        <5> HIDE DEF p, d1, high, y
        <5> QED BY <1>1, <1>5, <1>8, <4>1 DEF BlockOK
      <4> QED BY <1>6, <3>2, <4>2
    <3>3. CASE c # x /\ c # y
      <4>1. c \in DOMAIN d \ {x}
        BY <2>0, <3>3
      <4>2. BlockOK(d[c], own[c])
        BY <4>1 DEF Blocks
      <4> QED BY <1>3, <1>6, <4>1, <4>2
    <3> QED BY <3>1, <3>2, <3>3
  <2>4. ASSUME NEW c \in DOMAIN d1 \ {0}
        PROVE  d1[c].n > 0 /\ \A k \in own1[c] : d1[c].slot[0].key <= k
    <3>1. CASE c = x
      <4>1. \A k \in own[x] : d[x].slot[0].key <= k
        BY DEF Blocks
      <4>2. d1[x].slot[0] = d[x].slot[0]
        BY <1>2, <1>4
      <4> QED BY <1>2, <1>4, <1>6, <3>1, <4>1, <4>2
    <3>2. CASE c = y
      <4>1. p.n - pos > 0
        BY <1>1, <1>2
      <4> HIDE DEF p, d1, y, high
      <4> QED BY <1>5, <1>6, <1>8, <3>2, <4>1
    <3>3. CASE c # x /\ c # y
      <4>1. c \in DOMAIN d \ {x} /\ c \in DOMAIN d \ {0}
        BY <2>0, <3>3
      <4>2. d[c].n > 0 /\ \A k \in own[c] : d[c].slot[0].key <= k
        BY <4>1 DEF Blocks
      <4> QED BY <1>3, <1>6, <4>1, <4>2
    <3> QED BY <3>1, <3>2, <3>3
  <2> HIDE DEF d1, own1
  <2> QED BY <1>3, <2>1, <2>2, <2>3, <2>4 DEF Blocks
<1>10. /\ \A j : PartOf(d1, own1, <<x, j>>) = Part(low, d1[x], j)
       /\ \A j : PartOf(d1, own1, <<y, j>>) = Part(high, d1[y], j)
       /\ \A j : PartOf(d, own, <<x, j>>) = Part(o, p, j)
  BY <1>6 DEF PartOf
<1>11. /\ \A j \in -1..(pos - 1) : PartOf(d1, own1, <<x, j>>) = PartOf(d, own, <<x, j>>)
       /\ \A j \in 0..(p.n - pos - 1) : PartOf(d1, own1, <<y, j>>) = PartOf(d, own, <<x, pos + j>>)
  <2> HIDE DEF d1, own1, p, o, low, high, y
  <2> QED BY ONLY <1>7, <1>8, <1>10
<1>12. Halved(rt, d, own, x, pos, y, d1, own1)
  <2>1. \A c \in DOMAIN d \ {x} : d1[c] = d[c] /\ own1[c] = own[c]
    BY <1>3, <1>6
  <2>2. own1[x] = {k \in own[x] : k < d[x].slot[pos].key} /\ own1[y] = {k \in own[x] : k >= d[x].slot[pos].key}
    BY <1>6
  <2>3. /\ Size(d1) = Size(d) + 1 /\ DOMAIN d1 = 0..Size(d)
        /\ d1[x].flag = d[x].flag /\ d1[x].n = pos
        /\ \A j \in 0..(pos - 1) : d1[x].slot[j] = d[x].slot[j]
    BY <1>3, <1>4
  <2>4. /\ d1[y].flag = d[x].flag /\ d1[y].n = d[x].n - pos
        /\ \A j \in 0..(d[x].n - pos - 1) : d1[y].slot[j] = d[x].slot[pos + j]
    BY <1>5
  <2> HIDE DEF d1, own1, y
  <2> QED BY ONLY <1>9, <1>11, <2>1, <2>2, <2>3, <2>4 DEF Halved
<1> QED BY <1>12

(* What the split of block x, the child of slot i of block b, and the entry *)
(* for its upper half y make of directory d.                               *)
Divided(rt, d, f, own, b, i, x, pos, y, e, d2) ==
  /\ Tree(rt, d2, f, Halves(d, own, x, pos))
  /\ SlotBefore(d[b], e.key) = i /\ Size(d2) = Size(d) + 1
  /\ \A c \in DOMAIN d \ {b, x} : d2[c] = d[c]
  /\ d2[b].flag = d[b].flag /\ d2[x].n = pos /\ d2[y].n = d[x].n - pos

(* A block of the directory is divided, and its upper half gets a slot     *)
(* behind its own.                                                         *)
LEMMA DirDivide ==
  ASSUME NEW rt, NEW d, NEW f, NEW own, Tree(rt, d, f, own),
         NEW b \in DOMAIN d, NEW i \in Int, <<b, i>> \in SlotsOf(rt, d), d[b].flag > 0,
         d[b].n < DirFull, NEW x, x = Child(d, <<b, i>>), NEW pos \in 1..(d[x].n - 1),
         NEW y, y = Size(d), NEW e, e = [key |-> d[x].slot[pos].key, val |-> y],
         NEW d2, d2 = [Split(d, x, pos, d[x].flag) EXCEPT ![b] = InsertAt(d[b], i + 1, e)]
  PROVE  Divided(rt, d, f, own, b, i, x, pos, y, e, d2)
<1> DEFINE d1 == Split(d, x, pos, d[x].flag)
           own1 == Halves(d, own, x, pos)
           T == SlotsOf(rt, d)
           T2 == SlotsOf(rt, d2)
           new == <<b, i + 1>>
           Origin(a, j) == IF a = y THEN <<x, pos + j>>
                           ELSE IF a = b /\ j > i + 1 THEN <<b, j - 1>> ELSE <<a, j>>
           from == [s \in T2 \ {new} |-> Origin(s[1], s[2])]
<1> HIDE DEF from, Origin, T2, new, d1, own1
<1>30. PICK S : S = own[x]
  OBVIOUS
<1>0. /\ Blocks(rt, d, own) /\ Only(d, T) /\ Covered(rt, d, f, T)
      /\ \A s \in T : KidOK(d, f, own, s)
  BY DEF Tree
<1>1. /\ y \in Nat \ {0} /\ DOMAIN d = 0..(y - 1) /\ DirFull \in Nat
      /\ \A a \in DOMAIN d : d[a].n \in 0..DirFull /\ d[a].flag \in Nat
  BY <1>0, BlockHas, Fulls
<1>2. /\ i \in 0..(d[b].n - 1) /\ Upper(d, <<b, i>>) /\ x \in DOMAIN d \ {0} /\ x # b
      /\ d[x].flag = d[b].flag - 1 /\ d[x].slot[0].key = d[b].slot[i].key
      /\ S = PartOf(d, own, <<b, i>>) /\ pos \in Nat /\ pos > 0
  <2>1. i \in 0..(d[b].n - 1)
    <3>1. i \in -1..(DirFull - 1) /\ i < d[b].n /\ (i = -1 => b = 0 /\ d[0].flag = 0)
      BY PairHas
    <3> QED BY <1>1, <3>1
  <2>2. Upper(d, <<b, i>>)
    BY DEF Upper
  <2>3. KidOK(d, f, own, <<b, i>>)
    BY <1>0
  <2>4. /\ x \in DOMAIN d \ {0} /\ d[x].flag = d[b].flag - 1
        /\ d[x].slot[0].key = d[b].slot[i].key /\ S = PartOf(d, own, <<b, i>>)
    BY <2>2, <2>3, <1>30 DEF KidOK
  <2>5. x # b
    BY <1>1, <2>4
  <2> QED BY <2>1, <2>2, <2>4, <2>5
<1>3. Halved(rt, d, own, x, pos, y, d1, own1)
  BY <1>0, <1>2, BlocksSplit DEF d1, own1
<1>4. /\ Blocks(rt, d1, own1) /\ Size(d1) = y + 1 /\ DOMAIN d1 = 0..y
      /\ \A c \in DOMAIN d \ {x} : d1[c] = d[c] /\ own1[c] = own[c]
  BY <1>3 DEF Halved
<1>41. /\ d1[x].flag = d[x].flag /\ d1[x].n = pos
       /\ d1[y].flag = d[x].flag /\ d1[y].n = d[x].n - pos
  BY <1>3 DEF Halved
<1>42. /\ \A j \in 0..(pos - 1) : d1[x].slot[j] = d[x].slot[j]
       /\ \A j \in 0..(d[x].n - pos - 1) : d1[y].slot[j] = d[x].slot[pos + j]
  BY <1>3 DEF Halved
<1>43. own1[x] = {k \in S : k < e.key} /\ own1[y] = {k \in S : k >= e.key}
  <2>1. e.key = d[x].slot[pos].key
    OBVIOUS
  <2>2. /\ own1[x] = {k \in own[x] : k < d[x].slot[pos].key}
        /\ own1[y] = {k \in own[x] : k >= d[x].slot[pos].key}
    BY <1>3 DEF Halved
  <2> QED BY ONLY <1>30, <2>1, <2>2
<1>44. /\ \A j \in -1..(pos - 1) : PartOf(d1, own1, <<x, j>>) = PartOf(d, own, <<x, j>>)
       /\ \A j \in 0..(d[x].n - pos - 1) : PartOf(d1, own1, <<y, j>>) = PartOf(d, own, <<x, pos + j>>)
  BY <1>3 DEF Halved
<1>5. /\ e \in Record /\ e.key \in S /\ d[b].slot[i].key < e.key /\ e.val = y
  <2>1. /\ Sorted(d[x]) /\ KeysIn(d[x], own[x]) /\ d[x].n \in 0..DirFull
        /\ \A j \in 0..(DirFull - 1) : d[x].slot[j] \in Record /\ d[x].slot[j].key \in Int
    BY <1>0, <1>2, BlockHas
  <2>2. pos \in 0..(d[x].n - 1) /\ 0 \in 0..(d[x].n - 1) /\ 0 < pos /\ pos \in 0..(DirFull - 1)
    BY <1>1, <1>2, <2>1
  <2>3. d[x].slot[pos].key \in own[x] /\ d[x].slot[0].key < d[x].slot[pos].key
    BY <2>1, <2>2 DEF Sorted, KeysIn
  <2>4. d[x].slot[pos].key \in Int
    BY <2>1, <2>2
  <2> QED BY <1>1, <1>2, <1>30, <2>3, <2>4 DEF Record
<1>6. d1[b] = d[b] /\ own1[b] = own[b] /\ b \in DOMAIN d1 /\ S = PartOf(d1, own1, <<b, i>>)
  <2>1. b \in DOMAIN d \ {x} /\ b \in 0..y
    BY <1>1, <1>2
  <2> QED BY <1>2, <1>4, <2>1 DEF PartOf
<1>7. Inserted(rt, d1, own1, b, i, e, S, d2)
  <2>1. <<b, i>> \in SlotsOf(rt, d1)
    <3>1. i \in -1..(DirFull - 1) /\ i < d1[b].n /\ i # -1
      BY <1>1, <1>2, <1>6
    <3> QED BY <1>6, <3>1, SlotIn
  <2>2. e.key \in Part(own1[b], d1[b], i)
    BY <1>5, <1>6 DEF PartOf
  <2>3. i \in -1..(d1[b].n - 1) /\ d1[b].n < DirFull /\ (i >= 0 => d1[b].slot[i].key < e.key)
    BY <1>2, <1>5, <1>6
  <2>4. d2 = [d1 EXCEPT ![b] = InsertAt(d1[b], i + 1, e)]
    BY <1>6 DEF d1
  <2> QED BY ONLY <1>4, <1>5, <1>6, <2>1, <2>2, <2>3, <2>4, BlocksInsert
<1>8. /\ Blocks(rt, d2, own1) /\ Size(d2) = y + 1 /\ DOMAIN d2 = 0..y
      /\ \A a \in (0..y) \ {b} : d2[a] = d1[a]
      /\ SlotBefore(d[b], e.key) = i /\ d2[b] = InsertAt(d[b], i + 1, e)
  BY ONLY <1>4, <1>6, <1>7 DEF Inserted
<1>81. d2[b].flag = d[b].flag /\ d2[b].n = d[b].n + 1
  BY ONLY <1>6, <1>7 DEF Inserted
<1>82. /\ \A j \in 0..i : d2[b].slot[j] = d[b].slot[j]
       /\ d2[b].slot[i + 1] = e
       /\ \A j \in (i + 2)..d[b].n : d2[b].slot[j] = d[b].slot[j - 1]
  BY ONLY <1>6, <1>7 DEF Inserted
<1>83. /\ \A j \in -1..(i - 1) : PartOf(d2, own1, <<b, j>>) = PartOf(d1, own1, <<b, j>>)
       /\ \A j \in (i + 2)..d[b].n : PartOf(d2, own1, <<b, j>>) = PartOf(d1, own1, <<b, j - 1>>)
  BY ONLY <1>6, <1>7 DEF Inserted
<1>84. /\ PartOf(d2, own1, <<b, i>>) = {k \in S : k < e.key}
       /\ PartOf(d2, own1, <<b, i + 1>>) = {k \in S : k >= e.key}
  BY ONLY <1>7 DEF Inserted
\* the blocks one by one
<1>9. /\ \A a \in DOMAIN d \ {b, x} : d2[a] = d[a] /\ own1[a] = own[a]
      /\ own1[b] = own[b] /\ d2[x] = d1[x] /\ d2[y] = d1[y] /\ y # b /\ y # x
      /\ \A j : PartOf(d1, own1, <<b, j>>) = PartOf(d, own, <<b, j>>)
      /\ \A j : PartOf(d2, own1, <<x, j>>) = PartOf(d1, own1, <<x, j>>)
      /\ \A j : PartOf(d2, own1, <<y, j>>) = PartOf(d1, own1, <<y, j>>)
      /\ \A a \in DOMAIN d \ {b, x} : \A j : PartOf(d2, own1, <<a, j>>) = PartOf(d, own, <<a, j>>)
  <2>1. /\ \A a \in DOMAIN d \ {b, x} : d2[a] = d[a] /\ own1[a] = own[a]
        /\ own1[b] = own[b] /\ d2[x] = d1[x] /\ d2[y] = d1[y] /\ y # b /\ y # x
    <3>0. y \in Nat \ {0} /\ DOMAIN d = 0..(y - 1) /\ b \in DOMAIN d /\ x \in DOMAIN d /\ x # b
      BY ONLY <1>1, <1>2, b \in DOMAIN d
    <3>1. b \in 0..y /\ x \in 0..y /\ y \in 0..y /\ y # b /\ y # x /\ b # x
      BY ONLY <3>0
    <3>2. \A a \in DOMAIN d : a \in 0..y
      BY ONLY <3>0
    <3> QED BY ONLY <1>4, <1>6, <1>8, <3>1, <3>2
  <2> QED BY ONLY <1>6, <2>1 DEF PartOf
<1>90. /\ d2[x].flag = d[x].flag /\ d2[x].n = pos
       /\ d2[y].flag = d[x].flag /\ d2[y].n = d[x].n - pos
  <2>1. d2[x] = d1[x] /\ d2[y] = d1[y]
    BY <1>9
  <2> QED BY ONLY <1>41, <2>1
<1>91. d[x].n \in 0..DirFull /\ d[b].n \in 0..(DirFull - 1) /\ x \in 0..y /\ y \in 0..y /\ b \in 0..y
  BY <1>1, <1>2
<1>10. d2[0].flag = d[0].flag /\ 0 \in DOMAIN d
  <2>1. 0 \in DOMAIN d /\ 0 # x
    BY <1>1, <1>2
  <2>2. CASE b = 0
    BY <1>81, <2>2
  <2>3. CASE b # 0
    BY <1>9, <2>1, <2>3
  <2> QED BY <2>1, <2>2, <2>3
<1>11. <<b, i>> \in T /\ <<b, i>> \in T2 /\ <<b, i>> # new /\ new \in T2
  <2>1. /\ i \in -1..(DirFull - 1) /\ i < d2[b].n /\ i # -1
        /\ i + 1 \in -1..(DirFull - 1) /\ i + 1 < d2[b].n /\ i + 1 # -1
    <3>1. PICK n, n2, w : n = d[b].n /\ n2 = d2[b].n /\ w = DirFull
      OBVIOUS
    <3>2. w \in Nat /\ n \in 0..(w - 1) /\ n2 = n + 1 /\ i \in 0..(n - 1)
      BY <1>1, <1>2, <1>81, <1>91, <3>1
    <3>3. /\ i \in -1..(w - 1) /\ i < n2 /\ i # -1
          /\ i + 1 \in -1..(w - 1) /\ i + 1 < n2 /\ i + 1 # -1
      BY ONLY <3>2
    <3> QED BY ONLY <3>1, <3>3
  <2>2. b \in DOMAIN d2
    BY <1>1, <1>8
  <2> QED BY <2>1, <2>2, SlotIn DEF T2, new
<1>12. ASSUME NEW a, NEW j, <<a, j>> \in T2, <<a, j>> # new
       PROVE  /\ from[<<a, j>>] = Origin(a, j) /\ j \in Int
              /\ from[<<a, j>>] \in T
              /\ d2[a].flag = d[from[<<a, j>>][1]].flag
              /\ Child(d2, <<a, j>>) = Child(d, from[<<a, j>>])
              /\ Upper(d2, <<a, j>>) <=> Upper(d, from[<<a, j>>])
              /\ <<a, j>> # <<b, i>> => PartOf(d2, own1, <<a, j>>) = PartOf(d, own, from[<<a, j>>])
              /\ <<a, j>> # <<b, i>> => from[<<a, j>>] # <<b, i>>
              /\ j >= 0 => from[<<a, j>>][2] >= 0 /\ d2[a].slot[j] = d[from[<<a, j>>][1]].slot[from[<<a, j>>][2]]
  <2>1. /\ a \in 0..y /\ j \in -1..(DirFull - 1) /\ j < d2[a].n /\ j \in Int
        /\ (j = -1 => a = 0 /\ ~rt /\ d[0].flag = 0)
    <3>1. <<a, j>> \in SlotsOf(rt, d2)
      BY <1>12 DEF T2
    <3>2. /\ a \in DOMAIN d2 /\ j \in -1..(DirFull - 1) /\ j < d2[a].n /\ j \in Int
          /\ (j = -1 => a = 0 /\ ~rt /\ d2[0].flag = 0)
      BY ONLY <3>1, PairHas
    <3> QED BY ONLY <1>8, <1>10, <3>2
  <2>2. from[<<a, j>>] = Origin(a, j)
    <3>1. <<a, j>> \in T2 \ {new}
      BY <1>12
    <3> QED BY <3>1 DEF from
  <2> SUFFICES ASSUME NEW c, NEW l, Origin(a, j) = <<c, l>>
               PROVE  /\ <<c, l>> \in T /\ d2[a].flag = d[c].flag
                      /\ l \in Int /\ (j < 0 <=> l < 0) /\ (j >= 0 => d2[a].slot[j] = d[c].slot[l])
                      /\ <<a, j>> # <<b, i>> => PartOf(d2, own1, <<a, j>>) = PartOf(d, own, <<c, l>>)
                      /\ <<a, j>> # <<b, i>> => <<c, l>> # <<b, i>>
    <3>1. PICK c, l : Origin(a, j) = <<c, l>>
      BY DEF Origin
    <3>2. /\ <<c, l>> \in T /\ d2[a].flag = d[c].flag
          /\ l \in Int /\ (j < 0 <=> l < 0) /\ (j >= 0 => d2[a].slot[j] = d[c].slot[l])
          /\ <<a, j>> # <<b, i>> => PartOf(d2, own1, <<a, j>>) = PartOf(d, own, <<c, l>>)
          /\ <<a, j>> # <<b, i>> => <<c, l>> # <<b, i>>
      BY <3>1
    <3>3. /\ Child(d2, <<a, j>>) = Child(d, <<c, l>>)
          /\ Upper(d2, <<a, j>>) <=> Upper(d, <<c, l>>)
      <4>1. l >= 0 => d2[a].slot[j] = d[c].slot[l]
        BY <2>1, <3>2
      <4>2. (l < 0 <=> j < 0) /\ l \in Int /\ j \in Int /\ d2[a].flag = d[c].flag
        BY <2>1, <3>2
      <4> QED BY ONLY <4>1, <4>2, ChildSame
    <3>4. j >= 0 => l >= 0
      BY <2>1, <3>2
    <3> HIDE DEF T
    <3> QED BY ONLY <2>1, <2>2, <3>1, <3>2, <3>3, <3>4
  <2>0. <<c, l>> = IF a = y THEN <<x, pos + j>>
                   ELSE IF a = b /\ j > i + 1 THEN <<b, j - 1>> ELSE <<a, j>>
    BY DEF Origin
  <2> HIDE DEF T
  <2>3. CASE a = y
    <3>1. c = x /\ l = pos + j /\ j \in 0..(d[x].n - pos - 1)
      <4>1. j \in 0..(d[x].n - pos - 1)
        <5>1. j \in -1..(DirFull - 1) /\ j < d[x].n - pos /\ j # -1
          BY <1>1, <1>90, <2>1, <2>3
        <5>2. PICK m, w : m = d[x].n - pos /\ w = DirFull
          OBVIOUS
        <5>3. j \in -1..(w - 1) /\ j < m /\ j # -1 /\ w \in Nat /\ m \in Int
          BY ONLY <1>1, <1>2, <1>91, <5>1, <5>2
        <5>4. j \in 0..(m - 1)
          BY ONLY <5>3
        <5> QED BY ONLY <5>2, <5>4
      <4> QED BY <2>0, <2>3, <4>1
    <3>2. <<x, pos + j>> \in T
      <4>1. pos + j \in -1..(DirFull - 1) /\ pos + j < d[x].n /\ pos + j # -1 /\ pos + j >= 0
        <5>1. PICK m, w : m = d[x].n /\ w = DirFull
          OBVIOUS
        <5>2. m \in 0..w /\ w \in Nat /\ pos \in Nat /\ j \in 0..(m - pos - 1)
          BY ONLY <1>1, <1>2, <1>91, <3>1, <5>1
        <5>3. pos + j \in -1..(w - 1) /\ pos + j < m /\ pos + j # -1 /\ pos + j >= 0
          BY ONLY <5>2
        <5> QED BY ONLY <5>1, <5>3
      <4> QED BY <1>2, <4>1, SlotIn DEF T
    <3>3. d2[y] = d1[y] /\ d2[y].flag = d[x].flag /\ d2[y].slot[j] = d[x].slot[pos + j]
      BY <1>41, <1>42, <1>9, <3>1
    <3>4. PartOf(d2, own1, <<y, j>>) = PartOf(d, own, <<x, pos + j>>)
      BY ONLY <1>44, <1>9, <3>1
    <3>5. pos + j \in Int /\ ~(j < 0) /\ ~(pos + j < 0)
      BY <1>2, <3>1
    <3> QED BY ONLY <1>2, <2>3, <3>1, <3>2, <3>3, <3>4, <3>5
  <2>4. CASE a = x
    <3>1. c = a /\ l = j /\ j \in 0..(pos - 1)
      <4>1. j \in 0..(pos - 1)
        <5>1. j \in -1..(DirFull - 1) /\ j < pos /\ j # -1
          BY <1>2, <1>90, <2>1, <2>4
        <5> QED BY ONLY <1>1, <1>2, <5>1
      <4> QED BY <1>2, <1>9, <2>0, <2>4, <4>1
    <3>2. <<x, j>> \in T
      <4>1. j < d[x].n /\ j # -1
        <5>1. d[x].n \in Nat
          BY <1>1, <1>2
        <5> QED BY <1>2, <3>1, <5>1
      <4> QED BY <1>2, <2>1, <4>1, SlotIn DEF T
    <3>3. d2[x].flag = d[x].flag /\ d2[x].slot[j] = d[x].slot[j]
      BY <1>41, <1>42, <1>9, <3>1
    <3>4. PartOf(d2, own1, <<x, j>>) = PartOf(d, own, <<x, j>>)
      <4>1. j \in -1..(pos - 1)
        BY <3>1
      <4> QED BY ONLY <1>44, <1>9, <4>1
    <3> QED BY ONLY <1>2, <2>1, <2>4, <3>1, <3>2, <3>3, <3>4
  <2>5. CASE a = b /\ j <= i
    <3>1. c = a /\ l = j /\ ~(j > i + 1)
      BY <1>9, <2>0, <2>1, <2>5
    <3>2. <<b, j>> \in T
      <4>1. j < d[b].n
        BY <1>1, <1>2, <2>1, <2>5
      <4> QED BY <2>1, <2>5, <4>1, SlotIn DEF T
    <3>3. d2[b].flag = d[b].flag /\ (j >= 0 => d2[b].slot[j] = d[b].slot[j])
      <4>1. j >= 0 => j \in 0..i
        BY <2>1, <2>5
      <4> QED BY ONLY <1>81, <1>82, <4>1
    <3>4. <<a, j>> # <<b, i>> => PartOf(d2, own1, <<b, j>>) = PartOf(d, own, <<b, j>>)
      <4>1. <<a, j>> # <<b, i>> => j \in -1..(i - 1)
        BY <2>1, <2>5
      <4> QED BY ONLY <1>83, <1>9, <4>1
    <3> QED BY ONLY <2>1, <2>5, <3>1, <3>2, <3>3, <3>4
  <2>6. CASE a = b /\ j > i
    <3>0. j > i + 1 /\ j \in (i + 2)..d[b].n
      BY <1>1, <1>81, <1>12, <2>1, <2>6 DEF new
    <3>1. c = b /\ l = j - 1 /\ j - 1 >= 0 /\ j - 1 \in Int
      BY <1>2, <1>9, <2>0, <2>1, <2>6, <3>0
    <3>2. <<b, j - 1>> \in T
      <4>1. j - 1 \in -1..(DirFull - 1) /\ j - 1 < d[b].n /\ j - 1 # -1
        BY <1>1, <2>1, <3>0, <3>1
      <4> QED BY <4>1, SlotIn DEF T
    <3>3. d2[b].flag = d[b].flag /\ d2[b].slot[j] = d[b].slot[j - 1]
      BY ONLY <1>81, <1>82, <3>0
    <3>4. PartOf(d2, own1, <<b, j>>) = PartOf(d, own, <<b, j - 1>>)
      BY ONLY <1>83, <1>9, <3>0
    <3>5. j - 1 # i /\ ~(j < 0) /\ ~(j - 1 < 0)
      BY <2>1, <3>0, <3>1
    <3> QED BY ONLY <2>6, <3>1, <3>2, <3>3, <3>4, <3>5
  <2>7. CASE a # y /\ a # x /\ a # b
    <3>1. c = a /\ l = j /\ a \in DOMAIN d \ {b, x}
      BY <1>1, <2>0, <2>1, <2>7
    <3>2. d2[a] = d[a] /\ PartOf(d2, own1, <<a, j>>) = PartOf(d, own, <<a, j>>)
      BY <1>9, <3>1
    <3>3. <<a, j>> \in T
      BY <2>1, <3>1, <3>2, SlotIn DEF T
    <3>4. <<a, j>> # <<b, i>>
      BY <2>7
    <3> QED BY ONLY <2>1, <2>7, <3>1, <3>2, <3>3, <3>4
  <2> QED BY <2>1, <2>3, <2>4, <2>5, <2>6, <2>7
<1>13. \A s \in T2 : s = <<s[1], s[2]>> /\ s[2] \in Int
  BY SlotHas DEF T2
<1>14. \A s \in T : s = <<s[1], s[2]>> /\ s[2] \in Int
  BY SlotHas
<1> HIDE DEF T
<1>15. ASSUME NEW s \in T2 \ {new}
       PROVE  /\ from[s] \in T /\ d2[s[1]].flag = d[from[s][1]].flag
              /\ Child(d2, s) = Child(d, from[s]) /\ (Upper(d2, s) <=> Upper(d, from[s]))
              /\ s # <<b, i>> => PartOf(d2, own1, s) = PartOf(d, own, from[s]) /\ from[s] # <<b, i>>
              /\ s[2] >= 0 => from[s][2] >= 0 /\ d2[s[1]].slot[s[2]] = d[from[s][1]].slot[from[s][2]]
  <2>1. PICK a, j : s = <<a, j>> /\ s[1] = a /\ s[2] = j
    BY <1>13
  <2>2. <<a, j>> \in T2 /\ <<a, j>> # new
    BY <2>1
  <2>3. /\ from[<<a, j>>] \in T /\ d2[a].flag = d[from[<<a, j>>][1]].flag
        /\ Child(d2, <<a, j>>) = Child(d, from[<<a, j>>])
        /\ (Upper(d2, <<a, j>>) <=> Upper(d, from[<<a, j>>]))
        /\ <<a, j>> # <<b, i>> => /\ PartOf(d2, own1, <<a, j>>) = PartOf(d, own, from[<<a, j>>])
                                  /\ from[<<a, j>>] # <<b, i>>
        /\ j >= 0 => from[<<a, j>>][2] >= 0 /\ d2[a].slot[j] = d[from[<<a, j>>][1]].slot[from[<<a, j>>][2]]
    BY ONLY <1>12, <2>2
  <2> QED BY ONLY <2>1, <2>3
<1>16. Child(d2, new) = y /\ Upper(d2, new)
  <2>1. i + 1 >= 0
    BY <1>2
  <2>2. d2[b].flag > 0 /\ d2[b].slot[i + 1].val = y
    BY <1>5, <1>81, <1>82
  <2>3. new[1] = b /\ new[2] = i + 1
    BY DEF new
  <2> QED BY ONLY <2>1, <2>2, <2>3 DEF Child, ChildAt, Upper
<1>17. Child(d2, <<b, i>>) = x /\ Upper(d2, <<b, i>>) /\ d2[b].slot[i] = d[b].slot[i]
  <2>1. i >= 0 /\ i \in 0..i /\ x = Child(d, <<b, i>>) /\ d[b].flag > 0
    BY <1>2
  <2> QED BY ONLY <1>81, <1>82, <2>1 DEF Child, ChildAt, Upper
\* a child other than x is as it was
<1>18. ASSUME NEW c \in DOMAIN d \ {0, x}
       PROVE  /\ c \in DOMAIN d2 /\ d2[c].flag = d[c].flag /\ own1[c] = own[c]
              /\ d2[c].slot[0].key = d[c].slot[0].key
  <2>1. c \in DOMAIN d2
    BY <1>1, <1>8
  <2>2. CASE c = b
    <3>1. 0 \in 0..i
      BY <1>2
    <3> QED BY <1>81, <1>82, <1>9, <2>1, <2>2, <3>1
  <2>3. CASE c # b
    BY <1>9, <2>1, <2>3
  <2> QED BY <2>2, <2>3
<1>19. ASSUME NEW s \in T2 PROVE KidOK(d2, f, own1, s)
  <2>1. CASE s = new
    <3>1. y \in DOMAIN d2 \ {0} /\ d2[y].flag = d[b].flag - 1 /\ own1[y] = PartOf(d2, own1, new)
      <4>1. y \in DOMAIN d2 \ {0}
        BY <1>1, <1>8
      <4>2. own1[y] = PartOf(d2, own1, new)
        BY ONLY <1>43, <1>84 DEF new
      <4> QED BY <1>2, <1>41, <1>9, <4>1, <4>2
    <3>2. d2[y].slot[0].key = d2[b].slot[i + 1].key
      <4>1. 0 \in 0..(d[x].n - pos - 1) /\ pos + 0 = pos
        <5>1. PICK m : m = d[x].n
          OBVIOUS
        <5>2. m \in Int /\ pos \in 1..(m - 1)
          BY ONLY <1>91, <5>1, pos \in 1..(d[x].n - 1), <1>1
        <5>3. 0 \in 0..(m - pos - 1) /\ pos + 0 = pos
          BY ONLY <5>2
        <5> QED BY ONLY <5>1, <5>3
      <4>2. d1[y].slot[0] = d[x].slot[pos]
        BY ONLY <1>42, <4>1
      <4>3. d2[b].slot[i + 1] = e /\ d2[y] = d1[y]
        BY ONLY <1>82, <1>9
      <4>4. e.key = d[x].slot[pos].key
        OBVIOUS
      <4> QED BY ONLY <4>2, <4>3, <4>4
    <3>3. new[1] = b /\ new[2] = i + 1
      BY DEF new
    <3> QED BY ONLY <1>16, <2>1, <3>1, <3>2, <3>3, <1>81 DEF KidOK
  <2>2. CASE s = <<b, i>>
    <3>1. d2[x].flag = d[b].flag - 1 /\ own1[x] = PartOf(d2, own1, <<b, i>>) /\ x \in DOMAIN d2 \ {0}
      <4>1. x \in DOMAIN d2 \ {0}
        BY <1>1, <1>2, <1>8
      <4>2. own1[x] = PartOf(d2, own1, <<b, i>>)
        BY ONLY <1>43, <1>84
      <4> QED BY <1>2, <1>41, <1>9, <4>1, <4>2
    <3>2. d2[x].slot[0].key = d2[b].slot[i].key
      <4>1. 0 \in 0..(pos - 1)
        BY <1>2
      <4> QED BY <1>2, <1>42, <1>9, <1>17, <4>1
    <3> QED BY ONLY <1>81, <1>17, <2>2, <3>1, <3>2 DEF KidOK
  <2>3. CASE s # new /\ s # <<b, i>>
    <3>1. PICK t : t = from[s]
      OBVIOUS
    <3>2. /\ t \in T /\ d2[s[1]].flag = d[t[1]].flag /\ Child(d2, s) = Child(d, t)
          /\ PartOf(d2, own1, s) = PartOf(d, own, t) /\ t # <<b, i>>
          /\ s[2] >= 0 => t[2] >= 0 /\ d2[s[1]].slot[s[2]] = d[t[1]].slot[t[2]]
      BY <1>15, <2>3, <3>1
    <3>3. KidOK(d, f, own, t)
      BY <1>0, <3>2
    <3>4. Upper(d, t) => Child(d, t) \in DOMAIN d \ {0, x}
      <4>1. Upper(d, t) => Child(d, t) # x
        BY <1>0, <1>2, <1>11, <3>2 DEF Only
      <4> QED BY <3>3, <4>1 DEF KidOK
    <3>5. Upper(d, t) => s[2] >= 0
      <4>1. Upper(d2, s) <=> Upper(d, t)
        BY <3>2 DEF Upper
      <4>2. s \in SlotsOf(rt, d2)
        BY DEF T2
      <4>3. /\ s[2] \in -1..(DirFull - 1) /\ (s[2] = -1 => s[1] = 0 /\ d2[0].flag = 0)
        BY <4>2, SlotHas
      <4> QED BY <1>1, <4>1, <4>3 DEF Upper
    <3>6. Upper(d, t) => /\ d2[s[1]].slot[s[2]].key = d[t[1]].slot[t[2]].key
                         /\ Child(d, t) \in DOMAIN d2
                         /\ d2[Child(d, t)].flag = d[Child(d, t)].flag
                         /\ d2[Child(d, t)].slot[0].key = d[Child(d, t)].slot[0].key
                         /\ own1[Child(d, t)] = own[Child(d, t)]
      BY <1>18, <3>2, <3>4, <3>5
    <3>7. ~Upper(d, t) => Child(d, t) \in Heads(f) /\ f[Child(d, t)] = f[Child(d, t)]
      BY <3>3 DEF KidOK
    <3> QED BY ONLY <3>2, <3>3, <3>6, <3>7, KidStays
  <2> QED BY <2>1, <2>2, <2>3
<1>20. Only(d2, T2)
  <2>1. PICK N : N = {new}
    OBVIOUS
  <2>2. from \in [T2 \ {new} -> T]
    <3>1. from = [s \in T2 \ {new} |-> from[s]]
      BY DEF from
    <3> QED BY <1>15, <3>1
  <2>3. ASSUME NEW s \in T2 \ {new}, NEW t \in T2 \ {new}, from[s] = from[t] PROVE s = t
    <3>1. PICK a, j : s = <<a, j>> /\ j \in Int
      BY <1>13
    <3>2. PICK a2, j2 : t = <<a2, j2>> /\ j2 \in Int
      BY <1>13
    <3>3. <<a, j>> \in T2 /\ <<a, j>> # new /\ <<a2, j2>> \in T2 /\ <<a2, j2>> # new
      BY <3>1, <3>2
    <3>4. Origin(a, j) = Origin(a2, j2)
      <4>1. from[<<a, j>>] = Origin(a, j) /\ from[<<a2, j2>>] = Origin(a2, j2)
        BY ONLY <1>12, <3>3
      <4> QED BY ONLY <4>1, <2>3, <3>1, <3>2
    <3>5. ~(a = b /\ j = i + 1) /\ ~(a2 = b /\ j2 = i + 1)
      BY <3>3 DEF new
    <3>6. (a = x => j < pos) /\ (a2 = x => j2 < pos) /\ (a = y => j >= 0) /\ (a2 = y => j2 >= 0)
      <4>1. \A l : <<x, l>> \in T2 => l < pos
        BY <1>41, <1>9, PairHas DEF T2
      <4>2. \A l : <<y, l>> \in T2 => l >= 0
        <5>1. \A l : <<y, l>> \in T2 => l \in -1..(DirFull - 1) /\ (l = -1 => y = 0)
          BY PairHas DEF T2
        <5> QED BY <1>1, <5>1
      <4> QED BY <3>3, <4>1, <4>2
    <3> QED BY ONLY <3>1, <3>2, <3>4, <3>5, <3>6, <1>9, <1>2 DEF Origin
  <2>4. \A s \in T : Child(d, s) \in (IF Upper(d, s) THEN DOMAIN d ELSE DOMAIN f)
    BY <1>0 DEF KidOK, Heads
  <2>5. y \notin DOMAIN d
    BY <1>1
  <2>6. \A s \in T2 \ {new} : (Upper(d2, s) <=> Upper(d, from[s])) /\ Child(d2, s) = Child(d, from[s])
    BY ONLY <1>15
  <2>7. Moves(d, f, d2, T, T2, N, from)
    <3>1. \A s \in N : Child(d2, s) \notin (IF Upper(d2, s) THEN DOMAIN d ELSE DOMAIN f)
      BY ONLY <1>16, <2>1, <2>5
    <3>2. \A s, t \in N : Child(d2, s) = Child(d2, t) => s = t
      BY ONLY <2>1
    <3>3. Only(d, T)
      BY ONLY <1>0
    <3>4. /\ from \in [T2 \ N -> T]
          /\ \A s, t \in T2 \ N : from[s] = from[t] => s = t
          /\ \A s \in T2 \ N : (Upper(d2, s) <=> Upper(d, from[s])) /\ Child(d2, s) = Child(d, from[s])
      BY ONLY <2>1, <2>2, <2>3, <2>6
    <3> QED BY ONLY <2>4, <3>1, <3>2, <3>3, <3>4 DEF Moves
  <2> QED BY ONLY <2>7, OnlyStays
<1>21. ASSUME NEW s \in T PROVE \E t \in T2 \ {new} : from[t] = s
  <2>1. PICK a, j : /\ s = <<a, j>> /\ a \in DOMAIN d /\ j \in -1..(DirFull - 1) /\ j < d[a].n
                    /\ (j = -1 => a = 0 /\ ~rt /\ d[0].flag = 0)
    BY SlotHas DEF T
  <2>2. ASSUME NEW c \in DOMAIN d2, NEW l \in -1..(DirFull - 1), l < d2[c].n,
               l = -1 => c = 0 /\ ~rt /\ d2[0].flag = 0, <<c, l>> # new, Origin(c, l) = <<a, j>>
        PROVE  \E t \in T2 \ {new} : from[t] = s
    <3>1. <<c, l>> \in T2 /\ <<c, l>> # new
      BY <2>2, SlotIn DEF T2
    <3>2. from[<<c, l>>] = Origin(c, l)
      BY ONLY <1>12, <3>1
    <3> QED BY <2>1, <2>2, <3>1, <3>2
  <2>3. j \in Int /\ a \in 0..y /\ a # y
    BY <1>1, <2>1
  <2>4. CASE a = x /\ j >= pos
    <3>1. y \in DOMAIN d2 /\ j - pos \in -1..(DirFull - 1) /\ j - pos < d2[y].n /\ j - pos # -1
      <4>1. y \in DOMAIN d2 /\ d2[y].n = d[x].n - pos
        BY ONLY <1>8, <1>90, <1>91
      <4>2. j < d[x].n /\ d[x].n \in 0..DirFull
        BY <1>1, <1>2, <2>1, <2>4
      <4> QED BY <1>1, <1>2, <2>3, <2>4, <4>1, <4>2
    <3>2. Origin(y, j - pos) = <<a, j>> /\ <<y, j - pos>> # new
      BY <1>2, <1>9, <2>3, <2>4 DEF Origin, new
    <3> QED BY <2>2, <3>1, <3>2
  <2>5. CASE a = x /\ j < pos
    <3>1. x \in DOMAIN d2 /\ j < d2[x].n /\ j # -1
      <4>1. x \in DOMAIN d2 /\ d2[x].n = pos
        BY ONLY <1>8, <1>90, <1>91
      <4> QED BY <1>2, <2>1, <2>5, <4>1
    <3>2. Origin(x, j) = <<a, j>> /\ <<x, j>> # new
      BY <1>2, <1>9, <2>3, <2>5 DEF Origin, new
    <3> QED BY <2>1, <2>2, <3>1, <3>2
  <2>6. CASE a = b /\ j > i
    <3>1. b \in DOMAIN d2 /\ j + 1 \in -1..(DirFull - 1) /\ j + 1 < d2[b].n /\ j + 1 # -1
      <4>1. b \in DOMAIN d2
        BY <1>1, <1>8
      <4>2. j < d[b].n /\ d[b].n \in 0..DirFull
        BY <1>1, <2>1, <2>6
      <4> QED BY <1>1, <1>2, <1>81, <2>3, <2>6, <4>1, <4>2
    <3>2. Origin(b, j + 1) = <<a, j>> /\ <<b, j + 1>> # new
      BY <1>9, <2>3, <2>6 DEF Origin, new
    <3> QED BY <2>2, <3>1, <3>2
  <2>7. CASE a # x /\ ~(a = b /\ j > i)
    <3>1. a \in DOMAIN d2 /\ j < d2[a].n /\ (j = -1 => a = 0 /\ ~rt /\ d2[0].flag = 0)
      <4>1. a \in DOMAIN d2
        BY <1>1, <1>8, <2>1
      <4>2. j < d2[a].n
        <5>1. CASE a = b
          <6>1. j \in Int /\ j < d[b].n /\ d2[b].n = d[b].n + 1 /\ d[b].n \in Nat
            BY ONLY <1>81, <1>91, <1>1, <2>1, <2>3, <5>1
          <6>2. j < d2[b].n
            BY ONLY <6>1
          <6> QED BY ONLY <5>1, <6>2
        <5>2. CASE a # b
          BY <1>9, <2>1, <2>7, <5>2
        <5> QED BY <5>1, <5>2
      <4> QED BY <1>10, <2>1, <4>1, <4>2
    <3>2. Origin(a, j) = <<a, j>> /\ <<a, j>> # new
      BY <1>2, <2>3, <2>7 DEF Origin, new
    <3> QED BY <2>1, <2>2, <3>1, <3>2
  <2> QED BY <1>2, <2>3, <2>4, <2>5, <2>6, <2>7
<1>22. Covered(rt, d2, f, T2)
  <2>1. ASSUME NEW c \in DOMAIN d2 \ {0} PROVE \E s \in T2 : Upper(d2, s) /\ Child(d2, s) = c
    <3>1. CASE c = y
      BY <1>11, <1>16, <3>1 DEF T2
    <3>2. CASE c # y
      <4>1. c \in DOMAIN d \ {0}
        BY <1>1, <1>8, <3>2
      <4>2. PICK s \in T : Upper(d, s) /\ Child(d, s) = c
        BY <1>0, <4>1 DEF Covered
      <4>3. PICK t \in T2 \ {new} : from[t] = s
        BY <1>21
      <4> QED BY <1>15, <4>2, <4>3
    <3> QED BY <3>1, <3>2
  <2>2. ASSUME NEW c \in Heads(f)
        PROVE  \/ \E s \in T2 : ~Upper(d2, s) /\ Child(d2, s) = c
               \/ c = 0 /\ Lost(rt, d2, f)
    <3>1. CASE \E s \in T : ~Upper(d, s) /\ Child(d, s) = c
      <4>1. PICK s \in T : ~Upper(d, s) /\ Child(d, s) = c
        BY <3>1
      <4>2. PICK t \in T2 \ {new} : from[t] = s
        BY <1>21
      <4> QED BY <1>15, <4>1, <4>2
    <3>2. CASE c = 0 /\ Lost(rt, d, f)
      <4>1. d2[0].slot[0] = d[0].slot[0]
        <5>1. 0 \in 0..i /\ 0 # x
          BY <1>2
        <5>2. CASE b = 0
          BY <1>82, <5>1, <5>2
        <5>3. CASE b # 0
          BY <1>9, <1>10, <5>1, <5>3
        <5> QED BY <5>2, <5>3
      <4> QED BY <1>10, <3>2, <4>1 DEF Lost
    <3> QED BY <1>0, <3>1, <3>2 DEF Covered
  <2> QED BY <2>1, <2>2 DEF Covered
<1>23. Tree(rt, d2, f, own1)
  BY <1>8, <1>19, <1>20, <1>22 DEF Tree, T2
<1>24. d2[x].flag = d[x].flag /\ d2[x].n = pos /\ d2[y].n = d[x].n - pos
  BY ONLY <1>90
<1>25. \A c \in DOMAIN d \ {b, x} : d2[c] = d[c]
  BY <1>9
<1>26. Size(d2) = Size(d) + 1 /\ SlotBefore(d[b], e.key) = i
  BY <1>8
<1> QED BY <1>81, <1>23, <1>24, <1>25, <1>26 DEF own1, Divided

(* What a new root makes of directory d, whose root is split at slot pos:   *)
(* block y gets the upper half, block z the lower one.                     *)
Grown(d, pos, y, z, d2) ==
  /\ d2 \in Files(DirFull) /\ Size(d2) = z + 1 /\ DOMAIN d2 = 0..z
  /\ \A c \in DOMAIN d \ {0} : d2[c] = d[c]
  /\ d2[0].flag = d[0].flag + 1 /\ d2[0].n = 2
  /\ d2[0].slot[0] = [key |-> d[0].slot[0].key, val |-> z]
  /\ d2[0].slot[1] = [key |-> d[0].slot[pos].key, val |-> y]
  /\ d2[y].flag = d[0].flag /\ d2[y].n = d[0].n - pos
  /\ \A j \in 0..(d[0].n - pos - 1) : d2[y].slot[j] = d[0].slot[pos + j]
  /\ d2[z].flag = d[0].flag /\ d2[z].n = pos
  /\ \A j \in 0..(pos - 1) : d2[z].slot[j] = d[0].slot[j]

(* A record that fits is put in at its place, behind slot i.               *)
Fitted(d, b, i, e, d2) == InsertEntry(d, b, e).dir = d2 /\ InsertEntry(d, b, e).up = NoEntry

LEMMA EntryFits ==
  ASSUME NEW d \in Files(DirFull), NEW b \in DOMAIN d, d[b].n \in 0..(DirFull - 2),
         NEW e \in Record, NEW i \in -1..(d[b].n - 1), SlotBefore(d[b], e.key) = i,
         NEW d2, d2 = [d EXCEPT ![b] = InsertAt(d[b], i + 1, e)]
  PROVE  Fitted(d, b, i, e, d2)
<1> DEFINE q == InsertAt(d[b], i + 1, e)
<1>1. d[b] \in Pages(DirFull) /\ DirFull \in Nat /\ DirFull > 2
  BY FileHas, Fulls
<1>2. i + 1 \in 0..d[b].n /\ d[b].n \in 0..(DirFull - 1)
  BY <1>1
<1>3. q.n = d[b].n + 1
  <2>1. PICK m \in 0..d[b].n : m = i + 1
    BY <1>2
  <2> QED BY <1>1, <1>2, <2>1, InsertAtIs
<1>4. InsertAt(d[b], 1 + SlotBefore(d[b], e.key), e) = q
  <2>1. 1 + i = i + 1
    OBVIOUS
  <2> QED BY <2>1
<1> HIDE DEF q
<1>5. ~IsFull(q, DirFull)
  BY <1>1, <1>3 DEF IsFull
<1>6. InsertEntry(d, b, e) = [dir |-> [d EXCEPT ![b] = q], up |-> NoEntry]
  BY <1>4, <1>5 DEF InsertEntry
<1> QED BY <1>6 DEF q, Fitted

LEMMA GrownIs ==
  ASSUME NEW d \in Files(DirFull), d[0].n = DirFull, Sorted(d[0]), NEW pos \in 1..(DirFull - 1),
         NEW y, y = Size(d), NEW e, e = [key |-> d[0].slot[pos].key, val |-> y]
  PROVE  Grown(d, pos, y, y + 1, MakeNewRoot(Split(d, 0, pos, d[0].flag), e))
<1> DEFINE p == d[0]
           d1 == Split(d, 0, pos, p.flag)
           z == Size(d1)
           d3 == Split(d1, 0, 0, d1[0].flag)
           old == [key |-> d1[0].slot[0].key, val |-> z]
           d4 == InsertEntry(d3, 0, old).dir
           d5 == InsertEntry(d4, 0, e).dir
           d2 == [d5 EXCEPT ![0].flag = d1[0].flag + 1]
<1> HIDE DEF p, d1, z, d3, old, d4, d5, d2
<1>1. /\ DirFull \in Nat /\ DirFull > 2 /\ y \in Nat \ {0} /\ DOMAIN d = 0..(y - 1)
      /\ p \in Pages(DirFull) /\ 0 \in DOMAIN d /\ p = d[0] /\ p.flag \in Int
      /\ \A j \in 0..(DirFull - 1) : p.slot[j] \in Record /\ p.slot[j].key \in Int
      /\ pos \in Nat /\ pos \in 0..(DirFull - 1) /\ 0 \in 0..(DirFull - 1) /\ pos \in 0..DirFull
      /\ 0 \in 0..(pos - 1) /\ DirFull \in 0..DirFull
  <2>1. DirFull \in Nat /\ DirFull > 2 /\ y \in Nat \ {0} /\ DOMAIN d = 0..(y - 1)
    BY FileHas, Fulls
  <2>2. p \in Pages(DirFull) /\ 0 \in DOMAIN d /\ p = d[0]
    BY <2>1, FileHas DEF p
  <2>3. p.flag \in Int
    BY <2>2 DEF Pages
  <2> QED BY <2>1, <2>2, <2>3, KeyIsInt
<1>2. /\ d1 \in Files(DirFull) /\ z = y + 1 /\ DOMAIN d1 = 0..y /\ 0 \in DOMAIN d1
      /\ d1[0] = Kept(p, pos) /\ d1[y] = Moved(p, pos, p.flag)
      /\ \A c \in DOMAIN d \ {0} : d1[c] = d[c]
  <2>1. /\ d[0].n \in 0..DirFull /\ pos \in 0..d[0].n /\ d[0].flag \in Int
        /\ 0 \in DOMAIN d /\ DirFull \in Nat
    BY <1>1
  <2>2. d1 = Split(d, 0, pos, d[0].flag)
    BY DEF d1, p
  <2>3. /\ d1 \in Files(DirFull) /\ Size(d1) = Size(d) + 1 /\ DOMAIN d1 = 0..Size(d)
        /\ d1[0] = Kept(d[0], pos) /\ d1[Size(d)] = Moved(d[0], pos, d[0].flag)
        /\ \A c \in DOMAIN d \ {0} : d1[c] = d[c]
    BY ONLY <2>1, <2>2, d \in Files(DirFull), SplitIs
  <2>4. 0 \in 0..y
    BY <1>1
  <2> QED BY <1>1, <2>3, <2>4 DEF z
<1>3. /\ d1[0].n = pos /\ d1[0].flag = p.flag
      /\ \A j \in 0..(pos - 1) : d1[0].slot[j] = p.slot[j]
  BY <1>1, <1>2, KeptIs DEF p
<1>4. /\ d1[y].n = DirFull - pos /\ d1[y].flag = p.flag
      /\ \A j \in 0..(DirFull - pos - 1) : d1[y].slot[j] = p.slot[pos + j]
  <2>1. p.n = DirFull
    BY <1>1
  <2>4. p.n \in 0..DirFull /\ pos \in 0..p.n
    BY <1>1
  <2>2. PICK q : q = Moved(p, pos, p.flag)
    OBVIOUS
  <2>3. /\ q.n = p.n - pos /\ q.flag = p.flag
        /\ \A j \in 0..(p.n - pos - 1) : q.slot[j] = p.slot[pos + j]
    <3>1. p \in Pages(DirFull) /\ DirFull \in Nat /\ p.flag \in Int
      BY <1>1
    <3> QED BY ONLY <2>2, <2>4, <3>1, MovedIs
  <2> QED BY ONLY <1>2, <2>1, <2>2, <2>3
<1>5. /\ d3 \in Files(DirFull) /\ Size(d3) = z + 1 /\ DOMAIN d3 = 0..z
      /\ d3[0] = Kept(d1[0], 0) /\ d3[z] = Moved(d1[0], 0, d1[0].flag)
      /\ \A c \in DOMAIN d1 \ {0} : d3[c] = d1[c]
  <2>1. d1[0].n \in 0..DirFull /\ 0 \in 0..d1[0].n /\ d1[0].flag \in Int
    BY <1>1, <1>3
  <2>2. d3 = Split(d1, 0, 0, d1[0].flag)
    BY DEF d3
  <2>3. /\ d3 \in Files(DirFull) /\ Size(d3) = Size(d1) + 1 /\ DOMAIN d3 = 0..Size(d1)
        /\ d3[0] = Kept(d1[0], 0) /\ d3[Size(d1)] = Moved(d1[0], 0, d1[0].flag)
        /\ \A c \in DOMAIN d1 \ {0} : d3[c] = d1[c]
    <3>1. PICK r, b, none, flag : r = d1[0] /\ b = 0 /\ none = 0 /\ flag = r.flag
      OBVIOUS
    <3>2. /\ d1 \in Files(DirFull) /\ DirFull \in Nat /\ b \in DOMAIN d1 /\ r = d1[b]
          /\ r.n \in 0..DirFull /\ none \in 0..r.n /\ flag \in Int /\ d3 = Split(d1, b, none, flag)
      BY ONLY <1>1, <1>2, <2>1, <2>2, <3>1
    <3>3. Cut(DirFull, d1, b, r, none, flag, d3)
      BY ONLY <3>2, CutIs
    <3> QED BY ONLY <3>1, <3>3 DEF Cut
  <2> QED BY ONLY <2>3 DEF z
<1>6. d1[0] \in Pages(DirFull) /\ d1[0].n \in 0..DirFull /\ 0 \in 0..d1[0].n /\ d1[0].flag \in Int
  BY <1>1, <1>2, <1>3, FileHas
<1>7. d3[0].n = 0 /\ d3[0].flag = p.flag /\ 0 \in DOMAIN d3 /\ d3[0] \in Pages(DirFull)
  <2>1. d3[0].n = 0 /\ d3[0].flag = p.flag
    <3>1. PICK q, r, none : q = d3[0] /\ r = d1[0] /\ none = 0
      OBVIOUS
    <3>2. /\ DirFull \in Nat /\ r \in Pages(DirFull) /\ r.n \in 0..DirFull /\ none \in 0..r.n
          /\ q = Kept(r, none)
      BY ONLY <1>1, <1>5, <1>6, <3>1
    <3>3. Lower(DirFull, r, none, q)
      BY ONLY <3>2, LowerIs
    <3> QED BY ONLY <1>3, <3>1, <3>3 DEF Lower
  <2>2. 0 \in DOMAIN d3
    BY <1>1, <1>2, <1>5
  <2> QED BY <1>1, <1>5, <2>1, <2>2, FileHas
<1>8. /\ d3[z].n = pos /\ d3[z].flag = p.flag
      /\ \A j \in 0..(pos - 1) : d3[z].slot[j] = p.slot[j]
  <2>1. /\ d3[z].n = d1[0].n - 0 /\ d3[z].flag = d1[0].flag
        /\ \A j \in 0..(d1[0].n - 0 - 1) : d3[z].slot[j] = d1[0].slot[0 + j]
    <3>1. PICK q, r, none, flag : q = d3[z] /\ r = d1[0] /\ none = 0 /\ flag = r.flag
      OBVIOUS
    <3>2. /\ DirFull \in Nat /\ r \in Pages(DirFull) /\ r.n \in 0..DirFull /\ none \in 0..r.n
          /\ flag \in Int /\ q = Moved(r, none, flag)
      BY ONLY <1>1, <1>5, <1>6, <3>1
    <3>3. Higher(DirFull, r, none, flag, q)
      BY ONLY <3>2, HigherIs
    <3> QED BY ONLY <3>1, <3>3 DEF Higher
  <2>2. \A j \in 0..(pos - 1) : d3[z].slot[j] = d1[0].slot[j]
    <3>1. \A j \in 0..(pos - 1) : j \in 0..(d1[0].n - 0 - 1) /\ 0 + j = j
      BY <1>1, <1>3
    <3> QED BY ONLY <2>1, <3>1
  <2>3. d3[z].n = pos
    BY <1>1, <1>3, <2>1
  <2> QED BY <1>3, <2>1, <2>2, <2>3
<1>9. old = [key |-> p.slot[0].key, val |-> z] /\ old \in Record /\ e \in Record /\ old.key < e.key
  <2>1. old = [key |-> p.slot[0].key, val |-> z]
    BY <1>1, <1>3 DEF old
  <2>2. p.slot[0].key < p.slot[pos].key
    BY <1>1 DEF Sorted
  <2>3. z \in Nat /\ y \in Nat /\ p.slot[0].key \in Int /\ p.slot[pos].key \in Int
    BY <1>1, <1>2
  <2>4. e = [key |-> p.slot[pos].key, val |-> y]
    BY <1>1
  <2> QED BY ONLY <2>1, <2>2, <2>3, <2>4 DEF Record
<1>10. d4 = [d3 EXCEPT ![0] = InsertAt(d3[0], 0, old)]
  <2>1. SlotBefore(d3[0], old.key) = -1
    <3>1. d3[0].n \in 0..(DirFull - 1) /\ old.key \in Int
      BY <1>1, <1>7, <1>9 DEF Record
    <3>2. SlotBefore(d3[0], old.key) \in -1..(d3[0].n - 1)
      BY <1>1, <1>7, <3>1, SlotBeforeIs
    <3> QED BY <1>7, <3>2
  <2>4. PICK i : i = -1
    OBVIOUS
  <2>2. d3[0].n \in 0..(DirFull - 2) /\ i \in -1..(d3[0].n - 1) /\ i + 1 = 0
    BY <1>1, <1>7, <2>4
  <2>3. PICK g : g = [d3 EXCEPT ![0] = InsertAt(d3[0], i + 1, old)]
    OBVIOUS
  <2>6. InsertEntry(d3, 0, old).dir = g
    <3>1. PICK b : b = 0
      OBVIOUS
    <3>2. /\ d3 \in Files(DirFull) /\ b \in DOMAIN d3 /\ d3[b].n \in 0..(DirFull - 2) /\ old \in Record
          /\ i \in -1..(d3[b].n - 1) /\ SlotBefore(d3[b], old.key) = i
      BY ONLY <1>5, <1>7, <1>9, <2>1, <2>2, <2>4, <3>1
    <3>3. g = [d3 EXCEPT ![b] = InsertAt(d3[b], i + 1, old)]
      BY ONLY <2>3, <3>1
    <3>4. Fitted(d3, b, i, old, g)
      BY ONLY <3>2, <3>3, EntryFits
    <3> QED BY ONLY <3>1, <3>4 DEF Fitted
  <2>5. d4 = [d3 EXCEPT ![0] = InsertAt(d3[0], i + 1, old)]
    BY ONLY <2>3, <2>6 DEF d4
  <2> QED BY ONLY <2>2, <2>5
<1>11. /\ d4 \in Files(DirFull) /\ DOMAIN d4 = 0..z /\ Size(d4) = z + 1
       /\ \A c \in DOMAIN d3 \ {0} : d4[c] = d3[c]
       /\ d4[0] \in Pages(DirFull) /\ d4[0].n = 1 /\ d4[0].flag = p.flag /\ d4[0].slot[0] = old
  <2>1. PICK q : q = InsertAt(d3[0], 0, old)
    OBVIOUS
  <2>2. q \in Pages(DirFull) /\ q.n = 0 + 1 /\ q.flag = p.flag /\ q.slot[0] = old
    <3>1. d3[0].n \in 0..(DirFull - 1) /\ 0 \in 0..d3[0].n
      BY <1>1, <1>7
    <3> QED BY <1>1, <1>7, <1>9, <2>1, <3>1, InsertAtIs
  <2>3. z + 1 \in Nat \ {0} /\ (z + 1) - 1 = z
    BY <1>1, <1>2
  <2>4. d3 \in [0..z -> Pages(DirFull)]
    BY <1>1, <1>5, <2>3, FileHas
  <2>5. d4 \in [0..((z + 1) - 1) -> Pages(DirFull)]
    BY <1>10, <2>1, <2>2, <2>3, <2>4
  <2>6. d4 \in Files(DirFull) /\ Size(d4) = z + 1 /\ DOMAIN d4 = 0..z
    BY <1>1, <2>3, <2>5, FileIs
  <2> QED BY <1>5, <1>7, <1>10, <2>1, <2>2, <2>6
<1>12. d5 = [d4 EXCEPT ![0] = InsertAt(d4[0], 1, e)]
  <2>1. SlotBefore(d4[0], e.key) = 0
    <3>1. d4[0].n \in 0..(DirFull - 1) /\ e.key \in Int /\ 0 \in -1..(d4[0].n - 1)
      BY <1>1, <1>9, <1>11 DEF Record
    <3>2. Sorted(d4[0]) /\ d4[0].slot[0].key < e.key
      BY <1>9, <1>11 DEF Sorted
    <3>3. PICK i, k : i = 0 /\ k = e.key
      OBVIOUS
    <3>4. (i >= 0 => d4[0].slot[i].key < k) /\ ~(i + 1 < d4[0].n) /\ k \in Int /\ i \in -1..(d4[0].n - 1)
      BY <1>11, <3>1, <3>2, <3>3
    <3>5. SlotBefore(d4[0], k) = i
      BY ONLY <1>1, <1>11, <3>1, <3>2, <3>4, SlotIs
    <3> QED BY ONLY <3>3, <3>5
  <2>4. PICK i : i = 0
    OBVIOUS
  <2>2. d4[0].n \in 0..(DirFull - 2) /\ i \in -1..(d4[0].n - 1) /\ i + 1 = 1 /\ 0 \in DOMAIN d4
    BY <1>1, <1>2, <1>11, <2>4
  <2>3. PICK g : g = [d4 EXCEPT ![0] = InsertAt(d4[0], i + 1, e)]
    OBVIOUS
  <2>6. InsertEntry(d4, 0, e).dir = g
    <3>1. PICK b : b = 0
      OBVIOUS
    <3>2. /\ d4 \in Files(DirFull) /\ b \in DOMAIN d4 /\ d4[b].n \in 0..(DirFull - 2) /\ e \in Record
          /\ i \in -1..(d4[b].n - 1) /\ SlotBefore(d4[b], e.key) = i
      BY ONLY <1>5, <1>7, <1>9, <1>11, <2>1, <2>2, <2>4, <3>1
    <3>3. g = [d4 EXCEPT ![b] = InsertAt(d4[b], i + 1, e)]
      BY ONLY <2>3, <3>1
    <3>4. Fitted(d4, b, i, e, g)
      BY ONLY <3>2, <3>3, EntryFits
    <3> QED BY ONLY <3>1, <3>4 DEF Fitted
  <2>5. d5 = [d4 EXCEPT ![0] = InsertAt(d4[0], i + 1, e)]
    BY ONLY <2>3, <2>6 DEF d5
  <2> QED BY ONLY <2>2, <2>5
<1>13. PICK q : q = InsertAt(d4[0], 1, e)
  OBVIOUS
<1>14. q \in Pages(DirFull) /\ q.n = 2 /\ q.flag = p.flag /\ q.slot[0] = old /\ q.slot[1] = e
  <2>1. PICK s, m : s = 1 /\ m = d4[0].n
    OBVIOUS
  <2>2. m \in 0..(DirFull - 1) /\ s \in 0..m /\ 0 \in 0..(s - 1) /\ m + 1 = 2
    BY <1>1, <1>11, <2>1
  <2>3. q = InsertAt(d4[0], s, e)
    BY <1>13, <2>1
  <2>4. /\ q \in Pages(DirFull) /\ q.n = d4[0].n + 1 /\ q.flag = d4[0].flag
        /\ \A j \in 0..(s - 1) : q.slot[j] = d4[0].slot[j]
        /\ q.slot[s] = e
    BY ONLY <1>1, <1>9, <1>11, <2>1, <2>2, <2>3, InsertAtIs
  <2> QED BY ONLY <1>11, <2>1, <2>2, <2>4
<1>15. PICK r : r = [q EXCEPT !.flag = p.flag + 1]
  OBVIOUS
<1>16. /\ r \in Pages(DirFull) /\ r.n = 2 /\ r.flag = p.flag + 1
       /\ r.slot[0] = [key |-> p.slot[0].key, val |-> z] /\ r.slot[1] = e
  BY <1>1, <1>9, <1>14, <1>15 DEF Pages
<1>17. d2 = [d4 EXCEPT ![0] = r]
  <2>1. d4 \in [0..z -> Pages(DirFull)] /\ 0 \in 0..z
    <3>1. (z + 1) - 1 = z /\ 0 \in 0..z
      BY <1>1, <1>2
    <3> QED BY <1>1, <1>11, <3>1, FileHas
  <2>2. d5 \in [0..z -> Pages(DirFull)] /\ d5[0] = q
    BY <1>12, <1>13, <1>14, <2>1
  <2>3. d2 = [d5 EXCEPT ![0] = r]
    BY <1>3, <1>15, <2>2 DEF d2
  <2> QED BY <1>12, <2>1, <2>2, <2>3
<1>18. /\ d2 \in Files(DirFull) /\ Size(d2) = z + 1 /\ DOMAIN d2 = 0..z /\ d2[0] = r
       /\ \A c \in (0..z) \ {0} : d2[c] = d4[c]
  <2>1. z + 1 \in Nat \ {0} /\ (z + 1) - 1 = z /\ 0 \in 0..z
    BY <1>1, <1>2
  <2>2. d4 \in [0..z -> Pages(DirFull)]
    BY <1>1, <1>11, <2>1, FileHas
  <2>3. d2 \in [0..((z + 1) - 1) -> Pages(DirFull)]
    BY <1>16, <1>17, <2>1, <2>2
  <2>4. d2 \in Files(DirFull) /\ Size(d2) = z + 1 /\ DOMAIN d2 = 0..z
    BY <1>1, <2>1, <2>3, FileIs
  <2> QED BY <1>17, <2>1, <2>2, <2>4
<1>19. \A c \in DOMAIN d \ {0} : d2[c] = d[c]
  <2>1. \A c \in DOMAIN d \ {0} : c \in (0..z) \ {0} /\ c \in DOMAIN d3 \ {0} /\ c \in DOMAIN d1 \ {0}
    BY <1>1, <1>2, <1>5
  <2> QED BY ONLY <1>2, <1>5, <1>11, <1>18, <2>1
<1>20. d2[y] = d1[y] /\ d2[z] = d3[z]
  <2>1. /\ y \in (0..z) \ {0} /\ y \in DOMAIN d3 \ {0} /\ y \in DOMAIN d1 \ {0}
        /\ z \in (0..z) \ {0} /\ z \in DOMAIN d3 \ {0}
    BY <1>1, <1>2, <1>5
  <2> QED BY ONLY <1>5, <1>11, <1>18, <2>1
<1>21. d2 = MakeNewRoot(Split(d, 0, pos, d[0].flag), e)
  BY DEF MakeNewRoot, d2, d5, d4, old, d3, z, d1, p, Size
<1>22. Grown(d, pos, y, z, d2)
  <2>1. d[0].n = DirFull /\ e = [key |-> d[0].slot[pos].key, val |-> y] /\ p = d[0]
    BY <1>1
  <2> QED BY ONLY <1>4, <1>8, <1>16, <1>18, <1>19, <1>20, <2>1 DEF Grown
<1> QED BY <1>2, <1>21, <1>22

(* The keys of the blocks under a new root.                                *)
Spread(d, own, pos, y, z) ==
  [c \in 0..z |-> IF c = 0 THEN Int
                  ELSE IF c = y THEN {k \in Int : d[0].slot[pos].key <= k}
                  ELSE IF c = z THEN {k \in Int : d[0].slot[0].key <= k /\ k < d[0].slot[pos].key}
                  ELSE own[c]]

(* What a new root does to the slots and keys of the old one.              *)
Raised(rt, d, own, pos, y, z, d2, own2) ==
  /\ Blocks(rt, d2, own2)
  /\ \A c \in DOMAIN d \ {0} : own2[c] = own[c]
  /\ own2[y] = PartOf(d2, own2, <<0, 1>>) /\ own2[z] = PartOf(d2, own2, <<0, 0>>)
  /\ \A j \in 0..(d[0].n - pos - 1) : PartOf(d2, own2, <<y, j>>) = PartOf(d, own, <<0, pos + j>>)
  /\ \A j \in 0..(pos - 1) : PartOf(d2, own2, <<z, j>>) = PartOf(d, own, <<0, j>>)

LEMMA BlocksRaise ==
  ASSUME NEW rt, NEW d, NEW own, Blocks(rt, d, own), NEW pos \in 1..(d[0].n - 1),
         NEW y, y = Size(d), NEW z, z = y + 1, NEW d2, Grown(d, pos, y, z, d2)
  PROVE  Raised(rt, d, own, pos, y, z, d2, Spread(d, own, pos, y, z))
<1> DEFINE own2 == Spread(d, own, pos, y, z)
<1> HIDE DEF own2
<1>1. PICK p : p = d[0]
  OBVIOUS
<1>2. /\ y \in Nat \ {0} /\ DOMAIN d = 0..(y - 1) /\ DirFull \in Nat /\ 0 \in DOMAIN d
      /\ p \in Pages(DirFull) /\ p.n \in 0..DirFull /\ p.flag \in Nat
      /\ Sorted(p) /\ KeysIn(p, Int) /\ z \in Nat
      /\ \A j \in 0..(DirFull - 1) : p.slot[j] \in Record /\ p.slot[j].key \in Int
  <2>1. y \in Nat \ {0} /\ DOMAIN d = 0..(y - 1) /\ DirFull \in Nat /\ 0 \in DOMAIN d
    BY Fulls, FileHas DEF Blocks
  <2>2. own[0] = Int
    BY DEF Blocks
  <2>3. z \in Nat
    BY <2>1
  <2> QED BY <1>1, <2>1, <2>2, <2>3, BlockHas
<1>3. pos \in 1..(p.n - 1) /\ pos \in 0..(p.n - 1) /\ pos \in 0..(DirFull - 1) /\ 0 \in 0..(DirFull - 1)
      /\ p.n - pos \in 1..DirFull /\ pos \in 1..DirFull /\ 0 < pos /\ 0 \in 0..(p.n - 1) /\ pos \in Nat
  BY <1>1, <1>2
<1>4. PICK s0, sk : s0 = p.slot[0].key /\ sk = p.slot[pos].key
  OBVIOUS
<1>5. s0 \in Int /\ sk \in Int /\ s0 < sk
  BY <1>2, <1>3, <1>4 DEF Sorted
<1>6. PICK low, mid, high : /\ low = {k \in Int : k < sk} /\ high = {k \in Int : sk <= k}
                            /\ mid = {k \in low : s0 <= k}
  OBVIOUS
<1>7. /\ own2[0] = Int /\ own2[y] = high /\ own2[z] = mid
      /\ \A c \in DOMAIN d \ {0} : own2[c] = own[c] /\ c # y /\ c # z
      /\ own2 \in [0..z -> SUBSET Int]
  <2>1. own \in [DOMAIN d -> SUBSET Int]
    BY DEF Blocks
  <2>2. y \in 0..z /\ z \in 0..z /\ y # z /\ y # 0 /\ z # 0 /\ 0 \in 0..z
    BY <1>2
  <2>3. \A c \in DOMAIN d \ {0} : c \in 0..z /\ c # y /\ c # z /\ c # 0
    BY <1>2
  <2>4. own2 = [c \in 0..z |-> IF c = 0 THEN Int ELSE IF c = y THEN high
                               ELSE IF c = z THEN mid ELSE own[c]]
    BY <1>1, <1>4, <1>6 DEF own2, Spread
  <2>5. \A c \in 0..z : c # 0 /\ c # y /\ c # z => c \in DOMAIN d
    BY <1>2
  <2>6. high \subseteq Int /\ mid \subseteq Int
    BY <1>6
  <2> QED BY ONLY <2>1, <2>2, <2>3, <2>4, <2>5, <2>6
<1>8. /\ d2 \in Files(DirFull) /\ DOMAIN d2 = 0..z
      /\ \A c \in DOMAIN d \ {0} : d2[c] = d[c]
  BY DEF Grown
<1>9. /\ d2[0].flag = p.flag + 1 /\ d2[0].n = 2
      /\ d2[0].slot[0].key = s0 /\ d2[0].slot[1].key = sk
  BY <1>1, <1>4 DEF Grown
<1>10. /\ d2[y].flag = p.flag /\ d2[y].n = p.n - pos
       /\ \A j \in 0..(p.n - pos - 1) : d2[y].slot[j] = p.slot[pos + j]
  BY <1>1 DEF Grown
<1>11. /\ d2[z].flag = p.flag /\ d2[z].n = pos
       /\ \A j \in 0..(pos - 1) : d2[z].slot[j] = p.slot[j]
  BY <1>1 DEF Grown
<1>12. PICK q : q = d2[y]
  OBVIOUS
<1>13. UpperPart(p, Int, pos, q, high)
  <2>1. q.n = p.n - pos /\ \A j \in 0..(q.n - 1) : q.slot[j] = p.slot[pos + j]
    BY ONLY <1>10, <1>12
  <2>2. PICK o \in SUBSET Int : o = Int
    OBVIOUS
  <2>3. high = {k \in o : p.slot[pos].key <= k} /\ KeysIn(p, o)
    BY <1>2, <1>4, <1>6, <2>2
  <2>4. UpperPart(p, o, pos, q, high)
    BY ONLY <1>2, <1>3, <2>1, <2>3, o \in SUBSET Int, PartHigh
  <2> QED BY ONLY <2>2, <2>4
<1>14. PICK r : r = d2[z]
  OBVIOUS
<1>15. LowerPart(p, Int, pos, r, low) /\ r \in Pages(DirFull)
  <2>1. r.n = pos /\ \A j \in 0..(pos - 1) : r.slot[j] = p.slot[j]
    BY ONLY <1>11, <1>14
  <2>2. PICK o \in SUBSET Int : o = Int
    OBVIOUS
  <2>3. low = {k \in o : k < p.slot[pos].key} /\ KeysIn(p, o)
    BY <1>2, <1>4, <1>6, <2>2
  <2>4. LowerPart(p, o, pos, r, low)
    BY ONLY <1>2, <1>3, <2>1, <2>3, o \in SUBSET Int, PartLow
  <2>5. r \in Pages(DirFull)
    <3>1. z \in DOMAIN d2
      BY <1>2, <1>8
    <3> QED BY <1>2, <1>8, <1>14, <3>1, FileHas
  <2> QED BY ONLY <2>2, <2>4, <2>5
<1>16. UpperPart(r, low, 0, r, mid)
  <2>1. r.n \in 0..DirFull /\ Sorted(r) /\ KeysIn(r, low)
    BY <1>3, <1>11, <1>14, <1>15 DEF LowerPart
  <2>2. PICK o \in SUBSET Int : o = low
    BY <1>6
  <2>3. r.slot[0].key = s0
    <3>1. 0 \in 0..(pos - 1)
      BY <1>3
    <3> QED BY ONLY <1>4, <1>11, <1>14, <3>1
  <2>4. PICK m : m = 0
    OBVIOUS
  <2>5. r.n = r.n - m /\ m \in 0..(r.n - 1) /\ \A j \in 0..(r.n - 1) : r.slot[j] = r.slot[m + j]
    BY <1>3, <1>11, <1>14, <2>4
  <2>6. mid = {k \in o : r.slot[m].key <= k}
    BY <1>6, <2>2, <2>3, <2>4
  <2>7. UpperPart(r, o, m, r, mid)
    BY ONLY <1>2, <1>15, <2>1, <2>2, <2>5, <2>6, o \in SUBSET Int, PartHigh
  <2> QED BY ONLY <2>2, <2>4, <2>7
<1>17. /\ \A j \in 0..(p.n - pos - 1) : Part(high, q, j) = Part(Int, p, pos + j)
       /\ \A j \in 0..(pos - 1) : Part(mid, r, j) = Part(Int, p, j)
  <2>1. \A j \in 0..(q.n - 1) : Part(high, q, j) = Part(Int, p, pos + j)
    BY <1>13 DEF UpperPart
  <2>2. q.n = p.n - pos /\ r.n = pos
    BY <1>10, <1>11, <1>12, <1>14
  <2>3. \A j \in 0..(r.n - 1) : Part(mid, r, j) = Part(low, r, 0 + j)
    BY <1>16 DEF UpperPart
  <2>4. \A j \in -1..(pos - 1) : Part(low, r, j) = Part(Int, p, j)
    BY <1>15 DEF LowerPart
  <2>5. \A j \in 0..(pos - 1) : j \in -1..(pos - 1) /\ 0 + j = j
    BY <1>3
  <2> QED BY ONLY <2>1, <2>2, <2>3, <2>4, <2>5
<1>18. Blocks(rt, d2, own2)
  <2>1. DOMAIN d2 = DOMAIN d \cup {y, z}
    BY <1>2, <1>8
  <2>2. own2 \in [DOMAIN d2 -> SUBSET Int] /\ own2[0] = Int
    BY <1>7, <1>8
  <2>3. rt => d2[0].n > 0 /\ d2[0].slot[0].key = MinKey
    BY <1>1, <1>4, <1>9 DEF Blocks
  <2>4. BlockOK(d2[0], own2[0])
    <3>1. Sorted(d2[0])
      <4>1. \A i, j \in 0..(d2[0].n - 1) : i < j => i = 0 /\ j = 1
        BY <1>9
      <4> QED BY <1>5, <1>9, <4>1 DEF Sorted
    <3>2. KeysIn(d2[0], Int)
      <4>1. \A i \in 0..(d2[0].n - 1) : i = 0 \/ i = 1
        BY <1>9
      <4> QED BY ONLY <1>5, <1>9, <4>1 DEF KeysIn
    <3>3. d2[0].flag \in Nat /\ d2[0].n \in 0..DirFull /\ d2[0].n # 0
      BY <1>2, <1>9, Fulls
    <3> QED BY <1>7, <3>1, <3>2, <3>3 DEF BlockOK
  <2>5. BlockOK(d2[y], own2[y]) /\ d2[y].n > 0 /\ \A k \in own2[y] : d2[y].slot[0].key <= k
    <3>1. q.flag \in Nat /\ q.n \in 1..DirFull /\ Sorted(q) /\ KeysIn(q, high) /\ \A k \in high : q.slot[0].key <= k
      BY <1>2, <1>3, <1>10, <1>12, <1>13 DEF UpperPart
    <3>2. q.n \in 0..DirFull /\ q.n # 0 /\ q.n > 0
      BY <1>2, <3>1
    <3> QED BY ONLY <1>7, <1>12, <3>1, <3>2 DEF BlockOK
  <2>6. BlockOK(d2[z], own2[z]) /\ d2[z].n > 0 /\ \A k \in own2[z] : d2[z].slot[0].key <= k
    <3>1. r.flag \in Nat /\ r.n \in 1..DirFull /\ Sorted(r) /\ KeysIn(r, mid) /\ \A k \in mid : r.slot[0].key <= k
      BY <1>2, <1>3, <1>11, <1>14, <1>16 DEF UpperPart
    <3>2. r.n \in 0..DirFull /\ r.n # 0 /\ r.n > 0
      BY <1>2, <3>1
    <3> QED BY ONLY <1>7, <1>14, <3>1, <3>2 DEF BlockOK
  <2>7. ASSUME NEW c \in DOMAIN d \ {0}
        PROVE  BlockOK(d2[c], own2[c]) /\ d2[c].n > 0 /\ \A k \in own2[c] : d2[c].slot[0].key <= k
    <3>1. BlockOK(d[c], own[c]) /\ d[c].n > 0 /\ \A k \in own[c] : d[c].slot[0].key <= k
      BY DEF Blocks
    <3> QED BY <1>7, <1>8, <3>1
  <2> QED BY ONLY <1>8, <2>1, <2>2, <2>3, <2>4, <2>5, <2>6, <2>7 DEF Blocks
<1>19. own2[y] = PartOf(d2, own2, <<0, 1>>) /\ own2[z] = PartOf(d2, own2, <<0, 0>>)
  <2>1. PartOf(d2, own2, <<0, 1>>) = Part(Int, d2[0], 1) /\ PartOf(d2, own2, <<0, 0>>) = Part(Int, d2[0], 0)
    BY <1>7 DEF PartOf
  <2>2. Part(Int, d2[0], 1) = {k \in Int : sk <= k}
    BY <1>9 DEF Part
  <2>3. Part(Int, d2[0], 0) = {k \in Int : s0 <= k /\ k < sk}
    BY <1>9 DEF Part
  <2> QED BY <1>6, <1>7, <2>1, <2>2, <2>3
<1>20. /\ \A j : PartOf(d2, own2, <<y, j>>) = Part(high, q, j)
       /\ \A j : PartOf(d2, own2, <<z, j>>) = Part(mid, r, j)
       /\ \A j : PartOf(d, own, <<0, j>>) = Part(Int, p, j)
  <2>1. own[0] = Int
    BY DEF Blocks
  <2> QED BY <1>1, <1>7, <1>12, <1>14, <2>1 DEF PartOf
<1>21. /\ \A j \in 0..(d[0].n - pos - 1) : PartOf(d2, own2, <<y, j>>) = PartOf(d, own, <<0, pos + j>>)
       /\ \A j \in 0..(pos - 1) : PartOf(d2, own2, <<z, j>>) = PartOf(d, own, <<0, j>>)
  BY ONLY <1>1, <1>17, <1>20
<1>22. Raised(rt, d, own, pos, y, z, d2, own2)
  BY ONLY <1>7, <1>18, <1>19, <1>21 DEF Raised
<1> QED BY <1>22 DEF own2

(* The root is divided under a new root.                                   *)
LEMMA RootDivide ==
  ASSUME NEW rt, NEW d, NEW f, NEW own, Tree(rt, d, f, own), NEW pos \in 1..(d[0].n - 1),
         NEW y, y = Size(d), NEW z, z = y + 1, NEW d2, Grown(d, pos, y, z, d2),
         NEW own2, own2 = Spread(d, own, pos, y, z)
  PROVE  Tree(rt, d2, f, own2)
<1> DEFINE T == SlotsOf(rt, d)
           T2 == SlotsOf(rt, d2)
           N == {<<0, 0>>, <<0, 1>>}
           Origin(a, j) == IF a = y THEN <<0, pos + j>> ELSE IF a = z THEN <<0, j>> ELSE <<a, j>>
           from == [s \in T2 \ N |-> Origin(s[1], s[2])]
<1> HIDE DEF T, T2, N, Origin, from
<1>1. /\ Blocks(rt, d, own) /\ Only(d, T) /\ Covered(rt, d, f, T)
      /\ \A s \in T : KidOK(d, f, own, s)
  BY DEF Tree, T
<1>2. /\ y \in Nat \ {0} /\ DOMAIN d = 0..(y - 1) /\ DirFull \in Nat /\ DirFull > 2 /\ z \in Nat /\ z # y
      /\ 0 \in DOMAIN d /\ d[0].n \in 0..DirFull /\ d[0].flag \in Nat /\ pos \in Nat /\ pos > 0
  <2>1. y \in Nat \ {0} /\ DOMAIN d = 0..(y - 1) /\ DirFull \in Nat /\ 0 \in DOMAIN d
    BY <1>1, Fulls, FileHas DEF Blocks
  <2>2. d[0].n \in 0..DirFull /\ d[0].flag \in Nat
    BY <1>1, <2>1, BlockHas
  <2> QED BY <2>1, <2>2, Fulls
<1>3. Raised(rt, d, own, pos, y, z, d2, own2)
  BY <1>1, BlocksRaise
<1>4. /\ DOMAIN d2 = 0..z
      /\ \A c \in DOMAIN d \ {0} : d2[c] = d[c] /\ own2[c] = own[c]
      /\ Blocks(rt, d2, own2)
  BY <1>3 DEF Raised, Grown
<1>5. /\ d2[0].flag = d[0].flag + 1 /\ d2[0].n = 2
      /\ d2[0].slot[0] = [key |-> d[0].slot[0].key, val |-> z]
      /\ d2[0].slot[1] = [key |-> d[0].slot[pos].key, val |-> y]
  BY DEF Grown
<1>6. /\ d2[y].flag = d[0].flag /\ d2[y].n = d[0].n - pos
      /\ \A j \in 0..(d[0].n - pos - 1) : d2[y].slot[j] = d[0].slot[pos + j]
      /\ \A j \in 0..(d[0].n - pos - 1) : PartOf(d2, own2, <<y, j>>) = PartOf(d, own, <<0, pos + j>>)
  BY <1>3 DEF Raised, Grown
<1>7. /\ d2[z].flag = d[0].flag /\ d2[z].n = pos
      /\ \A j \in 0..(pos - 1) : d2[z].slot[j] = d[0].slot[j]
      /\ \A j \in 0..(pos - 1) : PartOf(d2, own2, <<z, j>>) = PartOf(d, own, <<0, j>>)
  BY <1>3 DEF Raised, Grown
<1>8. d2[0].flag > 0 /\ 0 \in DOMAIN d2 /\ y \in DOMAIN d2 \ {0} /\ z \in DOMAIN d2 \ {0}
  BY <1>2, <1>4, <1>5
<1>9. <<0, 0>> \in T2 /\ <<0, 1>> \in T2
  <2>1. 0 \in -1..(DirFull - 1) /\ 1 \in -1..(DirFull - 1) /\ 0 < d2[0].n /\ 1 < d2[0].n
    BY <1>2, <1>5
  <2> QED BY <1>8, <2>1, SlotIn DEF T2
<1>10. ASSUME NEW a, NEW j, <<a, j>> \in T2
       PROVE  /\ a \in DOMAIN d2 /\ j \in Nat /\ j \in 0..(DirFull - 1) /\ j < d2[a].n
              /\ (a = 0 => <<a, j>> \in N)
  <2>1. <<a, j>> \in SlotsOf(rt, d2)
    BY <1>10 DEF T2
  <2>2. a \in DOMAIN d2 /\ j \in -1..(DirFull - 1) /\ j < d2[a].n /\ (j = -1 => a = 0 /\ d2[0].flag = 0)
    BY ONLY <2>1, PairHas
  <2>3. j # -1
    BY <1>8, <2>2
  <2>4. a = 0 => j = 0 \/ j = 1
    BY <1>2, <1>5, <2>2, <2>3
  <2> QED BY <1>2, <2>2, <2>3, <2>4 DEF N
<1>11. ASSUME NEW a, NEW j, <<a, j>> \in T2, <<a, j>> \notin N
       PROVE  /\ from[<<a, j>>] = Origin(a, j)
              /\ from[<<a, j>>] \in T
              /\ d2[a].flag = d[from[<<a, j>>][1]].flag
              /\ Child(d2, <<a, j>>) = Child(d, from[<<a, j>>])
              /\ Upper(d2, <<a, j>>) <=> Upper(d, from[<<a, j>>])
              /\ PartOf(d2, own2, <<a, j>>) = PartOf(d, own, from[<<a, j>>])
              /\ d2[a].slot[j] = d[from[<<a, j>>][1]].slot[from[<<a, j>>][2]]
  <2>1. a \in DOMAIN d2 /\ j \in Nat /\ j \in 0..(DirFull - 1) /\ j < d2[a].n /\ a # 0
    BY <1>10, <1>11
  <2>2. from[<<a, j>>] = Origin(a, j)
    <3>1. <<a, j>> \in T2 \ N
      BY <1>11
    <3> QED BY <3>1 DEF from
  <2> SUFFICES ASSUME NEW c, NEW l, Origin(a, j) = <<c, l>>
               PROVE  /\ <<c, l>> \in T /\ d2[a].flag = d[c].flag
                      /\ l \in Nat /\ d2[a].slot[j] = d[c].slot[l]
                      /\ PartOf(d2, own2, <<a, j>>) = PartOf(d, own, <<c, l>>)
    <3>1. PICK c, l : Origin(a, j) = <<c, l>>
      BY DEF Origin
    <3>2. /\ <<c, l>> \in T /\ d2[a].flag = d[c].flag
          /\ l \in Nat /\ d2[a].slot[j] = d[c].slot[l]
          /\ PartOf(d2, own2, <<a, j>>) = PartOf(d, own, <<c, l>>)
      BY <3>1
    <3>3. /\ Child(d2, <<a, j>>) = Child(d, <<c, l>>)
          /\ Upper(d2, <<a, j>>) <=> Upper(d, <<c, l>>)
      <4>1. (j < 0 <=> l < 0) /\ l \in Int /\ j \in Int
        BY <2>1, <3>2
      <4> QED BY ONLY <3>2, <4>1, ChildSame
    <3> QED BY ONLY <2>2, <3>1, <3>2, <3>3
  <2>0. <<c, l>> = IF a = y THEN <<0, pos + j>> ELSE IF a = z THEN <<0, j>> ELSE <<a, j>>
    BY DEF Origin
  <2>3. CASE a = y
    <3>1. c = 0 /\ l = pos + j /\ j \in 0..(d[0].n - pos - 1)
      <4>1. j < d[0].n - pos
        BY <1>6, <2>1, <2>3
      <4>2. j \in 0..(d[0].n - pos - 1)
        BY ONLY <1>2, <2>1, <4>1
      <4> QED BY <2>0, <2>3, <4>2
    <3>2. pos + j \in 0..(DirFull - 1) /\ pos + j < d[0].n /\ pos + j \in Nat
      BY ONLY <1>2, <2>1, <3>1
    <3>3. <<0, pos + j>> \in T
      <4>1. pos + j \in -1..(DirFull - 1) /\ pos + j # -1
        BY ONLY <1>2, <3>2
      <4> QED BY <1>2, <3>2, <4>1, SlotIn DEF T
    <3> QED BY ONLY <1>6, <2>3, <3>1, <3>2, <3>3
  <2>4. CASE a = z
    <3>1. c = 0 /\ l = j /\ j \in 0..(pos - 1)
      <4>1. j < pos
        BY <1>7, <2>1, <2>4
      <4>2. j \in 0..(pos - 1)
        BY ONLY <1>2, <2>1, <4>1
      <4> QED BY <1>2, <2>0, <2>4, <4>2
    <3>2. j \in -1..(DirFull - 1) /\ j # -1 /\ j < d[0].n
      BY <1>2, <2>1, <3>1
    <3>3. <<0, j>> \in T
      BY <1>2, <3>2, SlotIn DEF T
    <3> QED BY ONLY <1>7, <2>1, <2>4, <3>1, <3>3
  <2>5. CASE a # y /\ a # z
    <3>1. c = a /\ l = j /\ a \in DOMAIN d \ {0}
      BY <1>2, <1>4, <2>0, <2>1, <2>5
    <3>2. d2[a] = d[a] /\ PartOf(d2, own2, <<a, j>>) = PartOf(d, own, <<a, j>>)
      BY <1>4, <3>1 DEF PartOf
    <3>3. <<a, j>> \in T
      <4>1. j \in -1..(DirFull - 1) /\ j # -1 /\ j < d[a].n
        BY <2>1, <3>2
      <4> QED BY <3>1, <4>1, SlotIn DEF T
    <3> QED BY ONLY <2>1, <3>1, <3>2, <3>3
  <2> QED BY <2>3, <2>4, <2>5
<1>12. \A s \in T2 : s = <<s[1], s[2]>>
  BY SlotHas DEF T2
<1>13. ASSUME NEW s \in T2 \ N
       PROVE  /\ from[s] \in T /\ d2[s[1]].flag = d[from[s][1]].flag
              /\ Child(d2, s) = Child(d, from[s]) /\ (Upper(d2, s) <=> Upper(d, from[s]))
              /\ PartOf(d2, own2, s) = PartOf(d, own, from[s])
              /\ d2[s[1]].slot[s[2]] = d[from[s][1]].slot[from[s][2]]
  <2>1. PICK a, j : s = <<a, j>> /\ s[1] = a /\ s[2] = j
    BY <1>12
  <2>2. <<a, j>> \in T2 /\ <<a, j>> \notin N
    BY <2>1
  <2>3. /\ from[<<a, j>>] \in T
        /\ d2[a].flag = d[from[<<a, j>>][1]].flag
        /\ Child(d2, <<a, j>>) = Child(d, from[<<a, j>>])
        /\ Upper(d2, <<a, j>>) <=> Upper(d, from[<<a, j>>])
        /\ PartOf(d2, own2, <<a, j>>) = PartOf(d, own, from[<<a, j>>])
        /\ d2[a].slot[j] = d[from[<<a, j>>][1]].slot[from[<<a, j>>][2]]
    BY ONLY <1>11, <2>2
  <2> QED BY ONLY <2>1, <2>3
<1>14. /\ Child(d2, <<0, 0>>) = z /\ Upper(d2, <<0, 0>>)
       /\ Child(d2, <<0, 1>>) = y /\ Upper(d2, <<0, 1>>)
  BY <1>5, <1>8 DEF Child, ChildAt, Upper
<1>15. ASSUME NEW s \in T2 PROVE KidOK(d2, f, own2, s)
  <2>1. d2[0].flag - 1 = d[0].flag
    BY <1>2, <1>5
  <2>2. own2[y] = PartOf(d2, own2, <<0, 1>>) /\ own2[z] = PartOf(d2, own2, <<0, 0>>)
    BY <1>3 DEF Raised
  <2>3. CASE s = <<0, 0>>
    <3>1. d2[z].slot[0].key = d2[0].slot[0].key
      <4>1. 0 \in 0..(pos - 1)
        BY <1>2
      <4> QED BY <1>5, <1>7, <4>1
    <3> QED BY ONLY <1>7, <1>8, <1>14, <2>1, <2>2, <2>3, <3>1 DEF KidOK
  <2>4. CASE s = <<0, 1>>
    <3>1. d2[y].slot[0].key = d2[0].slot[1].key
      <4>1. 0 \in 0..(d[0].n - pos - 1) /\ pos + 0 = pos
        BY <1>2
      <4>2. d2[y].slot[0] = d[0].slot[pos + 0]
        BY ONLY <1>6, <4>1
      <4> QED BY <1>5, <4>1, <4>2
    <3> QED BY ONLY <1>6, <1>8, <1>14, <2>1, <2>2, <2>4, <3>1 DEF KidOK
  <2>5. CASE s \notin N
    <3>1. PICK t : t = from[s]
      OBVIOUS
    <3>2. /\ t \in T /\ d2[s[1]].flag = d[t[1]].flag /\ Child(d2, s) = Child(d, t)
          /\ PartOf(d2, own2, s) = PartOf(d, own, t)
          /\ d2[s[1]].slot[s[2]] = d[t[1]].slot[t[2]]
      BY <1>13, <2>5, <3>1
    <3>3. KidOK(d, f, own, t)
      BY <1>1, <3>2
    <3>4. Upper(d, t) => Child(d, t) \in DOMAIN d \ {0} /\ Child(d, t) \in DOMAIN d2
      BY <1>2, <1>4, <3>3 DEF KidOK
    <3>5. Upper(d, t) => /\ d2[s[1]].slot[s[2]].key = d[t[1]].slot[t[2]].key
                         /\ Child(d, t) \in DOMAIN d2
                         /\ d2[Child(d, t)].flag = d[Child(d, t)].flag
                         /\ d2[Child(d, t)].slot[0].key = d[Child(d, t)].slot[0].key
                         /\ own2[Child(d, t)] = own[Child(d, t)]
      BY ONLY <1>4, <3>2, <3>4
    <3>6. ~Upper(d, t) => Child(d, t) \in Heads(f) /\ f[Child(d, t)] = f[Child(d, t)]
      BY <3>3 DEF KidOK
    <3> QED BY ONLY <3>2, <3>3, <3>5, <3>6, KidStays
  <2> QED BY <2>3, <2>4, <2>5 DEF N
<1>16. Only(d2, T2)
  <2>1. from \in [T2 \ N -> T]
    <3>1. from = [s \in T2 \ N |-> from[s]]
      BY DEF from
    <3> QED BY <1>13, <3>1
  <2>2. ASSUME NEW s \in T2 \ N, NEW t \in T2 \ N, from[s] = from[t] PROVE s = t
    <3>1. PICK a, j : s = <<a, j>>
      BY <1>12
    <3>2. PICK a2, j2 : t = <<a2, j2>>
      BY <1>12
    <3>3. <<a, j>> \in T2 /\ <<a, j>> \notin N /\ <<a2, j2>> \in T2 /\ <<a2, j2>> \notin N
      BY <3>1, <3>2
    <3>4. (IF a = y THEN <<0, pos + j>> ELSE IF a = z THEN <<0, j>> ELSE <<a, j>>)
           = (IF a2 = y THEN <<0, pos + j2>> ELSE IF a2 = z THEN <<0, j2>> ELSE <<a2, j2>>)
      <4>1. from[<<a, j>>] = Origin(a, j) /\ from[<<a2, j2>>] = Origin(a2, j2)
        BY ONLY <1>11, <3>3
      <4>2. Origin(a, j) = Origin(a2, j2)
        BY ONLY <4>1, <2>2, <3>1, <3>2
      <4> QED BY ONLY <4>2 DEF Origin
    <3>5. a # 0 /\ a2 # 0 /\ j \in Nat /\ j2 \in Nat
      BY <1>10, <3>3
    <3>6. (a = z => j < pos) /\ (a2 = z => j2 < pos)
      BY <1>7, <1>10, <3>3
    <3> QED BY ONLY <3>1, <3>2, <3>4, <3>5, <3>6, <1>2
  <2>3. \A s \in T : Child(d, s) \in (IF Upper(d, s) THEN DOMAIN d ELSE DOMAIN f)
    BY <1>1 DEF KidOK, Heads
  <2>4. Moves(d, f, d2, T, T2, N, from)
    <3>1. y \notin DOMAIN d /\ z \notin DOMAIN d /\ y # z
      BY <1>2
    <3>2. \A s \in N : Child(d2, s) \notin (IF Upper(d2, s) THEN DOMAIN d ELSE DOMAIN f)
      BY ONLY <1>14, <3>1 DEF N
    <3>3. \A s, t \in N : Child(d2, s) = Child(d2, t) => s = t
      BY ONLY <1>14, <3>1 DEF N
    <3>4. \A s \in T2 \ N : (Upper(d2, s) <=> Upper(d, from[s])) /\ Child(d2, s) = Child(d, from[s])
      BY ONLY <1>13
    <3>5. \A s, t \in T2 \ N : from[s] = from[t] => s = t
      BY <2>2
    <3>6. Only(d, T)
      BY ONLY <1>1
    <3> QED BY ONLY <2>1, <2>3, <3>2, <3>3, <3>4, <3>5, <3>6 DEF Moves
  <2> QED BY ONLY <2>4, OnlyStays
<1>17. ASSUME NEW s \in T, s # <<0, -1>> PROVE \E t \in T2 \ N : from[t] = s
  <2>1. PICK a, j : /\ s = <<a, j>> /\ a \in DOMAIN d /\ j \in -1..(DirFull - 1) /\ j < d[a].n
                    /\ (j = -1 => a = 0)
    BY SlotHas DEF T
  <2>2. j # -1 /\ j \in Nat
    BY <1>2, <1>17, <2>1
  <2>3. ASSUME NEW c \in DOMAIN d2 \ {0}, NEW l \in Nat, l < d2[c].n, l \in -1..(DirFull - 1), Origin(c, l) = <<a, j>>
        PROVE  \E t \in T2 \ N : from[t] = s
    <3>1. <<c, l>> \in T2 /\ <<c, l>> \notin N
      <4>1. l # -1
        BY <2>3
      <4> QED BY <2>3, <4>1, SlotIn DEF T2, N
    <3>2. from[<<c, l>>] = Origin(c, l)
      BY ONLY <1>11, <3>1
    <3> QED BY <2>1, <2>3, <3>1, <3>2
  <2>4. CASE a = 0 /\ j >= pos
    <3>1. j - pos \in Nat /\ j - pos < d2[y].n /\ j - pos \in -1..(DirFull - 1)
      <4>1. j < d[0].n
        BY <2>1, <2>4
      <4> QED BY <1>2, <1>6, <2>1, <2>2, <2>4, <4>1
    <3>2. Origin(y, j - pos) = <<a, j>>
      BY <1>2, <2>2, <2>4 DEF Origin
    <3> QED BY <1>8, <2>3, <3>1, <3>2
  <2>5. CASE a = 0 /\ j < pos
    <3>1. Origin(z, j) = <<a, j>> /\ j < d2[z].n
      BY <1>2, <1>7, <2>5 DEF Origin
    <3> QED BY <1>8, <2>1, <2>2, <2>3, <3>1
  <2>6. CASE a # 0
    <3>1. Origin(a, j) = <<a, j>> /\ a \in DOMAIN d2 \ {0} /\ j < d2[a].n
      BY <1>2, <1>4, <2>1, <2>6 DEF Origin
    <3> QED BY <2>1, <2>2, <2>3, <3>1
  <2> QED BY <1>2, <2>2, <2>4, <2>5, <2>6
<1>18. Covered(rt, d2, f, T2)
  <2>1. ASSUME NEW c \in DOMAIN d2 \ {0} PROVE \E s \in T2 : Upper(d2, s) /\ Child(d2, s) = c
    <3>1. CASE c = y \/ c = z
      BY <1>9, <1>14, <3>1
    <3>2. CASE c # y /\ c # z
      <4>1. c \in DOMAIN d \ {0}
        BY <1>2, <1>4, <3>2
      <4>2. PICK s \in T : Upper(d, s) /\ Child(d, s) = c
        BY <1>1, <4>1 DEF Covered
      <4>3. s # <<0, -1>>
        <5>1. <<0, -1>> \in T => d[0].flag = 0
          BY PairHas DEF T
        <5> QED BY <4>2, <5>1 DEF Upper
      <4>4. PICK t \in T2 \ N : from[t] = s
        BY <1>17, <4>3
      <4> QED BY <1>13, <4>2, <4>4
    <3> QED BY <3>1, <3>2
  <2>2. ASSUME NEW c \in Heads(f)
        PROVE  \/ \E s \in T2 : ~Upper(d2, s) /\ Child(d2, s) = c
               \/ c = 0 /\ Lost(rt, d2, f)
    <3>1. CASE \E s \in T : ~Upper(d, s) /\ Child(d, s) = c
      <4>1. PICK s \in T : ~Upper(d, s) /\ Child(d, s) = c
        BY <3>1
      <4>2. CASE s = <<0, -1>>
        <5>1. d[0].flag = 0 /\ ~rt
          BY <4>1, <4>2, PairHas DEF T
        <5>2. c = 0
          BY <4>1, <4>2, <5>1 DEF Child, ChildAt
        <5>3. LeafOK(f[0], PartOf(d, own, s))
          BY <1>1, <4>1, <5>2 DEF KidOK
        <5>4. PartOf(d, own, s) = {k \in Int : k < d2[0].slot[0].key}
          <6>1. own[0] = Int /\ 0 < d[0].n /\ d2[0].slot[0].key = d[0].slot[0].key /\ -1 + 1 = 0
            BY <1>1, <1>2, <1>5 DEF Blocks
          <6>2. PartOf(d, own, s) = Part(Int, d[0], -1)
            BY <4>2, <6>1 DEF PartOf
          <6>3. Part(Int, d[0], -1) = {k \in Int : k < d[0].slot[0].key}
            BY ONLY <6>1 DEF Part
          <6> QED BY <6>1, <6>2, <6>3
        <5> QED BY <1>8, <5>1, <5>2, <5>3, <5>4 DEF Lost
      <4>3. CASE s # <<0, -1>>
        <5>1. PICK t \in T2 \ N : from[t] = s
          BY <1>17, <4>3
        <5> QED BY <1>13, <4>1, <5>1
      <4> QED BY <4>2, <4>3
    <3>2. CASE c = 0 /\ Lost(rt, d, f)
      BY <1>5, <1>8, <3>2 DEF Lost
    <3> QED BY <1>1, <3>1, <3>2 DEF Covered
  <2> QED BY <2>1, <2>2 DEF Covered
<1>19. LeavesOK(f)
  BY DEF Tree
<1> QED BY <1>4, <1>15, <1>16, <1>18, <1>19 DEF Tree, T2

-----------------------------------------------------------------------------
(* The search *)

(* The block below another one on the way down.                            *)
LEMMA DownIs ==
  ASSUME NEW d \in Files(DirFull), Room(d), \A c \in DOMAIN d : d[c].n \in Nat,
         NEW b \in Int, NEW k \in Int
  PROVE  Down(d, b, k) \in Int
<1>1. DirFull \in Nat /\ DirFull > 2
  BY Fulls
<1>2. PICK p : p = DirPage(d, b)
  OBVIOUS
<1>3. CASE b \notin DOMAIN d
  <2>1. p.flag = 0
    BY <1>2, <1>3 DEF DirPage, NewPage
  <2> QED BY <1>2, <2>1 DEF Down
<1>4. CASE b \in DOMAIN d
  <2>1. p = d[b] /\ p \in Pages(DirFull) /\ p.n \in 0..(DirFull - 1)
    <3>1. p = d[b]
      BY <1>2, <1>4 DEF DirPage
    <3>2. d[b] \in Pages(DirFull)
      BY <1>1, <1>4, FileHas
    <3>3. d[b].n \in Nat /\ d[b].n < DirFull
      BY <1>4 DEF Room
    <3> QED BY <1>1, <3>1, <3>2, <3>3
  <2>2. SlotBefore(p, k) \in -1..(p.n - 1)
    BY <1>1, <2>1, SlotBeforeIs
  <2>3. PICK s : s = ChildSlot(p, k)
    OBVIOUS
  <2>4. s \in -1..(DirFull - 1)
    <3>1. s = SlotBefore(p, k) \/ s = SlotBefore(p, k) + 1
      BY <2>3 DEF ChildSlot
    <3> QED BY <1>1, <2>1, <2>2, <3>1
  <2>5. ChildAt(p, s) \in Int
    <3>1. p.flag \in Int
      BY <2>1 DEF Pages
    <3>2. s >= 0 => p.slot[s].val \in Nat
      <4>1. s >= 0 => s \in 0..(DirFull - 1)
        BY <1>1, <2>4
      <4> QED BY <1>1, <2>1, <4>1, KeyIsInt
    <3>3. s < 0 \/ s >= 0
      BY <1>1, <2>4
    <3> QED BY <3>1, <3>2, <3>3 DEF ChildAt
  <2> QED BY <1>2, <2>3, <2>5 DEF Down, FindChild
<1> QED BY <1>3, <1>4

(* The path goes down from the root.                                       *)
LEMMA PathIs ==
  ASSUME NEW d \in Files(DirFull), Room(d), \A c \in DOMAIN d : d[c].n \in Nat,
         NEW k \in Int, NEW n, n = Size(d), NEW b, b = Path(d, k)
  PROVE  /\ n \in Nat /\ b \in [0..n -> Int] /\ b[0] = 0
         /\ \A i \in 1..n : b[i] = Down(d, b[i - 1], k)
<1> DEFINE Eq(g) == g = [i \in 0..n |-> IF i = 0 THEN 0 ELSE Down(d, g[i - 1], k)]
<1>1. n \in Nat
  BY FileHas, Fulls
<1>2. b = CHOOSE g : Eq(g)
  BY DEF Path, Size
<1>3. PICK g \in [0..n -> Int] : g[0] = 0 /\ \A i \in 1..n : g[i] = Down(d, g[i - 1], k)
  <2> DEFINE step == [p \in Nat \X Int |-> Down(d, p[2], k)]
  <2>1. step \in StepRules(Int)
    <3>1. \A p \in Nat \X Int : p[2] \in Int
      OBVIOUS
    <3>2. \A p \in Nat \X Int : Down(d, p[2], k) \in Int
      BY <3>1, DownIs
    <3> QED BY <3>2 DEF StepRules
  <2>2. PICK base \in Int : base = 0
    OBVIOUS
  <2>3. PICK g : g \in Recursions(Int, base, step, n)
    <3> HIDE DEF step
    <3>1. PICK X : X = Int
      OBVIOUS
    <3>2. step \in StepRules(X) /\ base \in X
      BY <2>1, <3>1
    <3>3. Recursions(X, base, step, n) # {}
      BY ONLY <1>1, <3>2, RecursionExists
    <3> QED BY <3>1, <3>3
  <2>4. g \in [0..n -> Int] /\ g[0] = 0 /\ \A i \in 1..n : g[i] = step[<<i, g[i - 1]>>]
    <3> HIDE DEF step
    <3> QED BY <2>2, <2>3 DEF Recursions
  <2>5. ASSUME NEW i \in 1..n PROVE g[i] = Down(d, g[i - 1], k)
    <3>1. i - 1 \in 0..n /\ i \in Nat
      BY <1>1
    <3>2. PICK c \in Int : c = g[i - 1]
      BY <2>4, <3>1
    <3>3. step[<<i, c>>] = Down(d, c, k)
      <4>1. <<i, c>> \in Nat \X Int /\ <<i, c>>[2] = c
        BY <3>1
      <4> QED BY <4>1
    <3> QED BY ONLY <2>4, <3>2, <3>3, i \in 1..n
  <2> QED BY <2>4, <2>5
<1>4. Eq(g)
  <2>1. \A i \in 0..n : g[i] = IF i = 0 THEN 0 ELSE Down(d, g[i - 1], k)
    <3>1. \A i \in 0..n : i = 0 \/ i \in 1..n
      BY <1>1
    <3> QED BY <1>3, <3>1
  <2>2. g = [i \in 0..n |-> g[i]]
    OBVIOUS
  <2> QED BY <2>1, <2>2
<1>5. Eq(b)
  <2> HIDE DEF Eq
  <2> QED BY <1>2, <1>4
<1>6. \A i \in 0..n : b[i] = IF i = 0 THEN 0 ELSE Down(d, b[i - 1], k)
  <2>1. PICK h : h = [i \in 0..n |-> IF i = 0 THEN 0 ELSE Down(d, b[i - 1], k)]
    OBVIOUS
  <2>2. \A i \in 0..n : h[i] = IF i = 0 THEN 0 ELSE Down(d, b[i - 1], k)
    BY ONLY <2>1
  <2>3. b = h
    BY ONLY <1>5, <2>1 DEF Eq
  <2> QED BY ONLY <2>2, <2>3
<1>7. DOMAIN b = 0..n /\ b = [i \in 0..n |-> b[i]]
  <2>1. PICK h : h = [i \in 0..n |-> IF i = 0 THEN 0 ELSE Down(d, b[i - 1], k)]
    OBVIOUS
  <2>2. b = h
    BY ONLY <1>5, <2>1 DEF Eq
  <2>3. DOMAIN h = 0..n /\ h = [i \in 0..n |-> h[i]]
    BY ONLY <2>1
  <2> QED BY ONLY <2>2, <2>3
<1>8. b[0] = 0 /\ \A i \in 1..n : b[i] = Down(d, b[i - 1], k)
  <2>1. 0 \in 0..n /\ \A i \in 1..n : i \in 0..n /\ i # 0
    BY <1>1
  <2> QED BY ONLY <1>6, <2>1
<1>9. \A i \in 0..n : b[i] \in Int
  <2> DEFINE T == {i \in Nat : i <= n => b[i] \in Int}
  <2>1. 0 \in T
    BY <1>8
  <2>2. ASSUME NEW i \in Nat, i \in T PROVE i + 1 \in T
    <3>1. CASE i + 1 <= n
      <4>1. b[i] \in Int /\ i + 1 \in 1..n /\ (i + 1) - 1 = i
        BY <1>1, <2>2, <3>1
      <4>2. b[i + 1] = Down(d, b[i], k)
        BY <1>8, <4>1
      <4> QED BY <4>1, <4>2, DownIs
    <3> QED BY <3>1
  <2>3. Nat \subseteq T
    <3> HIDE DEF T
    <3> QED BY <2>1, <2>2, SetInduction
  <2> QED BY <1>1, <2>3
<1> QED BY <1>1, <1>7, <1>8, <1>9

(* The tree with room for an entry in each block.                          *)
Roomy(rt, d, f, own) == Tree(rt, d, f, own) /\ Room(d)

(* A slot of block c whose child the search for a key of S follows.        *)
Leads(rt, d, own, c, j, S) ==
  /\ <<c, j>> \in SlotsOf(rt, d) /\ S = PartOf(d, own, <<c, j>>) /\ S \subseteq own[c]
  /\ \A u \in S : ~MisledAt(d[c], u) => FindChild(d[c], u) = Child(d, <<c, j>>)

LEMMA SlotOfKey ==
  ASSUME NEW rt, NEW d, NEW f, NEW own, Roomy(rt, d, f, own), NEW c \in DOMAIN d, NEW k \in own[c],
         ~MisledAt(d[c], k), rt /\ c = 0 => MinKey <= k
  PROVE  \E j \in Int : Leads(rt, d, own, c, j, PartOf(d, own, <<c, j>>)) /\ k \in PartOf(d, own, <<c, j>>)
<1>1. PICK p, o : p = d[c] /\ o = own[c]
  OBVIOUS
<1>2. /\ p \in Pages(DirFull) /\ p.n \in 0..(DirFull - 1) /\ p.flag \in Nat
      /\ Sorted(p) /\ o \in SUBSET Int /\ DirFull \in Nat /\ DirFull > 2 /\ k \in o
      /\ (p.n = 0 => p.flag = 0) /\ ~MisledAt(p, k) /\ k \in Int
  <2>1. Blocks(rt, d, own) /\ d[c].n < DirFull
    BY DEF Roomy, Tree, Room
  <2>2. /\ p \in Pages(DirFull) /\ p.n \in 0..DirFull /\ p.flag \in Nat
        /\ Sorted(p) /\ o \in SUBSET Int /\ (p.n = 0 => p.flag = 0)
    BY <1>1, <2>1, BlockHas
  <2> QED BY <1>1, <2>1, <2>2, Fulls
<1>3. PICK j \in -1..(p.n - 1) : k \in Part(o, p, j)
  BY ONLY <1>2, PartExists
<1>4. ASSUME NEW u \in Part(o, p, j), ~MisledAt(p, u)
      PROVE  FindChild(p, u) = ChildAt(p, j) /\ (j = -1 /\ p.n > 0 => p.flag <= 0)
  BY ONLY <1>2, <1>3, <1>4, ChildIs
<1>5. j = -1 => p.flag = 0
  <2>1. j = -1 /\ p.n > 0 => p.flag <= 0
    BY <1>2, <1>3, <1>4
  <2> QED BY <1>2, <2>1
<1>6. j = -1 => c = 0 /\ ~rt
  <2> SUFFICES ASSUME j = -1 PROVE c = 0 /\ ~rt
    OBVIOUS
  <2>1. p.n > 0 => p.slot[0].key > k
    <3>1. p.n > 0 => j + 1 < p.n /\ j + 1 = 0
      BY <1>3
    <3>2. p.n > 0 => p.slot[0].key \in Int
      BY <1>2, KeyIsInt
    <3> QED BY <1>2, <1>3, <3>1, <3>2 DEF Part
  <2>2. p.n > 0 => p.slot[0].key \in Int /\ ~(p.slot[0].key <= k)
    <3>1. p.n > 0 => p.slot[0].key \in Int
      BY <1>2, KeyIsInt
    <3> QED BY <1>2, <2>1, <3>1
  <2>3. c = 0
    BY <1>1, <1>2, <2>2 DEF Roomy, Tree, Blocks
  <2>4. rt => p.n > 0 /\ p.slot[0].key = MinKey
    BY <1>1, <2>3 DEF Roomy, Tree, Blocks
  <2> QED BY <2>2, <2>3, <2>4
<1>7. <<c, j>> \in SlotsOf(rt, d)
  <2>1. j \in -1..(DirFull - 1) /\ j < d[c].n
    BY <1>1, <1>2, <1>3
  <2> QED BY <1>1, <1>5, <1>6, <2>1, SlotIn
<1>8. PartOf(d, own, <<c, j>>) = Part(o, p, j) /\ Child(d, <<c, j>>) = ChildAt(p, j)
  BY <1>1 DEF PartOf, Child
<1>9. Part(o, p, j) \subseteq o
  BY DEF Part
<1>10. Leads(rt, d, own, c, j, Part(o, p, j))
  BY <1>1, <1>4, <1>7, <1>8, <1>9 DEF Leads
<1> QED BY <1>3, <1>8, <1>10

(* A block that is not at level 0 leads to a block with its keys.          *)
Step(rt, d, own, c, c2, k) ==
  \E j \in Int : /\ <<c, j>> \in SlotsOf(rt, d) /\ d[c].flag > 0 /\ Child(d, <<c, j>>) = c2
                 /\ c2 \in DOMAIN d \ {0} /\ d[c2].flag = d[c].flag - 1
                 /\ k \in own[c2] /\ own[c2] \subseteq own[c]
                 /\ \A u \in own[c2] : ~MisledAt(d[c], u) => Down(d, c, u) = c2

LEMMA StepDown ==
  ASSUME NEW rt, NEW d, NEW f, NEW own, Roomy(rt, d, f, own), NEW c \in DOMAIN d, NEW k \in own[c],
         ~MisledAt(d[c], k), d[c].flag > 0
  PROVE  Step(rt, d, own, c, Down(d, c, k), k)
<1>1. rt /\ c = 0 => MinKey <= k
  <2>1. SUFFICES ASSUME rt, c = 0 PROVE MinKey <= k
    OBVIOUS
  <2>2. /\ d[0].n > 0 /\ d[0].slot[0].key = MinKey /\ own[0] = Int
        /\ d[0] \in Pages(DirFull) /\ d[0].n \in 0..(DirFull - 1) /\ DirFull \in Nat
    <3>1. Blocks(rt, d, own) /\ d[0].n < DirFull /\ 0 \in DOMAIN d
      BY <2>1 DEF Roomy, Tree, Room
    <3>2. d[0] \in Pages(DirFull) /\ d[0].n \in 0..DirFull
      BY <3>1, BlockHas
    <3> QED BY <2>1, <3>1, <3>2, Fulls DEF Blocks
  <2>3. k \in Int /\ MinKey \in Int
    BY <2>1, <2>2, Fulls
  <2>4. CASE k < MinKey
    <3>1. SlotBefore(d[0], k) = -1
      <4>1. SlotBefore(d[0], k) \in -1..(d[0].n - 1) /\ \A i \in 0..SlotBefore(d[0], k) : d[0].slot[i].key < k
        BY <2>2, <2>3, SlotBeforeIs
      <4>2. 0 \notin 0..SlotBefore(d[0], k)
        BY <2>2, <2>3, <2>4, <4>1
      <4> QED BY <2>2, <4>1, <4>2
    <3>2. ChildSlot(d[0], k) = -1
      <4>1. -1 + 1 = 0
        OBVIOUS
      <4> QED BY <2>2, <2>3, <2>4, <3>1, <4>1 DEF ChildSlot
    <3>3. MisledAt(d[0], k)
      BY <2>1, <3>2 DEF MisledAt
    <3> QED BY <2>1, <3>3
  <2> QED BY <2>3, <2>4
<1>2. PICK j \in Int : Leads(rt, d, own, c, j, PartOf(d, own, <<c, j>>)) /\ k \in PartOf(d, own, <<c, j>>)
  BY <1>1, SlotOfKey
<1>3. PICK c2 : c2 = Child(d, <<c, j>>)
  OBVIOUS
<1>4. <<c, j>> \in SlotsOf(rt, d) /\ Upper(d, <<c, j>>)
  BY <1>2 DEF Leads, Upper
<1>5. c2 \in DOMAIN d \ {0} /\ d[c2].flag = d[c].flag - 1 /\ own[c2] = PartOf(d, own, <<c, j>>)
  <2>1. KidOK(d, f, own, <<c, j>>)
    BY <1>4 DEF Roomy, Tree
  <2> QED BY <1>3, <1>4, <2>1 DEF KidOK
<1>6. \A u : Down(d, c, u) = FindChild(d[c], u)
  BY DEF Down, DirPage
<1>7. Down(d, c, k) = c2 /\ \A u \in own[c2] : ~MisledAt(d[c], u) => Down(d, c, u) = c2
  BY <1>2, <1>3, <1>5, <1>6 DEF Leads
<1>8. k \in own[c2] /\ own[c2] \subseteq own[c]
  BY <1>2, <1>5 DEF Leads
<1>9. Step(rt, d, own, c, c2, k)
  BY <1>3, <1>4, <1>5, <1>7, <1>8 DEF Step
<1> QED BY <1>7, <1>9

(* The blocks on the way to a key have it.                                 *)
Walk(rt, d, own, n, b, k) ==
  /\ n \in Nat /\ n = Size(d) /\ b \in [0..n -> DOMAIN d] /\ b[0] = 0 /\ d[b[n]].flag = 0
  /\ \A i \in 0..n : k \in own[b[i]] /\ ~MisledAt(d[b[i]], k)
  /\ \A i \in 1..n : b[i] = b[i - 1] \/ Step(rt, d, own, b[i - 1], b[i], k)
  /\ \A i \in 1..n : b[i] = Down(d, b[i - 1], k)

LEMMA WalkIs ==
  ASSUME NEW rt, NEW d, NEW f, NEW own, Roomy(rt, d, f, own), NEW k \in Int,
         ~Misled(d, k), Ends(d, k)
  PROVE  Walk(rt, d, own, Size(d), Path(d, k), k)
<1>1. PICK n, b : n = Size(d) /\ b = Path(d, k)
  OBVIOUS
<1>2. Blocks(rt, d, own) /\ Room(d) /\ d \in Files(DirFull) /\ own[0] = Int /\ 0 \in DOMAIN d
  <2>1. Blocks(rt, d, own) /\ Room(d) /\ d \in Files(DirFull) /\ own[0] = Int
    BY DEF Roomy, Tree, Blocks
  <2>2. 0 \in DOMAIN d
    BY <2>1, Fulls, FileHas
  <2> QED BY <2>1, <2>2
<1>3. \A c \in DOMAIN d : d[c].n \in Nat /\ d[c].flag \in Nat
  <2>1. \A c \in DOMAIN d : d[c].n \in 0..DirFull /\ d[c].flag \in Nat
    BY <1>2, BlockHas
  <2> QED BY <2>1, Fulls
<1>4. /\ n \in Nat /\ b \in [0..n -> Int] /\ b[0] = 0
      /\ \A i \in 1..n : b[i] = Down(d, b[i - 1], k)
  BY <1>1, <1>2, <1>3, PathIs
<1>5. \A i \in 0..n : ~MisledAt(DirPage(d, b[i]), k)
  BY <1>1, <1>4 DEF Misled
<1>6. \A c \in DOMAIN d : DirPage(d, c) = d[c]
  BY DEF DirPage
<1>7. \A i \in 0..n : b[i] \in DOMAIN d /\ k \in own[b[i]]
  <2> DEFINE T == {i \in Nat : i <= n => b[i] \in DOMAIN d /\ k \in own[b[i]]}
  <2>1. 0 \in T
    BY <1>2, <1>4
  <2>2. ASSUME NEW i \in Nat, i \in T PROVE i + 1 \in T
    <3>1. CASE i + 1 <= n
      <4>1. i \in 0..n /\ i + 1 \in 1..n /\ (i + 1) - 1 = i /\ b[i] \in DOMAIN d /\ k \in own[b[i]]
        BY <1>4, <2>2, <3>1
      <4>2. b[i + 1] = Down(d, b[i], k) /\ ~MisledAt(d[b[i]], k)
        BY <1>4, <1>5, <1>6, <4>1
      <4>3. CASE d[b[i]].flag > 0
        <5>1. Step(rt, d, own, b[i], Down(d, b[i], k), k)
          BY <4>1, <4>2, <4>3, StepDown
        <5>2. Down(d, b[i], k) \in DOMAIN d /\ k \in own[Down(d, b[i], k)]
          BY <5>1 DEF Step
        <5> QED BY <4>2, <5>2
      <4>4. CASE ~(d[b[i]].flag > 0)
        <5>1. Down(d, b[i], k) = b[i]
          BY <1>6, <4>1, <4>4 DEF Down
        <5> QED BY <4>1, <4>2, <5>1
      <4> QED BY <4>3, <4>4
    <3> QED BY <3>1
  <2>3. Nat \subseteq T
    <3> HIDE DEF T
    <3> QED BY <2>1, <2>2, SetInduction
  <2>4. \A i \in 0..n : i \in Nat /\ i <= n
    BY <1>4
  <2> QED BY <2>3, <2>4
<1>8. \A i \in 0..n : ~MisledAt(d[b[i]], k)
  BY <1>5, <1>6, <1>7
<1>9. ASSUME NEW i \in 1..n PROVE b[i] = b[i - 1] \/ Step(rt, d, own, b[i - 1], b[i], k)
  <2>1. i - 1 \in 0..n /\ b[i] = Down(d, b[i - 1], k)
    BY <1>4
  <2>2. PICK c \in DOMAIN d : c = b[i - 1] /\ k \in own[c] /\ ~MisledAt(d[c], k)
    BY <1>7, <1>8, <2>1
  <2>3. CASE d[c].flag > 0
    BY <2>1, <2>2, <2>3, StepDown
  <2>4. CASE ~(d[c].flag > 0)
    <3>1. Down(d, c, k) = c
      BY <1>6, <2>4 DEF Down
    <3> QED BY <2>1, <2>2, <3>1
  <2> QED BY <2>3, <2>4
<1>10. d[b[n]].flag = 0
  <2>1. n \in 0..n
    BY <1>4
  <2>2. Bottom(d, k) = b[n]
    BY <1>1 DEF Bottom, Size
  <2>3. d[b[n]].flag <= 0 /\ d[b[n]].flag \in Nat
    BY <1>3, <1>6, <1>7, <2>1, <2>2 DEF Ends
  <2> QED BY <2>3
<1>11. b \in [0..n -> DOMAIN d]
  BY <1>4, <1>7
<1>12. Walk(rt, d, own, n, b, k)
  BY ONLY <1>1, <1>4, <1>7, <1>8, <1>9, <1>10, <1>11 DEF Walk
<1> QED BY ONLY <1>1, <1>12

(* The search ends at the slot of level 0 that the key belongs to.         *)
Found(rt, d, own, k, c, j) ==
  /\ Leads(rt, d, own, c, j, PartOf(d, own, <<c, j>>)) /\ k \in PartOf(d, own, <<c, j>>)
  /\ d[c].flag = 0 /\ Search(d, k) = Child(d, <<c, j>>)

LEMMA SearchIs ==
  ASSUME NEW rt, NEW d, NEW f, NEW own, Roomy(rt, d, f, own), NEW k \in Int, rt => MinKey <= k,
         NEW n, NEW b, n = Size(d), b = Path(d, k), Walk(rt, d, own, n, b, k)
  PROVE  \E j \in Int : Found(rt, d, own, k, b[n], j)
<1>1. n \in Nat /\ n \in 0..n /\ b[n] \in DOMAIN d /\ k \in own[b[n]] /\ ~MisledAt(d[b[n]], k) /\ d[b[n]].flag = 0
  BY DEF Walk
<1>2. PICK j \in Int : /\ Leads(rt, d, own, b[n], j, PartOf(d, own, <<b[n], j>>))
                       /\ k \in PartOf(d, own, <<b[n], j>>)
  BY <1>1, SlotOfKey
<1>3. Search(d, k) = FindChild(d[b[n]], k)
  <2>1. Bottom(d, k) = b[n]
    BY DEF Bottom, Size
  <2> QED BY <1>1, <2>1 DEF Search, DirPage
<1>4. FindChild(d[b[n]], k) = Child(d, <<b[n], j>>)
  BY <1>1, <1>2 DEF Leads
<1> QED BY <1>1, <1>2, <1>3, <1>4 DEF Found

(* The search for another key of the block of level 0 goes the same way.   *)
LEMMA SameWalk ==
  ASSUME NEW rt, NEW d, NEW f, NEW own, Roomy(rt, d, f, own), NEW k \in Int,
         NEW n, NEW b, Walk(rt, d, own, n, b, k),
         NEW u \in own[b[n]], u \in Int, NEW b2, Walk(rt, d, own, n, b2, u)
  PROVE  b2 = b
<1>1. /\ n \in Nat /\ b \in [0..n -> DOMAIN d] /\ b[0] = 0
      /\ \A i \in 1..n : b[i] = b[i - 1] \/ Step(rt, d, own, b[i - 1], b[i], k)
      /\ \A i \in 1..n : b[i] = Down(d, b[i - 1], k)
  BY DEF Walk
<1>2. /\ b2 \in [0..n -> DOMAIN d] /\ b2[0] = 0
      /\ \A i \in 0..n : ~MisledAt(d[b2[i]], u)
      /\ \A i \in 1..n : b2[i] = Down(d, b2[i - 1], u)
  BY DEF Walk
<1>3. \A i \in 0..n : u \in own[b[i]]
  <2> DEFINE T == {i \in Nat : i <= n => u \in own[b[n - i]]}
  <2>1. 0 \in T
    <3>1. n - 0 = n
      BY <1>1
    <3> QED BY <3>1
  <2>2. ASSUME NEW i \in Nat, i \in T PROVE i + 1 \in T
    <3>1. CASE i + 1 <= n
      <4>1. n - i \in 1..n /\ (n - i) - 1 = n - (i + 1) /\ u \in own[b[n - i]]
        BY <1>1, <2>2, <3>1
      <4>2. PICK m : m = n - i
        OBVIOUS
      <4>3. own[b[m]] \subseteq own[b[m - 1]]
        <5>1. b[m] = b[m - 1] \/ Step(rt, d, own, b[m - 1], b[m], k)
          BY <1>1, <4>1, <4>2
        <5> QED BY <5>1 DEF Step
      <4> QED BY <4>1, <4>2, <4>3
    <3> QED BY <3>1
  <2>3. Nat \subseteq T
    <3> HIDE DEF T
    <3> QED BY <2>1, <2>2, SetInduction
  <2>4. ASSUME NEW i \in 0..n PROVE u \in own[b[i]]
    <3>1. n - i \in Nat /\ n - i <= n /\ n - (n - i) = i
      BY <1>1
    <3>2. n - i \in T
      BY <2>3, <3>1
    <3> QED BY <3>1, <3>2
  <2> QED BY <2>4
<1>4. \A i \in 0..n : b2[i] = b[i]
  <2> DEFINE T == {i \in Nat : i <= n => b2[i] = b[i]}
  <2>1. 0 \in T
    BY <1>1, <1>2
  <2>2. ASSUME NEW i \in Nat, i \in T PROVE i + 1 \in T
    <3>1. CASE i + 1 <= n
      <4>1. i \in 0..n /\ i + 1 \in 0..n /\ i + 1 \in 1..n /\ (i + 1) - 1 = i /\ b2[i] = b[i]
        BY <1>1, <2>2, <3>1
      <4>2. b2[i + 1] = Down(d, b[i], u) /\ b[i + 1] = Down(d, b[i], k) /\ ~MisledAt(d[b[i]], u)
        BY <1>1, <1>2, <4>1
      <4>3. b[i + 1] = b[i] \/ Step(rt, d, own, b[i], b[i + 1], k)
        BY <1>1, <4>1
      <4>4. CASE d[b[i]].flag > 0
        <5>1. CASE Step(rt, d, own, b[i], b[i + 1], k)
          <6>1. u \in own[b[i + 1]]
            BY <1>3, <4>1
          <6>2. Down(d, b[i], u) = b[i + 1]
            BY <4>2, <5>1, <6>1 DEF Step
          <6> QED BY <4>2, <6>2
        <5>2. CASE b[i + 1] = b[i]
          <6>1. Step(rt, d, own, b[i], Down(d, b[i], k), k)
            <7>1. b[i] \in DOMAIN d /\ k \in own[b[i]] /\ ~MisledAt(d[b[i]], k)
              BY <4>1 DEF Walk
            <7> QED BY <4>4, <7>1, StepDown
          <6>2. Step(rt, d, own, b[i], b[i + 1], k)
            BY <4>2, <6>1
          <6>3. u \in own[b[i + 1]]
            BY <1>3, <4>1
          <6>4. Down(d, b[i], u) = b[i + 1]
            BY <4>2, <6>2, <6>3 DEF Step
          <6> QED BY <4>2, <6>4
        <5> QED BY <4>3, <5>1, <5>2
      <4>5. CASE ~(d[b[i]].flag > 0)
        <5>1. b[i] \in DOMAIN d
          BY <1>1, <4>1
        <5>2. Down(d, b[i], u) = b[i] /\ Down(d, b[i], k) = b[i]
          BY <4>5, <5>1 DEF Down, DirPage
        <5> QED BY <4>2, <5>2
      <4> QED BY <4>4, <4>5
    <3> QED BY <3>1
  <2>3. Nat \subseteq T
    <3> HIDE DEF T
    <3> QED BY <2>1, <2>2, SetInduction
  <2>4. \A i \in 0..n : i \in Nat /\ i <= n
    BY <1>1
  <2> QED BY <2>3, <2>4
<1> QED BY <1>1, <1>2, <1>4

-----------------------------------------------------------------------------
(* The entry that a split sends up *)

(* What insertEntry makes of directory d, in whose block b the entry has    *)
(* been put: a full block is split in the middle.                          *)
Outcome(d, b, r) ==
  /\ d[b].n < DirFull => r = [dir |-> d, up |-> NoEntry]
  /\ d[b].n >= DirFull =>
       r = [dir |-> Split(d, b, d[b].n \div 2, d[b].flag),
            up |-> [key |-> d[b].slot[d[b].n \div 2].key, val |-> Size(d)]]

LEMMA EntryIs ==
  ASSUME NEW d \in Files(DirFull), NEW b \in DOMAIN d,
         NEW e, NEW i \in Int, SlotBefore(d[b], e.key) = i,
         NEW d2, d2 = [d EXCEPT ![b] = InsertAt(d[b], i + 1, e)]
  PROVE  Outcome(d2, b, InsertEntry(d, b, e))
<1>1. PICK q : q = InsertAt(d[b], i + 1, e)
  OBVIOUS
<1>2. InsertAt(d[b], 1 + SlotBefore(d[b], e.key), e) = q
  <2>1. 1 + i = i + 1
    OBVIOUS
  <2> QED BY <1>1, <2>1
<1>3. d2 = [d EXCEPT ![b] = q] /\ d2[b] = q /\ DOMAIN d2 = DOMAIN d
  <2>1. d = [c \in DOMAIN d |-> d[c]]
    BY Fulls, FileHas
  <2> QED BY <1>1, <2>1
<1>4. Size(d2) = Cardinality(DOMAIN d)
  BY <1>3 DEF Size
<1>5. InsertEntry(d, b, e) =
        IF ~IsFull(q, DirFull) THEN [dir |-> d2, up |-> NoEntry]
        ELSE [dir |-> Split(d2, b, q.n \div 2, q.flag),
              up |-> [key |-> q.slot[q.n \div 2].key, val |-> Size(d2)]]
  BY ONLY <1>2, <1>3, <1>4 DEF InsertEntry
<1>6. CASE q.n >= DirFull
  <2>1. InsertEntry(d, b, e) = [dir |-> Split(d2, b, q.n \div 2, q.flag),
                                up |-> [key |-> q.slot[q.n \div 2].key, val |-> Size(d2)]]
    BY ONLY <1>5, <1>6 DEF IsFull
  <2>2. ~(d2[b].n < DirFull) \/ ~(q.n \in Int /\ DirFull \in Int)
    BY ONLY <1>3, <1>6
  <2>3. q.n \in Int /\ DirFull \in Int
    <3>1. d[b].n \in Int
      <4>1. d[b] \in Pages(DirFull)
        BY Fulls, FileHas
      <4> QED BY <4>1 DEF Pages
    <3>2. q.n = d[b].n + 1
      <4>1. d[b] \in Pages(DirFull)
        BY Fulls, FileHas
      <4>2. d[b] = [flag |-> d[b].flag, n |-> d[b].n, slot |-> d[b].slot]
        BY <4>1 DEF Pages
      <4>3. PICK p : p = d[b] /\ p = [flag |-> p.flag, n |-> p.n, slot |-> p.slot]
        BY <4>2
      <4>4. InsertAt(p, i + 1, e).n = p.n + 1
        BY ONLY <4>3 DEF InsertAt
      <4> QED BY ONLY <1>1, <4>3, <4>4
    <3> QED BY <3>1, <3>2, Fulls
  <2> QED BY ONLY <1>3, <2>1, <2>2, <2>3 DEF Outcome
<1>7. CASE ~(q.n >= DirFull)
  <2>1. InsertEntry(d, b, e) = [dir |-> d2, up |-> NoEntry]
    BY ONLY <1>5, <1>7 DEF IsFull
  <2> QED BY ONLY <1>3, <1>7, <2>1 DEF Outcome
<1> QED BY <1>6, <1>7

(* On the way up block x has got an entry. It may be full; no other block   *)
(* is, and nothing has changed above it.                                   *)
Climbed(rt, f, d, x, r) ==
  \E d1, own1 :
    /\ Tree(rt, d1, f, own1) /\ DOMAIN d \subseteq DOMAIN d1
    /\ d1[x].flag = d[x].flag
    /\ \A c \in DOMAIN d : d[c].flag > d[x].flag => d1[c] = d[c]
    /\ \A c \in DOMAIN d1 \ {x} : d1[c].n < DirFull
    /\ Outcome(d1, x, r)

(* One step up.                                                            *)
LEMMA ClimbStep ==
  ASSUME NEW rt, NEW d, NEW f, NEW f2, NEW own, Roomy(rt, d, f, own), NEW c \in DOMAIN d, NEW k,
         NEW x \in DOMAIN d, Step(rt, d, own, c, x, k), NEW r, Climbed(rt, f2, d, x, r)
  PROVE  Climbed(rt, f2, d, c, InsertUp(r, c))
<1>1. PICK j \in Int : /\ <<c, j>> \in SlotsOf(rt, d) /\ d[c].flag > 0 /\ Child(d, <<c, j>>) = x
                       /\ x \in DOMAIN d \ {0} /\ d[x].flag = d[c].flag - 1
  BY DEF Step
<1>2. PICK d1, own1 : /\ Tree(rt, d1, f2, own1) /\ DOMAIN d \subseteq DOMAIN d1
                      /\ d1[x].flag = d[x].flag
                      /\ \A a \in DOMAIN d : d[a].flag > d[x].flag => d1[a] = d[a]
                      /\ \A a \in DOMAIN d1 \ {x} : d1[a].n < DirFull
                      /\ Outcome(d1, x, r)
  BY DEF Climbed
<1>3. \A a \in DOMAIN d : d[a].flag \in Nat
  BY BlockHas DEF Roomy, Tree
<1>4. d[c].flag > d[x].flag /\ d1[c] = d[c] /\ c # x /\ x \in DOMAIN d1 /\ c \in DOMAIN d1
      /\ \A a \in DOMAIN d : d[a].flag > d[c].flag => d[a].flag > d[x].flag /\ a # c /\ a # x
  <2>1. d[c].flag > d[x].flag
    BY <1>1, <1>3
  <2>2. \A a \in DOMAIN d : d[a].flag > d[c].flag => d[a].flag > d[x].flag /\ a # c /\ a # x
    BY <1>1, <1>3
  <2> QED BY <1>2, <2>1, <2>2
<1>5. d1[x].n \in 0..DirFull /\ DirFull \in Nat /\ DirFull > 2 /\ d1[x].flag \in Nat
      /\ d1 \in Files(DirFull) /\ d1[c].n < DirFull
      /\ \A i \in 0..(DirFull - 1) : d1[x].slot[i] \in Record /\ d1[x].slot[i].key \in Int
  <2>1. Blocks(rt, d1, own1) /\ d1 \in Files(DirFull) /\ d1[c].n < DirFull
    BY <1>2, <1>4 DEF Tree, Blocks
  <2> QED BY <1>4, <2>1, BlockHas, Fulls
<1>6. CASE d1[x].n < DirFull
  <2>1. r = [dir |-> d1, up |-> NoEntry]
    BY <1>2, <1>6 DEF Outcome
  <2>2. InsertUp(r, c) = r
    BY <2>1 DEF InsertUp
  <2>3. Outcome(d1, c, r)
    <3>1. d1[c].n \in Nat
      BY <1>2, <1>4, BlockHas DEF Tree
    <3>2. ~(d1[c].n >= DirFull)
      BY <1>5, <3>1
    <3> QED BY <2>1, <3>2 DEF Outcome
  <2>4. \A a \in DOMAIN d1 \ {c} : d1[a].n < DirFull
    BY <1>2, <1>6
  <2>5. \A a \in DOMAIN d : d[a].flag > d[c].flag => d1[a] = d[a]
    BY <1>2, <1>4
  <2>6. Climbed(rt, f2, d, c, r)
    BY <1>2, <1>4, <2>3, <2>4, <2>5 DEF Climbed
  <2> QED BY <2>2, <2>6
<1>7. CASE d1[x].n >= DirFull
  <2>1. PICK pos, y, e : pos = d1[x].n \div 2 /\ y = Size(d1) /\ e = [key |-> d1[x].slot[pos].key, val |-> y]
    OBVIOUS
  <2>2. d1[x].n = DirFull /\ pos \in 1..(d1[x].n - 1) /\ pos \in 1..(DirFull - 1)
    BY <1>5, <1>7, <2>1
  <2>3. r = [dir |-> Split(d1, x, pos, d1[x].flag), up |-> e]
    BY ONLY <1>2, <1>7, <2>1 DEF Outcome
  <2>4. y \in Nat \ {0} /\ DOMAIN d1 = 0..(y - 1)
    BY <1>5, <2>1, FileHas
  <2>5. e \in Record /\ e # NoEntry
    <3>1. d1[x].slot[pos].key \in Int
      <4>1. pos \in 0..(DirFull - 1)
        BY <1>5, <2>2
      <4> QED BY <1>5, <4>1
    <3>2. e.val = y /\ y # -1 /\ NoEntry.val = -1
      BY <2>1, <2>4 DEF NoEntry
    <3> QED BY <2>1, <2>4, <3>1, <3>2 DEF Record
  <2>6. PICK d0 : d0 = Split(d1, x, pos, d1[x].flag)
    OBVIOUS
  <2>7. /\ d0 \in Files(DirFull) /\ DOMAIN d0 = 0..y /\ d0[c] = d1[c]
    <3>1. d1[x].n \in 0..DirFull /\ pos \in 0..d1[x].n /\ d1[x].flag \in Int
      BY <1>5, <2>2
    <3>2. /\ d0 \in Files(DirFull) /\ DOMAIN d0 = 0..Size(d1)
          /\ \A a \in DOMAIN d1 \ {x} : d0[a] = d1[a]
      BY ONLY <1>4, <1>5, <2>6, <3>1, SplitIs
    <3> QED BY <1>4, <2>1, <3>2
  <2>8. PICK d2 : d2 = [d0 EXCEPT ![c] = InsertAt(d1[c], j + 1, e)]
    OBVIOUS
  <2>9. <<c, j>> \in SlotsOf(rt, d1) /\ Child(d1, <<c, j>>) = x /\ d1[c].flag > 0
    <3>1. /\ j \in -1..(DirFull - 1) /\ j < d[c].n /\ j \in Int
          /\ (j = -1 => c = 0 /\ d[0].flag = 0)
      BY <1>1, PairHas
    <3>2. j # -1
      BY <1>1, <3>1
    <3>3. <<c, j>> \in SlotsOf(rt, d1)
      BY <1>4, <3>1, <3>2, SlotIn
    <3> QED BY <1>1, <1>4, <3>3 DEF Child
  <2>10. d2 = [Split(d1, x, pos, d1[x].flag) EXCEPT ![c] = InsertAt(d1[c], j + 1, e)]
    BY <2>6, <2>8
  <2>11. /\ Tree(rt, d2, f2, Halves(d1, own1, x, pos))
         /\ SlotBefore(d1[c], e.key) = j /\ Size(d2) = Size(d1) + 1
         /\ \A a \in DOMAIN d1 \ {c, x} : d2[a] = d1[a]
         /\ d2[c].flag = d1[c].flag
         /\ d2[x].n = pos /\ d2[y].n = d1[x].n - pos
    <3>1. Tree(rt, d1, f2, own1) /\ d1[c].n < DirFull /\ x = Child(d1, <<c, j>>) /\ c \in DOMAIN d1
      BY <1>2, <1>4, <1>5, <2>9
    <3>2. j \in Int
      OBVIOUS
    <3>3. Divided(rt, d1, f2, own1, c, j, x, pos, y, e, d2)
      BY ONLY <2>1, <2>2, <2>9, <2>10, <3>1, <3>2, DirDivide
    <3> QED BY ONLY <3>3 DEF Divided
  <2>12. InsertUp(r, c) = InsertEntry(d0, c, e)
    BY ONLY <2>3, <2>5, <2>6 DEF InsertUp
  <2>13. Outcome(d2, c, InsertEntry(d0, c, e))
    <3>1. c \in DOMAIN d0 /\ SlotBefore(d0[c], e.key) = j
      BY <1>4, <2>4, <2>7, <2>11
    <3>2. d2 = [d0 EXCEPT ![c] = InsertAt(d0[c], j + 1, e)]
      BY <2>7, <2>8
    <3> QED BY ONLY <2>7, <3>1, <3>2, j \in Int, EntryIs
  <2>14. DOMAIN d2 = 0..y
    BY <2>7, <2>8
  <2>15. \A a \in DOMAIN d2 \ {c} : d2[a].n < DirFull
    <3>1. \A a \in DOMAIN d2 : a \in DOMAIN d1 \/ a = y
      BY <2>4, <2>14
    <3>2. pos < DirFull /\ d1[x].n - pos < DirFull
      BY <1>5, <2>2
    <3> QED BY <1>2, <2>11, <3>1, <3>2
  <2>16. DOMAIN d \subseteq DOMAIN d2
    <3>1. DOMAIN d1 \subseteq 0..y
      BY <2>4
    <3> QED BY <1>2, <2>14, <3>1
  <2>17. \A a \in DOMAIN d : d[a].flag > d[c].flag => d2[a] = d[a]
    BY <1>2, <1>4, <2>11
  <2>18. d2[c].flag = d[c].flag
    BY <1>4, <2>11
  <2> QED BY ONLY <2>11, <2>12, <2>13, <2>15, <2>16, <2>17, <2>18 DEF Climbed
<1>8. d1[x].n < DirFull \/ d1[x].n >= DirFull
  BY <1>5
<1> QED BY <1>6, <1>7, <1>8

(* What is sent up is a directory and an entry.                            *)
Results == [dir : Files(DirFull), up : [key : Int, val : Int]]

LEMMA ClimbedHas ==
  ASSUME NEW rt, NEW f, NEW d, NEW x \in DOMAIN d, NEW r, Climbed(rt, f, d, x, r)
  PROVE  r \in Results
<1>1. PICK d1, own1 : Tree(rt, d1, f, own1) /\ DOMAIN d \subseteq DOMAIN d1 /\ Outcome(d1, x, r)
  BY DEF Climbed
<1>2. /\ d1 \in Files(DirFull) /\ x \in DOMAIN d1 /\ d1[x].n \in 0..DirFull /\ d1[x].flag \in Int
      /\ DirFull \in Nat /\ DirFull > 2 /\ Size(d1) \in Nat
      /\ \A i \in 0..(DirFull - 1) : d1[x].slot[i].key \in Int
  <2>1. Blocks(rt, d1, own1) /\ d1 \in Files(DirFull) /\ x \in DOMAIN d1
    BY <1>1 DEF Tree, Blocks
  <2> QED BY <2>1, BlockHas, Fulls
<1>3. CASE d1[x].n < DirFull
  <2>1. r = [dir |-> d1, up |-> NoEntry]
    BY <1>1, <1>3 DEF Outcome
  <2>2. NoEntry \in [key : Int, val : Int]
    BY Fulls DEF NoEntry
  <2> QED BY <1>2, <2>1, <2>2 DEF Results
<1>4. CASE d1[x].n >= DirFull
  <2>1. PICK pos : pos = d1[x].n \div 2
    OBVIOUS
  <2>2. pos \in 0..d1[x].n /\ pos \in 0..(DirFull - 1)
    BY <1>2, <1>4, <2>1
  <2>3. r = [dir |-> Split(d1, x, pos, d1[x].flag), up |-> [key |-> d1[x].slot[pos].key, val |-> Size(d1)]]
    BY ONLY <1>1, <1>4, <2>1 DEF Outcome
  <2>4. Split(d1, x, pos, d1[x].flag) \in Files(DirFull)
    BY ONLY <1>2, <2>2, SplitIs
  <2> QED BY <1>2, <2>2, <2>3, <2>4 DEF Results
<1> QED BY <1>2, <1>3, <1>4

(* The entry of a split and what follows from it, up to the root.          *)
LEMMA ClimbIs ==
  ASSUME NEW rt, NEW d, NEW f, NEW f2, NEW own, Roomy(rt, d, f, own), NEW e,
         NEW n, NEW b, b = Path(d, e.key), Walk(rt, d, own, n, b, e.key),
         Climbed(rt, f2, d, b[n], InsertEntry(d, b[n], e))
  PROVE  Climbed(rt, f2, d, 0, InsertBelow(d, e))
<1> DEFINE Rule(g, i) == IF i = 0 THEN InsertEntry(d, b[n], e)
                         ELSE IF b[n - i] = b[n - i + 1] THEN g[i - 1]
                         ELSE InsertUp(g[i - 1], b[n - i])
           Eq(g) == g = [i \in 0..n |-> Rule(g, i)]
           Next1(i, r) == IF b[n - i] = b[n - i + 1] THEN r ELSE InsertUp(r, b[n - i])
<1>1. /\ n \in Nat /\ n = Size(d) /\ b \in [0..n -> DOMAIN d] /\ b[0] = 0
      /\ \A i \in 1..n : b[i] = b[i - 1] \/ Step(rt, d, own, b[i - 1], b[i], e.key)
  BY DEF Walk
<1>2. PICK up : up = (CHOOSE g : Eq(g)) /\ InsertBelow(d, e) = up[n]
  BY <1>1 DEF InsertBelow, Size
<1>3. ASSUME NEW i \in 1..n, NEW r, Climbed(rt, f2, d, b[n - (i - 1)], r)
      PROVE  Climbed(rt, f2, d, b[n - i], Next1(i, r))
  <2>1. PICK m : m = n - i + 1
    OBVIOUS
  <2>2. m \in 1..n /\ m - 1 = n - i /\ n - (i - 1) = m /\ m - 1 \in 0..n /\ m \in 0..n
    BY <1>1, <2>1
  <2>3. Climbed(rt, f2, d, b[m], r)
    BY <1>3, <2>2
  <2>4. Next1(i, r) = IF b[m - 1] = b[m] THEN r ELSE InsertUp(r, b[m - 1])
    BY <2>1, <2>2
  <2>5. CASE b[m - 1] = b[m]
    BY <2>2, <2>3, <2>4, <2>5
  <2>6. CASE b[m - 1] # b[m]
    <3>1. Step(rt, d, own, b[m - 1], b[m], e.key)
      BY <1>1, <2>2, <2>6
    <3>2. PICK c \in DOMAIN d, x \in DOMAIN d : c = b[m - 1] /\ x = b[m]
      BY <1>1, <2>2
    <3>3. Climbed(rt, f2, d, c, InsertUp(r, c))
      BY <2>3, <3>1, <3>2, ClimbStep
    <3> QED BY <2>2, <2>4, <2>6, <3>2, <3>3
  <2> QED BY <2>5, <2>6
<1>4. PICK g \in [0..n -> Results] :
        /\ g[0] = InsertEntry(d, b[n], e)
        /\ \A i \in 1..n : g[i] = IF Next1(i, g[i - 1]) \in Results THEN Next1(i, g[i - 1]) ELSE g[i - 1]
  <2> DEFINE step == [p \in Nat \X Results |-> IF Next1(p[1], p[2]) \in Results THEN Next1(p[1], p[2]) ELSE p[2]]
  <2> HIDE DEF Next1
  <2>1. step \in StepRules(Results)
    BY DEF StepRules
  <2>2. PICK base \in Results : base = InsertEntry(d, b[n], e)
    <3>1. b[n] \in DOMAIN d
      BY <1>1
    <3> QED BY <3>1, ClimbedHas
  <2>3. PICK g : g \in Recursions(Results, base, step, n)
    <3> HIDE DEF step
    <3>1. Recursions(Results, base, step, n) # {}
      BY ONLY <1>1, <2>1, base \in Results, RecursionExists
    <3> QED BY <3>1
  <2>4. g \in [0..n -> Results] /\ g[0] = base /\ \A i \in 1..n : g[i] = step[<<i, g[i - 1]>>]
    <3> HIDE DEF step
    <3> QED BY <2>3 DEF Recursions
  <2>5. ASSUME NEW i \in 1..n
        PROVE  g[i] = IF Next1(i, g[i - 1]) \in Results THEN Next1(i, g[i - 1]) ELSE g[i - 1]
    <3>1. i - 1 \in 0..n /\ i \in Nat
      BY <1>1
    <3>2. PICK r \in Results : r = g[i - 1]
      BY <2>4, <3>1
    <3>3. step[<<i, r>>] = IF Next1(i, r) \in Results THEN Next1(i, r) ELSE r
      <4>1. <<i, r>> \in Nat \X Results /\ <<i, r>>[1] = i /\ <<i, r>>[2] = r
        BY <3>1
      <4> QED BY <4>1
    <3> QED BY ONLY <2>4, <3>2, <3>3, i \in 1..n
  <2> QED BY <2>2, <2>4, <2>5
<1>5. \A i \in 0..n : Climbed(rt, f2, d, b[n - i], g[i])
  <2> DEFINE T == {i \in Nat : i <= n => Climbed(rt, f2, d, b[n - i], g[i])}
  <2>1. 0 \in T
    <3>1. n - 0 = n
      BY <1>1
    <3>2. Climbed(rt, f2, d, b[n - 0], g[0])
      BY <1>4, <3>1
    <3> QED BY <3>2
  <2>2. ASSUME NEW i \in Nat, i \in T PROVE i + 1 \in T
    <3>1. CASE i + 1 <= n
      <4>1. PICK m : m = i + 1
        OBVIOUS
      <4>2. m \in 1..n /\ m - 1 = i /\ n - m \in 0..n
        BY <1>1, <3>1, <4>1
      <4>3. Climbed(rt, f2, d, b[n - (m - 1)], g[m - 1])
        BY <1>1, <2>2, <3>1, <4>2
      <4>4. Climbed(rt, f2, d, b[n - m], Next1(m, g[m - 1]))
        BY <1>3, <4>2, <4>3
      <4> HIDE DEF Next1
      <4>5. Next1(m, g[m - 1]) \in Results
        <5>1. b[n - m] \in DOMAIN d
          BY <1>1, <4>2
        <5> QED BY <4>4, <5>1, ClimbedHas
      <4>6. g[m] = Next1(m, g[m - 1])
        BY ONLY <1>4, <4>2, <4>5
      <4> QED BY <4>1, <4>4, <4>6
    <3> QED BY <3>1
  <2>3. Nat \subseteq T
    <3> HIDE DEF T
    <3> QED BY <2>1, <2>2, SetInduction
  <2>4. \A i \in 0..n : i \in Nat /\ i <= n
    BY <1>1
  <2> QED BY <2>3, <2>4
<1>6. Eq(g)
  <2>1. ASSUME NEW i \in 0..n PROVE g[i] = Rule(g, i)
    <3>1. CASE i = 0
      BY <1>4, <3>1
    <3>2. CASE i # 0
      <4>1. i \in 1..n /\ i - 1 \in 0..n /\ n - i \in 0..n
        BY <1>1, <3>2
      <4>2. Climbed(rt, f2, d, b[n - i], Next1(i, g[i - 1]))
        BY <1>3, <1>5, <4>1
      <4>3. Rule(g, i) = Next1(i, g[i - 1])
        BY <3>2
      <4> HIDE DEF Next1, Rule
      <4>4. Next1(i, g[i - 1]) \in Results
        <5>1. b[n - i] \in DOMAIN d
          BY <1>1, <4>1
        <5> QED BY <4>2, <5>1, ClimbedHas
      <4> QED BY ONLY <1>4, <4>1, <4>3, <4>4
    <3> QED BY <3>1, <3>2
  <2> HIDE DEF Rule
  <2>2. g = [i \in 0..n |-> g[i]]
    OBVIOUS
  <2> QED BY <2>1, <2>2
<1>7. Eq(up)
  <2> HIDE DEF Eq
  <2> QED BY <1>2, <1>6
<1>8. \A i \in 0..n : up[i] = Rule(up, i)
  <2> HIDE DEF Rule
  <2>1. PICK h : h = [i \in 0..n |-> Rule(up, i)]
    OBVIOUS
  <2>2. \A i \in 0..n : h[i] = Rule(up, i)
    BY ONLY <2>1
  <2>3. up = h
    BY ONLY <1>7, <2>1 DEF Eq
  <2> QED BY ONLY <2>2, <2>3
<1>9. \A i \in 0..n : Climbed(rt, f2, d, b[n - i], up[i])
  <2> DEFINE T == {i \in Nat : i <= n => Climbed(rt, f2, d, b[n - i], up[i])}
  <2>1. 0 \in T
    <3>1. n - 0 = n /\ 0 \in 0..n
      BY <1>1
    <3>2. Climbed(rt, f2, d, b[n - 0], up[0])
      BY <1>8, <3>1
    <3> QED BY <3>2
  <2>2. ASSUME NEW i \in Nat, i \in T PROVE i + 1 \in T
    <3>1. CASE i + 1 <= n
      <4>1. PICK m : m = i + 1
        OBVIOUS
      <4>2. m \in 1..n /\ m \in 0..n /\ m # 0 /\ m - 1 = i
        BY <1>1, <3>1, <4>1
      <4>3. Climbed(rt, f2, d, b[n - (m - 1)], up[m - 1])
        BY <1>1, <2>2, <3>1, <4>2
      <4>4. Climbed(rt, f2, d, b[n - m], Next1(m, up[m - 1]))
        BY <1>3, <4>2, <4>3
      <4>5. up[m] = Next1(m, up[m - 1])
        BY <1>8, <4>2
      <4> QED BY <4>1, <4>4, <4>5
    <3> QED BY <3>1
  <2>3. Nat \subseteq T
    <3> HIDE DEF T
    <3> QED BY <2>1, <2>2, SetInduction
  <2>4. \A i \in 0..n : i \in Nat /\ i <= n
    BY <1>1
  <2> QED BY <2>3, <2>4
<1>10. n \in 0..n /\ n - n = 0
  BY <1>1
<1> QED BY <1>1, <1>2, <1>9, <1>10

(* The directory after all of it.                                          *)
Topped(r) == IF r.up = NoEntry THEN r.dir ELSE MakeNewRoot(r.dir, r.up)

LEMMA RootClimbed ==
  ASSUME NEW rt, NEW f, NEW d, 0 \in DOMAIN d, NEW r, Climbed(rt, f, d, 0, r)
  PROVE  \E own2 : Roomy(rt, Topped(r), f, own2)
<1>1. PICK d1, own1 : /\ Tree(rt, d1, f, own1) /\ DOMAIN d \subseteq DOMAIN d1
                      /\ \A c \in DOMAIN d1 \ {0} : d1[c].n < DirFull
                      /\ Outcome(d1, 0, r)
  BY DEF Climbed
<1>2. /\ d1 \in Files(DirFull) /\ 0 \in DOMAIN d1 /\ d1[0].n \in 0..DirFull
      /\ DirFull \in Nat /\ DirFull > 2 /\ Size(d1) \in Nat \ {0} /\ DOMAIN d1 = 0..(Size(d1) - 1)
      /\ Sorted(d1[0])
  <2>1. Blocks(rt, d1, own1) /\ d1 \in Files(DirFull) /\ 0 \in DOMAIN d1
    BY <1>1 DEF Tree, Blocks
  <2> QED BY <2>1, BlockHas, Fulls
<1>3. CASE d1[0].n < DirFull
  <2>1. r = [dir |-> d1, up |-> NoEntry]
    BY <1>1, <1>3 DEF Outcome
  <2>2. Topped(r) = d1
    BY <2>1 DEF Topped
  <2>3. Room(d1)
    BY <1>1, <1>3 DEF Room
  <2> QED BY <1>1, <2>2, <2>3 DEF Roomy
<1>4. CASE d1[0].n >= DirFull
  <2>1. PICK pos, y, z, e : /\ pos = d1[0].n \div 2 /\ y = Size(d1) /\ z = y + 1
                            /\ e = [key |-> d1[0].slot[pos].key, val |-> y]
    OBVIOUS
  <2>2. d1[0].n = DirFull /\ pos \in 1..(d1[0].n - 1) /\ pos \in 1..(DirFull - 1)
    BY <1>2, <1>4, <2>1
  <2>3. r = [dir |-> Split(d1, 0, pos, d1[0].flag), up |-> e]
    BY ONLY <1>1, <1>4, <2>1 DEF Outcome
  <2>4. e # NoEntry
    <3>1. e.val = y /\ y # -1 /\ NoEntry.val = -1
      BY <1>2, <2>1 DEF NoEntry
    <3> QED BY <3>1
  <2>5. PICK d2 : d2 = MakeNewRoot(Split(d1, 0, pos, d1[0].flag), e)
    OBVIOUS
  <2>6. Topped(r) = d2
    BY ONLY <2>3, <2>4, <2>5 DEF Topped
  <2>7. Grown(d1, pos, y, z, d2)
    BY ONLY <1>2, <2>1, <2>2, <2>5, GrownIs
  <2>8. PICK own2 : own2 = Spread(d1, own1, pos, y, z)
    OBVIOUS
  <2>9. Tree(rt, d2, f, own2)
    BY ONLY <1>1, <2>1, <2>2, <2>7, <2>8, RootDivide
  <2>10. Room(d2)
    <3>1. ASSUME NEW c \in DOMAIN d2 PROVE d2[c].n < DirFull
      <4>1. c \in DOMAIN d1 \ {0} \/ c = 0 \/ c = y \/ c = z
        BY <1>2, <2>1, <2>7 DEF Grown
      <4>2. d2[0].n = 2 /\ d2[y].n = d1[0].n - pos /\ d2[z].n = pos /\ \A a \in DOMAIN d1 \ {0} : d2[a] = d1[a]
        BY <2>7 DEF Grown
      <4>3. pos < DirFull /\ d1[0].n - pos < DirFull
        BY <1>2, <2>2
      <4> QED BY <1>1, <1>2, <4>1, <4>2, <4>3
    <3> QED BY <3>1 DEF Room
  <2> QED BY <2>6, <2>9, <2>10 DEF Roomy
<1> QED BY <1>2, <1>3, <1>4

-----------------------------------------------------------------------------
(* A leaf that has divided *)

(* Leaf c keeps its keys S, perhaps with more overflow blocks.              *)
Same(f, c, S, f2) ==
  /\ LeavesOK(f2) /\ Heads(f2) = Heads(f) /\ LeafOK(f2[c], S)
  /\ \A a \in Heads(f) \ {c} : f2[a] = f[a]

(* Leaf c keeps the keys of S below e's; the others are in leaf e.val.     *)
Parted(f, c, S, e, f2) ==
  /\ LeavesOK(f2) /\ e \in Record /\ e.key \in S /\ (\E u \in S : u < e.key)
  /\ e.val \notin DOMAIN f /\ Heads(f2) = Heads(f) \cup {e.val}
  /\ LeafOK(f2[c], {k \in S : k < e.key}) /\ LeafOK(f2[e.val], {k \in S : k >= e.key})
  /\ \A a \in Heads(f) \ {c} : f2[a] = f[a]

(* The entry of the new leaf goes into the block that the search went      *)
(* through.                                                                *)
LEMMA EntryStarts ==
  ASSUME NEW rt, NEW d, NEW f, NEW own, Roomy(rt, d, f, own), NEW x \in DOMAIN d, d[x].flag = 0,
         NEW j \in Int, <<x, j>> \in SlotsOf(rt, d), NEW c, c = Child(d, <<x, j>>),
         NEW S, S = PartOf(d, own, <<x, j>>), NEW e, NEW f2, Parted(f, c, S, e, f2)
  PROVE  Climbed(rt, f2, d, x, InsertEntry(d, x, e))
<1>1. /\ d[x] \in Pages(DirFull) /\ d[x].n \in 0..(DirFull - 1) /\ DirFull \in Nat
      /\ d \in Files(DirFull) /\ Sorted(d[x]) /\ own[x] \in SUBSET Int /\ KeysIn(d[x], own[x])
  <2>1. Blocks(rt, d, own) /\ d[x].n < DirFull /\ d \in Files(DirFull)
    BY DEF Roomy, Tree, Room, Blocks
  <2>2. /\ d[x] \in Pages(DirFull) /\ d[x].n \in 0..DirFull
        /\ Sorted(d[x]) /\ own[x] \in SUBSET Int /\ KeysIn(d[x], own[x])
    BY <2>1, BlockHas
  <2> QED BY <2>1, <2>2, Fulls
<1>2. /\ e \in Record /\ e.key \in S /\ e.val \notin DOMAIN f /\ LeavesOK(f2)
      /\ Heads(f2) = Heads(f) \cup {e.val} /\ LeafOK(f2[c], {k \in S : k < e.key})
      /\ LeafOK(f2[e.val], {k \in S : k >= e.key}) /\ \A a \in Heads(f) \ {c} : f2[a] = f[a]
  BY DEF Parted
<1>3. S = Part(own[x], d[x], j) /\ j \in -1..(d[x].n - 1)
  <2>1. S = Part(own[x], d[x], j)
    BY DEF PartOf
  <2>2. j \in -1..(DirFull - 1) /\ j < d[x].n
    BY PairHas
  <2> QED BY <1>1, <2>1, <2>2
<1>4. j >= 0 => d[x].slot[j].key < e.key
  <2>1. SUFFICES ASSUME j >= 0 PROVE d[x].slot[j].key < e.key
    OBVIOUS
  <2>2. PICK u \in S : u < e.key
    BY DEF Parted
  <2>3. d[x].slot[j].key <= u /\ u \in Int
    BY <1>1, <1>3, <2>1 DEF Part
  <2>4. d[x].slot[j].key \in Int
    BY <1>1, <1>3, <2>1, KeyIsInt
  <2>5. e.key \in Int
    BY <1>2 DEF Record
  <2> QED BY <2>2, <2>3, <2>4, <2>5
<1>5. PICK d1 : d1 = [d EXCEPT ![x] = InsertAt(d[x], j + 1, e)]
  OBVIOUS
<1>6. PICK q : q = InsertAt(d[x], j + 1, e)
  OBVIOUS
<1>7. SlotBefore(d[x], e.key) = j
  BY ONLY <1>1, <1>2, <1>3, <1>4, <1>6, PartInsert
<1>8. Tree(rt, d1, f2, own)
  <2>1. Tree(rt, d, f, own) /\ d[x].n < DirFull
    BY DEF Roomy, Room
  <2> QED BY <1>2, <1>3, <1>4, <1>5, <2>1, LeafDivide
<1>9. Outcome(d1, x, InsertEntry(d, x, e))
  BY <1>1, <1>5, <1>7, EntryIs
<1>10. DOMAIN d1 = DOMAIN d /\ (\A a \in DOMAIN d \ {x} : d1[a] = d[a]) /\ d1[x].flag = d[x].flag
  <2>1. DOMAIN d1 = DOMAIN d /\ (\A a \in DOMAIN d \ {x} : d1[a] = d[a]) /\ d1[x] = q
    BY <1>1, <1>5, <1>6 DEF Files
  <2>2. q.flag = d[x].flag
    <3>1. j + 1 \in 0..d[x].n
      BY <1>1, <1>3
    <3> QED BY <1>1, <1>2, <1>6, <3>1, InsertAtIs
  <2> QED BY <2>1, <2>2
<1>11. \A a \in DOMAIN d : d[a].flag > d[x].flag => d1[a] = d[a]
  BY <1>10
<1>12. \A a \in DOMAIN d1 \ {x} : d1[a].n < DirFull
  BY <1>10 DEF Roomy, Room
<1> QED BY <1>8, <1>9, <1>10, <1>11, <1>12 DEF Climbed

(* ... and the directory is a tree again, over the leaves after the split. *)
LEMMA EntryEnds ==
  ASSUME NEW rt, NEW d, NEW f, NEW own, Roomy(rt, d, f, own), NEW k \in Int,
         NEW n, NEW b, n = Size(d), b = Path(d, k), Walk(rt, d, own, n, b, k),
         NEW j \in Int, Found(rt, d, own, k, b[n], j), NEW c, c = Child(d, <<b[n], j>>),
         NEW S, S = PartOf(d, own, <<b[n], j>>), NEW e, NEW f2, Parted(f, c, S, e, f2),
         ~Misled(d, e.key), Ends(d, e.key)
  PROVE  \E own2 : Roomy(rt, Topped(InsertBelow(d, e)), f2, own2)
<1>1. n \in 0..n /\ b[n] \in DOMAIN d /\ d[b[n]].flag = 0
  BY DEF Walk
<1>2. <<b[n], j>> \in SlotsOf(rt, d) /\ S \subseteq own[b[n]]
  BY DEF Found, Leads
<1>3. PICK x : x = b[n]
  OBVIOUS
<1>4. Climbed(rt, f2, d, x, InsertEntry(d, x, e))
  BY <1>1, <1>2, <1>3, EntryStarts
<1>5. e.key \in Int /\ e.key \in own[b[n]]
  BY <1>2 DEF Parted, Record
<1>6. Walk(rt, d, own, n, Path(d, e.key), e.key)
  BY <1>5, WalkIs
<1>7. PICK b2 : b2 = Path(d, e.key)
  OBVIOUS
<1>8. b2 = b
  BY <1>5, <1>6, <1>7, SameWalk
<1>9. Climbed(rt, f2, d, 0, InsertBelow(d, e))
  BY <1>3, <1>4, <1>6, <1>7, <1>8, ClimbIs
<1>10. 0 \in DOMAIN d
  BY FileHas, Fulls DEF Roomy, Tree, Blocks
<1> QED BY <1>9, <1>10, RootClimbed

-----------------------------------------------------------------------------
(* Records of a leaf *)

Rising(p) == \A i, j \in 0..(p.n - 1) : i <= j => p.slot[i].key <= p.slot[j].key

(* A full leaf with several keys is split between two of them.             *)
LEMMA SplitPosIs ==
  ASSUME NEW full \in Nat, NEW q \in Pages(full), q.n \in 2..full, Rising(q),
         q.slot[0].key # q.slot[q.n - 1].key
  PROVE  /\ SplitPos(q) \in 1..(q.n - 1)
         /\ q.slot[SplitPos(q) - 1].key < q.slot[SplitPos(q)].key
<1> DEFINE key(i) == q.slot[i].key
           mid == q.n \div 2
           same == {i \in 0..(q.n - 1) : key(i) = key(mid)}
           first == CHOOSE i \in same : \A j \in same : i <= j
           other == {i \in 0..(q.n - 1) : key(i) # key(0)}
<1>1. \A i \in 0..(q.n - 1) : key(i) \in Int
  BY KeyIsInt
<1>2. mid \in 0..(q.n - 1) /\ q.n \in Nat /\ q.n - 1 \in 0..(q.n - 1) /\ 0 \in 0..(q.n - 1)
  OBVIOUS
<1>3. \A i, j \in 0..(q.n - 1) : i <= j => key(i) <= key(j)
  BY DEF Rising
<1>4. SplitPos(q) = IF first = 0 THEN Cardinality(same) ELSE first
  BY DEF SplitPos
<1>5. first \in same /\ \A j \in same : first <= j
  <2>1. same \in SUBSET Nat /\ same # {}
    BY <1>2
  <2>2. \E i \in same : \A j \in same : i <= j
    <3> HIDE DEF same
    <3> QED BY <2>1, LeastExists
  <2> HIDE DEF same
  <2> QED BY <2>2
<1>6. CASE first # 0
  <2>1. first \in 1..(q.n - 1) /\ first - 1 \in 0..(q.n - 1) /\ key(first) = key(mid)
    <3>1. first \in 0..(q.n - 1) /\ key(first) = key(mid)
      <4> HIDE DEF first, key
      <4> QED BY <1>5
    <3> HIDE DEF first, same, key
    <3> QED BY <1>2, <1>6, <3>1
  <2>2. first - 1 \notin same
    <3> HIDE DEF same, first
    <3> QED BY <1>5, <2>1
  <2>3. key(first - 1) # key(first)
    <3> HIDE DEF first
    <3> QED BY <2>1, <2>2
  <2>4. key(first - 1) < key(first)
    <3> HIDE DEF same, first, key
    <3> QED BY <1>1, <1>3, <2>1, <2>3
  <2> HIDE DEF first, same
  <2> QED BY <1>4, <1>6, <2>1, <2>4
<1>7. CASE first = 0
  <2>1. key(0) = key(mid)
    <3> HIDE DEF first, key
    <3> QED BY <1>5, <1>7
  <2>2. PICK m \in other : \A i \in other : m <= i
    <3>1. other \in SUBSET Nat /\ other # {}
      BY <1>2
    <3> HIDE DEF other
    <3> QED BY <3>1, LeastExists
  <2>3. m \in 1..(q.n - 1) /\ key(m) # key(0)
    OBVIOUS
  <2>4. \A i \in 0..(m - 1) : key(i) = key(0)
    <3> SUFFICES ASSUME NEW i \in 0..(m - 1) PROVE key(i) = key(0)
      OBVIOUS
    <3>1. i \in 0..(q.n - 1) /\ ~(m <= i)
      BY <2>3
    <3>2. i \notin other
      <4> HIDE DEF other
      <4> QED BY <2>2, <3>1
    <3> QED BY <3>1, <3>2
  <2>5. \A i \in m..(q.n - 1) : key(i) # key(0)
    <3> SUFFICES ASSUME NEW i \in m..(q.n - 1) PROVE key(i) # key(0)
      OBVIOUS
    <3> HIDE DEF key, other
    <3>1. m \in 0..(q.n - 1) /\ i \in 0..(q.n - 1) /\ m <= i /\ 0 <= m
      BY <1>2, <2>3
    <3>2. key(0) <= key(m) /\ key(m) <= key(i)
      BY <1>2, <1>3, <3>1
    <3> QED BY <1>1, <1>2, <2>3, <3>1, <3>2
  <2>6. same = 0..(m - 1)
    <3> HIDE DEF key, other
    <3>1. \A i \in 0..(m - 1) : i \in 0..(q.n - 1)
      BY <1>2, <2>3
    <3>2. \A i \in 0..(q.n - 1) : i \in 0..(m - 1) \/ i \in m..(q.n - 1)
      BY <1>2, <2>3
    <3> QED BY <2>1, <2>4, <2>5, <3>1, <3>2
  <2>7. Cardinality(same) = m
    <3>1. m \in Nat /\ Cardinality(0..(m - 1)) = (m - 1) - 0 + 1
      BY <2>3, FS_Interval
    <3>2. (m - 1) - 0 + 1 = m
      BY <3>1
    <3> HIDE DEF same, other
    <3> QED BY <2>6, <3>1, <3>2
  <2>8. key(m - 1) < key(m)
    <3> HIDE DEF key, other
    <3>1. m - 1 \in 0..(m - 1) /\ m - 1 \in 0..(q.n - 1) /\ m \in 0..(q.n - 1)
      BY <1>2, <2>3
    <3>2. key(m - 1) # key(m) /\ key(m - 1) <= key(m)
      BY <1>2, <1>3, <2>3, <2>4, <3>1
    <3> QED BY <1>1, <3>1, <3>2
  <2> HIDE DEF first, same
  <2> QED BY <1>4, <1>7, <2>3, <2>7, <2>8
<1> QED BY <1>6, <1>7

(* insertion keeps a leaf's records in the order of their keys.            *)
RisesTo(p, k, S, q) ==
  /\ q \in Pages(LeafFull) /\ q.n = p.n + 1 /\ q.flag = p.flag /\ Rising(q)
  /\ \A i \in 0..(q.n - 1) : q.slot[i].key \in S

LEMMA RecordIn ==
  ASSUME NEW p \in Pages(LeafFull), NEW S \in SUBSET Int, LeafOK(p, S), NEW k \in S, NEW r \in Nat,
         NEW q, q = InsertAt(p, SlotBefore(p, k) + 1, [key |-> k, val |-> r])
  PROVE  RisesTo(p, k, S, q)
<1>1. /\ p.n \in 0..(LeafFull - 1) /\ LeafFull \in Nat /\ k \in Int
      /\ (\A i, j \in 0..(p.n - 1) : i <= j => p.slot[i].key <= p.slot[j].key)
      /\ \A i \in 0..(p.n - 1) : p.slot[i].key \in S
  BY Fulls DEF LeafOK
<1>2. PICK e \in Record : e = [key |-> k, val |-> r]
  BY DEF Record
<1>3. PICK s \in -1..(p.n - 1) :
        /\ s = SlotBefore(p, k)
        /\ \A i \in 0..s : p.slot[i].key < k
        /\ s + 1 < p.n => p.slot[s + 1].key >= k
  BY <1>1, SlotBeforeIs
<1>4. /\ q \in Pages(LeafFull) /\ q.n = p.n + 1 /\ q.flag = p.flag
      /\ \A i \in 0..s : q.slot[i] = p.slot[i]
      /\ q.slot[s + 1] = e
      /\ \A i \in (s + 2)..p.n : q.slot[i] = p.slot[i - 1]
  <2>1. s + 1 \in 0..p.n /\ q = InsertAt(p, s + 1, e)
    BY <1>1, <1>2, <1>3
  <2> QED BY <1>1, <2>1, InsertAtIs
<1>5. /\ \A i \in 0..s : q.slot[i].key \in S /\ q.slot[i].key < k
      /\ q.slot[s + 1].key = k
      /\ \A i \in (s + 2)..p.n : q.slot[i].key \in S /\ q.slot[i].key >= k
  <2>1. ASSUME NEW i \in 0..s PROVE q.slot[i].key \in S /\ q.slot[i].key < k
    <3>1. i \in 0..(p.n - 1) /\ q.slot[i] = p.slot[i] /\ p.slot[i].key < k
      BY <1>1, <1>3, <1>4
    <3> QED BY <1>1, <3>1
  <2>2. ASSUME NEW i \in (s + 2)..p.n PROVE q.slot[i].key \in S /\ q.slot[i].key >= k
    <3>1. i - 1 \in 0..(p.n - 1) /\ s + 1 \in 0..(p.n - 1) /\ s + 1 <= i - 1 /\ q.slot[i] = p.slot[i - 1]
          /\ s + 1 < p.n
      BY <1>1, <1>3, <1>4
    <3>2. p.slot[s + 1].key <= p.slot[i - 1].key /\ p.slot[s + 1].key >= k /\ p.slot[i - 1].key \in S
      BY <1>1, <1>3, <3>1
    <3>3. p.slot[s + 1].key \in Int /\ p.slot[i - 1].key \in Int
      BY <1>1, <3>1
    <3> QED BY <1>1, <3>1, <3>2, <3>3
  <2>3. q.slot[s + 1].key = k
    BY <1>2, <1>4
  <2> QED BY <2>1, <2>2, <2>3
<1>6. \A i \in 0..p.n : i \in 0..s \/ i = s + 1 \/ i \in (s + 2)..p.n
  BY <1>1, <1>3
<1>7. \A i \in 0..p.n : q.slot[i].key \in S
  BY <1>5, <1>6
<1>8. ASSUME NEW i \in 0..p.n, NEW j \in 0..p.n, i <= j PROVE q.slot[i].key <= q.slot[j].key
  <2>1. q.slot[i].key \in Int /\ q.slot[j].key \in Int
    BY <1>7
  <2>2. CASE i = j
    BY <2>1, <2>2
  <2>3. CASE i \in 0..s /\ j \in 0..s
    <3>1. i \in 0..(p.n - 1) /\ j \in 0..(p.n - 1) /\ q.slot[i] = p.slot[i] /\ q.slot[j] = p.slot[j]
      BY <1>1, <1>3, <1>4, <2>3
    <3> QED BY <1>1, <1>8, <3>1
  <2>4. CASE i \in 0..s /\ j \notin 0..s
    <3>1. q.slot[i].key < k /\ q.slot[j].key >= k
      BY <1>1, <1>5, <1>6, <2>4
    <3> QED BY <1>1, <2>1, <3>1
  <2>5. CASE i \notin 0..s
    <3>1. CASE i = s + 1
      <4>1. j = s + 1 \/ j \in (s + 2)..p.n
        BY <1>3, <1>6, <1>8, <3>1
      <4> QED BY <1>1, <1>5, <2>1, <3>1, <4>1
    <3>2. CASE i \in (s + 2)..p.n
      <4>1. j \in (s + 2)..p.n
        BY <1>1, <1>3, <1>8, <3>2
      <4>2. /\ i - 1 \in 0..(p.n - 1) /\ j - 1 \in 0..(p.n - 1) /\ i - 1 <= j - 1
            /\ q.slot[i] = p.slot[i - 1] /\ q.slot[j] = p.slot[j - 1]
        BY <1>1, <1>3, <1>4, <1>8, <3>2, <4>1
      <4> QED BY <1>1, <4>2
    <3> QED BY <1>6, <2>5, <3>1, <3>2
  <2> QED BY <2>2, <2>3, <2>4, <2>5
<1>9. q.n - 1 = p.n
  BY <1>1, <1>4
<1>10. Rising(q) /\ \A i \in 0..(q.n - 1) : q.slot[i].key \in S
  BY <1>7, <1>8, <1>9 DEF Rising
<1> QED BY <1>4, <1>10 DEF RisesTo

(* What the blocks of the leaf file are.                                   *)
LEMMA LeafHas ==
  ASSUME NEW f, LeavesOK(f)
  PROVE  /\ Size(f) \in Nat \ {0} /\ DOMAIN f = 0..(Size(f) - 1) /\ f \in Files(LeafFull)
         /\ f \in [0..(Size(f) - 1) -> Pages(LeafFull)]
         /\ \A a \in DOMAIN f : f[a] \in Pages(LeafFull) /\ f[a].n < LeafFull
                                /\ f[a].flag \in -1..(Size(f) - 1)
  BY Fulls, FileHas DEF LeavesOK

(* A page of a leaf is put in place of another with the same flag.         *)
LEMMA LeafSet ==
  ASSUME NEW f, LeavesOK(f), NEW c \in Heads(f), NEW q \in Pages(LeafFull), q.n < LeafFull,
         q.flag = f[c].flag, NEW S, LeafOK(q, S), NEW f2, f2 = [f EXCEPT ![c] = q]
  PROVE  Same(f, c, S, f2)
<1>1. /\ Size(f) \in Nat \ {0} /\ DOMAIN f = 0..(Size(f) - 1) /\ f \in Files(LeafFull)
      /\ f \in [0..(Size(f) - 1) -> Pages(LeafFull)] /\ c \in DOMAIN f /\ LeafFull \in Nat
      /\ \A a \in DOMAIN f : f[a].n < LeafFull /\ f[a].flag \in -1..(Size(f) - 1)
  BY Fulls, LeafHas DEF Heads
<1>2. f2 \in [0..(Size(f) - 1) -> Pages(LeafFull)]
  BY <1>1
<1>3. f2 \in Files(LeafFull) /\ Size(f2) = Size(f) /\ DOMAIN f2 = DOMAIN f
  BY <1>1, <1>2, FileIs
<1>4. f2[c] = q /\ \A a \in DOMAIN f \ {c} : f2[a] = f[a]
  BY <1>1
<1>5. \A a \in DOMAIN f : f2[a].flag = f[a].flag /\ f2[a].n < LeafFull
  BY <1>1, <1>4
<1>6. LeavesOK(f2)
  BY <1>1, <1>3, <1>5 DEF LeavesOK
<1>7. Heads(f2) = Heads(f)
  BY <1>3, <1>5 DEF Heads, Chained
<1>8. \A a \in Heads(f) \ {c} : f2[a] = f[a]
  BY <1>4 DEF Heads
<1> QED BY <1>4, <1>6, <1>7, <1>8 DEF Same

(* A leaf file that has got one more block y, of the chain behind c (up)   *)
(* or at its head.                                                         *)
Added(f, c, y, f2) ==
  /\ f2[c].flag = y /\ f2[y].flag = f[c].flag => LeavesOK(f2) /\ Heads(f2) = Heads(f)
  /\ f2[c].flag = f[c].flag /\ f2[y].flag = -1 => LeavesOK(f2) /\ Heads(f2) = Heads(f) \cup {y}
  /\ f2[c].flag = -1 /\ f2[y].flag = f[c].flag => LeavesOK(f2) /\ Heads(f2) = Heads(f) \cup {y}
  /\ y \notin DOMAIN f /\ c # y /\ y \in Nat
  /\ \A a \in Heads(f) \ {c} : f2[a] = f[a]

LEMMA LeafAdd ==
  ASSUME NEW f, LeavesOK(f), NEW c \in Heads(f), NEW y, y = Size(f),
         NEW f2 \in Files(LeafFull), Size(f2) = y + 1, DOMAIN f2 = 0..y,
         \A a \in DOMAIN f \ {c} : f2[a] = f[a], f2[c].n < LeafFull, f2[y].n < LeafFull
  PROVE  Added(f, c, y, f2)
<1>1. /\ y \in Nat \ {0} /\ DOMAIN f = 0..(y - 1) /\ c \in DOMAIN f
      /\ \A a \in DOMAIN f : f[a].n < LeafFull /\ f[a].flag \in -1..(y - 1)
  BY LeafHas DEF Heads
<1>2. DOMAIN f2 = DOMAIN f \cup {y} /\ y \notin DOMAIN f /\ c # y
  BY <1>1
<1>3. \A a \in DOMAIN f2 : f2[a].n < LeafFull
  BY <1>1, <1>2
<1>4. \A z \in -1..(y - 1) : z \in -1..((y + 1) - 1)
  BY <1>1
<1>5. ASSUME f2[c].flag \in -1..y, f2[y].flag \in -1..y PROVE LeavesOK(f2)
  <2>1. \A a \in DOMAIN f2 : f2[a].flag \in -1..((y + 1) - 1)
    <3>1. \A a \in DOMAIN f \ {c} : f2[a].flag \in -1..((y + 1) - 1)
      BY <1>1, <1>4
    <3>2. (y + 1) - 1 = y
      BY <1>1
    <3> QED BY <1>2, <1>5, <3>1, <3>2
  <2> QED BY <1>3, <2>1 DEF LeavesOK
<1>6. f[c].flag \in -1..y /\ y \in -1..y /\ -1 \in -1..y
  BY <1>1
<1>7. Chained(f) = {f[a].flag : a \in DOMAIN f \ {c}} \cup {f[c].flag}
  BY <1>1 DEF Chained
<1>8. Chained(f2) = {f[a].flag : a \in DOMAIN f \ {c}} \cup {f2[c].flag, f2[y].flag}
  <2>1. {f2[a].flag : a \in DOMAIN f \ {c}} = {f[a].flag : a \in DOMAIN f \ {c}}
    OBVIOUS
  <2>2. Chained(f2) = {f2[a].flag : a \in DOMAIN f \ {c}} \cup {f2[c].flag, f2[y].flag}
    BY <1>1, <1>2 DEF Chained
  <2> QED BY <2>1, <2>2
<1>9. y \notin Chained(f) /\ -1 \notin DOMAIN f2
  BY <1>1 DEF Chained
<1>10. ASSUME f2[c].flag = y, f2[y].flag = f[c].flag PROVE Heads(f2) = Heads(f)
  <2>1. Chained(f2) = Chained(f) \cup {y}
    BY ONLY <1>7, <1>8, <1>10
  <2> QED BY ONLY <1>2, <2>1 DEF Heads
<1>11. ASSUME f2[c].flag = f[c].flag, f2[y].flag = -1 PROVE Heads(f2) = Heads(f) \cup {y}
  <2>1. Chained(f2) = Chained(f) \cup {-1}
    BY ONLY <1>7, <1>8, <1>11
  <2> QED BY ONLY <1>2, <1>9, <2>1 DEF Heads
<1>12. ASSUME f2[c].flag = -1, f2[y].flag = f[c].flag PROVE Heads(f2) = Heads(f) \cup {y}
  <2>1. Chained(f2) = Chained(f) \cup {-1}
    BY ONLY <1>7, <1>8, <1>12
  <2> QED BY ONLY <1>2, <1>9, <2>1 DEF Heads
<1>13. \A a \in Heads(f) \ {c} : f2[a] = f[a]
  BY DEF Heads
<1>14. f2[c].flag = y /\ f2[y].flag = f[c].flag => LeavesOK(f2) /\ Heads(f2) = Heads(f)
  BY <1>5, <1>6, <1>10
<1>15. f2[c].flag = f[c].flag /\ f2[y].flag = -1 => LeavesOK(f2) /\ Heads(f2) = Heads(f) \cup {y}
  BY <1>5, <1>6, <1>11
<1>16. f2[c].flag = -1 /\ f2[y].flag = f[c].flag => LeavesOK(f2) /\ Heads(f2) = Heads(f) \cup {y}
  BY <1>5, <1>6, <1>12
<1> QED BY <1>1, <1>2, <1>13, <1>14, <1>15, <1>16 DEF Added

(* A file in which one page has been replaced.                             *)
Put(full, f, c, q, g) ==
  /\ g \in Files(full) /\ Size(g) = Size(f) /\ DOMAIN g = DOMAIN f
  /\ g[c] = q /\ \A a \in DOMAIN f \ {c} : g[a] = f[a]

LEMMA PutIs ==
  ASSUME NEW full \in Nat, NEW f \in Files(full), NEW c \in DOMAIN f, NEW q \in Pages(full),
         NEW g, g = [f EXCEPT ![c] = q]
  PROVE  Put(full, f, c, q, g)
<1>1. /\ Size(f) \in Nat \ {0} /\ DOMAIN f = 0..(Size(f) - 1)
      /\ f \in [0..(Size(f) - 1) -> Pages(full)]
  BY FileHas
<1>2. g \in [0..(Size(f) - 1) -> Pages(full)]
  BY <1>1
<1>3. g \in Files(full) /\ Size(g) = Size(f) /\ DOMAIN g = DOMAIN f
  BY ONLY <1>1, <1>2, full \in Nat, FileIs
<1>4. g[c] = q /\ \A a \in DOMAIN f \ {c} : g[a] = f[a]
  BY <1>1
<1> QED BY <1>3, <1>4 DEF Put

LEMMA OneMore ==
  ASSUME NEW y \in Nat \ {0}
  PROVE  0..y = (0..(y - 1)) \cup {y} /\ y \notin 0..(y - 1)
OBVIOUS

(* The records of page q, which leaf c should have, from slot pos on are in *)
(* the new block y. When that is an overflow block, they have one key.     *)
Laid(f, c, q, pos, y, f2) ==
  /\ DOMAIN f2 = DOMAIN f \cup {y} /\ y \notin DOMAIN f
  /\ pos \in 1..q.n /\ f2[c].n = pos /\ f2[y].n = q.n - pos
  /\ \A i \in 0..(pos - 1) : f2[c].slot[i] = q.slot[i]
  /\ \A i \in 0..(q.n - pos - 1) : f2[y].slot[i] = q.slot[pos + i]
  /\ \A a \in DOMAIN f \ {c} : f2[a] = f[a]
  /\ y \in Chained(f2) => /\ f2[y].flag = f[c].flag /\ pos < q.n
                          /\ \A i \in 0..(q.n - 1) : q.slot[i].key = q.slot[0].key

(* The overflow block that a full leaf with one key gets.                  *)
LEMMA InsertChains ==
  ASSUME NEW f, LeavesOK(f), NEW c \in Heads(f), NEW S \in SUBSET Int, LeafOK(f[c], S), NEW k \in S,
         NEW q, RisesTo(f[c], k, S, q), q.n >= LeafFull, NEW g, g = [f EXCEPT ![c] = q],
         q.slot[0].key = q.slot[q.n - 1].key,
         NEW y, y = Size(f), NEW f2, f2 = [Split(g, c, 1, q.flag) EXCEPT ![c].flag = y]
  PROVE  Same(f, c, S, f2) /\ Laid(f, c, q, 1, y, f2)
<1>1. /\ y \in Nat \ {0} /\ DOMAIN f = 0..(y - 1) /\ f \in Files(LeafFull) /\ c \in DOMAIN f
      /\ f[c].n \in 0..(LeafFull - 1) /\ LeafFull \in Nat /\ LeafFull > 1
  BY Fulls, LeafHas DEF Heads, LeafOK
<1>2. /\ q \in Pages(LeafFull) /\ q.n = f[c].n + 1 /\ q.flag = f[c].flag /\ Rising(q)
      /\ \A i \in 0..(q.n - 1) : q.slot[i].key \in S
  BY DEF RisesTo
<1>3. g \in Files(LeafFull) /\ Size(g) = y /\ DOMAIN g = DOMAIN f /\ g[c] = q
      /\ \A a \in DOMAIN f \ {c} : g[a] = f[a]
  <2>1. Put(LeafFull, f, c, q, g)
    BY <1>1, <1>2, PutIs
  <2> QED BY <2>1 DEF Put
<1>4. q.n = LeafFull /\ q.flag \in Int /\ 1 \in 0..q.n /\ q.n \in 0..LeafFull
  BY <1>1, <1>2 DEF Pages
<1>5. PICK one \in 0..q.n : one = 1
  BY <1>4
<1>6. PICK h, back : h = Split(g, c, one, back) /\ back = q.flag
  OBVIOUS
<1>7. /\ h \in Files(LeafFull) /\ Size(h) = y + 1 /\ DOMAIN h = 0..y
      /\ h[c] = Kept(q, one) /\ h[y] = Moved(q, one, back)
      /\ \A a \in DOMAIN g \ {c} : h[a] = g[a]
  <2>1. one \in 0..q.n /\ back \in Int /\ c \in DOMAIN g
    BY <1>1, <1>3, <1>4, <1>6
  <2>2. Cut(LeafFull, g, c, q, one, back, h)
    BY <1>1, <1>3, <1>4, <1>6, <2>1, CutIs
  <2> QED BY <1>3, <2>2 DEF Cut
<1>8. PICK p, m : p = Kept(q, one) /\ m = Moved(q, one, back)
  OBVIOUS
<1>9. p \in Pages(LeafFull) /\ p.n = 1 /\ \A i \in 0..(one - 1) : p.slot[i] = q.slot[i]
  BY ONLY <1>1, <1>2, <1>4, <1>5, <1>8, KeptIs
<1>10. /\ m \in Pages(LeafFull) /\ m.n = q.n - 1 /\ m.flag = q.flag
       /\ \A i \in 0..(q.n - 1 - 1) : m.slot[i] = q.slot[1 + i]
  <2>1. one \in 0..q.n /\ back \in Int /\ q.n \in 0..LeafFull /\ LeafFull \in Nat
        /\ q \in Pages(LeafFull) /\ m = Moved(q, one, back)
    BY <1>1, <1>2, <1>4, <1>6, <1>8
  <2>2. Higher(LeafFull, q, one, back, m)
    BY ONLY <2>1, HigherIs
  <2> QED BY ONLY <1>5, <1>6, <2>2 DEF Higher
<1>11. PICK p2 : p2 = [p EXCEPT !.flag = y]
  OBVIOUS
<1>12. p2 \in Pages(LeafFull) /\ p2.n = 1 /\ p2.flag = y /\ p2.slot = p.slot
  BY <1>1, <1>9, <1>11 DEF Pages
<1>13. f2 = [h EXCEPT ![c] = p2]
  BY <1>5, <1>6, <1>7, <1>8, <1>11
<1>14. c \in DOMAIN h /\ c # y
  BY <1>1, <1>7
<1>15. /\ f2 \in Files(LeafFull) /\ Size(f2) = y + 1 /\ DOMAIN f2 = 0..y
       /\ f2[c] = p2 /\ \A a \in DOMAIN h \ {c} : f2[a] = h[a]
  <2>1. Put(LeafFull, h, c, p2, f2)
    BY <1>1, <1>7, <1>12, <1>13, <1>14, PutIs
  <2> QED BY <1>7, <2>1 DEF Put
<1>16. f2[y] = m /\ \A a \in DOMAIN f \ {c} : f2[a] = f[a]
  <2>1. y \in DOMAIN h \ {c} /\ \A a \in DOMAIN f \ {c} : a \in DOMAIN h \ {c}
    BY <1>1, <1>7, <1>14
  <2> QED BY <1>3, <1>7, <1>8, <1>15, <2>1
<1>17. f2[c].n < LeafFull /\ f2[y].n < LeafFull /\ f2[c].flag = y /\ f2[y].flag = f[c].flag
  <2>1. p2.n < LeafFull /\ m.n < LeafFull
    BY <1>1, <1>4, <1>10, <1>12
  <2> QED BY <1>2, <1>10, <1>12, <1>15, <1>16, <2>1
<1>18. LeavesOK(f2) /\ Heads(f2) = Heads(f) /\ \A a \in Heads(f) \ {c} : f2[a] = f[a]
  <2>1. Added(f, c, y, f2)
    BY <1>15, <1>16, <1>17, LeafAdd
  <2> QED BY <1>17, <2>1 DEF Added
<1>19. LeafOK(f2[c], S)
  <2>1. \A i \in 0..(p2.n - 1) : i = 0
    BY <1>12
  <2>2. p2.slot[0].key \in S
    BY <1>2, <1>4, <1>5, <1>9, <1>12
  <2>3. p2.slot[0].key \in Int
    BY <2>2
  <2>4. p2.n \in 0..(LeafFull - 1)
    BY <1>1, <1>12
  <2>5. \A i, j \in 0..(p2.n - 1) : i <= j => p2.slot[i].key <= p2.slot[j].key
    BY <2>1, <2>3
  <2>6. LeafOK(p2, S)
    BY <2>1, <2>2, <2>4, <2>5 DEF LeafOK
  <2> QED BY <1>15, <2>6
<1>20. \A i \in 0..(q.n - 1) : q.slot[i].key = q.slot[0].key
  <2> SUFFICES ASSUME NEW i \in 0..(q.n - 1) PROVE q.slot[i].key = q.slot[0].key
    OBVIOUS
  <2>1. 0 \in 0..(q.n - 1) /\ q.n - 1 \in 0..(q.n - 1) /\ 0 <= i /\ i <= q.n - 1
    BY <1>4
  <2>2. q.slot[0].key <= q.slot[i].key /\ q.slot[i].key <= q.slot[q.n - 1].key
    BY <1>2, <2>1 DEF Rising
  <2>3. q.slot[0].key \in Int /\ q.slot[i].key \in Int
    BY <1>2, <2>1
  <2> QED BY <2>2, <2>3
<1>21. Laid(f, c, q, 1, y, f2)
  <2>1. DOMAIN f2 = DOMAIN f \cup {y} /\ y \notin DOMAIN f
    BY <1>1, <1>15, OneMore
  <2>3. 1 \in 1..q.n /\ 1 < q.n
    BY <1>1, <1>4
  <2>2. /\ f2[c].n = 1 /\ f2[y].n = q.n - 1 /\ f2[y].flag = f[c].flag
        /\ \A i \in 0..(1 - 1) : f2[c].slot[i] = q.slot[i]
        /\ \A i \in 0..(q.n - 1 - 1) : f2[y].slot[i] = q.slot[1 + i]
    BY <1>2, <1>5, <1>9, <1>10, <1>12, <1>15, <1>16
  <2> QED BY <1>16, <1>20, <2>1, <2>2, <2>3 DEF Laid
<1> QED BY <1>18, <1>19, <1>21 DEF Same

(* The new leaf that a full one with several keys gets.                    *)
LEMMA InsertDivides ==
  ASSUME NEW f, LeavesOK(f), NEW c \in Heads(f), NEW S \in SUBSET Int, LeafOK(f[c], S), NEW k \in S,
         NEW q, RisesTo(f[c], k, S, q), q.n >= LeafFull, NEW g, g = [f EXCEPT ![c] = q],
         q.slot[0].key # q.slot[q.n - 1].key,
         NEW y, y = Size(f), NEW f2, f2 = Split(g, c, SplitPos(q), -1),
         NEW e, e = [key |-> q.slot[SplitPos(q)].key, val |-> y]
  PROVE  Parted(f, c, S, e, f2) /\ Laid(f, c, q, SplitPos(q), y, f2)
<1>1. /\ y \in Nat \ {0} /\ DOMAIN f = 0..(y - 1) /\ f \in Files(LeafFull) /\ c \in DOMAIN f
      /\ f[c].n \in 0..(LeafFull - 1) /\ LeafFull \in Nat /\ LeafFull > 1
  BY Fulls, LeafHas DEF Heads, LeafOK
<1>2. /\ q \in Pages(LeafFull) /\ q.n = f[c].n + 1 /\ q.flag = f[c].flag /\ Rising(q)
      /\ \A i \in 0..(q.n - 1) : q.slot[i].key \in S
  BY DEF RisesTo
<1>3. g \in Files(LeafFull) /\ Size(g) = y /\ DOMAIN g = DOMAIN f /\ g[c] = q
      /\ \A a \in DOMAIN f \ {c} : g[a] = f[a]
  <2>1. Put(LeafFull, f, c, q, g)
    BY <1>1, <1>2, PutIs
  <2> QED BY <2>1 DEF Put
<1>4. q.n = LeafFull /\ q.flag \in Int /\ q.n \in 2..LeafFull /\ q.n \in 0..LeafFull /\ -1 \in Int
  BY <1>1, <1>2 DEF Pages
<1>5. PICK pos : pos = SplitPos(q)
  OBVIOUS
<1>6. pos \in 1..(q.n - 1) /\ q.slot[pos - 1].key < q.slot[pos].key
  BY ONLY <1>1, <1>2, <1>4, <1>5, SplitPosIs, q.slot[0].key # q.slot[q.n - 1].key
<1>7. /\ pos \in 0..q.n /\ pos \in 0..(q.n - 1) /\ pos - 1 \in 0..(q.n - 1) /\ 0 \in 0..(pos - 1)
      /\ 0 \in 0..(q.n - 1) /\ q.n \in Nat /\ pos \in Nat
  BY <1>4, <1>6
<1>8. PICK top : top = q.slot[pos].key
  OBVIOUS
<1>9. top \in S /\ top \in Int /\ e = [key |-> top, val |-> y] /\ e \in Record
  BY <1>1, <1>2, <1>5, <1>7, <1>8 DEF Record
<1>10. \A i \in 0..(pos - 1) : q.slot[i].key \in S /\ q.slot[i].key < top
  <2> SUFFICES ASSUME NEW i \in 0..(pos - 1) PROVE q.slot[i].key \in S /\ q.slot[i].key < top
    OBVIOUS
  <2>1. i \in 0..(q.n - 1) /\ i <= pos - 1
    BY <1>7
  <2>2. q.slot[i].key \in S /\ q.slot[pos - 1].key \in S /\ q.slot[i].key <= q.slot[pos - 1].key
    BY <1>2, <1>7, <2>1 DEF Rising
  <2>3. q.slot[i].key \in Int /\ q.slot[pos - 1].key \in Int /\ q.slot[pos - 1].key < top
    BY <1>6, <1>8, <2>2
  <2> QED BY <1>9, <2>2, <2>3
<1>11. \A i \in pos..(q.n - 1) : q.slot[i].key \in S /\ q.slot[i].key >= top
  <2> SUFFICES ASSUME NEW i \in pos..(q.n - 1) PROVE q.slot[i].key \in S /\ q.slot[i].key >= top
    OBVIOUS
  <2>1. i \in 0..(q.n - 1) /\ pos <= i
    BY <1>7
  <2>2. q.slot[i].key \in S /\ top <= q.slot[i].key
    BY <1>2, <1>7, <1>8, <2>1 DEF Rising
  <2>3. q.slot[i].key \in Int
    BY <2>2
  <2> QED BY <1>9, <2>2, <2>3
<1>12. PICK flag \in Int : flag = -1
  BY <1>4
<1>13. f2 = Split(g, c, pos, flag)
  BY <1>5, <1>12
<1>14. /\ f2 \in Files(LeafFull) /\ Size(f2) = y + 1 /\ DOMAIN f2 = 0..y
       /\ f2[c] = Kept(q, pos) /\ f2[y] = Moved(q, pos, flag)
       /\ \A a \in DOMAIN g \ {c} : f2[a] = g[a]
  <2>1. c \in DOMAIN g
    BY <1>1, <1>3
  <2>2. Cut(LeafFull, g, c, q, pos, flag, f2)
    BY ONLY <1>1, <1>3, <1>4, <1>7, <1>13, <2>1, flag \in Int, CutIs
  <2> QED BY <1>3, <2>2 DEF Cut
<1>15. PICK p, m : p = Kept(q, pos) /\ m = Moved(q, pos, flag)
  OBVIOUS
<1>16. /\ p \in Pages(LeafFull) /\ p.n = pos /\ p.flag = q.flag
       /\ \A i \in 0..(pos - 1) : p.slot[i] = q.slot[i]
  <2>1. /\ LeafFull \in Nat /\ q \in Pages(LeafFull) /\ q.n \in 0..LeafFull /\ pos \in 0..q.n
        /\ p = Kept(q, pos)
    BY ONLY <1>1, <1>2, <1>4, <1>7, <1>15
  <2>2. Lower(LeafFull, q, pos, p)
    BY ONLY <2>1, LowerIs
  <2> QED BY ONLY <2>2 DEF Lower
<1>17. /\ m \in Pages(LeafFull) /\ m.n = q.n - pos /\ m.flag = flag
       /\ \A i \in 0..(q.n - pos - 1) : m.slot[i] = q.slot[pos + i]
  <2>1. /\ LeafFull \in Nat /\ q \in Pages(LeafFull) /\ q.n \in 0..LeafFull /\ pos \in 0..q.n
        /\ m = Moved(q, pos, flag)
    BY ONLY <1>1, <1>2, <1>4, <1>7, <1>15
  <2>2. Higher(LeafFull, q, pos, flag, m)
    BY ONLY <2>1, flag \in Int, HigherIs
  <2> QED BY ONLY <2>2 DEF Higher
<1>18. f2[c] = p /\ f2[y] = m /\ \A a \in DOMAIN f \ {c} : f2[a] = f[a]
  BY <1>3, <1>14, <1>15
<1>19. f2[c].n < LeafFull /\ f2[y].n < LeafFull /\ f2[y].flag = -1 /\ f2[c].flag = f[c].flag
  <2>1. p.n < LeafFull /\ m.n < LeafFull
    BY <1>1, <1>4, <1>6, <1>16, <1>17
  <2> QED BY <1>2, <1>12, <1>16, <1>17, <1>18, <2>1
<1>20. /\ LeavesOK(f2) /\ Heads(f2) = Heads(f) \cup {y} /\ y \notin DOMAIN f
       /\ \A a \in Heads(f) \ {c} : f2[a] = f[a]
  <2>1. Added(f, c, y, f2)
    BY <1>14, <1>18, <1>19, LeafAdd
  <2> QED BY <1>19, <2>1 DEF Added
<1>21. LeafOK(p, {u \in S : u < top})
  <2> DEFINE low == {u \in S : u < top}
  <2>1. p.n \in 0..(LeafFull - 1)
    BY <1>4, <1>6, <1>16
  <2>2. \A i \in 0..(p.n - 1) : p.slot[i].key \in low
    BY <1>10, <1>16
  <2>3. \A i, j \in 0..(p.n - 1) : i <= j => p.slot[i].key <= p.slot[j].key
    <3>1. \A i \in 0..(pos - 1) : i \in 0..(q.n - 1)
      BY <1>7
    <3> QED BY <1>2, <1>16, <3>1 DEF Rising
  <2>4. p.slot[0].key \in low
    BY <1>10, <1>7, <1>16
  <2> HIDE DEF low
  <2>5. LeafOK(p, low)
    BY <2>1, <2>2, <2>3, <2>4 DEF LeafOK
  <2> QED BY <2>5 DEF low
<1>22. LeafOK(m, {u \in S : u >= top})
  <2> DEFINE high == {u \in S : u >= top}
  <2>1. m.n \in 0..(LeafFull - 1)
    BY <1>4, <1>6, <1>17
  <2>2. \A i \in 0..(m.n - 1) : pos + i \in pos..(q.n - 1) /\ pos + i \in 0..(q.n - 1) /\ m.slot[i] = q.slot[pos + i]
    BY <1>7, <1>17
  <2>3. \A i \in 0..(m.n - 1) : m.slot[i].key \in high
    BY <1>11, <2>2
  <2>4. ASSUME NEW i \in 0..(m.n - 1), NEW j \in 0..(m.n - 1), i <= j PROVE m.slot[i].key <= m.slot[j].key
    <3>1. pos + i <= pos + j
      BY <1>7, <1>17, <2>4
    <3> QED BY <1>2, <2>2, <3>1 DEF Rising
  <2>5. ~(m.flag >= 0)
    BY <1>12, <1>17
  <2> HIDE DEF high
  <2>6. LeafOK(m, high)
    BY <2>1, <2>3, <2>4, <2>5 DEF LeafOK
  <2> QED BY <2>6 DEF high
<1>23. \E u \in S : u < top
  BY <1>7, <1>10
<1>24. e.key = top /\ e.val = y
  BY <1>9
<1>25. Laid(f, c, q, pos, y, f2)
  <2>1. DOMAIN f2 = DOMAIN f \cup {y} /\ y \notin DOMAIN f
    BY <1>1, <1>14, OneMore
  <2>2. y \notin Chained(f2)
    BY <1>20 DEF Heads
  <2>3. pos \in 1..q.n
    BY <1>4, <1>6
  <2> QED BY <1>16, <1>17, <1>18, <2>1, <2>2, <2>3 DEF Laid
<1> QED BY <1>5, <1>9, <1>18, <1>20, <1>21, <1>22, <1>23, <1>24, <1>25 DEF Parted

(* File f3 has the leaves of f2, but for empty ones that f2 has cut from    *)
(* their chains.                                                           *)
Fits(f2, f3) ==
  /\ LeavesOK(f2) /\ Heads(f3) = Heads(f2)
  /\ \A a \in Heads(f2) : f3[a] = f2[a] \/ (f2[a].n = 0 /\ CutOff(f2, a))

(* The new leaf in front of a leaf with a chain. When the leaf is empty,    *)
(* the block that takes its chain has lost the key of the chain.           *)
LEMMA InsertCuts ==
  ASSUME NEW f, LeavesOK(f), NEW c \in Heads(f), NEW S \in SUBSET Int, LeafOK(f[c], S), NEW k \in S,
         NEW r \in Nat, NEW p, p = f[c], p.flag >= 0, p.slot[0].key > k, ~CutOff(f, c),
         NEW h, h = Split(f, c, 0, p.flag), NEW y, y = Size(f),
         NEW f2, f2 = [h EXCEPT ![c] = InsertAt([@ EXCEPT !.flag = -1], 0, [key |-> k, val |-> r])],
         NEW e, e = [key |-> p.slot[0].key, val |-> y],
         NEW u, Placed(LeafFull, p, 0, [key |-> k, val |-> r], u)
  PROVE  (\E f3 : Parted(f, c, S, e, f3) /\ Fits(f2, f3)) /\ Laid(f, c, u, 1, y, f2)
<1>1. /\ y \in Nat \ {0} /\ DOMAIN f = 0..(y - 1) /\ f \in Files(LeafFull) /\ c \in DOMAIN f
      /\ p.n \in 0..(LeafFull - 1) /\ LeafFull \in Nat /\ LeafFull > 1 /\ p \in Pages(LeafFull)
      /\ p.flag \in Int /\ p.flag \in -1..(y - 1)
  <2>1. /\ y \in Nat \ {0} /\ DOMAIN f = 0..(y - 1) /\ f \in Files(LeafFull) /\ c \in DOMAIN f
        /\ p.n \in 0..(LeafFull - 1) /\ LeafFull \in Nat /\ LeafFull > 1 /\ p \in Pages(LeafFull)
        /\ p.flag \in -1..(y - 1)
    BY Fulls, LeafHas DEF Heads, LeafOK
  <2> QED BY <2>1 DEF Pages
<1>2. PICK top : top = p.slot[0].key
  OBVIOUS
<1>3. top \in S /\ top \in Int /\ k < top /\ k \in Int /\ e = [key |-> top, val |-> y] /\ e \in Record
  BY <1>1, <1>2 DEF LeafOK, Record
<1>4. PICK none, back : none = 0 /\ back = p.flag
  OBVIOUS
<1>5. none \in 0..p.n /\ p.n \in 0..LeafFull /\ back \in Int
  BY <1>1, <1>4
<1>6. h = Split(f, c, none, back)
  BY <1>4
<1>7. PICK low, m : low = Kept(p, none) /\ m = Moved(p, none, back)
  OBVIOUS
<1>8. /\ h \in Files(LeafFull) /\ Size(h) = y + 1 /\ DOMAIN h = 0..y
      /\ h[c] = low /\ h[y] = m /\ \A a \in DOMAIN f \ {c} : h[a] = f[a]
  <2>1. Cut(LeafFull, f, c, p, none, back, h)
    BY <1>1, <1>5, <1>6, CutIs
  <2> QED BY <1>7, <2>1 DEF Cut
<1>9. low \in Pages(LeafFull) /\ low.n = none
  BY ONLY <1>1, <1>5, <1>7, KeptIs
<1>10. /\ m \in Pages(LeafFull) /\ m.n = p.n - none /\ m.flag = back
       /\ \A i \in 0..(p.n - none - 1) : m.slot[i] = p.slot[none + i]
       /\ none = p.n => m.slot[0].key = 0
  <2>1. LeafFull > 0
    BY <1>1
  <2>2. Higher(LeafFull, p, none, back, m)
    BY ONLY <1>1, <1>5, <1>7, HigherIs
  <2> QED BY ONLY <2>1, <2>2 DEF Higher
<1>11. PICK blank : blank = [low EXCEPT !.flag = -1]
  OBVIOUS
<1>12. blank \in Pages(LeafFull) /\ blank.n = 0 /\ blank.flag = -1
  BY <1>4, <1>9, <1>11 DEF Pages
<1>13. PICK e1 \in Record : e1 = [key |-> k, val |-> r]
  BY <1>3 DEF Record
<1>14. PICK q : q = InsertAt(blank, none, e1)
  OBVIOUS
<1>15. q \in Pages(LeafFull) /\ q.n = 1 /\ q.flag = -1 /\ q.slot[none] = e1
  <2>1. none \in 0..blank.n /\ blank.n \in 0..(LeafFull - 1)
    BY <1>1, <1>4, <1>12
  <2>2. q \in Pages(LeafFull) /\ q.n = blank.n + 1 /\ q.flag = blank.flag /\ q.slot[none] = e1
    BY ONLY <1>1, <1>12, <1>13, <1>14, <2>1, InsertAtIs
  <2> QED BY <1>12, <2>2
<1>16. f2 = [h EXCEPT ![c] = q]
  BY <1>4, <1>8, <1>11, <1>13, <1>14
<1>17. c \in DOMAIN h /\ c # y
  BY <1>1, <1>8
<1>18. /\ f2 \in Files(LeafFull) /\ Size(f2) = y + 1 /\ DOMAIN f2 = 0..y
       /\ f2[c] = q /\ \A a \in DOMAIN h \ {c} : f2[a] = h[a]
  <2>1. Put(LeafFull, h, c, q, f2)
    BY <1>1, <1>8, <1>15, <1>16, <1>17, PutIs
  <2> QED BY <1>8, <2>1 DEF Put
<1>19. f2[y] = m /\ \A a \in DOMAIN f \ {c} : f2[a] = f[a]
  <2>1. y \in DOMAIN h \ {c} /\ \A a \in DOMAIN f \ {c} : a \in DOMAIN h \ {c}
    BY <1>1, <1>8, <1>17
  <2> QED BY <1>8, <1>18, <2>1
<1>20. f2[c].n < LeafFull /\ f2[y].n < LeafFull /\ f2[c].flag = -1 /\ f2[y].flag = f[c].flag
  <2>1. q.n < LeafFull /\ m.n < LeafFull
    BY <1>1, <1>4, <1>10, <1>15
  <2> QED BY <1>4, <1>10, <1>15, <1>18, <1>19, <2>1
<1>21. /\ LeavesOK(f2) /\ Heads(f2) = Heads(f) \cup {y} /\ y \notin DOMAIN f
       /\ \A a \in Heads(f) \ {c} : f2[a] = f[a]
  <2>1. Added(f, c, y, f2)
    BY <1>18, <1>19, <1>20, LeafAdd
  <2> QED BY <1>20, <2>1 DEF Added
<1>22. LeafOK(q, {v \in S : v < top})
  <2> DEFINE lower == {v \in S : v < top}
  <2>1. \A i \in 0..(q.n - 1) : i = none
    BY <1>4, <1>15
  <2>2. q.slot[none].key = k /\ k \in lower /\ k \in Int
    BY <1>3, <1>13, <1>15
  <2>3. q.n \in 0..(LeafFull - 1) /\ ~(q.flag >= 0)
    BY <1>1, <1>15
  <2> HIDE DEF lower
  <2>4. \A i, j \in 0..(q.n - 1) : i <= j => q.slot[i].key <= q.slot[j].key
    <3>1. k <= k
      BY <2>2
    <3> QED BY <2>1, <2>2, <3>1
  <2>5. LeafOK(q, lower)
    BY <2>1, <2>2, <2>3, <2>4 DEF LeafOK
  <2> QED BY <2>5 DEF lower
<1>23. m.slot[0].key # top => p.n = 0 /\ m.n = 0 /\ CutOff(f2, y)
  <2>1. CASE p.n > 0
    <3>1. 0 \in 0..(p.n - none - 1) /\ none + 0 = 0
      BY <1>1, <1>4, <2>1
    <3>2. m.slot[0] = p.slot[none + 0]
      BY <1>10, <3>1
    <3> QED BY <1>2, <3>1, <3>2
  <2>2. CASE p.n = 0
    <3>1. PICK b : b = p.flag
      OBVIOUS
    <3>2. b \in DOMAIN f /\ b # c /\ b >= 0
      <4>1. b \in 0..(y - 1)
        BY <1>1, <3>1
      <4>2. b \in Chained(f)
        BY <1>1, <3>1 DEF Chained
      <4> QED BY <1>1, <3>1, <4>1, <4>2 DEF Heads
    <3>3. p.slot[0].key = f[b].slot[0].key
      BY <3>1, <3>2 DEF CutOff
    <3>4. f2[y].flag = b /\ f2[b] = f[b]
      BY <1>4, <1>10, <1>19, <3>1, <3>2
    <3>5. m.slot[0].key # top => CutOff(f2, y)
      BY <1>2, <1>19, <3>2, <3>3, <3>4 DEF CutOff
    <3>6. m.n = 0
      BY <1>4, <1>10, <2>2
    <3> QED BY <2>2, <3>5, <3>6
  <2> QED BY <1>1, <2>1, <2>2
<1>24. m.slot[0].key = top => LeafOK(m, {v \in S : v >= top})
  <2> SUFFICES ASSUME m.slot[0].key = top PROVE LeafOK(m, {v \in S : v >= top})
    OBVIOUS
  <2> DEFINE high == {v \in S : v >= top}
  <2>1. m.n = p.n /\ m.n \in 0..(LeafFull - 1)
    BY <1>1, <1>4, <1>10
  <2>2. \A i \in 0..(m.n - 1) : m.slot[i] = p.slot[i] /\ i \in 0..(p.n - 1)
    <3> SUFFICES ASSUME NEW i \in 0..(m.n - 1) PROVE m.slot[i] = p.slot[i] /\ i \in 0..(p.n - 1)
      OBVIOUS
    <3>1. i \in 0..(p.n - none - 1) /\ none + i = i /\ i \in 0..(p.n - 1)
      BY <1>1, <1>4, <2>1
    <3> QED BY <1>10, <3>1
  <2>3. \A i, j \in 0..(p.n - 1) : i <= j => p.slot[i].key <= p.slot[j].key
    BY DEF LeafOK
  <2>4. \A i \in 0..(m.n - 1) : m.slot[i].key \in high
    <3> SUFFICES ASSUME NEW i \in 0..(m.n - 1) PROVE m.slot[i].key \in high
      OBVIOUS
    <3>1. i \in 0..(p.n - 1) /\ 0 \in 0..(p.n - 1) /\ 0 <= i /\ m.slot[i] = p.slot[i]
      BY <1>1, <2>1, <2>2
    <3>2. top <= p.slot[i].key
      BY <1>2, <2>3, <3>1
    <3>3. p.slot[i].key \in S
      BY <3>1 DEF LeafOK
    <3>4. p.slot[i].key \in Int
      BY <3>3
    <3>5. p.slot[i].key >= top
      BY <1>3, <3>2, <3>4
    <3> QED BY <3>1, <3>3, <3>5
  <2>5. m.slot[0].key \in high
    BY <1>3
  <2>6. \A i, j \in 0..(m.n - 1) : i <= j => m.slot[i].key <= m.slot[j].key
    BY <2>2, <2>3
  <2> HIDE DEF high
  <2>7. LeafOK(m, high)
    BY <2>1, <2>4, <2>5, <2>6 DEF LeafOK
  <2> QED BY <2>7 DEF high
<1>25. e.key = top /\ e.val = y
  BY <1>3
<1>26. /\ e \in Record /\ e.key \in S /\ (\E v \in S : v < e.key) /\ e.val \notin DOMAIN f
       /\ Heads(f2) = Heads(f) \cup {e.val}
  BY <1>3, <1>21, <1>25
<1>27. LeafOK(f2[c], {v \in S : v < e.key})
  BY <1>18, <1>22, <1>25
<1>28. Laid(f, c, u, 1, y, f2)
  <2>1. DOMAIN f2 = DOMAIN f \cup {y} /\ y \notin DOMAIN f
    BY <1>1, <1>18, OneMore
  <2>2. y \notin Chained(f2)
    BY <1>21 DEF Heads
  <2>3. u.n = p.n + 1 /\ u.slot[0] = e1 /\ \A i \in (0 + 1)..p.n : u.slot[i] = p.slot[i - 1]
    BY <1>13 DEF Placed
  <2>4. 1 \in 1..u.n /\ u.n - 1 = p.n
    <3>1. p.n \in Nat
      BY <1>1
    <3> QED BY ONLY <2>3, <3>1
  <2>5. f2[c].n = 1 /\ f2[y].n = u.n - 1 /\ \A i \in 0..(1 - 1) : f2[c].slot[i] = u.slot[i]
    BY <1>1, <1>4, <1>10, <1>15, <1>18, <1>19, <2>3, <2>4
  <2>6. ASSUME NEW i \in 0..(u.n - 1 - 1) PROVE f2[y].slot[i] = u.slot[1 + i]
    <3>1. i \in 0..(p.n - none - 1) /\ none + i = i /\ 1 + i \in (0 + 1)..p.n /\ (1 + i) - 1 = i
      BY <1>1, <1>4, <2>4
    <3> QED BY <1>10, <1>19, <2>3, <3>1
  <2> QED BY <1>19, <2>1, <2>2, <2>4, <2>5, <2>6 DEF Laid
<1>29. CASE m.slot[0].key = top
  <2>1. LeafOK(f2[e.val], {v \in S : v >= e.key})
    BY <1>19, <1>24, <1>25, <1>29
  <2>2. Parted(f, c, S, e, f2)
    BY ONLY <1>21, <1>26, <1>27, <2>1 DEF Parted
  <2>3. Fits(f2, f2)
    BY <1>21 DEF Fits
  <2> QED BY <1>28, <2>2, <2>3
<1>30. CASE m.slot[0].key # top
  <2>1. PICK first \in Record : first.key = top
    <3>1. [key |-> top, val |-> 0] \in Record
      BY <1>3 DEF Record
    <3> QED BY <3>1
  <2>2. PICK m3 : m3 = [flag |-> m.flag, n |-> m.n, slot |-> [i \in Slots(LeafFull) |-> first]]
    OBVIOUS
  <2>3. m3 \in Pages(LeafFull) /\ m3.flag = m.flag /\ m3.n = 0 /\ m3.slot[0].key = top
    <3>1. m.flag \in Int /\ m.n \in Int /\ 0 \in Slots(LeafFull)
      BY <1>1, <1>10 DEF Pages, Slots
    <3> QED BY <1>23, <1>30, <2>1, <2>2, <3>1 DEF Pages
  <2>4. PICK f3 : f3 = [f2 EXCEPT ![y] = m3]
    OBVIOUS
  <2>5. /\ f3 \in Files(LeafFull) /\ Size(f3) = Size(f2) /\ DOMAIN f3 = DOMAIN f2
        /\ f3[y] = m3 /\ \A a \in DOMAIN f2 \ {y} : f3[a] = f2[a]
    <3>1. y \in DOMAIN f2
      BY <1>1, <1>18
    <3>2. Put(LeafFull, f2, y, m3, f3)
      BY <1>1, <1>18, <2>3, <2>4, <3>1, PutIs
    <3> QED BY <3>2 DEF Put
  <2>6. \A a \in DOMAIN f2 : f3[a].flag = f2[a].flag
    BY <1>19, <2>3, <2>5
  <2>7. LeavesOK(f3)
    <3>1. \A a \in DOMAIN f2 : f2[a].flag \in -1..(Size(f2) - 1) /\ f2[a].n < LeafFull
      BY <1>21, LeafHas
    <3>2. \A a \in DOMAIN f2 : f3[a].n < LeafFull
      <4>1. m3.n < LeafFull
        BY <1>1, <2>3
      <4> QED BY <2>5, <3>1, <4>1
    <3> QED BY <2>5, <2>6, <3>1, <3>2 DEF LeavesOK
  <2>8. Heads(f3) = Heads(f2)
    BY <2>5, <2>6 DEF Heads, Chained
  <2>9. LeafOK(f3[e.val], {v \in S : v >= e.key})
    <3>1. LeafOK(m3, {v \in S : v >= top})
      <4>1. top \in {v \in S : v >= top}
        BY <1>3
      <4>2. m3.n \in 0..(LeafFull - 1) /\ 0..(m3.n - 1) = {}
        BY <1>1, <2>3
      <4> QED BY <2>3, <4>1, <4>2 DEF LeafOK
    <3> QED BY <1>25, <2>5, <3>1
  <2>10. f3[c] = f2[c] /\ \A a \in Heads(f) \ {c} : f3[a] = f[a]
    <3>1. Heads(f) \subseteq DOMAIN f2 \ {y} /\ c \in DOMAIN f2 \ {y}
      BY <1>1, <1>18, <1>21 DEF Heads
    <3> QED BY <1>21, <2>5, <3>1
  <2>11. Parted(f, c, S, e, f3)
    BY ONLY <1>21, <1>26, <1>27, <2>7, <2>8, <2>9, <2>10 DEF Parted
  <2>12. Fits(f2, f3)
    <3>1. f2[y].n = 0 /\ CutOff(f2, y)
      BY <1>19, <1>23, <1>30
    <3>2. \A a \in Heads(f2) : a = y \/ a \in DOMAIN f2 \ {y}
      BY DEF Heads
    <3> QED BY <1>21, <2>5, <2>8, <3>1, <3>2 DEF Fits
  <2> QED BY <1>28, <2>11, <2>12
<1> QED BY <1>29, <1>30

(* The record is put into the page of leaf c, which may be divided then.   *)
Written(f, c, k, r, f2) ==
  \E s \in Int, q \in Pages(LeafFull) :
    /\ s \in 0..f[c].n /\ Placed(LeafFull, f[c], s, [key |-> k, val |-> r], q)
    /\ \/ f2 = [f EXCEPT ![c] = q] /\ q.n < LeafFull
       \/ \E pos \in Int : Laid(f, c, q, pos, Size(f), f2)

(* What an insertion makes of the leaves.                                  *)
LEMMA LeafInsertIs ==
  ASSUME NEW f, LeavesOK(f), NEW c \in Heads(f), NEW S \in SUBSET Int, LeafOK(f[c], S), NEW k \in S,
         NEW r \in Nat, NEW low, low = LeafInsert(f, c, k, r),
         \A a \in DOMAIN f : ~CutOff(f, a)
  PROVE  /\ \E f3 : /\ Fits(low.leaf, f3)
                    /\ \/ low.up = NoEntry /\ Same(f, c, S, f3)
                       \/ low.up # NoEntry /\ Parted(f, c, S, low.up, f3)
         /\ Written(f, c, k, r, low.leaf)
<1>1. PICK p, y, q : /\ p = f[c] /\ y = Size(f)
                     /\ q = InsertAt(p, SlotBefore(p, k) + 1, [key |-> k, val |-> r])
  OBVIOUS
<1>2. PICK g : g = [f EXCEPT ![c] = q]
  OBVIOUS
<1>3. p \in Pages(LeafFull) /\ c \in DOMAIN f /\ y \in Nat /\ LeafOK(p, S) /\ LeafFull \in Nat /\ ~CutOff(f, c)
  <2>1. c \in DOMAIN f
    BY DEF Heads
  <2> QED BY <1>1, <2>1, Fulls, LeafHas
<1>4. RisesTo(p, k, S, q)
  BY <1>1, <1>3, RecordIn
<1>5. low = IF p.flag >= 0 /\ p.slot[0].key > k
            THEN [leaf |-> [Split(f, c, 0, p.flag) EXCEPT ![c] =
                              InsertAt([@ EXCEPT !.flag = -1], 0, [key |-> k, val |-> r])],
                  up |-> [key |-> p.slot[0].key, val |-> y]]
            ELSE IF ~IsFull(q, LeafFull) THEN [leaf |-> g, up |-> NoEntry]
            ELSE IF q.slot[0].key = q.slot[q.n - 1].key
            THEN [leaf |-> [Split(g, c, 1, q.flag) EXCEPT ![c].flag = y], up |-> NoEntry]
            ELSE [leaf |-> Split(g, c, SplitPos(q), -1),
                  up |-> [key |-> q.slot[SplitPos(q)].key, val |-> y]]
  <2>1. Cardinality(DOMAIN f) = y
    BY <1>1 DEF Size
  <2> QED BY ONLY low = LeafInsert(f, c, k, r), <1>1, <1>2, <2>1 DEF LeafInsert
<1>6. \A x : [key |-> x, val |-> y] # NoEntry
  <2>1. y # -1
    BY <1>3
  <2> QED BY <2>1 DEF NoEntry
<1>7. PICK s : s = SlotBefore(p, k) + 1
  OBVIOUS
<1>8. /\ s \in 0..p.n /\ s \in Int /\ Placed(LeafFull, p, s, [key |-> k, val |-> r], q) /\ q \in Pages(LeafFull)
      /\ (p.flag >= 0 /\ p.slot[0].key > k => s = 0)
  <2>1. p.n \in 0..(LeafFull - 1) /\ k \in Int
    BY <1>3 DEF LeafOK
  <2>2. PICK e \in Record : e = [key |-> k, val |-> r]
    BY <2>1 DEF Record
  <2>3. PICK t \in -1..(p.n - 1) : /\ t = SlotBefore(p, k)
                                   /\ \A i \in 0..t : p.slot[i].key < k
    BY <1>3, <2>1, SlotBeforeIs
  <2>4. s = t + 1 /\ s \in 0..p.n /\ s \in Int /\ t \in Int
    BY <1>3, <1>7, <2>1, <2>3
  <2>5. Placed(LeafFull, p, s, e, q)
    BY <1>1, <1>3, <1>7, <2>1, <2>2, <2>4, PlacedIs
  <2>6. p.slot[0].key > k => s = 0
    <3> SUFFICES ASSUME p.slot[0].key > k, s # 0 PROVE FALSE
      OBVIOUS
    <3>1. 0 \in 0..t /\ 0 \in 0..(LeafFull - 1)
      BY <1>3, <2>1, <2>3, <2>4
    <3>2. p.slot[0].key < k /\ p.slot[0].key \in Int
      BY <1>3, <2>3, <3>1, KeyIsInt
    <3> QED BY <2>1, <3>2
  <2> QED BY <1>4, <2>2, <2>4, <2>5, <2>6 DEF RisesTo
<1>9. ASSUME NEW f2, \/ f2 = [f EXCEPT ![c] = q] /\ q.n < LeafFull
                     \/ \E pos \in Int : Laid(f, c, q, pos, y, f2)
      PROVE  Written(f, c, k, r, f2)
  BY <1>1, <1>8, <1>9 DEF Written
<1>10. ASSUME NEW pos, NEW f2, Laid(f, c, q, pos, y, f2) PROVE Written(f, c, k, r, f2)
  <2>1. pos \in Int
    BY <1>10 DEF Laid
  <2> QED BY <1>9, <1>10, <2>1
<1>11. ASSUME NEW f2, Same(f, c, S, f2) \/ \E e : Parted(f, c, S, e, f2) PROVE Fits(f2, f2)
  BY <1>11 DEF Fits, Same, Parted
<1>12. CASE p.flag >= 0 /\ p.slot[0].key > k
  <2>1. PICK h, f2, e : /\ h = Split(f, c, 0, p.flag) /\ e = [key |-> p.slot[0].key, val |-> y]
                        /\ f2 = [h EXCEPT ![c] = InsertAt([@ EXCEPT !.flag = -1], 0, [key |-> k, val |-> r])]
    OBVIOUS
  <2>2. low.leaf = f2 /\ low.up = e
    BY ONLY <1>5, <1>12, <2>1
  <2>3. Placed(LeafFull, p, 0, [key |-> k, val |-> r], q)
    BY <1>12, <1>8
  <2>4. (\E f3 : Parted(f, c, S, e, f3) /\ Fits(f2, f3)) /\ Laid(f, c, q, 1, y, f2)
    BY <1>1, <1>3, <1>12, <2>1, <2>3, InsertCuts
  <2>5. Written(f, c, k, r, f2)
    BY <1>10, <2>4
  <2> QED BY <1>6, <2>1, <2>2, <2>4, <2>5
<1>13. CASE ~(p.flag >= 0 /\ p.slot[0].key > k) /\ ~IsFull(q, LeafFull)
  <2>1. low.leaf = g /\ low.up = NoEntry
    BY ONLY <1>5, <1>13
  <2>2. /\ q \in Pages(LeafFull) /\ q.n = p.n + 1 /\ q.flag = p.flag /\ Rising(q)
        /\ \A i \in 0..(q.n - 1) : q.slot[i].key \in S
    BY <1>4 DEF RisesTo
  <2>3. q.n < LeafFull /\ p.n \in Nat /\ 0 \in 0..(q.n - 1) /\ q.n \in 0..(LeafFull - 1)
    <3>1. ~(q.n >= LeafFull) /\ p.n \in 0..(LeafFull - 1)
      BY <1>3, <1>13 DEF IsFull, LeafOK
    <3> QED BY <1>3, <2>2, <3>1
  <2>4. LeafOK(q, S)
    BY <2>2, <2>3 DEF LeafOK, Rising
  <2>5. Same(f, c, S, g)
    BY <1>1, <1>2, <2>2, <2>3, <2>4, LeafSet
  <2>6. Written(f, c, k, r, g)
    BY <1>2, <1>9, <2>3
  <2> QED BY <1>11, <2>1, <2>5, <2>6
<1>14. CASE /\ ~(p.flag >= 0 /\ p.slot[0].key > k) /\ IsFull(q, LeafFull)
            /\ q.slot[0].key = q.slot[q.n - 1].key
  <2>1. PICK f2 : f2 = [Split(g, c, 1, q.flag) EXCEPT ![c].flag = y]
    OBVIOUS
  <2>2. low.leaf = f2 /\ low.up = NoEntry
    BY ONLY <1>5, <1>14, <2>1
  <2>3. q.n >= LeafFull
    BY <1>14 DEF IsFull
  <2>4. Same(f, c, S, f2) /\ Laid(f, c, q, 1, y, f2)
    BY <1>1, <1>2, <1>3, <1>4, <1>14, <2>1, <2>3, InsertChains
  <2> QED BY <1>10, <1>11, <2>2, <2>4
<1>15. CASE /\ ~(p.flag >= 0 /\ p.slot[0].key > k) /\ IsFull(q, LeafFull)
            /\ q.slot[0].key # q.slot[q.n - 1].key
  <2>1. PICK f2, e : f2 = Split(g, c, SplitPos(q), -1) /\ e = [key |-> q.slot[SplitPos(q)].key, val |-> y]
    OBVIOUS
  <2>2. low.leaf = f2 /\ low.up = e
    BY ONLY <1>5, <1>15, <2>1
  <2>3. q.n >= LeafFull
    BY <1>15 DEF IsFull
  <2>4. Parted(f, c, S, e, f2) /\ Laid(f, c, q, SplitPos(q), y, f2)
    BY <1>1, <1>2, <1>3, <1>4, <1>15, <2>1, <2>3, InsertDivides
  <2> QED BY <1>6, <1>10, <1>11, <2>1, <2>2, <2>4
<1> QED BY <1>12, <1>13, <1>14, <1>15

-----------------------------------------------------------------------------
(* Removals *)

(* Where a lookup that starts in leaf b may stand: in b before its last     *)
(* record, or in an overflow block. Only the first place may be slot -1.   *)
Stands(f, b) ==
  {x \in [blk : DOMAIN f, slot : Int, found : {TRUE}] :
     x.slot >= -1 /\ (x.blk = b => x.slot < f[b].n) /\ (x.blk # b => x.blk \in Chained(f))}
Trails(f, b) ==
  {c \in Seq(Stands(f, b)) : Len(c) >= 1 /\ \A i \in 2..Len(c) : c[i].slot >= 0}

LEMMA AdvanceIs ==
  ASSUME NEW f, LeavesOK(f), NEW b \in Heads(f), NEW k \in Int, NEW c \in Trails(f, b)
  PROVE  Advance(f, c, k) \in Trails(f, b)
<1>1. /\ Size(f) \in Nat \ {0} /\ DOMAIN f = 0..(Size(f) - 1)
      /\ \A a \in DOMAIN f : f[a].flag \in -1..(Size(f) - 1)
  BY LeafHas
<1>2. c \in Seq(Stands(f, b)) /\ Len(c) \in Nat /\ Len(c) >= 1 /\ \A i \in 2..Len(c) : c[i].slot >= 0
  BY DEF Trails
<1>3. PICK x \in Stands(f, b) : x = c[Len(c)]
  BY <1>2
<1>4. /\ x.blk \in DOMAIN f /\ x.slot \in Int /\ x.slot >= -1
      /\ (x.blk = b => x.slot < f[b].n) /\ (x.blk # b => x.blk \in Chained(f))
      /\ x = [blk |-> x.blk, slot |-> x.slot, found |-> TRUE]
  BY DEF Stands
<1>5. PICK next : next = LeafNext(f, x, k)
  OBVIOUS
<1>6. next.found => next \in Stands(f, b) /\ next.slot >= 0
  <2>1. PICK s : s = x.slot + 1
    OBVIOUS
  <2>2. PICK y : y = [blk |-> x.blk, slot |-> s, found |-> TRUE]
    OBVIOUS
  <2>3. [x EXCEPT !.slot = s] = y
    <3>1. ASSUME NEW a, NEW i, NEW u, NEW j
          PROVE  [[blk |-> a, slot |-> i, found |-> u] EXCEPT !.slot = j] =
                   [blk |-> a, slot |-> j, found |-> u]
      OBVIOUS
    <3>2. PICK a, i, u : a = x.blk /\ i = x.slot /\ u = TRUE
      OBVIOUS
    <3>3. x = [blk |-> a, slot |-> i, found |-> u] /\ y = [blk |-> a, slot |-> s, found |-> u]
      BY ONLY <1>4, <2>2, <3>2
    <3>4. [[blk |-> a, slot |-> i, found |-> u] EXCEPT !.slot = s] =
                   [blk |-> a, slot |-> s, found |-> u]
      BY ONLY <3>1
    <3> QED BY ONLY <3>3, <3>4
  <2>4. s \in Int /\ s >= 0
    BY <1>4, <2>1
  <2>5. CASE s < f[x.blk].n /\ f[x.blk].slot[s].key = k
    <3>1. next = y
      BY <1>5, <2>1, <2>3, <2>5 DEF LeafNext
    <3>2. x.blk = b => s < f[b].n
      BY <2>5
    <3> QED BY <1>4, <2>2, <2>4, <3>1, <3>2 DEF Stands
  <2>6. CASE ~(s < f[x.blk].n /\ f[x.blk].slot[s].key = k)
    <3>1. next = TryOverflow(f, y, k)
      BY <1>5, <2>1, <2>3, <2>6 DEF LeafNext
    <3>2. PICK p : p = f[x.blk]
      OBVIOUS
    <3>3. y.blk = x.blk
      BY <2>2
    <3>4. next = IF p.slot[0].key # k \/ p.flag < 0 THEN [y EXCEPT !.found = FALSE]
                 ELSE [blk |-> p.flag, slot |-> 0, found |-> TRUE]
      BY ONLY <3>1, <3>2, <3>3 DEF TryOverflow
    <3>5. CASE p.slot[0].key # k \/ p.flag < 0
      <4>1. next = [y EXCEPT !.found = FALSE]
        BY ONLY <3>4, <3>5
      <4>2. ~next.found
        BY <2>2, <4>1
      <4> QED BY <4>2
    <3>6. CASE ~(p.slot[0].key # k \/ p.flag < 0)
      <4>1. next = [blk |-> p.flag, slot |-> 0, found |-> TRUE]
        BY ONLY <3>4, <3>6
      <4>2. p.flag \in -1..(Size(f) - 1) /\ ~(p.flag < 0)
        BY <1>1, <1>4, <3>2, <3>6
      <4>3. p.flag \in DOMAIN f /\ p.flag \in Chained(f)
        BY <1>1, <1>4, <3>2, <4>2 DEF Chained
      <4>4. p.flag # b
        BY <4>3 DEF Heads
      <4> QED BY <4>1, <4>3, <4>4 DEF Stands
    <3> QED BY <3>5, <3>6
  <2> QED BY <2>5, <2>6
<1>7. Advance(f, c, k) = IF next.found THEN Append(c, next) ELSE c
  BY <1>3, <1>5 DEF Advance
<1>8. CASE next.found
  <2>1. PICK c2 : c2 = Append(c, next)
    OBVIOUS
  <2>2. c2 \in Seq(Stands(f, b)) /\ Len(c2) = Len(c) + 1
        /\ \A i \in 1..Len(c2) : c2[i] = IF i = Len(c2) THEN next ELSE c[i]
    BY <1>2, <1>6, <1>8, <2>1
  <2>3. ASSUME NEW i \in 2..Len(c2) PROVE c2[i].slot >= 0
    <3>1. i \in 1..Len(c2) /\ (i # Len(c2) => i \in 2..Len(c))
      BY <1>2, <2>2
    <3> QED BY <1>2, <1>6, <1>8, <2>2, <3>1
  <2>4. c2 \in Trails(f, b)
    BY <1>2, <2>2, <2>3 DEF Trails
  <2> QED BY <1>7, <1>8, <2>1, <2>4
<1>9. CASE ~next.found
  BY <1>7, <1>9
<1> QED BY <1>8, <1>9

(* The cursors that have been passed come of Advance alone.                *)
Goes(f, b, k, X, n, g) ==
  /\ n = Size(f) * LeafFull /\ n \in Nat /\ g \in [0..n -> X]
  /\ g[0] = <<OpenLeaf(f, b, k)>> /\ \A i \in 1..n : g[i] = Advance(f, g[i - 1], k)
  /\ Cursors(f, b, k) = Tail(g[n])

LEMMA CursorsGo ==
  ASSUME NEW f, LeavesOK(f), NEW b, NEW k, NEW X, <<OpenLeaf(f, b, k)>> \in X,
         \A x \in X : Advance(f, x, k) \in X
  PROVE  \E n \in Nat : \E g : Goes(f, b, k, X, n, g)
<1> DEFINE n == Size(f) * LeafFull
           base == <<OpenLeaf(f, b, k)>>
           Rule(g, i) == IF i = 0 THEN base ELSE Advance(f, g[i - 1], k)
           Eq(g) == g = [i \in 0..n |-> Rule(g, i)]
<1>1. n \in Nat
  <2>1. Size(f) \in Nat /\ LeafFull \in Nat
    BY Fulls, LeafHas
  <2> QED BY <2>1
<1>2. PICK c : c = (CHOOSE g : Eq(g)) /\ Cursors(f, b, k) = Tail(c[n])
  BY DEF Cursors, Size
<1>3. base \in X
  OBVIOUS
<1> HIDE DEF n, base
<1>4. PICK g \in [0..n -> X] : g[0] = base /\ \A i \in 1..n : g[i] = Advance(f, g[i - 1], k)
  <2> DEFINE step == [p \in Nat \X X |-> Advance(f, p[2], k)]
  <2>1. step \in StepRules(X)
    <3>1. \A p \in Nat \X X : p[2] \in X
      OBVIOUS
    <3>2. \A p \in Nat \X X : Advance(f, p[2], k) \in X
      BY <3>1
    <3> QED BY <3>2 DEF StepRules
  <2>2. PICK g : g \in Recursions(X, base, step, n)
    <3> HIDE DEF step
    <3>1. Recursions(X, base, step, n) # {}
      BY ONLY <1>1, <1>3, <2>1, RecursionExists
    <3> QED BY <3>1
  <2>3. g \in [0..n -> X] /\ g[0] = base /\ \A i \in 1..n : g[i] = step[<<i, g[i - 1]>>]
    <3> HIDE DEF step
    <3> QED BY <2>2 DEF Recursions
  <2>4. ASSUME NEW i \in 1..n PROVE g[i] = Advance(f, g[i - 1], k)
    <3>1. i - 1 \in 0..n /\ i \in Nat
      BY <1>1
    <3>2. PICK x \in X : x = g[i - 1]
      BY <2>3, <3>1
    <3>3. step[<<i, x>>] = Advance(f, x, k)
      <4>1. <<i, x>> \in Nat \X X /\ <<i, x>>[2] = x
        BY <3>1
      <4> QED BY <4>1
    <3> QED BY ONLY <2>3, <3>2, <3>3, i \in 1..n
  <2> QED BY <2>3, <2>4
<1>5. Eq(g)
  <2>1. \A i \in 0..n : g[i] = Rule(g, i)
    <3>1. \A i \in 0..n : i = 0 \/ i \in 1..n
      BY <1>1
    <3> QED BY <1>4, <3>1
  <2> HIDE DEF Rule
  <2>2. g = [i \in 0..n |-> g[i]]
    OBVIOUS
  <2> QED BY <2>1, <2>2
<1>6. Eq(c)
  <2> HIDE DEF Eq
  <2> QED BY <1>2, <1>5
<1>7. \A i \in 0..n : c[i] = Rule(c, i)
  <2> HIDE DEF Rule
  <2>1. PICK h : h = [i \in 0..n |-> Rule(c, i)]
    OBVIOUS
  <2>2. \A i \in 0..n : h[i] = Rule(c, i)
    BY ONLY <2>1
  <2>3. c = h
    BY ONLY <1>6, <2>1 DEF Eq
  <2> QED BY ONLY <2>2, <2>3
<1>8. \A i \in 0..n : c[i] \in X
  <2> DEFINE T == {i \in Nat : i <= n => c[i] \in X}
  <2>1. 0 \in T
    <3>1. 0 \in 0..n
      BY <1>1
    <3> QED BY <1>3, <1>7, <3>1
  <2>2. ASSUME NEW i \in Nat, i \in T PROVE i + 1 \in T
    <3>1. CASE i + 1 <= n
      <4>1. PICK m : m = i + 1
        OBVIOUS
      <4>2. m \in 0..n /\ m # 0 /\ m - 1 = i /\ c[i] \in X
        BY <1>1, <2>2, <3>1, <4>1
      <4>3. c[m] = Advance(f, c[m - 1], k)
        BY <1>7, <4>2
      <4> QED BY <4>1, <4>2, <4>3
    <3> QED BY <3>1
  <2>3. Nat \subseteq T
    <3> HIDE DEF T
    <3> QED BY <2>1, <2>2, SetInduction
  <2>4. \A i \in 0..n : i \in Nat /\ i <= n
    BY <1>1
  <2> QED BY <2>3, <2>4
<1>9. c[0] = base /\ \A i \in 1..n : c[i] = Advance(f, c[i - 1], k)
  <2>1. 0 \in 0..n /\ \A i \in 1..n : i \in 0..n /\ i # 0
    BY <1>1
  <2> QED BY <1>7, <2>1
<1>10. c \in [0..n -> X]
  <2>1. PICK h : h = [i \in 0..n |-> Rule(c, i)]
    OBVIOUS
  <2>2. c = h
    BY ONLY <1>6, <2>1 DEF Eq
  <2>3. DOMAIN h = 0..n
    BY ONLY <2>1
  <2>4. h = [i \in 0..n |-> h[i]]
    BY ONLY <2>1
  <2> HIDE DEF Rule
  <2> QED BY ONLY <1>8, <2>2, <2>3, <2>4
<1>11. Goes(f, b, k, X, n, c)
  BY <1>1, <1>2, <1>9, <1>10 DEF Goes, base, n
<1> QED BY <1>1, <1>11

(* The cursors of a lookup stand on records of the leaf or on its chain.   *)
Stopped(f, b, t) ==
  /\ t \in Seq(Stands(f, b))
  /\ \A i \in DOMAIN t : t[i].slot >= 0

LEMMA CursorsAre ==
  ASSUME NEW f, LeavesOK(f), NEW b \in Heads(f), f[b].n \in Nat, NEW k \in Int
  PROVE  Stopped(f, b, Cursors(f, b, k))
<1>1. <<OpenLeaf(f, b, k)>> \in Trails(f, b)
  <2>1. b \in DOMAIN f /\ f[b] \in Pages(LeafFull) /\ f[b].n < LeafFull /\ LeafFull \in Nat
    BY Fulls, LeafHas DEF Heads
  <2>2. PICK s : s = SlotBefore(f[b], k)
    OBVIOUS
  <2>3. s \in -1..(f[b].n - 1)
    <3>1. f[b].n \in 0..(LeafFull - 1)
      BY <2>1
    <3> QED BY <2>1, <2>2, <3>1, SlotBeforeIs
  <2>4. PICK x : x = OpenLeaf(f, b, k)
    OBVIOUS
  <2>5. x = [blk |-> b, slot |-> s, found |-> TRUE]
    BY <2>2, <2>4 DEF OpenLeaf
  <2>6. x \in Stands(f, b)
    BY <2>1, <2>3, <2>5 DEF Stands
  <2>7. <<x>> \in Seq(Stands(f, b)) /\ Len(<<x>>) = 1
    BY <2>6
  <2>8. \A i \in 2..Len(<<x>>) : <<x>>[i].slot >= 0
    BY <2>7
  <2>9. <<x>> \in Trails(f, b)
    BY <2>7, <2>8 DEF Trails
  <2> QED BY <2>4, <2>9
<1>2. PICK X : X = Trails(f, b)
  OBVIOUS
<1>3. \A x \in X : Advance(f, x, k) \in X
  BY <1>2, AdvanceIs
<1>4. PICK n \in Nat : \E g : Goes(f, b, k, X, n, g)
  BY <1>1, <1>2, <1>3, CursorsGo
<1>5. PICK g : Goes(f, b, k, X, n, g)
  BY <1>4
<1>6. PICK t \in Trails(f, b) : t = g[n] /\ Cursors(f, b, k) = Tail(t)
  <2>1. n \in 0..n
    OBVIOUS
  <2> QED BY <1>2, <1>5, <2>1 DEF Goes
<1>7. /\ t \in Seq(Stands(f, b)) /\ Len(t) \in Nat /\ Len(t) >= 1
      /\ \A i \in 2..Len(t) : t[i].slot >= 0
  BY DEF Trails
<1>8. PICK u : u = Tail(t)
  OBVIOUS
<1>9. u \in Seq(Stands(f, b)) /\ DOMAIN u = 1..(Len(t) - 1) /\ \A i \in 1..(Len(t) - 1) : u[i] = t[i + 1]
  BY <1>7, <1>8
<1>10. \A i \in DOMAIN u : u[i].slot >= 0
  <2>1. \A i \in 1..(Len(t) - 1) : i + 1 \in 2..Len(t)
    BY <1>7
  <2> QED BY <1>7, <1>9, <2>1
<1>11. Stopped(f, b, u)
  BY <1>9, <1>10 DEF Stopped
<1> QED BY <1>6, <1>8, <1>11

(* What a removal makes of the leaves.                                     *)
LEMMA LeafRemoveIs ==
  ASSUME NEW f, LeavesOK(f), NEW c \in Heads(f), NEW S \in SUBSET Int, LeafOK(f[c], S), NEW k \in Int,
         NEW r, NEW f2, f2 = LeafRemove(f, c, k, r)
  PROVE  Same(f, c, S, f2)
<1> DEFINE t == Cursors(f, c, k)
           same == {i \in DOMAIN t : DataRid(f, t[i]) = r}
           first == CHOOSE i \in same : \A j \in same : i <= j
<1>1. /\ Size(f) \in Nat \ {0} /\ DOMAIN f = 0..(Size(f) - 1) /\ f \in Files(LeafFull)
      /\ c \in DOMAIN f /\ LeafFull \in Nat /\ f[c].n \in 0..(LeafFull - 1)
      /\ \A a \in DOMAIN f : f[a] \in Pages(LeafFull) /\ f[a].n < LeafFull
  BY Fulls, LeafHas DEF Heads, LeafOK
<1>2. f2 = IF same = {} THEN f ELSE [f EXCEPT ![t[first].blk] = RemoveAt(@, t[first].slot)]
  BY DEF LeafRemove
<1>3. CASE same = {}
  <2>1. f2 = f
    BY <1>2, <1>3
  <2> QED BY <2>1 DEF Same
<1>4. CASE same # {}
  <2>1. Stopped(f, c, t)
    BY <1>1, CursorsAre
  <2>2. t \in Seq(Stands(f, c)) /\ \A i \in DOMAIN t : t[i].slot >= 0
    BY <2>1 DEF Stopped
  <2> HIDE DEF t
  <2>3. first \in same
    <3>1. same \in SUBSET Nat
      BY <2>2
    <3>2. \E i \in same : \A j \in same : i <= j
      <4> HIDE DEF same
      <4> QED BY <1>4, <3>1, LeastExists
    <3> HIDE DEF same
    <3> QED BY <3>2
  <2>4. first \in DOMAIN t
    <3> HIDE DEF first
    <3> QED BY <2>3
  <2>5. PICK x : x = t[first]
    OBVIOUS
  <2>6. x \in Stands(f, c) /\ x.slot >= 0
    <3> HIDE DEF first, same
    <3> QED BY <2>2, <2>4, <2>5
  <2>7. PICK a, s : a = x.blk /\ s = x.slot
    OBVIOUS
  <2>8. a \in DOMAIN f /\ s \in Nat /\ (a = c => s < f[c].n) /\ (a # c => a \in Chained(f))
    BY <2>6, <2>7 DEF Stands
  <2>9. PICK p \in Pages(LeafFull) : p = f[a] /\ p.n < LeafFull
    BY <1>1, <2>8
  <2>10. PICK q : q = RemoveAt(p, s)
    OBVIOUS
  <2>11. f2 = [f EXCEPT ![a] = q]
    <3>1. f2 = [f EXCEPT ![a] = RemoveAt(f[a], s)]
      <4> HIDE DEF first, same
      <4> QED BY <1>2, <1>4, <2>5, <2>7
    <3> QED BY <2>9, <2>10, <3>1
  <2>12. /\ q \in Pages(LeafFull) /\ q.n = p.n - 1 /\ q.flag = p.flag /\ p.n \in Int
         /\ \A i \in Slots(LeafFull) : q.slot[i] = IF i >= s /\ i < p.n - 1 THEN p.slot[i + 1] ELSE p.slot[i]
    <3>1. p.n <= LeafFull /\ p.n \in Int
      <4>1. p.n \in Int
        BY DEF Pages
      <4> QED BY <1>1, <2>9, <4>1
    <3> QED BY ONLY <1>1, <2>8, <2>10, <3>1, p \in Pages(LeafFull), RemoveAtIs
  <2>13. q.n < LeafFull
    BY <1>1, <2>9, <2>12
  <2>14. CASE a = c
    <3>1. s < p.n /\ p.n \in 0..(LeafFull - 1) /\ LeafOK(p, S)
      BY <1>1, <2>8, <2>9, <2>14
    <3>2. \A i \in 0..(p.n - 1) : i \in Slots(LeafFull)
      BY <1>1, <3>1 DEF Slots
    <3>3. \A i \in 0..(p.n - 2) : /\ i \in 0..(p.n - 1) /\ i + 1 \in 0..(p.n - 1) /\ (i < p.n - 1)
                                  /\ q.slot[i] = IF i >= s THEN p.slot[i + 1] ELSE p.slot[i]
      <4> SUFFICES ASSUME NEW i \in 0..(p.n - 2)
                   PROVE  /\ i \in 0..(p.n - 1) /\ i + 1 \in 0..(p.n - 1) /\ (i < p.n - 1)
                          /\ q.slot[i] = IF i >= s THEN p.slot[i + 1] ELSE p.slot[i]
        OBVIOUS
      <4>1. i \in 0..(p.n - 1) /\ i + 1 \in 0..(p.n - 1) /\ i < p.n - 1
        BY <3>1
      <4>2. i \in Slots(LeafFull)
        BY <3>2, <4>1
      <4> QED BY <2>12, <4>1, <4>2
    <3>4. /\ \A i, j \in 0..(p.n - 1) : i <= j => p.slot[i].key <= p.slot[j].key
          /\ \A i \in 0..(p.n - 1) : p.slot[i].key \in S
          /\ p.flag >= 0 => p.slot[0].key \in S
      BY <3>1 DEF LeafOK
    <3>5. q.n - 1 = p.n - 2 /\ q.n \in 0..(LeafFull - 1)
      BY <1>1, <2>8, <2>12, <3>1
    <3>6. \A i \in 0..(p.n - 2) : q.slot[i].key \in S
      BY <3>3, <3>4
    <3>7. ASSUME NEW i \in 0..(p.n - 2), NEW j \in 0..(p.n - 2), i <= j
          PROVE  q.slot[i].key <= q.slot[j].key
      <4>1. PICK i2, j2 \in 0..(p.n - 1) : /\ q.slot[i] = p.slot[i2] /\ q.slot[j] = p.slot[j2]
                                           /\ i2 = (IF i >= s THEN i + 1 ELSE i)
                                           /\ j2 = (IF j >= s THEN j + 1 ELSE j)
        BY <3>3
      <4>2. i2 <= j2
        BY <2>8, <3>1, <3>7, <4>1
      <4> QED BY <3>4, <4>1, <4>2
    <3>8. q.flag >= 0 => q.slot[0].key \in S
      <4>1. CASE p.n - 2 >= 0
        <5>1. 0 \in 0..(p.n - 2)
          BY <3>1, <4>1
        <5> QED BY <3>6, <5>1
      <4>2. CASE ~(p.n - 2 >= 0)
        <5>1. p.n = 1 /\ 0 \in Slots(LeafFull) /\ 0 \in 0..(p.n - 1)
          BY <1>1, <2>8, <3>1, <3>2, <4>2 DEF Slots
        <5>2. q.slot[0] = p.slot[0]
          BY <2>12, <5>1
        <5> QED BY <3>4, <5>1, <5>2
      <4> QED BY <4>1, <4>2
    <3>9. LeafOK(q, S)
      <4>1. \A i, j \in 0..(q.n - 1) : i <= j => q.slot[i].key <= q.slot[j].key
        BY <3>5, <3>7
      <4>2. \A i \in 0..(q.n - 1) : q.slot[i].key \in S
        BY <3>5, <3>6
      <4> QED BY <3>5, <3>8, <4>1, <4>2 DEF LeafOK
    <3> QED BY <2>9, <2>11, <2>12, <2>13, <2>14, <3>9, LeafSet
  <2>15. CASE a # c
    <3>1. /\ f2 \in Files(LeafFull) /\ Size(f2) = Size(f) /\ DOMAIN f2 = DOMAIN f
          /\ f2[a] = q /\ \A z \in DOMAIN f \ {a} : f2[z] = f[z]
      <4>1. Put(LeafFull, f, a, q, f2)
        BY <1>1, <2>8, <2>11, <2>12, PutIs
      <4> QED BY <4>1 DEF Put
    <3>2. \A z \in DOMAIN f : f2[z].flag = f[z].flag /\ f2[z].n < LeafFull
      BY <1>1, <2>9, <2>12, <2>13, <3>1
    <3>3. LeavesOK(f2)
      BY <3>1, <3>2 DEF LeavesOK
    <3>4. Heads(f2) = Heads(f)
      BY <3>1, <3>2 DEF Heads, Chained
    <3>5. a \notin Heads(f) /\ \A z \in Heads(f) : f2[z] = f[z]
      BY <2>8, <2>15, <3>1 DEF Heads
    <3> QED BY <3>3, <3>4, <3>5 DEF Same
  <2> QED BY <2>14, <2>15
<1> QED BY <1>3, <1>4

-----------------------------------------------------------------------------
(* The tree *)

(* The directory is a tree with room in each block, for some keys that its *)
(* blocks have and a root with or without its first entry.                 *)
IsTree(d, f) == \E rt \in BOOLEAN : \E own : Roomy(rt, d, f, own)

(* No leaf is cut off when there is no such key.                           *)
LEMMA NoneCut ==
  ASSUME NEW f, CutOffKeys(f) = {}
  PROVE  \A a \in DOMAIN f : ~CutOff(f, a)
<1> SUFFICES ASSUME NEW a \in DOMAIN f, CutOff(f, a) PROVE FALSE
  OBVIOUS
<1>1. {f[a].slot[0].key, f[f[a].flag].slot[0].key} \subseteq CutOffKeys(f)
  BY DEF CutOffKeys
<1> QED BY <1>1

(* The leaf that a search ends at.                                         *)
Place(rt, d, f, own, k, n, b, j, c, S) ==
  /\ n = Size(d) /\ b = Path(d, k) /\ Walk(rt, d, own, n, b, k) /\ j \in Int
  /\ Found(rt, d, own, k, b[n], j) /\ c = Child(d, <<b[n], j>>) /\ c = Search(d, k)
  /\ S = PartOf(d, own, <<b[n], j>>) /\ S \in SUBSET Int /\ k \in S
  /\ <<b[n], j>> \in SlotsOf(rt, d) /\ ~Upper(d, <<b[n], j>>)
  /\ c \in Heads(f) /\ LeafOK(f[c], S)

LEMMA PlaceIs ==
  ASSUME NEW rt, NEW d, NEW f, NEW own, Roomy(rt, d, f, own), NEW k \in Keys,
         ~Misled(d, k), Ends(d, k)
  PROVE  \E n, b, j, c, S : Place(rt, d, f, own, k, n, b, j, c, S)
<1>1. PICK n, b : n = Size(d) /\ b = Path(d, k)
  OBVIOUS
<1>2. k \in Int /\ (rt => MinKey <= k)
  BY Fulls
<1>3. Walk(rt, d, own, n, b, k)
  BY <1>1, <1>2, WalkIs
<1>4. PICK j \in Int : Found(rt, d, own, k, b[n], j)
  BY <1>1, <1>2, <1>3, SearchIs
<1>5. PICK c, S : c = Child(d, <<b[n], j>>) /\ S = PartOf(d, own, <<b[n], j>>)
  OBVIOUS
<1>6. /\ c = Search(d, k) /\ k \in S /\ S \subseteq own[b[n]] /\ <<b[n], j>> \in SlotsOf(rt, d)
      /\ d[b[n]].flag = 0
  BY <1>4, <1>5 DEF Found, Leads
<1>7. ~Upper(d, <<b[n], j>>)
  BY <1>6 DEF Upper
<1>8. KidOK(d, f, own, <<b[n], j>>)
  BY <1>6 DEF Roomy, Tree
<1>9. c \in Heads(f) /\ LeafOK(f[c], S)
  BY <1>5, <1>7, <1>8 DEF KidOK
<1>10. S \in SUBSET Int
  <2>1. b[n] \in DOMAIN d
    BY <1>3 DEF Walk
  <2>2. own[b[n]] \in SUBSET Int
    BY <2>1, BlockHas DEF Roomy, Tree
  <2> QED BY <1>6, <2>2
<1>11. Place(rt, d, f, own, k, n, b, j, c, S)
  BY <1>1, <1>3, <1>4, <1>5, <1>6, <1>7, <1>9, <1>10 DEF Place
<1> QED BY <1>11

(* A change of the leaf that the search ends at keeps the tree.            *)
LEMMA SameIsTree ==
  ASSUME NEW rt, NEW d, NEW f, NEW own, Roomy(rt, d, f, own), NEW k, NEW n, NEW b, NEW j, NEW c, NEW S,
         Place(rt, d, f, own, k, n, b, j, c, S), NEW f2, Same(f, c, S, f2)
  PROVE  Roomy(rt, d, f2, own)
<1>1. PICK s : s = <<b[n], j>>
  OBVIOUS
<1>2. /\ s \in SlotsOf(rt, d) /\ ~Upper(d, s) /\ c = Child(d, s) /\ S = PartOf(d, own, s)
  BY <1>1 DEF Place
<1>3. /\ LeavesOK(f2) /\ Heads(f2) = Heads(f) /\ LeafOK(f2[Child(d, s)], PartOf(d, own, s))
      /\ \A a \in Heads(f) \ {Child(d, s)} : f2[a] = f[a]
  BY <1>2 DEF Same
<1>4. Tree(rt, d, f2, own)
  BY <1>2, <1>3, LeafChange DEF Roomy
<1> QED BY <1>4 DEF Roomy

(* The record goes into leaf c, which stays a leaf, as all leaves do.       *)
Recorded(f, c, k, r, f2) ==
  LeavesOK(f) /\ c \in Heads(f) /\ Heads(f) \subseteq Heads(f2) /\ Written(f, c, k, r, f2)

(* An insertion that no stale slot misleads, into leaves none of which is   *)
(* cut off.                                                                *)
LEMMA InsertIsTree ==
  ASSUME NEW d, NEW f, IsTree(d, f), NEW k \in Keys, NEW r \in Rids,
         NEW low, low = LeafInsert(f, Search(d, k), k, r),
         \A a \in DOMAIN f : ~CutOff(f, a),
         ~Misled(d, k), Ends(d, k),
         low.up # NoEntry => ~Misled(d, low.up.key) /\ Ends(d, low.up.key),
         NEW d2, d2 = IF low.up = NoEntry THEN d ELSE Topped(InsertBelow(d, low.up))
  PROVE  /\ \E f3 : Fits(low.leaf, f3) /\ IsTree(d2, f3)
         /\ Recorded(f, Search(d, k), k, r, low.leaf)
<1>0. PICK rt \in BOOLEAN : \E own : Roomy(rt, d, f, own)
  BY DEF IsTree
<1>1. PICK own : Roomy(rt, d, f, own)
  BY <1>0
<1>2. PICK n, b, j, c, S : Place(rt, d, f, own, k, n, b, j, c, S)
  BY <1>1, PlaceIs
<1>3. /\ c = Search(d, k) /\ S \in SUBSET Int /\ k \in S /\ c \in Heads(f) /\ LeafOK(f[c], S)
      /\ r \in Nat /\ LeavesOK(f) /\ k \in Int
  BY <1>1, <1>2, Fulls, RidsAssumption DEF Place, Roomy, Tree
<1>4. PICK f3 : /\ Fits(low.leaf, f3)
                /\ \/ low.up = NoEntry /\ Same(f, c, S, f3)
                   \/ low.up # NoEntry /\ Parted(f, c, S, low.up, f3)
                /\ Written(f, c, k, r, low.leaf)
  BY <1>3, LeafInsertIs
<1>5. Recorded(f, Search(d, k), k, r, low.leaf)
  BY <1>3, <1>4 DEF Recorded, Fits, Same, Parted
<1>6. CASE low.up = NoEntry /\ Same(f, c, S, f3)
  <2>1. Roomy(rt, d, f3, own)
    BY <1>1, <1>2, <1>6, SameIsTree
  <2>2. IsTree(d2, f3)
    BY <1>6, <2>1 DEF IsTree
  <2> QED BY <1>4, <1>5, <2>2
<1>7. CASE low.up # NoEntry /\ Parted(f, c, S, low.up, f3)
  <2>1. PICK e : e = low.up
    OBVIOUS
  <2>2. /\ n = Size(d) /\ b = Path(d, k) /\ Walk(rt, d, own, n, b, k) /\ j \in Int
        /\ Found(rt, d, own, k, b[n], j) /\ c = Child(d, <<b[n], j>>) /\ S = PartOf(d, own, <<b[n], j>>)
    BY <1>2 DEF Place
  <2>3. PICK own2 : Roomy(rt, Topped(InsertBelow(d, e)), f3, own2)
    BY <1>1, <1>3, <1>7, <2>1, <2>2, EntryEnds
  <2>4. IsTree(d2, f3)
    BY <1>7, <2>1, <2>3 DEF IsTree
  <2> QED BY <1>4, <1>5, <2>4
<1> QED BY <1>4, <1>6, <1>7, <1>5

LEMMA RemoveIsTree ==
  ASSUME NEW d, NEW f, IsTree(d, f), NEW k \in Keys, NEW r, ~Misled(d, k), Ends(d, k),
         NEW f2, f2 = LeafRemove(f, Search(d, k), k, r)
  PROVE  IsTree(d, f2)
<1>0. PICK rt \in BOOLEAN : \E own : Roomy(rt, d, f, own)
  BY DEF IsTree
<1>1. PICK own : Roomy(rt, d, f, own)
  BY <1>0
<1>2. PICK n, b, j, c, S : Place(rt, d, f, own, k, n, b, j, c, S)
  BY <1>1, PlaceIs
<1>3. /\ c = Search(d, k) /\ S \in SUBSET Int /\ c \in Heads(f) /\ LeafOK(f[c], S)
      /\ LeavesOK(f) /\ k \in Int
  BY <1>1, <1>2, Fulls DEF Place, Roomy, Tree
<1>4. Same(f, c, S, f2)
  BY <1>3, LeafRemoveIs
<1>5. Roomy(rt, d, f2, own)
  BY <1>1, <1>2, <1>4, SameIsTree
<1> QED BY <1>5 DEF IsTree

-----------------------------------------------------------------------------
(* The block and the leaf of a key *)

(* A key belongs to one slot of a page.                                    *)
LEMMA PartOnce ==
  ASSUME NEW full \in Nat, NEW p \in Pages(full), p.n \in 0..full, Sorted(p), NEW o \in SUBSET Int,
         NEW i \in -1..(p.n - 1), NEW j \in -1..(p.n - 1), NEW k \in Part(o, p, i), k \in Part(o, p, j)
  PROVE  i = j
<1>1. ASSUME NEW a \in -1..(p.n - 1), NEW b \in -1..(p.n - 1), a < b, k \in Part(o, p, a), k \in Part(o, p, b)
      PROVE  FALSE
  <2>1. a + 1 \in 0..(p.n - 1) /\ b \in 0..(p.n - 1) /\ b >= 0 /\ a + 1 < p.n
    BY <1>1
  <2>2. k \in Int /\ k < p.slot[a + 1].key /\ p.slot[b].key <= k
    BY <1>1, <2>1 DEF Part
  <2>3. p.slot[a + 1].key \in Int /\ p.slot[b].key \in Int
    BY <2>1, KeyIsInt
  <2>4. p.slot[a + 1].key <= p.slot[b].key
    <3>1. a + 1 = b \/ a + 1 < b
      BY <1>1
    <3> QED BY <2>1, <2>3, <3>1 DEF Sorted
  <2> QED BY <2>2, <2>3, <2>4
<1>2. k \in Part(o, p, i)
  OBVIOUS
<1>3. ~(i < j) /\ ~(j < i)
  BY <1>1, <1>2
<1> QED BY <1>3

(* The values of a function on a segment of the numbers have a bound.      *)
LEMMA BoundExists ==
  ASSUME NEW m \in Nat, NEW g \in [0..(m - 1) -> Nat]
  PROVE  \E z \in Nat : \A i \in 0..(m - 1) : g[i] <= z
<1> DEFINE T == {j \in Nat : \E z \in Nat : \A i \in 0..(m - 1) : i < j => g[i] <= z}
<1>1. 0 \in T
  <2>1. \A i \in 0..(m - 1) : ~(i < 0)
    OBVIOUS
  <2> QED BY <2>1
<1>2. ASSUME NEW j \in Nat, j \in T PROVE j + 1 \in T
  <2>1. PICK z \in Nat : \A i \in 0..(m - 1) : i < j => g[i] <= z
    BY <1>2
  <2>2. CASE j \in 0..(m - 1)
    <3>1. PICK z2 \in Nat : z2 >= z /\ z2 >= g[j]
      <4>1. g[j] \in Nat
        BY <2>2
      <4>2. z >= g[j] \/ g[j] >= z
        BY <4>1
      <4> QED BY <4>1, <4>2
    <3>2. ASSUME NEW i \in 0..(m - 1), i < j + 1 PROVE g[i] <= z2
      <4>1. (i < j \/ i = j) /\ g[i] \in Nat
        BY <3>2
      <4> QED BY <2>1, <3>1, <4>1
    <3> QED BY <3>2
  <2>3. CASE j \notin 0..(m - 1)
    <3>1. ASSUME NEW i \in 0..(m - 1), i < j + 1 PROVE g[i] <= z
      <4>1. i < j
        BY <2>3, <3>1
      <4> QED BY <2>1, <4>1
    <3> QED BY <3>1
  <2> QED BY <2>2, <2>3
<1>3. m \in T
  <2>1. Nat \subseteq T
    <3> HIDE DEF T
    <3> QED BY <1>1, <1>2, SetInduction
  <2> QED BY <2>1
<1>4. PICK z \in Nat : \A i \in 0..(m - 1) : i < m => g[i] <= z
  BY <1>3
<1>5. \A i \in 0..(m - 1) : i < m
  OBVIOUS
<1> QED BY <1>4, <1>5

(* A set of blocks has one of the highest level.                           *)
LEMMA HighestExists ==
  ASSUME NEW rt, NEW d, NEW own, Blocks(rt, d, own), NEW X \in SUBSET DOMAIN d, X # {}
  PROVE  \E x \in X : \A z \in X : d[z].flag <= d[x].flag
<1>1. \A b \in DOMAIN d : d[b].flag \in Nat /\ Size(d) \in Nat /\ DOMAIN d = 0..(Size(d) - 1)
  BY BlockHas
<1>2. PICK m \in Nat : DOMAIN d = 0..(m - 1)
  BY <1>1
<1>3. PICK g : g = [b \in 0..(m - 1) |-> d[b].flag]
  OBVIOUS
<1>4. g \in [0..(m - 1) -> Nat] /\ \A b \in DOMAIN d : g[b] = d[b].flag
  BY <1>1, <1>2, <1>3
<1>5. PICK z \in Nat : \A b \in 0..(m - 1) : g[b] <= z
  BY <1>4, BoundExists
<1>6. PICK T : T = {d[b].flag : b \in X}
  OBVIOUS
<1>7. T \subseteq Nat /\ T # {} /\ \A y \in T : y <= z
  BY <1>1, <1>2, <1>4, <1>5, <1>6
<1>8. PICK top \in T : \A y \in T : y <= top
  BY <1>7, GreatestExists
<1> QED BY <1>6, <1>8

(* Block x is the child of slot i of block z.                              *)
ParentOf(d, own, x, z, i) ==
  /\ z \in DOMAIN d /\ i \in 0..(d[z].n - 1) /\ d[z].flag > 0 /\ d[z].flag = d[x].flag + 1
  /\ Child(d, <<z, i>>) = x /\ own[x] = Part(own[z], d[z], i)

LEMMA ParentIs ==
  ASSUME NEW rt, NEW d, NEW f, NEW own, Tree(rt, d, f, own), NEW x \in DOMAIN d \ {0}
  PROVE  \E z, i : ParentOf(d, own, x, z, i)
<1>1. PICK s \in SlotsOf(rt, d) : Upper(d, s) /\ Child(d, s) = x
  BY DEF Tree, Covered
<1>2. PICK z, i : z = s[1] /\ i = s[2]
  OBVIOUS
<1>3. s = <<z, i>> /\ z \in DOMAIN d /\ i \in -1..(DirFull - 1) /\ i < d[z].n /\ i \in Int
      /\ (i = -1 => z = 0 /\ d[0].flag = 0)
  BY <1>1, <1>2, SlotHas
<1>4. KidOK(d, f, own, s)
  BY <1>1 DEF Tree
<1>5. d[x].flag = d[z].flag - 1 /\ own[x] = Part(own[z], d[z], i) /\ d[z].flag > 0
  BY <1>1, <1>2, <1>4 DEF KidOK, PartOf, Upper
<1>6. d[z].flag \in Nat /\ d[z].n \in 0..DirFull /\ DirFull \in Nat
  BY <1>3, BlockHas, Fulls DEF Tree
<1>7. i \in 0..(d[z].n - 1)
  BY <1>3, <1>5, <1>6
<1>8. d[z].flag = d[x].flag + 1
  BY <1>5, <1>6
<1> QED BY <1>1, <1>3, <1>5, <1>7, <1>8 DEF ParentOf

(* The root is the only block of its level, and the keys below its first   *)
(* belong to no other.                                                     *)
LEMMA RootIs ==
  ASSUME NEW rt, NEW d, NEW f, NEW own, Tree(rt, d, f, own), NEW x \in DOMAIN d \ {0}
  PROVE  d[x].flag < d[0].flag /\ \A k \in own[x] : d[0].slot[0].key <= k
<1>1. Blocks(rt, d, own)
  BY DEF Tree
<1>2. \A b \in DOMAIN d : /\ d[b].flag \in Nat /\ d[b].n \in 0..DirFull /\ d[b] \in Pages(DirFull)
                          /\ Sorted(d[b]) /\ own[b] \in SUBSET Int /\ DirFull \in Nat
  BY <1>1, BlockHas, Fulls
<1>3. ASSUME NEW X \in SUBSET (DOMAIN d \ {0}),
             \A u \in X : \E z \in DOMAIN d : d[z].flag > d[u].flag /\ (z # 0 => z \in X)
      PROVE  \A u \in X : d[u].flag < d[0].flag
  <2> SUFFICES ASSUME NEW u0 \in X, ~(d[u0].flag < d[0].flag) PROVE FALSE
    OBVIOUS
  <2>1. PICK u \in X : \A z \in X : d[z].flag <= d[u].flag
    BY <1>1, <1>3, HighestExists
  <2>2. PICK z \in DOMAIN d : d[z].flag > d[u].flag /\ (z # 0 => z \in X)
    BY <1>3
  <2>3. z = 0
    BY <1>2, <2>1, <2>2
  <2> QED BY <1>2, <2>1, <2>2, <2>3
<1>4. d[x].flag < d[0].flag
  <2>1. PICK X : X = DOMAIN d \ {0}
    OBVIOUS
  <2>2. ASSUME NEW u \in X PROVE \E z \in DOMAIN d : d[z].flag > d[u].flag /\ (z # 0 => z \in X)
    <3>1. PICK z, i : ParentOf(d, own, u, z, i)
      BY <2>1, ParentIs
    <3>2. z \in DOMAIN d /\ d[z].flag > d[u].flag
      BY <1>2, <2>1, <3>1 DEF ParentOf
    <3> QED BY <2>1, <3>2
  <2> QED BY <1>3, <2>1, <2>2
<1>5. ASSUME NEW k \in own[x], ~(d[0].slot[0].key <= k) PROVE FALSE
  <2>1. PICK X : X = {u \in DOMAIN d \ {0} : k \in own[u]}
    OBVIOUS
  <2>2. ASSUME NEW u \in X PROVE \E z \in DOMAIN d : d[z].flag > d[u].flag /\ (z # 0 => z \in X) /\ z # 0
    <3>1. PICK z, i : ParentOf(d, own, u, z, i)
      BY <2>1, ParentIs
    <3>2. z \in DOMAIN d /\ d[z].flag > d[u].flag /\ k \in Part(own[z], d[z], i) /\ i \in 0..(d[z].n - 1)
      BY <1>2, <2>1, <3>1 DEF ParentOf
    <3>3. k \in own[z] /\ d[z].slot[i].key <= k /\ k \in Int
      <4>1. i >= 0
        BY <1>2, <3>2
      <4> QED BY <1>2, <3>2, <4>1 DEF Part
    <3>4. z # 0
      <4> SUFFICES ASSUME z = 0 PROVE FALSE
        OBVIOUS
      <4>1. 0 \in 0..(d[z].n - 1) /\ (i = 0 \/ 0 < i)
        BY <1>2, <3>2
      <4>2. d[z].slot[0].key \in Int /\ d[z].slot[i].key \in Int
        BY <1>2, <3>2, <4>1, KeyIsInt
      <4>3. d[z].slot[0].key <= d[z].slot[i].key
        BY <1>2, <3>2, <4>1, <4>2 DEF Sorted
      <4> QED BY <1>5, <3>3, <4>2, <4>3
    <3> QED BY <2>1, <3>2, <3>3, <3>4
  <2>3. x \in X /\ X \in SUBSET (DOMAIN d \ {0})
    BY <1>5, <2>1
  <2>4. PICK u \in X : \A z \in X : d[z].flag <= d[u].flag
    BY <1>1, <2>3, HighestExists
  <2>5. PICK z \in X : d[z].flag > d[u].flag
    BY <2>2
  <2> QED BY <1>2, <2>3, <2>4, <2>5
<1> QED BY <1>4, <1>5

(* A key belongs to one block of each level.                               *)
LEMMA OwnOnce ==
  ASSUME NEW rt, NEW d, NEW f, NEW own, Tree(rt, d, f, own), NEW k,
         NEW x \in DOMAIN d, NEW x2 \in DOMAIN d, d[x].flag = d[x2].flag, k \in own[x], k \in own[x2]
  PROVE  x = x2
<1>1. Blocks(rt, d, own) /\ Only(d, SlotsOf(rt, d))
  BY DEF Tree
<1>2. \A b \in DOMAIN d : /\ d[b].flag \in Nat /\ d[b].n \in 0..DirFull /\ d[b] \in Pages(DirFull)
                          /\ Sorted(d[b]) /\ own[b] \in SUBSET Int /\ DirFull \in Nat
  BY <1>1, BlockHas, Fulls
<1>3. PICK X : X = {u \in DOMAIN d : k \in own[u] /\ \E v \in DOMAIN d : v # u /\ k \in own[v] /\ d[v].flag = d[u].flag}
  OBVIOUS
<1>4. SUFFICES ASSUME X # {} PROVE FALSE
  BY <1>3
<1>5. PICK u \in X : \A z \in X : d[z].flag <= d[u].flag
  BY <1>1, <1>3, <1>4, HighestExists
<1>6. PICK v \in DOMAIN d : v # u /\ k \in own[v] /\ d[v].flag = d[u].flag
  BY <1>3
<1>7. u \in DOMAIN d /\ k \in own[u]
  BY <1>3
<1>8. u # 0 /\ v # 0
  <2>1. \A a \in DOMAIN d \ {0} : d[a].flag # d[0].flag
    BY <1>2, RootIs
  <2> QED BY <1>6, <1>7, <2>1
<1>9. PICK z, i : ParentOf(d, own, u, z, i)
  BY <1>7, <1>8, ParentIs
<1>10. PICK w, j : ParentOf(d, own, v, w, j)
  BY <1>6, <1>8, ParentIs
<1>11. /\ z \in DOMAIN d /\ w \in DOMAIN d /\ d[z].flag = d[u].flag + 1 /\ d[w].flag = d[u].flag + 1
       /\ k \in Part(own[z], d[z], i) /\ k \in Part(own[w], d[w], j) /\ k \in own[z] /\ k \in own[w]
  BY <1>6, <1>7, <1>9, <1>10 DEF ParentOf, Part
<1>12. z = w
  <2> SUFFICES ASSUME z # w PROVE FALSE
    OBVIOUS
  <2>1. z \in X
    BY <1>3, <1>11
  <2> QED BY <1>2, <1>5, <1>7, <1>11, <2>1
<1>13. i = j
  <2>1. i \in 0..(d[z].n - 1) /\ j \in 0..(d[z].n - 1)
    BY <1>9, <1>10, <1>12 DEF ParentOf
  <2>2. i \in -1..(d[z].n - 1) /\ j \in -1..(d[z].n - 1)
    BY <1>2, <1>11, <2>1
  <2> QED BY <1>2, <1>11, <1>12, <2>2, PartOnce
<1> QED BY <1>6, <1>9, <1>10, <1>12, <1>13 DEF ParentOf

(* A leaf has a record with key k, or a chain for it.                      *)
HasKey(p, k) == (\E i \in 0..(p.n - 1) : p.slot[i].key = k) \/ (p.flag >= 0 /\ p.slot[0].key = k)

(* There is one such leaf.                                                 *)
LEMMA HeadOnce ==
  ASSUME NEW rt, NEW d, NEW f, NEW own, Tree(rt, d, f, own), NEW k \in Int,
         NEW a \in Heads(f), NEW c \in Heads(f), HasKey(f[a], k),
         NEW t \in SlotsOf(rt, d), ~Upper(d, t), Child(d, t) = c, k \in PartOf(d, own, t)
  PROVE  a = c
<1>1. Blocks(rt, d, own)
  BY DEF Tree
<1>2. \A b \in DOMAIN d : /\ d[b].flag \in Nat /\ d[b].n \in 0..DirFull /\ d[b] \in Pages(DirFull)
                          /\ Sorted(d[b]) /\ own[b] \in SUBSET Int /\ DirFull \in Nat
  BY <1>1, BlockHas, Fulls
<1>3. \A S : LeafOK(f[a], S) => k \in S
  BY DEF LeafOK, HasKey
<1>4. PICK x, j : x = t[1] /\ j = t[2]
  OBVIOUS
<1>5. /\ t = <<x, j>> /\ x \in DOMAIN d /\ j \in -1..(d[x].n - 1) /\ d[x].flag = 0
      /\ k \in Part(own[x], d[x], j) /\ k \in own[x]
  <2>1. t = <<x, j>> /\ x \in DOMAIN d /\ j \in -1..(DirFull - 1) /\ j < d[x].n
    BY <1>4, SlotHas
  <2>2. ~(d[x].flag > 0) /\ k \in Part(own[x], d[x], j)
    BY <1>4 DEF Upper, PartOf
  <2>3. k \in own[x]
    BY <2>2 DEF Part
  <2>4. d[x].flag = 0 /\ j \in -1..(d[x].n - 1)
    BY <1>2, <2>1, <2>2
  <2> QED BY <2>1, <2>2, <2>3, <2>4
<1>6. (\E s \in SlotsOf(rt, d) : ~Upper(d, s) /\ Child(d, s) = a) \/ (a = 0 /\ Lost(rt, d, f))
  BY DEF Tree, Covered
<1>7. CASE a = 0 /\ Lost(rt, d, f)
  <2>1. d[0].flag > 0 /\ k < d[0].slot[0].key
    BY <1>3, <1>7 DEF Lost
  <2>2. x # 0
    BY <1>5, <2>1
  <2>3. d[0].slot[0].key <= k
    BY <1>5, <2>2, RootIs
  <2>4. d[0].slot[0].key \in Int
    <3>1. 0 \in DOMAIN d
      BY <1>1, Fulls, FileHas DEF Blocks
    <3> QED BY <1>1, <3>1, Fulls, BlockHas
  <2> QED BY <2>1, <2>3, <2>4
<1>8. ASSUME NEW s \in SlotsOf(rt, d), ~Upper(d, s), Child(d, s) = a PROVE a = c
  <2>1. PICK z, i : z = s[1] /\ i = s[2]
    OBVIOUS
  <2>2. s = <<z, i>> /\ z \in DOMAIN d /\ i \in -1..(DirFull - 1) /\ i < d[z].n
    BY <2>1, SlotHas
  <2>3. LeafOK(f[a], PartOf(d, own, s))
    BY <1>8 DEF Tree, KidOK
  <2>4. k \in Part(own[z], d[z], i) /\ k \in own[z] /\ ~(d[z].flag > 0)
    <3>1. k \in Part(own[z], d[z], i) /\ ~(d[z].flag > 0)
      BY <1>3, <1>8, <2>1, <2>3 DEF PartOf, Upper
    <3> QED BY <3>1 DEF Part
  <2>5. d[z].flag = 0 /\ i \in -1..(d[z].n - 1)
    BY <1>2, <2>2, <2>4
  <2>6. z = x
    BY <1>5, <2>2, <2>4, <2>5, OwnOnce
  <2>7. i = j
    BY <1>2, <1>5, <2>2, <2>4, <2>5, <2>6, PartOnce
  <2> QED BY <1>5, <1>8, <2>2, <2>6, <2>7
<1> QED BY <1>6, <1>7, <1>8

-----------------------------------------------------------------------------
(* Lookups *)

(* The records of the file, by block and slot.                             *)
Held(f) == {x \in (DOMAIN f) \X Nat : x[2] < f[x[1]].n}
RecordAt(f, x) == f[x[1]].slot[x[2]]

(* The overflow blocks of a chain have one key and get older.              *)
Overflows(f) == DOMAIN f \cap Chained(f)
Chains(f) ==
  /\ \A a \in DOMAIN f : f[a].n \in Nat
  /\ 0 \notin Chained(f)
  /\ \A a \in Overflows(f) : /\ f[a].flag < a
                             /\ \A i \in 0..(f[a].n - 1) : f[a].slot[i].key = f[a].slot[0].key

(* No block was cut from the chain of key k.                               *)
Whole(f, k) ==
  \A a \in DOMAIN f : CutOff(f, a) => f[a].slot[0].key # k /\ f[f[a].flag].slot[0].key # k

(* Leaf h is the one where key k is searched.                              *)
Home(f, h, k) ==
  /\ LeavesOK(f) /\ Chains(f) /\ k \in Int /\ Whole(f, k) /\ h \in Heads(f) /\ f[h].n \in 0..(LeafFull - 1)
  /\ \A i, j \in 0..(f[h].n - 1) : i <= j => f[h].slot[i].key <= f[h].slot[j].key
  /\ \A a \in Heads(f) : HasKey(f[a], k) => a = h

Marks(f) == [blk : DOMAIN f, slot : Int, found : {TRUE}]
At(b, i) == [blk |-> b, slot |-> i, found |-> TRUE]

(* The cursors that a lookup may have: each but the first is on a record   *)
(* with the key, or on an empty overflow block of its chain.               *)
Passed(f, h) ==
  {x \in Marks(f) :  \/ x.blk = h /\ x.slot \in -1..(f[h].n - 1)
                     \/ x.blk \in Chained(f) /\ x.slot \in 0..(LeafFull - 1)}
Spots(f, h, k) ==
  {x \in Passed(f, h) :
     /\ x.slot >= 0
     /\ x.blk = h => f[h].slot[x.slot].key = k
     /\ x.blk # h => f[x.blk].slot[0].key = k /\ (x.slot < f[x.blk].n \/ (x.slot = 0 /\ f[x.blk].n = 0))}

(* Each step of a lookup comes closer to the end of the chain.             *)
Rank(f, h, x) == (IF x.blk = h THEN Size(f) ELSE x.blk) * LeafFull - x.slot

LEMMA TimesLess ==
  ASSUME NEW a \in Nat, NEW b \in Nat, a < b, NEW m \in Nat
  PROVE  a * m + m <= b * m /\ a * m \in Nat /\ b * m \in Nat
<1>1. PICK z \in Nat : b = a + 1 + z
  <2>1. b - a - 1 \in Nat /\ b = a + 1 + (b - a - 1)
    OBVIOUS
  <2> QED BY <2>1
<1>2. b * m = a * m + m + z * m /\ z * m \in Nat /\ a * m \in Nat
  BY <1>1
<1> QED BY <1>2

LEMMA NextIs ==
  ASSUME NEW f, NEW x \in Marks(f), NEW k, NEW p, p = f[x.blk], NEW s, s = x.slot + 1,
         NEW next, next = LeafNext(f, x, k)
  PROVE  \/ (s < p.n /\ p.slot[s].key = k) /\ next = At(x.blk, s)
         \/ /\ ~(s < p.n /\ p.slot[s].key = k) /\ p.slot[0].key = k /\ ~(p.flag < 0)
            /\ next = At(p.flag, 0)
         \/ /\ ~(s < p.n /\ p.slot[s].key = k) /\ (p.slot[0].key # k \/ p.flag < 0)
            /\ ~next.found
<1>1. PICK y : y = At(x.blk, s)
  OBVIOUS
<1>2. [x EXCEPT !.slot = s] = y
  <2>1. ASSUME NEW a, NEW i, NEW u, NEW j
        PROVE  [[blk |-> a, slot |-> i, found |-> u] EXCEPT !.slot = j] =
                 [blk |-> a, slot |-> j, found |-> u]
    OBVIOUS
  <2>2. PICK a, i, u : a = x.blk /\ i = x.slot /\ u = TRUE
    OBVIOUS
  <2>3. x = [blk |-> a, slot |-> i, found |-> u]
    BY <2>2 DEF Marks
  <2>4. [[blk |-> a, slot |-> i, found |-> u] EXCEPT !.slot = s] = [blk |-> a, slot |-> s, found |-> u]
    BY ONLY <2>1
  <2>5. y = [blk |-> a, slot |-> s, found |-> u]
    BY ONLY <1>1, <2>2 DEF At
  <2> QED BY ONLY <2>3, <2>4, <2>5
<1>3. CASE s < p.n /\ p.slot[s].key = k
  <2>1. next = y
    BY <1>2, <1>3 DEF LeafNext
  <2> QED BY <1>1, <1>3, <2>1
<1>4. CASE ~(s < p.n /\ p.slot[s].key = k)
  <2>1. next = TryOverflow(f, y, k)
    BY <1>2, <1>4 DEF LeafNext
  <2>2. y.blk = x.blk /\ y = [blk |-> x.blk, slot |-> s, found |-> TRUE]
    BY <1>1 DEF At
  <2>3. next = IF p.slot[0].key # k \/ p.flag < 0 THEN [y EXCEPT !.found = FALSE] ELSE At(p.flag, 0)
    BY ONLY <2>1, <2>2, p = f[x.blk] DEF TryOverflow, At
  <2>4. ~([y EXCEPT !.found = FALSE].found)
    BY <2>2
  <2>5. CASE p.slot[0].key # k \/ p.flag < 0
    <3>1. ~next.found
      BY <2>3, <2>4, <2>5
    <3> QED BY <1>4, <2>5, <3>1
  <2>6. CASE ~(p.slot[0].key # k \/ p.flag < 0)
    <3>1. next = At(p.flag, 0)
      BY <2>3, <2>6
    <3> QED BY <1>4, <2>6, <3>1
  <2> QED BY <2>5, <2>6
<1> QED BY <1>3, <1>4

(* What the next stop is.                                                  *)
LEMMA NextSpot ==
  ASSUME NEW f, NEW h, NEW k, Home(f, h, k), NEW x \in Passed(f, h),
         NEW next, next = LeafNext(f, x, k), next.found
  PROVE  /\ next \in Spots(f, h, k) /\ next \in Passed(f, h)
         /\ Rank(f, h, next) < Rank(f, h, x) /\ Rank(f, h, next) >= 1
<1>1. /\ Size(f) \in Nat \ {0} /\ DOMAIN f = 0..(Size(f) - 1) /\ LeafFull \in Nat /\ LeafFull > 1
      /\ \A a \in DOMAIN f : f[a].n < LeafFull /\ f[a].n \in Nat /\ f[a].flag \in -1..(Size(f) - 1)
      /\ h \in DOMAIN f /\ h \notin Chained(f) /\ k \in Int
  BY LeafHas, Fulls DEF Home, Chains, Heads
<1>2. PICK b, s, p : b = x.blk /\ s = x.slot + 1 /\ p = f[b]
  OBVIOUS
<1>3. /\ b \in DOMAIN f /\ x.slot \in Int /\ x \in Marks(f)
      /\ \/ b = h /\ x.slot \in -1..(p.n - 1)
         \/ b # h /\ b \in Overflows(f) /\ x.slot \in 0..(LeafFull - 1)
  BY <1>1, <1>2 DEF Passed, Marks, Overflows
<1>4. s \in 0..LeafFull /\ x.slot = s - 1 /\ p.n < LeafFull /\ p.n \in Nat
  <2>1. p.n < LeafFull /\ p.n \in Nat
    BY <1>1, <1>2, <1>3
  <2>2. PICK i \in Int : i = x.slot /\ i >= -1 /\ i < LeafFull
    <3>1. x.slot \in -1..(p.n - 1) \/ x.slot \in 0..(LeafFull - 1)
      BY <1>3
    <3> QED BY <1>1, <2>1, <3>1
  <2> QED BY <1>1, <1>2, <2>1, <2>2
<1>5. \A c \in Overflows(f) : /\ f[c].flag < c /\ c # 0
                              /\ \A i \in 0..(f[c].n - 1) : f[c].slot[i].key = f[c].slot[0].key
  BY DEF Home, Chains, Overflows
<1>6. PICK L \in Nat, N \in Nat : L = LeafFull /\ N = Size(f) * L /\ L > 1
  <2>1. Size(f) * LeafFull \in Nat
    BY <1>1
  <2> QED BY <1>1, <2>1
<1>7. \A c \in DOMAIN f : c * L \in Nat /\ c * L + L <= N
  <2> SUFFICES ASSUME NEW c \in DOMAIN f PROVE c * L \in Nat /\ c * L + L <= N
    OBVIOUS
  <2>1. PICK m \in Nat : m = Size(f) /\ c \in Nat /\ c < m
    BY <1>1
  <2>2. c * L + L <= m * L /\ c * L \in Nat
    BY <2>1, TimesLess
  <2> QED BY <1>6, <2>1, <2>2
<1>8. Rank(f, h, x) = (IF b = h THEN N ELSE b * L) - x.slot
  BY <1>2, <1>6 DEF Rank
<1>9. CASE (s < p.n /\ p.slot[s].key = k) /\ next = At(b, s)
  <2>1. next \in Marks(f) /\ next.blk = b /\ next.slot = s /\ s \in 0..(p.n - 1) /\ s \in 0..(LeafFull - 1)
    <3>1. s \in 0..(p.n - 1) /\ s \in 0..(LeafFull - 1) /\ s \in Int
      BY <1>1, <1>4, <1>9
    <3> QED BY <1>3, <1>9, <3>1 DEF At, Marks
  <2>2. next \in Passed(f, h) /\ next \in Spots(f, h, k)
    <3>1. CASE b = h
      <4>1. next \in Passed(f, h)
        BY <1>2, <2>1, <3>1 DEF Passed
      <4> QED BY <1>2, <1>9, <2>1, <3>1, <4>1 DEF Spots
    <3>2. CASE b # h
      <4>1. next \in Passed(f, h)
        BY <1>3, <2>1, <3>2 DEF Passed, Overflows
      <4>2. f[b].slot[0].key = k
        BY <1>2, <1>3, <1>5, <1>9, <2>1, <3>2
      <4> QED BY <1>2, <1>9, <2>1, <3>2, <4>1, <4>2 DEF Spots
    <3> QED BY <3>1, <3>2
  <2>3. Rank(f, h, next) = (IF b = h THEN N ELSE b * L) - s
    BY <1>6, <2>1 DEF Rank
  <2>4. b # h => b >= 1
    BY <1>1, <1>3, <1>5
  <2>5. b # h => L <= b * L
    <3>1. b # h => 0 \in Nat /\ b \in Nat /\ 0 < b
      BY <1>1, <1>3, <2>4
    <3>2. b # h => 0 * L + L <= b * L
      BY <3>1, TimesLess
    <3>3. 0 * L = 0
      OBVIOUS
    <3> QED BY <3>2, <3>3
  <2>6. b * L \in Nat /\ L <= N
    BY <1>3, <1>6, <1>7
  <2> QED BY <1>4, <1>6, <1>8, <2>1, <2>2, <2>3, <2>5, <2>6
<1>10. CASE p.slot[0].key = k /\ ~(p.flag < 0) /\ next = At(p.flag, 0)
  <2>1. PICK c : c = p.flag
    OBVIOUS
  <2>2. c \in DOMAIN f /\ c \in Overflows(f) /\ c # h
    <3>1. c \in -1..(Size(f) - 1) /\ ~(c < 0)
      BY <1>1, <1>2, <1>3, <1>10, <2>1
    <3>2. c \in DOMAIN f /\ c \in Chained(f)
      BY <1>1, <1>2, <1>3, <2>1, <3>1 DEF Chained
    <3> QED BY <1>1, <3>2 DEF Overflows
  <2>3. f[c].slot[0].key = k
    <3>1. ~CutOff(f, b)
      BY <1>2, <1>3, <1>10 DEF Home, Whole
    <3>2. p.flag >= 0
      BY <1>1, <2>1, <2>2
    <3> QED BY <1>2, <1>10, <2>1, <3>1, <3>2 DEF CutOff
  <2>4. next \in Marks(f) /\ next.blk = c /\ next.slot = 0 /\ 0 \in 0..(LeafFull - 1)
    BY <1>1, <1>10, <2>1, <2>2 DEF At, Marks
  <2>5. next \in Passed(f, h)
    BY <2>2, <2>4 DEF Passed, Overflows
  <2>6. f[c].n \in Nat
    BY <1>1, <2>2
  <2>7. next \in Spots(f, h, k)
    <3>1. 0 < f[c].n \/ f[c].n = 0
      BY <2>6
    <3> QED BY <2>2, <2>3, <2>4, <2>5, <3>1 DEF Spots
  <2>8. Rank(f, h, next) = c * L - 0
    BY <1>6, <2>2, <2>4 DEF Rank
  <2>9. c \in Nat /\ c > 0 /\ c * L \in Nat
    BY <1>1, <1>5, <1>7, <2>2
  <2>10. L <= c * L
    <3>1. 0 * L + L <= c * L
      BY <2>9, TimesLess
    <3>2. 0 * L = 0
      OBVIOUS
    <3> QED BY <2>9, <3>1, <3>2
  <2>11. CASE b = h
    <3>1. c * L + L <= N /\ x.slot < L
      <4>1. x.slot < L
        BY <1>4, <1>6, <1>1
      <4> QED BY <1>7, <2>2, <4>1
    <3> QED BY <1>3, <1>6, <1>8, <2>5, <2>7, <2>8, <2>9, <2>10, <2>11, <3>1
  <2>12. CASE b # h
    <3>1. c < b /\ x.slot < L
      BY <1>1, <1>2, <1>3, <1>5, <1>6, <2>1, <2>12
    <3>2. c * L + L <= b * L /\ b * L \in Nat
      <4>1. b \in Nat
        BY <1>1, <1>3
      <4> QED BY <2>9, <3>1, <4>1, TimesLess
    <3> QED BY <1>3, <1>6, <1>8, <2>5, <2>7, <2>8, <2>9, <2>10, <2>12, <3>1, <3>2
  <2> QED BY <2>11, <2>12
<1> QED BY <1>2, <1>3, <1>9, <1>10, NextIs

(* The cursors of a lookup from its first one on.                          *)
Route(f, h, k) ==
  {t \in Seq(Passed(f, h)) :
     /\ Len(t) >= 1 /\ t[1] = OpenLeaf(f, h, k)
     /\ \A i \in 2..Len(t) : t[i] \in Spots(f, h, k) /\ t[i] = LeafNext(f, t[i - 1], k)
     /\ \A i \in 1..Len(t) : Rank(f, h, t[i]) <= Size(f) * LeafFull + 2 - i
     /\ \A i, j \in 1..Len(t) : i < j => Rank(f, h, t[j]) < Rank(f, h, t[i])}

LEMMA RankIs ==
  ASSUME NEW f, NEW h, NEW k, Home(f, h, k), NEW x \in Passed(f, h)
  PROVE  Rank(f, h, x) \in Int /\ Size(f) * LeafFull \in Nat
<1>1. /\ Size(f) \in Nat \ {0} /\ DOMAIN f = 0..(Size(f) - 1) /\ LeafFull \in Nat
  BY LeafHas, Fulls DEF Home
<1>2. x.blk \in Nat /\ x.slot \in Int /\ Size(f) \in Nat
  BY <1>1 DEF Passed, Marks
<1>3. Size(f) * LeafFull \in Nat /\ x.blk * LeafFull \in Nat
  BY <1>1, <1>2
<1> QED BY <1>2, <1>3 DEF Rank

(* The first cursor stands before all records with the key.                *)
LEMMA OpenIs ==
  ASSUME NEW f, NEW h, NEW k, Home(f, h, k), NEW o, o = OpenLeaf(f, h, k)
  PROVE  /\ o \in Passed(f, h) /\ Rank(f, h, o) <= Size(f) * LeafFull + 1
         /\ \E s \in -1..(f[h].n - 1) : /\ o = At(h, s)
                                        /\ \A i \in 0..s : f[h].slot[i].key < k
                                        /\ s + 1 < f[h].n => f[h].slot[s + 1].key >= k
<1>1. /\ h \in DOMAIN f /\ f[h] \in Pages(LeafFull) /\ LeafFull \in Nat /\ f[h].n \in 0..(LeafFull - 1) /\ k \in Int
  BY LeafHas, Fulls DEF Home, Heads
<1>2. PICK s \in -1..(f[h].n - 1) : /\ s = SlotBefore(f[h], k)
                                    /\ \A i \in 0..s : f[h].slot[i].key < k
                                    /\ s + 1 < f[h].n => f[h].slot[s + 1].key >= k
  BY <1>1, SlotBeforeIs
<1>3. o = At(h, s) /\ s \in Int
  BY <1>1, <1>2 DEF OpenLeaf, At
<1>4. o.blk = h /\ o.slot = s
  BY <1>3 DEF At
<1>5. o \in Passed(f, h)
  BY <1>1, <1>2, <1>3, <1>4 DEF Passed, Marks, At
<1>6. Rank(f, h, o) = Size(f) * LeafFull - s /\ Size(f) * LeafFull \in Nat
  BY <1>4, <1>5, RankIs DEF Rank
<1>7. Rank(f, h, o) <= Size(f) * LeafFull + 1
  BY <1>2, <1>3, <1>6
<1> QED BY <1>2, <1>3, <1>5, <1>7

LEMMA RouteGrows ==
  ASSUME NEW f, NEW h, NEW k, Home(f, h, k), NEW t \in Route(f, h, k),
         NEW next, next = LeafNext(f, t[Len(t)], k), NEW t2, t2 = Advance(f, t, k)
  PROVE  t2 \in Route(f, h, k) /\ (next.found => Len(t2) = Len(t) + 1) /\ (~next.found => t2 = t)
<1>1. /\ t \in Seq(Passed(f, h)) /\ Len(t) \in Nat /\ Len(t) >= 1 /\ t[1] = OpenLeaf(f, h, k)
      /\ \A i \in 2..Len(t) : t[i] \in Spots(f, h, k) /\ t[i] = LeafNext(f, t[i - 1], k)
      /\ \A i \in 1..Len(t) : Rank(f, h, t[i]) <= Size(f) * LeafFull + 2 - i
      /\ \A i, j \in 1..Len(t) : i < j => Rank(f, h, t[j]) < Rank(f, h, t[i])
  BY DEF Route
<1>2. CASE ~next.found
  <2>1. t2 = t
    BY <1>2 DEF Advance
  <2> QED BY <1>2, <2>1
<1>3. CASE next.found
  <2>1. t2 = Append(t, next)
    BY <1>3 DEF Advance
  <2>2. PICK m \in Nat : m = Len(t) /\ m >= 1
    BY <1>1
  <2>3. PICK x \in Passed(f, h) : x = t[m]
    BY <1>1, <2>2
  <2>4. /\ next \in Spots(f, h, k) /\ next \in Passed(f, h)
        /\ Rank(f, h, next) < Rank(f, h, x)
    BY <1>3, <2>2, <2>3, NextSpot
  <2>5. t2 \in Seq(Passed(f, h)) /\ Len(t2) = m + 1 /\ t2[m + 1] = next /\ \A i \in 1..m : t2[i] = t[i]
    BY <1>1, <2>1, <2>2, <2>4
  <2>6. /\ \A i \in 1..(m + 1) : i \in 1..m \/ i = m + 1
        /\ \A i \in 2..(m + 1) : i \in 2..m \/ i = m + 1
        /\ \A i \in 2..m : i - 1 \in 1..m /\ i \in 1..m
        /\ (m + 1) - 1 = m /\ m \in 1..m /\ 1 \in 1..m
    BY <2>2
  <2>7. \A i \in 2..(m + 1) : t2[i] \in Spots(f, h, k) /\ t2[i] = LeafNext(f, t2[i - 1], k)
    BY <1>1, <2>2, <2>4, <2>5, <2>6
  <2>8. \A i \in 1..m : t[i] \in Passed(f, h) /\ Rank(f, h, t[i]) \in Int
    BY <1>1, <2>2, RankIs
  <2>9. Rank(f, h, next) \in Int /\ Rank(f, h, x) \in Int /\ Size(f) * LeafFull \in Nat
    BY <2>4, RankIs
  <2>10. \A i \in 1..(m + 1) : Rank(f, h, t2[i]) <= Size(f) * LeafFull + 2 - i
    <3>1. Rank(f, h, x) <= Size(f) * LeafFull + 2 - m
      BY <1>1, <2>2, <2>3, <2>6
    <3>2. Rank(f, h, next) <= Size(f) * LeafFull + 2 - (m + 1)
      BY <2>2, <2>4, <2>9, <3>1
    <3> QED BY <1>1, <2>2, <2>5, <2>6, <3>2
  <2>11. ASSUME NEW i \in 1..(m + 1), NEW j \in 1..(m + 1), i < j PROVE Rank(f, h, t2[j]) < Rank(f, h, t2[i])
    <3>1. i \in 1..m
      BY <2>2, <2>11
    <3>2. CASE j \in 1..m
      BY <1>1, <2>2, <2>5, <2>11, <3>1, <3>2
    <3>3. CASE j = m + 1
      <4>1. i = m \/ Rank(f, h, t[m]) < Rank(f, h, t[i])
        BY <1>1, <2>2, <2>6, <3>1
      <4>2. Rank(f, h, next) < Rank(f, h, t[i])
        BY <2>3, <2>4, <2>8, <2>9, <3>1, <4>1
      <4> QED BY <2>5, <3>1, <3>3, <4>2
    <3> QED BY <2>6, <3>2, <3>3
  <2>12. t2 \in Route(f, h, k)
    BY <1>1, <2>2, <2>5, <2>6, <2>7, <2>10, <2>11 DEF Route
  <2> QED BY <1>3, <2>2, <2>5, <2>12
<1> QED BY <1>2, <1>3

(* The bound on the number of cursors is never what ends a lookup.         *)
LEMMA RouteIs ==
  ASSUME NEW f, NEW h, NEW k, Home(f, h, k)
  PROVE  \E t \in Route(f, h, k) : Cursors(f, h, k) = Tail(t) /\ ~LeafNext(f, t[Len(t)], k).found
<1>1. PICK X, o : X = Route(f, h, k) /\ o = OpenLeaf(f, h, k)
  OBVIOUS
<1>2. o \in Passed(f, h) /\ Rank(f, h, o) <= Size(f) * LeafFull + 1
  BY <1>1, OpenIs
<1>3. Size(f) * LeafFull \in Nat
  BY <1>2, RankIs
<1>4. <<o>> \in X
  <2>1. <<o>> \in Seq(Passed(f, h)) /\ Len(<<o>>) = 1 /\ <<o>>[1] = o
    BY <1>2
  <2>2. \A i \in 1..1 : i = 1
    OBVIOUS
  <2>3. 2..1 = {} /\ (Size(f) * LeafFull + 1 = Size(f) * LeafFull + 2 - 1) /\ ~(1 < 1)
    BY <1>3
  <2> QED BY <1>1, <1>2, <2>1, <2>2, <2>3 DEF Route
<1>5. \A x \in X : Advance(f, x, k) \in X
  BY <1>1, RouteGrows
<1>6. LeavesOK(f)
  BY DEF Home
<1>7. PICK n \in Nat : \E g : Goes(f, h, k, X, n, g)
  BY <1>1, <1>4, <1>5, <1>6, CursorsGo
<1>8. PICK g : Goes(f, h, k, X, n, g)
  BY <1>7
<1>9. /\ n = Size(f) * LeafFull /\ g \in [0..n -> X] /\ g[0] = <<o>>
      /\ \A i \in 1..n : g[i] = Advance(f, g[i - 1], k)
      /\ Cursors(f, h, k) = Tail(g[n])
  BY <1>1, <1>8 DEF Goes
<1> DEFINE Ended(t) == ~LeafNext(f, t[Len(t)], k).found
           T == {i \in Nat : i <= n => Len(g[i]) = i + 1 \/ Ended(g[i])}
<1>10. 0 \in T
  <2>1. Len(<<o>>) = 0 + 1
    OBVIOUS
  <2>2. Len(g[0]) = 0 + 1
    BY <1>9, <2>1
  <2> HIDE DEF Ended
  <2> QED BY <2>2
<1>11. ASSUME NEW i \in Nat, i \in T PROVE i + 1 \in T
  <2>1. CASE i + 1 <= n
    <3>1. i \in 0..n /\ i + 1 \in 1..n /\ (i + 1) - 1 = i /\ i <= n
      BY <1>7, <2>1
    <3>2. PICK t \in X : t = g[i]
      BY <1>9, <3>1
    <3>3. g[i + 1] = Advance(f, t, k)
      BY <1>9, <3>1, <3>2
    <3>4. Len(t) = i + 1 \/ Ended(t)
      BY <1>11, <3>1, <3>2
    <3>5. PICK t2 : t2 = g[i + 1]
      OBVIOUS
    <3>6. (~Ended(t) => Len(t2) = Len(t) + 1) /\ (Ended(t) => t2 = t)
      BY <1>1, <3>3, <3>5, RouteGrows
    <3>7. Len(t2) = (i + 1) + 1 \/ Ended(t2)
      <4> HIDE DEF Ended
      <4> QED BY <3>4, <3>6
    <3> HIDE DEF Ended
    <3> QED BY <3>5, <3>7
  <2> HIDE DEF Ended
  <2> QED BY <2>1
<1>12. Nat \subseteq T
  <2> HIDE DEF T
  <2> QED BY <1>10, <1>11, SetInduction
<1>13. PICK t \in X : t = g[n]
  <2>1. n \in 0..n
    BY <1>7
  <2> QED BY <1>9, <2>1
<1>14. Ended(t)
  <2> SUFFICES ASSUME ~Ended(t) PROVE FALSE
    OBVIOUS
  <2>1. Len(t) = n + 1
    <3> HIDE DEF Ended
    <3> QED BY <1>7, <1>12, <1>13
  <2>2. n + 1 \in 1..Len(t) /\ t \in Seq(Passed(f, h)) /\ Rank(f, h, t[n + 1]) <= n + 2 - (n + 1)
    BY <1>1, <1>7, <1>9, <2>1 DEF Route
  <2>3. PICK x \in Passed(f, h) : x = t[n + 1]
    BY <2>2
  <2>4. PICK next : next = LeafNext(f, x, k)
    OBVIOUS
  <2>5. next.found
    BY <2>1, <2>3, <2>4
  <2>6. next \in Passed(f, h) /\ Rank(f, h, next) < Rank(f, h, x) /\ Rank(f, h, next) >= 1
    BY <2>4, <2>5, NextSpot
  <2>7. Rank(f, h, next) \in Int /\ Rank(f, h, x) \in Int
    BY <2>6, RankIs
  <2> QED BY <1>7, <2>2, <2>3, <2>6, <2>7
<1> QED BY <1>1, <1>9, <1>13, <1>14

(* A set of cursors that has the next one of each, unless there is none.   *)
Onward(f, h, k, V) == V \subseteq Passed(f, h) /\ \A x \in V : LeafNext(f, x, k).found => LeafNext(f, x, k) \in V

(* It has all records with the key in a block behind one of its cursors.   *)
LEMMA BlockSeen ==
  ASSUME NEW f, NEW h, NEW k, Home(f, h, k), NEW V, Onward(f, h, k, V), NEW b, NEW i0 \in Int, NEW j \in Int,
         i0 >= -1, i0 <= j, At(b, i0) \in V, j < f[b].n, f[b].n \in Int,
         \A i \in (i0 + 1)..j : f[b].slot[i].key = k
  PROVE  At(b, j) \in V
<1>1. PICK T : T = {m \in Nat : m <= j + 1 /\ At(b, m - 1) \in V}
  OBVIOUS
<1>2. T \subseteq Nat /\ i0 + 1 \in T /\ j + 1 \in Nat /\ \A m \in T : m <= j + 1
  <2>1. (i0 + 1) - 1 = i0 /\ i0 + 1 \in Nat /\ i0 + 1 <= j + 1
    OBVIOUS
  <2> QED BY <1>1, <2>1
<1>3. PICK m \in T : \A y \in T : y <= m
  BY <1>2, GreatestExists
<1>4. m \in Nat /\ m <= j + 1 /\ At(b, m - 1) \in V /\ i0 + 1 <= m
  BY <1>1, <1>2, <1>3
<1>5. CASE m = j + 1
  <2>1. m - 1 = j
    BY <1>5
  <2> QED BY <1>4, <2>1
<1>6. CASE m # j + 1
  <2>1. m \in (i0 + 1)..j /\ m < f[b].n /\ (m - 1) + 1 = m
    BY <1>4, <1>6
  <2>2. PICK x \in V : x = At(b, m - 1)
    BY <1>4
  <2>3. x \in Marks(f) /\ x.blk = b /\ x.slot + 1 = m
    BY <2>1, <2>2 DEF Onward, Passed, At
  <2>4. LeafNext(f, x, k) = At(b, m)
    BY <2>1, <2>3, NextIs
  <2>5. At(b, m).found
    BY DEF At
  <2>6. At(b, m) \in V
    BY <2>4, <2>5 DEF Onward
  <2>7. m + 1 \in T
    <3>1. m + 1 \in Nat /\ m + 1 <= j + 1 /\ (m + 1) - 1 = m
      BY <1>4, <2>1
    <3> QED BY <1>1, <2>6, <3>1
  <2> QED BY <1>3, <1>4, <2>7
<1> QED BY <1>5, <1>6

(* It goes on to the block behind one with a chain for the key.            *)
LEMMA ChainSeen ==
  ASSUME NEW f, NEW h, NEW k, Home(f, h, k), NEW V, Onward(f, h, k, V), NEW b, NEW i0 \in Int, i0 >= -1,
         At(b, i0) \in V, f[b].slot[0].key = k, ~(f[b].flag < 0)
  PROVE  At(f[b].flag, 0) \in V
<1>1. PICK T : T = {m \in Nat : At(b, m - 1) \in V}
  OBVIOUS
<1>2. LeafFull \in Nat /\ \A a \in DOMAIN f : f[a].n < LeafFull /\ f[a].n \in Nat
  BY LeafHas, Fulls DEF Home, Chains
<1>3. \A x \in V : x \in Marks(f) /\ x.slot \in Int /\ x.slot < LeafFull
  <2> SUFFICES ASSUME NEW x \in V PROVE x \in Marks(f) /\ x.slot \in Int /\ x.slot < LeafFull
    OBVIOUS
  <2>1. x \in Marks(f) /\ x.slot \in Int /\ x.blk \in DOMAIN f
        /\ ((x.blk = h /\ x.slot \in -1..(f[h].n - 1)) \/ x.slot \in 0..(LeafFull - 1))
    BY DEF Onward, Passed, Marks
  <2> QED BY <1>2, <2>1
<1>4. i0 + 1 \in T /\ T \subseteq Nat
  <2>1. (i0 + 1) - 1 = i0 /\ i0 + 1 \in Nat
    OBVIOUS
  <2> QED BY <1>1, <2>1
<1>5. \A m \in T : m <= LeafFull
  <2> SUFFICES ASSUME NEW m \in T PROVE m <= LeafFull
    OBVIOUS
  <2>1. At(b, m - 1) \in V /\ m \in Nat
    BY <1>1
  <2>2. At(b, m - 1).slot = m - 1
    BY DEF At
  <2>3. m - 1 < LeafFull
    BY <1>3, <2>1, <2>2
  <2> QED BY <1>2, <2>1, <2>3
<1>6. PICK m \in T : \A y \in T : y <= m
  BY <1>2, <1>4, <1>5, GreatestExists
<1>7. PICK x \in V : x = At(b, m - 1) /\ m \in Nat
  BY <1>1
<1>8. x \in Marks(f) /\ x.blk = b /\ x.slot + 1 = m
  BY <1>3, <1>7 DEF At
<1>9. PICK next : next = LeafNext(f, x, k)
  OBVIOUS
<1>10. next # At(b, m)
  <2> SUFFICES ASSUME next = At(b, m) PROVE FALSE
    OBVIOUS
  <2>1. next.found
    BY DEF At
  <2>2. At(b, m) \in V
    BY <1>9, <2>1 DEF Onward
  <2>3. m + 1 \in T
    <3>1. m + 1 \in Nat /\ (m + 1) - 1 = m
      BY <1>7
    <3> QED BY <1>1, <2>2, <3>1
  <2> QED BY <1>6, <1>7, <2>3
<1>11. next = At(f[b].flag, 0)
  BY <1>8, <1>9, <1>10, NextIs
<1>12. next.found
  BY <1>11 DEF At
<1> QED BY <1>9, <1>11, <1>12 DEF Onward

(* It has all records with the key, when it has the first cursor.          *)
LEMMA AllSeen ==
  ASSUME NEW f, NEW h, NEW k, Home(f, h, k), NEW V, Onward(f, h, k, V), NEW o, o = OpenLeaf(f, h, k), o \in V,
         NEW x \in Held(f), RecordAt(f, x).key = k
  PROVE  At(x[1], x[2]) \in V /\ At(x[1], x[2]) # o
<1>1. /\ Size(f) \in Nat \ {0} /\ DOMAIN f = 0..(Size(f) - 1) /\ LeafFull \in Nat
      /\ \A a \in DOMAIN f : f[a].n < LeafFull /\ f[a].n \in Nat /\ f[a].flag \in -1..(Size(f) - 1)
      /\ h \in DOMAIN f /\ h \notin Chained(f) /\ k \in Int
  BY LeafHas, Fulls DEF Home, Chains, Heads
<1>2. PICK b, j : b = x[1] /\ j = x[2]
  OBVIOUS
<1>3. b \in DOMAIN f /\ j \in Nat /\ j < f[b].n /\ f[b].slot[j].key = k /\ j \in 0..(f[b].n - 1) /\ f[b].n \in Nat
  <2>1. b \in DOMAIN f /\ j \in Nat /\ j < f[b].n /\ f[b].slot[j].key = k
    BY <1>2 DEF Held, RecordAt
  <2> QED BY <1>1, <2>1
<1>4. PICK s \in -1..(f[h].n - 1) : /\ o = At(h, s)
                                    /\ \A i \in 0..s : f[h].slot[i].key < k
                                    /\ s + 1 < f[h].n => f[h].slot[s + 1].key >= k
  BY OpenIs
<1>5. s \in Int /\ s >= -1 /\ f[h].n \in Nat
  BY <1>1, <1>4
<1>6. CASE b \in Heads(f)
  <2>1. b = h
    <3>1. HasKey(f[b], k)
      BY <1>3 DEF HasKey
    <3> QED BY <1>6, <3>1 DEF Home
  <2>2. s < j
    <3> SUFFICES ASSUME ~(s < j) PROVE FALSE
      OBVIOUS
    <3>1. j \in 0..s
      BY <1>3, <1>5
    <3> QED BY <1>1, <1>3, <1>4, <2>1, <3>1
  <2>3. ASSUME NEW i \in (s + 1)..j PROVE f[h].slot[i].key = k
    <3>1. i \in 0..(f[h].n - 1) /\ s + 1 \in 0..(f[h].n - 1) /\ s + 1 <= i /\ i <= j /\ s + 1 < f[h].n
          /\ j \in 0..(f[h].n - 1)
      BY <1>3, <1>5, <2>1, <2>2
    <3>2. f[h].slot[s + 1].key <= f[h].slot[i].key /\ f[h].slot[i].key <= f[h].slot[j].key
      BY <3>1 DEF Home
    <3>3. f[h].slot[s + 1].key >= k /\ f[h].slot[j].key = k
      BY <1>3, <1>4, <2>1, <3>1
    <3>4. f[h].slot[s + 1].key \in Int /\ f[h].slot[i].key \in Int
      <4>1. s + 1 \in 0..(LeafFull - 1) /\ i \in 0..(LeafFull - 1) /\ f[h] \in Pages(LeafFull)
        BY <1>1, <3>1, LeafHas DEF Home
      <4> QED BY <1>1, <4>1, KeyIsInt
    <3> QED BY <1>1, <3>2, <3>3, <3>4
  <2>4. At(b, j) \in V
    BY <1>3, <1>4, <1>5, <2>1, <2>2, <2>3, BlockSeen
  <2>5. At(b, j) # o
    <3>1. At(b, j).slot = j /\ At(h, s).slot = s
      BY DEF At
    <3> QED BY <1>4, <1>5, <1>3, <2>2, <3>1
  <2> QED BY <1>2, <2>4, <2>5
<1>7. CASE b \notin Heads(f)
  <2>1. b \in Overflows(f) /\ b # h
    BY <1>1, <1>3, <1>7 DEF Overflows, Heads
  <2>2. /\ \A a \in Overflows(f) : /\ f[a].flag < a /\ a \in DOMAIN f /\ a \in Nat
                                   /\ \A i \in 0..(f[a].n - 1) : f[a].slot[i].key = f[a].slot[0].key
    BY <1>1 DEF Home, Chains, Overflows
  <2>3. f[b].slot[0].key = k
    BY <1>3, <2>1, <2>2
  <2>4. PICK Bad : Bad = {a \in Overflows(f) : f[a].slot[0].key = k /\ At(a, 0) \notin V}
    OBVIOUS
  <2>5. Bad = {}
    <3> SUFFICES ASSUME Bad # {} PROVE FALSE
      OBVIOUS
    <3>1. Bad \subseteq Nat /\ \A y \in Bad : y <= Size(f)
      BY <1>1, <2>2, <2>4
    <3>2. PICK w \in Bad : \A y \in Bad : y <= w
      BY <1>1, <3>1, GreatestExists
    <3>3. w \in Overflows(f) /\ f[w].slot[0].key = k /\ At(w, 0) \notin V /\ w \in Nat
      BY <2>2, <2>4, <3>2
    <3>4. PICK a \in DOMAIN f : f[a].flag = w
      BY <3>3 DEF Overflows, Chained
    <3>5. f[a].slot[0].key = k
      <4>1. ~CutOff(f, a)
        BY <3>3, <3>4 DEF Home, Whole
      <4> QED BY <3>3, <3>4, <4>1 DEF CutOff
    <3>6. ~(f[a].flag < 0)
      BY <3>3, <3>4
    <3>7. CASE a \in Heads(f)
      <4>1. HasKey(f[a], k)
        BY <3>3, <3>4, <3>5 DEF HasKey
      <4>2. a = h
        BY <3>7, <4>1 DEF Home
      <4> QED BY <1>4, <1>5, <3>3, <3>4, <3>5, <3>6, <4>2, ChainSeen
    <3>8. CASE a \notin Heads(f)
      <4>1. a \in Overflows(f) /\ w < a /\ a \in Nat
        BY <2>2, <3>4, <3>8 DEF Overflows, Heads
      <4>2. a \notin Bad
        BY <3>2, <3>3, <4>1
      <4>3. At(a, 0) \in V
        BY <2>4, <3>5, <4>1, <4>2
      <4> QED BY <3>3, <3>4, <3>5, <3>6, <4>3, ChainSeen
    <3> QED BY <3>7, <3>8
  <2>6. At(b, 0) \in V
    BY <2>1, <2>3, <2>4, <2>5
  <2>7. \A i \in (0 + 1)..j : f[b].slot[i].key = k
    <3>1. \A i \in (0 + 1)..j : i \in 0..(f[b].n - 1)
      BY <1>3
    <3> QED BY <2>1, <2>2, <2>3, <3>1
  <2>8. At(b, j) \in V
    BY <1>3, <2>6, <2>7, BlockSeen
  <2>9. At(b, j) # o
    <3>1. At(b, j).blk = b /\ At(h, s).blk = h
      BY DEF At
    <3> QED BY <1>4, <2>1, <3>1
  <2> QED BY <1>2, <2>8, <2>9
<1> QED BY <1>6, <1>7

(* A lookup stops at the records with the key and at empty blocks of their *)
(* chain, the newest blocks first.                                         *)
Stops(f, h, k, u) ==
  /\ u \in Seq(Spots(f, h, k))
  /\ \A i, j \in DOMAIN u : i < j => Rank(f, h, u[j]) < Rank(f, h, u[i])
  /\ \A x \in Held(f) : RecordAt(f, x).key = k => \E i \in DOMAIN u : u[i] = At(x[1], x[2])

LEMMA LookupIs ==
  ASSUME NEW f, NEW h, NEW k, Home(f, h, k)
  PROVE  Stops(f, h, k, Cursors(f, h, k))
<1>1. PICK t \in Route(f, h, k) : Cursors(f, h, k) = Tail(t) /\ ~LeafNext(f, t[Len(t)], k).found
  BY RouteIs
<1>2. PICK u : u = Tail(t)
  OBVIOUS
<1>3. PICK m \in Nat : m = Len(t) /\ m >= 1
  BY DEF Route
<1>4. /\ t \in Seq(Passed(f, h)) /\ Len(t) = m /\ t[1] = OpenLeaf(f, h, k) /\ DOMAIN t = 1..m
      /\ \A i \in 2..m : t[i] \in Spots(f, h, k) /\ t[i] = LeafNext(f, t[i - 1], k)
      /\ \A i, j \in 1..m : i < j => Rank(f, h, t[j]) < Rank(f, h, t[i])
  BY <1>3 DEF Route
<1>5. DOMAIN u = 1..(m - 1) /\ Len(u) = m - 1 /\ \A i \in 1..(m - 1) : u[i] = t[i + 1]
  BY <1>2, <1>3, <1>4
<1>6. \A i \in 1..(m - 1) : i + 1 \in 2..m /\ i + 1 \in 1..m
  BY <1>3
<1>7. u \in Seq(Spots(f, h, k))
  <2>1. \A i \in 1..(m - 1) : u[i] \in Spots(f, h, k)
    BY <1>4, <1>5, <1>6
  <2>2. u \in Seq(Passed(f, h)) /\ m - 1 \in Nat
    BY <1>2, <1>3, <1>4
  <2>3. u \in [1..(m - 1) -> Spots(f, h, k)]
    BY <1>5, <2>1, <2>2
  <2> QED BY <2>2, <2>3
<1>8. \A i, j \in DOMAIN u : i < j => Rank(f, h, u[j]) < Rank(f, h, u[i])
  <2> SUFFICES ASSUME NEW i \in 1..(m - 1), NEW j \in 1..(m - 1), i < j PROVE Rank(f, h, u[j]) < Rank(f, h, u[i])
    BY <1>5
  <2>1. i + 1 < j + 1 /\ i + 1 \in 1..m /\ j + 1 \in 1..m
    BY <1>3
  <2> QED BY <1>4, <1>5, <2>1
<1>9. PICK V : V = {t[i] : i \in 1..m}
  OBVIOUS
<1>10. Onward(f, h, k, V)
  <2>1. V \subseteq Passed(f, h)
    BY <1>4, <1>9
  <2>2. ASSUME NEW x \in V, LeafNext(f, x, k).found PROVE LeafNext(f, x, k) \in V
    <3>1. PICK i \in 1..m : x = t[i]
      BY <1>9
    <3>2. i # m
      BY <1>1, <1>3, <2>2, <3>1
    <3>3. i + 1 \in 2..m /\ i + 1 \in 1..m /\ (i + 1) - 1 = i
      BY <1>3, <3>2
    <3>4. t[i + 1] = LeafNext(f, x, k)
      BY <1>4, <3>1, <3>3
    <3> QED BY <1>9, <3>3, <3>4
  <2> QED BY <2>1, <2>2 DEF Onward
<1>11. 1 \in 1..m /\ t[1] \in V
  BY <1>3, <1>9
<1>12. ASSUME NEW x \in Held(f), RecordAt(f, x).key = k PROVE \E i \in DOMAIN u : u[i] = At(x[1], x[2])
  <2>1. At(x[1], x[2]) \in V /\ At(x[1], x[2]) # t[1]
    BY <1>4, <1>10, <1>11, <1>12, AllSeen
  <2>2. PICK i \in 1..m : t[i] = At(x[1], x[2])
    BY <1>9, <2>1
  <2>3. i # 1
    BY <2>1, <2>2
  <2>4. i - 1 \in 1..(m - 1) /\ (i - 1) + 1 = i
    BY <1>3, <2>3
  <2> QED BY <1>5, <2>2, <2>4
<1> QED BY <1>1, <1>2, <1>7, <1>8, <1>12 DEF Stops

(* A cursor that is not on an empty overflow block is on a record.         *)
LEMMA SpotHeld ==
  ASSUME NEW f, NEW h, NEW k, Home(f, h, k), NEW s \in Spots(f, h, k), f[s.blk].n # 0 \/ s.blk = h
  PROVE  /\ <<s.blk, s.slot>> \in Held(f) /\ RecordAt(f, <<s.blk, s.slot>>).key = k
         /\ s = At(s.blk, s.slot) /\ DataRid(f, s) = RecordAt(f, <<s.blk, s.slot>>).val
<1>1. /\ s \in Marks(f) /\ s.slot >= 0 /\ s.blk \in DOMAIN f /\ s.slot \in Nat
      /\ \/ s.blk = h /\ s.slot \in -1..(f[h].n - 1)
         \/ s.blk \in Chained(f) /\ s.slot \in 0..(LeafFull - 1)
      /\ s.blk = h => f[h].slot[s.slot].key = k
      /\ s.blk # h => f[s.blk].slot[0].key = k /\ (s.slot < f[s.blk].n \/ (s.slot = 0 /\ f[s.blk].n = 0))
  <2>1. s \in Passed(f, h) /\ s.slot >= 0
        /\ (s.blk = h => f[h].slot[s.slot].key = k)
        /\ (s.blk # h => f[s.blk].slot[0].key = k /\ (s.slot < f[s.blk].n \/ (s.slot = 0 /\ f[s.blk].n = 0)))
    BY DEF Spots
  <2>2. /\ s \in Marks(f) /\ s.blk \in DOMAIN f /\ s.slot \in Int
        /\ \/ s.blk = h /\ s.slot \in -1..(f[h].n - 1)
           \/ s.blk \in Chained(f) /\ s.slot \in 0..(LeafFull - 1)
    BY <2>1 DEF Passed, Marks
  <2>3. s.slot \in Nat
    BY <2>1, <2>2
  <2> QED BY <2>1, <2>2, <2>3
<1>2. s = At(s.blk, s.slot) /\ DataRid(f, s) = RecordAt(f, <<s.blk, s.slot>>).val
  BY <1>1 DEF Marks, At, DataRid, RecordAt
<1>3. h \notin Chained(f) /\ f[h].n \in Nat /\ \A a \in DOMAIN f : f[a].n \in Nat
  BY DEF Home, Heads, Chains
<1>4. CASE s.blk = h
  <2>1. s.slot < f[h].n
    BY <1>1, <1>3, <1>4
  <2> QED BY <1>1, <1>2, <1>4, <2>1 DEF Held, RecordAt
<1>5. CASE s.blk # h
  <2>1. s.blk \in Overflows(f) /\ s.slot < f[s.blk].n
    BY <1>1, <1>5 DEF Overflows
  <2>2. s.slot \in 0..(f[s.blk].n - 1)
    BY <1>1, <1>3, <2>1
  <2>3. f[s.blk].slot[s.slot].key = f[s.blk].slot[0].key
    BY <2>1, <2>2 DEF Home, Chains
  <2> QED BY <1>1, <1>2, <1>5, <2>1, <2>3 DEF Held, RecordAt
<1> QED BY <1>4, <1>5

(* The records of the file are the entries, each once.                     *)
Holds(f, E) ==
  /\ \A x \in Held(f) : <<RecordAt(f, x).key, RecordAt(f, x).val>> \in E
  /\ \A e \in E : \E x \in Held(f) : RecordAt(f, x).key = e[1] /\ RecordAt(f, x).val = e[2]
  /\ \A x, y \in Held(f) : RecordAt(f, x).val = RecordAt(f, y).val => x = y

(* The RID that an empty overflow block still shows in its first slot is   *)
(* not used again, or by a record that a lookup finds before it.           *)
Hollow(f) ==
  \A c \in Overflows(f) : f[c].n = 0 =>
    \A x \in Held(f) : RecordAt(f, x).val = f[c].slot[0].val => x[1] \in Heads(f) \/ x[1] > c

(* The RIDs of a key that the cursors of a lookup return.                  *)
Returns(f, E, k, u) ==
  /\ \A r : <<k, r>> \in E => \E i \in DOMAIN u : DataRid(f, u[i]) = r
  /\ (\A i \in DOMAIN u : f[u[i].blk].n # 0) =>
       /\ \A i, j \in DOMAIN u : DataRid(f, u[i]) = DataRid(f, u[j]) => i = j
       /\ \A i \in DOMAIN u : <<k, DataRid(f, u[i])>> \in E

LEMMA StopsReturn ==
  ASSUME NEW f, NEW h, NEW k, Home(f, h, k), NEW E, Holds(f, E), NEW u, Stops(f, h, k, u)
  PROVE  Returns(f, E, k, u)
<1>1. /\ \A i \in DOMAIN u : u[i] \in Spots(f, h, k) /\ i \in Nat
      /\ \A i, j \in DOMAIN u : i < j => Rank(f, h, u[j]) < Rank(f, h, u[i])
      /\ \A x \in Held(f) : RecordAt(f, x).key = k => \E i \in DOMAIN u : u[i] = At(x[1], x[2])
  <2>1. u \in Seq(Spots(f, h, k))
    BY DEF Stops
  <2> QED BY <2>1 DEF Stops
<1>2. ASSUME NEW r, <<k, r>> \in E PROVE \E i \in DOMAIN u : DataRid(f, u[i]) = r
  <2>1. PICK x \in Held(f) : RecordAt(f, x).key = k /\ RecordAt(f, x).val = r
    BY <1>2 DEF Holds
  <2>2. PICK i \in DOMAIN u : u[i] = At(x[1], x[2])
    BY <1>1, <2>1
  <2>3. DataRid(f, u[i]) = r
    BY <2>1, <2>2 DEF DataRid, RecordAt, At
  <2> QED BY <2>3
<1>3. ASSUME \A i \in DOMAIN u : f[u[i].blk].n # 0
      PROVE  /\ \A i, j \in DOMAIN u : DataRid(f, u[i]) = DataRid(f, u[j]) => i = j
             /\ \A i \in DOMAIN u : <<k, DataRid(f, u[i])>> \in E
  <2>1. \A i \in DOMAIN u : /\ <<u[i].blk, u[i].slot>> \in Held(f)
                            /\ RecordAt(f, <<u[i].blk, u[i].slot>>).key = k
                            /\ u[i] = At(u[i].blk, u[i].slot)
                            /\ DataRid(f, u[i]) = RecordAt(f, <<u[i].blk, u[i].slot>>).val
    BY <1>1, <1>3, SpotHeld
  <2>2. \A i \in DOMAIN u : <<k, DataRid(f, u[i])>> \in E
    BY <2>1 DEF Holds
  <2>3. ASSUME NEW i \in DOMAIN u, NEW j \in DOMAIN u, DataRid(f, u[i]) = DataRid(f, u[j]) PROVE i = j
    <3>1. <<u[i].blk, u[i].slot>> = <<u[j].blk, u[j].slot>>
      <4>1. PICK x, y \in Held(f) : x = <<u[i].blk, u[i].slot>> /\ y = <<u[j].blk, u[j].slot>>
        BY <2>1
      <4>2. RecordAt(f, x).val = RecordAt(f, y).val
        BY <2>1, <2>3, <4>1
      <4> QED BY <4>1, <4>2 DEF Holds
    <3>2. u[i] = u[j]
      BY <2>1, <3>1
    <3>3. Rank(f, h, u[i]) \in Int
      BY <1>1, RankIs DEF Spots
    <3>4. ~(i < j) /\ ~(j < i)
      BY <1>1, <3>2, <3>3
    <3> QED BY <1>1, <3>4
  <2> QED BY <2>2, <2>3
<1> QED BY <1>2, <1>3 DEF Returns

(* The first cursor with the RID of an entry is on the entry's record.     *)
LEMMA FirstIs ==
  ASSUME NEW f, NEW h, NEW k, Home(f, h, k), NEW E, Holds(f, E), Hollow(f), NEW u, Stops(f, h, k, u),
         NEW r, <<k, r>> \in E, NEW first \in DOMAIN u, DataRid(f, u[first]) = r,
         \A j \in DOMAIN u : DataRid(f, u[j]) = r => first <= j
  PROVE  /\ <<u[first].blk, u[first].slot>> \in Held(f)
         /\ RecordAt(f, <<u[first].blk, u[first].slot>>).key = k
         /\ RecordAt(f, <<u[first].blk, u[first].slot>>).val = r
<1>1. /\ \A i \in DOMAIN u : u[i] \in Spots(f, h, k) /\ i \in Nat
      /\ \A i, j \in DOMAIN u : i < j => Rank(f, h, u[j]) < Rank(f, h, u[i])
      /\ \A x \in Held(f) : RecordAt(f, x).key = k => \E i \in DOMAIN u : u[i] = At(x[1], x[2])
  <2>1. u \in Seq(Spots(f, h, k))
    BY DEF Stops
  <2> QED BY <2>1 DEF Stops
<1>2. PICK s \in Spots(f, h, k) : s = u[first]
  BY <1>1
<1>3. f[s.blk].n # 0 \/ s.blk = h
  <2> SUFFICES ASSUME f[s.blk].n = 0, s.blk # h PROVE FALSE
    OBVIOUS
  <2>0. /\ Size(f) \in Nat \ {0} /\ DOMAIN f = 0..(Size(f) - 1) /\ LeafFull \in Nat
        /\ \A a \in DOMAIN f : f[a].n < LeafFull /\ f[a].n \in Nat
        /\ h \in DOMAIN f /\ h \notin Chained(f)
    BY LeafHas, Fulls DEF Home, Chains, Heads
  <2>1. /\ s.blk \in Overflows(f) /\ s.slot = 0 /\ s.blk \in DOMAIN f /\ s.blk \in Nat
    BY <2>0 DEF Spots, Passed, Marks, Overflows
  <2>2. f[s.blk].slot[0].val = r
    BY <1>2, <2>1 DEF DataRid
  <2>3. PICK x \in Held(f) : RecordAt(f, x).key = k /\ RecordAt(f, x).val = r
    BY DEF Holds
  <2>4. PICK j \in DOMAIN u : u[j] = At(x[1], x[2])
    BY <1>1, <2>3
  <2>5. DataRid(f, u[j]) = r
    BY <2>3, <2>4 DEF DataRid, RecordAt, At
  <2>6. x[1] \in Heads(f) \/ x[1] > s.blk
    BY <2>1, <2>2, <2>3 DEF Hollow
  <2>7. first <= j /\ first \in Nat /\ j \in Nat
    BY <1>1, <2>5
  <2>8. PICK b, i : b = x[1] /\ i = x[2] /\ b \in DOMAIN f /\ b \in Nat /\ i \in Nat /\ i < f[b].n
    BY <2>0 DEF Held
  <2>9. u[j].blk = b /\ u[j].slot = i
    BY <2>4, <2>8 DEF At
  <2>10. i < LeafFull
    BY <2>0, <2>8
  <2>11. Rank(f, h, s) = s.blk * LeafFull - 0
    BY <2>1 DEF Rank
  <2>12. Rank(f, h, u[j]) > Rank(f, h, s)
    <3>1. CASE b = h
      <4>1. Rank(f, h, u[j]) = Size(f) * LeafFull - i
        BY <2>9, <3>1 DEF Rank
      <4>2. PICK m \in Nat : m = Size(f) /\ s.blk < m
        BY <2>0, <2>1
      <4>3. s.blk * LeafFull + LeafFull <= m * LeafFull /\ s.blk * LeafFull \in Nat /\ m * LeafFull \in Nat
        BY <2>0, <2>1, <4>2, TimesLess
      <4> QED BY <2>0, <2>8, <2>10, <2>11, <4>1, <4>2, <4>3
    <3>2. CASE b # h
      <4>1. Rank(f, h, u[j]) = b * LeafFull - i
        BY <2>9, <3>2 DEF Rank
      <4>2. b \notin Heads(f)
        <5>1. u[j] \in Spots(f, h, k)
          BY <1>1
        <5>2. b \in Chained(f)
          BY <2>9, <3>2, <5>1 DEF Spots, Passed
        <5> QED BY <5>2 DEF Heads
      <4>3. s.blk < b
        BY <2>1, <2>6, <2>8, <4>2
      <4>4. s.blk * LeafFull + LeafFull <= b * LeafFull /\ s.blk * LeafFull \in Nat /\ b * LeafFull \in Nat
        BY <2>0, <2>1, <2>8, <4>3, TimesLess
      <4> QED BY <2>0, <2>8, <2>10, <2>11, <4>1, <4>4
    <3> QED BY <3>1, <3>2
  <2>13. Rank(f, h, s) \in Int /\ Rank(f, h, u[j]) \in Int
    BY <1>1, RankIs DEF Spots
  <2>14. first # j /\ ~(first < j)
    BY <1>1, <1>2, <2>12, <2>13
  <2> QED BY <2>7, <2>14
<1>4. /\ <<s.blk, s.slot>> \in Held(f) /\ RecordAt(f, <<s.blk, s.slot>>).key = k
      /\ DataRid(f, s) = RecordAt(f, <<s.blk, s.slot>>).val
  BY <1>3, SpotHeld
<1> QED BY <1>2, <1>4

(* The leaf where a key is searched.                                       *)
LEMMA HomeIs ==
  ASSUME NEW rt, NEW d, NEW f, NEW f3, NEW own, Roomy(rt, d, f3, own), Fits(f, f3), Chains(f),
         NEW k \in Keys, Whole(f, k), ~Misled(d, k), Ends(d, k)
  PROVE  Home(f, Search(d, k), k)
<1>1. PICK n, b, j, c, S : Place(rt, d, f3, own, k, n, b, j, c, S)
  BY PlaceIs
<1>2. PICK t : t = <<b[n], j>>
  OBVIOUS
<1>3. /\ c = Search(d, k) /\ k \in S /\ S = PartOf(d, own, t) /\ t \in SlotsOf(rt, d) /\ ~Upper(d, t)
      /\ Child(d, t) = c /\ c \in Heads(f3) /\ LeafOK(f3[c], S) /\ k \in Int
  BY <1>1, <1>2, Fulls DEF Place
<1>4. LeavesOK(f) /\ Heads(f3) = Heads(f) /\ Tree(rt, d, f3, own)
      /\ \A a \in Heads(f) : f3[a] = f[a] \/ (f[a].n = 0 /\ CutOff(f, a))
  BY DEF Fits, Roomy
<1>5. f[c].n \in 0..(LeafFull - 1) /\ \A i, m \in 0..(f[c].n - 1) : i <= m => f[c].slot[i].key <= f[c].slot[m].key
  <2>1. CASE f3[c] = f[c]
    BY <1>3, <2>1 DEF LeafOK
  <2>2. CASE f[c].n = 0
    <3>1. 0 \in 0..(LeafFull - 1) /\ 0..(0 - 1) = {}
      BY Fulls
    <3> QED BY <2>2, <3>1
  <2> QED BY <1>3, <1>4, <2>1, <2>2
<1>6. ASSUME NEW a \in Heads(f), HasKey(f[a], k) PROVE a = c
  <2>1. f3[a] = f[a]
    <3> SUFFICES ASSUME f[a].n = 0, CutOff(f, a) PROVE FALSE
      BY <1>4
    <3>1. a \in DOMAIN f
      BY DEF Heads
    <3>2. f[a].slot[0].key # k
      BY <3>1 DEF Whole
    <3>3. 0..(0 - 1) = {}
      OBVIOUS
    <3> QED BY <1>6, <3>2, <3>3 DEF HasKey
  <2> QED BY <1>3, <1>4, <1>6, <2>1, HeadOnce
<1> QED BY <1>3, <1>4, <1>5, <1>6 DEF Home

-----------------------------------------------------------------------------
(* The records and the entries *)

(* Function m says where each record of file f2, but for those of A, was   *)
(* in file f; those of D have gone.                                        *)
Back(f, f2, m, A, D) ==
  /\ m \in [Held(f2) \ A -> Held(f) \ D]
  /\ \A x \in Held(f2) \ A : RecordAt(f, m[x]) = RecordAt(f2, x)
  /\ \A x, y \in Held(f2) \ A : m[x] = m[y] => x = y
  /\ \A z \in Held(f) \ D : \E x \in Held(f2) \ A : m[x] = z

LEMMA HoldsSame ==
  ASSUME NEW f, NEW E, Holds(f, E), NEW f2, NEW m, Back(f, f2, m, {}, {})
  PROVE  Holds(f2, E)
<1>1. /\ \A x \in Held(f2) : m[x] \in Held(f) /\ RecordAt(f, m[x]) = RecordAt(f2, x)
      /\ \A x, y \in Held(f2) : m[x] = m[y] => x = y
      /\ \A z \in Held(f) : \E x \in Held(f2) : m[x] = z
  <2>1. \A S : S \ {} = S
    OBVIOUS
  <2> QED BY <2>1 DEF Back
<1>2. ASSUME NEW x \in Held(f2) PROVE <<RecordAt(f2, x).key, RecordAt(f2, x).val>> \in E
  <2>1. PICK u \in Held(f) : u = m[x] /\ RecordAt(f, u) = RecordAt(f2, x)
    BY <1>1
  <2> QED BY <2>1 DEF Holds
<1>3. ASSUME NEW e \in E PROVE \E x \in Held(f2) : RecordAt(f2, x).key = e[1] /\ RecordAt(f2, x).val = e[2]
  <2>1. PICK z \in Held(f) : RecordAt(f, z).key = e[1] /\ RecordAt(f, z).val = e[2]
    BY DEF Holds
  <2>2. PICK x \in Held(f2) : m[x] = z
    BY <1>1
  <2> QED BY <1>1, <2>1, <2>2
<1>4. ASSUME NEW x \in Held(f2), NEW y \in Held(f2), RecordAt(f2, x).val = RecordAt(f2, y).val PROVE x = y
  <2>1. PICK u, v \in Held(f) : /\ u = m[x] /\ RecordAt(f, u) = RecordAt(f2, x)
                                /\ v = m[y] /\ RecordAt(f, v) = RecordAt(f2, y)
    BY <1>1
  <2>2. u = v
    BY <1>4, <2>1 DEF Holds
  <2> QED BY <1>1, <2>1, <2>2
<1> QED BY <1>2, <1>3, <1>4 DEF Holds

LEMMA HoldsAdded ==
  ASSUME NEW f, NEW E, Holds(f, E), NEW f2, NEW m, NEW z \in Held(f2), Back(f, f2, m, {z}, {}),
         NEW k, NEW r, RecordAt(f2, z).key = k, RecordAt(f2, z).val = r, \A e \in E : e[2] # r
  PROVE  Holds(f2, E \cup {<<k, r>>})
<1>1. /\ \A x \in Held(f2) \ {z} : m[x] \in Held(f) /\ RecordAt(f, m[x]) = RecordAt(f2, x)
      /\ \A x, y \in Held(f2) \ {z} : m[x] = m[y] => x = y
      /\ \A u \in Held(f) : \E x \in Held(f2) \ {z} : m[x] = u
  <2>1. \A S : S \ {} = S
    OBVIOUS
  <2> QED BY <2>1 DEF Back
<1>2. ASSUME NEW x \in Held(f2) \ {z}
      PROVE  <<RecordAt(f2, x).key, RecordAt(f2, x).val>> \in E /\ RecordAt(f2, x).val # r
  <2>1. PICK u \in Held(f) : u = m[x] /\ RecordAt(f, u) = RecordAt(f2, x)
    BY <1>1
  <2>2. PICK e \in E : e = <<RecordAt(f, u).key, RecordAt(f, u).val>>
    BY DEF Holds
  <2>3. e[2] = RecordAt(f, u).val
    BY <2>2
  <2> QED BY <2>1, <2>2, <2>3
<1>3. ASSUME NEW e \in E \cup {<<k, r>>}
      PROVE  \E x \in Held(f2) : RecordAt(f2, x).key = e[1] /\ RecordAt(f2, x).val = e[2]
  <2>1. CASE e = <<k, r>>
    BY <2>1
  <2>2. CASE e \in E
    <3>1. PICK u \in Held(f) : RecordAt(f, u).key = e[1] /\ RecordAt(f, u).val = e[2]
      BY <2>2 DEF Holds
    <3>2. PICK x \in Held(f2) \ {z} : m[x] = u
      BY <1>1
    <3> QED BY <1>1, <3>1, <3>2
  <2> QED BY <2>1, <2>2
<1>4. ASSUME NEW x \in Held(f2) \ {z}, NEW y \in Held(f2) \ {z}, RecordAt(f2, x).val = RecordAt(f2, y).val
      PROVE  x = y
  <2>1. PICK u, v \in Held(f) : /\ u = m[x] /\ RecordAt(f, u) = RecordAt(f2, x)
                                /\ v = m[y] /\ RecordAt(f, v) = RecordAt(f2, y)
    BY <1>1
  <2>2. u = v
    BY <1>4, <2>1 DEF Holds
  <2> QED BY <1>1, <2>1, <2>2
<1>5. \A x \in Held(f2) : <<RecordAt(f2, x).key, RecordAt(f2, x).val>> \in E \cup {<<k, r>>}
  BY <1>2
<1>6. \A x, y \in Held(f2) : RecordAt(f2, x).val = RecordAt(f2, y).val => x = y
  BY <1>2, <1>4
<1> QED BY <1>3, <1>5, <1>6 DEF Holds

LEMMA HoldsDropped ==
  ASSUME NEW f, NEW E, Holds(f, E), NEW f2, NEW m, NEW z \in Held(f), Back(f, f2, m, {}, {z}),
         NEW k, NEW r, RecordAt(f, z).key = k, RecordAt(f, z).val = r, \A e \in E : e = <<e[1], e[2]>>
  PROVE  Holds(f2, E \ {<<k, r>>}) /\ \A x \in Held(f2) : RecordAt(f2, x).val # r
<1>1. /\ \A x \in Held(f2) : m[x] \in Held(f) /\ m[x] # z /\ RecordAt(f, m[x]) = RecordAt(f2, x)
      /\ \A x, y \in Held(f2) : m[x] = m[y] => x = y
      /\ \A u \in Held(f) \ {z} : \E x \in Held(f2) : m[x] = u
  <2>1. \A S : S \ {} = S
    OBVIOUS
  <2> QED BY <2>1 DEF Back
<1>2. ASSUME NEW x \in Held(f2)
      PROVE  <<RecordAt(f2, x).key, RecordAt(f2, x).val>> \in E /\ RecordAt(f2, x).val # r
  <2>1. PICK u \in Held(f) : u = m[x] /\ RecordAt(f, u) = RecordAt(f2, x) /\ u # z
    BY <1>1
  <2> QED BY <2>1 DEF Holds
<1>3. ASSUME NEW e \in E \ {<<k, r>>}
      PROVE  \E x \in Held(f2) : RecordAt(f2, x).key = e[1] /\ RecordAt(f2, x).val = e[2]
  <2>1. PICK u \in Held(f) : RecordAt(f, u).key = e[1] /\ RecordAt(f, u).val = e[2]
    BY DEF Holds
  <2>2. u # z
    <3>1. e = <<e[1], e[2]>>
      OBVIOUS
    <3> QED BY <2>1, <3>1
  <2>3. PICK x \in Held(f2) : m[x] = u
    BY <1>1, <2>2
  <2> QED BY <1>1, <2>1, <2>3
<1>4. ASSUME NEW x \in Held(f2), NEW y \in Held(f2), RecordAt(f2, x).val = RecordAt(f2, y).val PROVE x = y
  <2>1. PICK u, v \in Held(f) : /\ u = m[x] /\ RecordAt(f, u) = RecordAt(f2, x)
                                /\ v = m[y] /\ RecordAt(f, v) = RecordAt(f2, y)
    BY <1>1
  <2>2. u = v
    BY <1>4, <2>1 DEF Holds
  <2> QED BY <1>1, <2>1, <2>2
<1>5. \A x \in Held(f2) : <<RecordAt(f2, x).key, RecordAt(f2, x).val>> \in E \ {<<k, r>>}
  <2> SUFFICES ASSUME NEW x \in Held(f2)
               PROVE  <<RecordAt(f2, x).key, RecordAt(f2, x).val>> # <<k, r>>
    BY <1>2
  <2>1. RecordAt(f2, x).val # r
    BY <1>2
  <2> QED BY <2>1
<1> QED BY <1>2, <1>3, <1>4, <1>5 DEF Holds

(* File g has page q in block c.                                           *)
Changed(f, c, q, g) == DOMAIN g = DOMAIN f /\ g[c] = q /\ \A a \in DOMAIN f \ {c} : g[a] = f[a]

LEMMA ChangedIs == ASSUME NEW f, NEW c, NEW q, NEW g, g = [f EXCEPT ![c] = q], c \in DOMAIN f PROVE Changed(f, c, q, g)
  BY DEF Changed

(* Record e is put into slot s of block c.                                 *)
PutIn(f, c, s, e, q, g) ==
  /\ c \in DOMAIN f /\ f[c].n \in Nat /\ s \in Nat /\ s <= f[c].n
  /\ Placed(LeafFull, f[c], s, e, q) /\ Changed(f, c, q, g)

LEMMA BackAdd ==
  ASSUME NEW f, NEW c, NEW s, NEW e, NEW q, NEW g, PutIn(f, c, s, e, q, g), NEW z, z = <<c, s>>
  PROVE  z \in Held(g) /\ RecordAt(g, z) = e /\ \E m : Back(f, g, m, {z}, {})
<1>1. PICK p : p = f[c]
  OBVIOUS
<1>2. /\ DOMAIN g = DOMAIN f /\ g[c] = q /\ \A a \in DOMAIN f \ {c} : g[a] = f[a]
      /\ c \in DOMAIN f /\ p.n \in Nat /\ s \in Nat /\ s <= p.n /\ Placed(LeafFull, p, s, e, q)
  BY <1>1 DEF Changed, PutIn
<1> DEFINE to(x) == IF x[1] = c /\ x[2] > s THEN <<c, x[2] - 1>> ELSE x
           fro(x) == IF x[1] = c /\ x[2] >= s THEN <<c, x[2] + 1>> ELSE x
<1>3. /\ q.n = p.n + 1 /\ q.slot[s] = e
      /\ \A i \in 0..(s - 1) : q.slot[i] = p.slot[i]
      /\ \A i \in (s + 1)..p.n : q.slot[i] = p.slot[i - 1]
  BY <1>2 DEF Placed
<1>4. z \in Held(g) /\ RecordAt(g, z) = e
  <2>1. z \in (DOMAIN g) \X Nat /\ z[1] = c /\ z[2] = s /\ s < q.n
    BY <1>2, <1>3
  <2> QED BY <1>2, <1>3, <2>1 DEF Held, RecordAt
<1>5. ASSUME NEW x \in Held(g) \ {z}
      PROVE  to(x) \in Held(f) /\ RecordAt(f, to(x)) = RecordAt(g, x) /\ fro(to(x)) = x
  <2>1. PICK a \in DOMAIN f, i \in Nat : x = <<a, i>> /\ i < g[a].n /\ (a = c => i # s)
    BY <1>2 DEF Held
  <2>2. RecordAt(g, x) = g[a].slot[i] /\ x[1] = a /\ x[2] = i
    BY <2>1 DEF RecordAt
  <2>3. CASE a # c \/ i < s
    <3>1. to(x) = x /\ fro(x) = x
      BY <1>2, <2>1, <2>2, <2>3
    <3>2. i < f[a].n /\ g[a].slot[i] = f[a].slot[i]
      BY <1>2, <1>3, <1>1, <2>1, <2>3
    <3>3. x \in Held(f) /\ RecordAt(f, x) = RecordAt(g, x)
      BY <2>1, <2>2, <3>2 DEF Held, RecordAt
    <3> HIDE DEF to, fro
    <3> QED BY <3>1, <3>3
  <2>4. CASE a = c /\ i > s
    <3>1. to(x) = <<c, i - 1>> /\ i - 1 \in Nat /\ i - 1 >= s /\ (i - 1) + 1 = i
      BY <1>2, <2>1, <2>2, <2>4
    <3>2. fro(<<c, i - 1>>) = x
      BY <2>1, <2>4, <3>1
    <3>3. i - 1 < p.n /\ q.slot[i] = p.slot[i - 1]
      BY <1>2, <1>3, <1>1, <2>1, <2>4
    <3>4. <<c, i - 1>> \in Held(f) /\ RecordAt(f, <<c, i - 1>>) = RecordAt(g, x)
      BY <1>2, <1>1, <2>2, <2>4, <3>1, <3>3 DEF Held, RecordAt
    <3> HIDE DEF to, fro
    <3> QED BY <3>1, <3>2, <3>4
  <2> QED BY <1>2, <2>1, <2>3, <2>4
<1>6. ASSUME NEW x \in Held(f) PROVE fro(x) \in Held(g) \ {z} /\ to(fro(x)) = x
  <2>1. PICK a \in DOMAIN f, i \in Nat : x = <<a, i>> /\ i < f[a].n
    BY <1>2 DEF Held
  <2>2. CASE a # c \/ i < s
    <3>1. fro(x) = x /\ to(x) = x
      BY <1>2, <2>1, <2>2
    <3>2. i < g[a].n /\ x # z
      BY <1>2, <1>3, <1>1, <2>1, <2>2
    <3>3. x \in Held(g) \ {z}
      BY <1>2, <2>1, <3>2 DEF Held
    <3> HIDE DEF to, fro
    <3> QED BY <3>1, <3>3
  <2>3. CASE a = c /\ i >= s
    <3>1. fro(x) = <<c, i + 1>> /\ to(<<c, i + 1>>) = x
      <4>1. (i + 1) - 1 = i /\ i + 1 > s
        BY <1>2, <2>3
      <4> QED BY <2>1, <2>3, <4>1
    <3>2. <<c, i + 1>> \in Held(g) \ {z}
      <4>1. i + 1 \in Nat /\ i + 1 < q.n /\ i + 1 # s
        BY <1>2, <1>3, <1>1, <2>1, <2>3
      <4> QED BY <1>2, <4>1 DEF Held
    <3> HIDE DEF to, fro
    <3> QED BY <3>1, <3>2
  <2> QED BY <1>2, <2>1, <2>2, <2>3
<1> HIDE DEF to, fro
<1>7. PICK m : m = [x \in Held(g) \ {z} |-> to(x)]
  OBVIOUS
<1>8. m \in [Held(g) \ {z} -> Held(f) \ {}] /\ \A x \in Held(g) \ {z} : m[x] = to(x)
  BY <1>5, <1>7
<1>9. Back(f, g, m, {z}, {})
  <2>1. \A x, y \in Held(g) \ {z} : m[x] = m[y] => x = y
    BY <1>5, <1>8
  <2>2. \A y \in Held(f) \ {} : \E x \in Held(g) \ {z} : m[x] = y
    BY <1>6, <1>8
  <2> QED BY <1>5, <1>8, <2>1, <2>2 DEF Back
<1> QED BY <1>4, <1>9

(* The records of block c from slot pos on go to a new block y.            *)
LEMMA BackCut ==
  ASSUME NEW f, NEW g, NEW c \in DOMAIN f, NEW q, q.n \in Nat, Changed(f, c, q, g),
         NEW pos, NEW y, NEW f2, Laid(f, c, q, pos, y, f2)
  PROVE  \E m : Back(g, f2, m, {}, {})
<1>0. /\ c \in DOMAIN g /\ y \notin DOMAIN g /\ DOMAIN f2 = DOMAIN g \cup {y} /\ g[c] = q
      /\ pos \in Nat /\ pos <= q.n /\ f2[c].n = pos /\ f2[y].n = q.n - pos
      /\ \A i \in 0..(pos - 1) : f2[c].slot[i] = q.slot[i]
      /\ \A i \in 0..(q.n - pos - 1) : f2[y].slot[i] = q.slot[pos + i]
      /\ \A a \in DOMAIN g \ {c} : f2[a] = g[a]
  BY DEF Changed, Laid
<1> DEFINE to(x) == IF x[1] = y THEN <<c, pos + x[2]>> ELSE x
           fro(x) == IF x[1] = c /\ x[2] >= pos THEN <<y, x[2] - pos>> ELSE x
<1>1. c # y
  BY <1>0
<1>2. ASSUME NEW x \in Held(f2)
      PROVE  to(x) \in Held(g) /\ RecordAt(g, to(x)) = RecordAt(f2, x) /\ fro(to(x)) = x
  <2>1. PICK a \in DOMAIN f2, i \in Nat : x = <<a, i>> /\ i < f2[a].n
    BY DEF Held
  <2>2. RecordAt(f2, x) = f2[a].slot[i] /\ x[1] = a /\ x[2] = i
    BY <1>0, <2>1 DEF RecordAt
  <2>3. CASE a # y
    <3>1. to(x) = x /\ fro(x) = x
      BY <1>0, <2>1, <2>2, <2>3
    <3>2. a \in DOMAIN g /\ i < g[a].n /\ f2[a].slot[i] = g[a].slot[i]
      BY <1>0, <2>1, <2>3
    <3>3. x \in Held(g) /\ RecordAt(g, x) = RecordAt(f2, x)
      BY <1>0, <2>1, <2>2, <3>2 DEF Held, RecordAt
    <3> HIDE DEF to, fro
    <3> QED BY <3>1, <3>3
  <2>4. CASE a = y
    <3>1. to(x) = <<c, pos + i>> /\ pos + i \in Nat /\ pos + i >= pos /\ (pos + i) - pos = i
      BY <1>0, <2>1, <2>2, <2>4
    <3>2. fro(<<c, pos + i>>) = x
      BY <1>0, <2>1, <2>4, <3>1
    <3>3. pos + i < q.n /\ f2[y].slot[i] = q.slot[pos + i]
      BY <1>0, <2>1, <2>4
    <3>4. <<c, pos + i>> \in Held(g) /\ RecordAt(g, <<c, pos + i>>) = RecordAt(f2, x)
      BY <1>0, <2>2, <2>4, <3>1, <3>3 DEF Held, RecordAt
    <3> HIDE DEF to, fro
    <3> QED BY <3>1, <3>2, <3>4
  <2> QED BY <1>0, <2>3, <2>4
<1>3. ASSUME NEW x \in Held(g) PROVE fro(x) \in Held(f2) /\ to(fro(x)) = x
  <2>1. PICK a \in DOMAIN g, i \in Nat : x = <<a, i>> /\ i < g[a].n
    BY DEF Held
  <2>2. CASE a # c \/ i < pos
    <3>1. fro(x) = x /\ to(x) = x
      BY <1>0, <2>1, <2>2
    <3>2. i < f2[a].n /\ a \in DOMAIN f2
      BY <1>0, <2>1, <2>2
    <3>3. x \in Held(f2)
      BY <1>0, <2>1, <3>2 DEF Held
    <3> HIDE DEF to, fro
    <3> QED BY <3>1, <3>3
  <2>3. CASE a = c /\ i >= pos
    <3>1. fro(x) = <<y, i - pos>> /\ to(<<y, i - pos>>) = x /\ i - pos \in Nat
      <4>1. pos + (i - pos) = i /\ i - pos \in Nat
        BY <1>0, <2>3
      <4> QED BY <2>1, <2>3, <4>1
    <3>2. <<y, i - pos>> \in Held(f2)
      <4>1. i - pos < q.n - pos
        BY <1>0, <2>1, <2>3
      <4> QED BY <1>0, <3>1, <4>1 DEF Held
    <3> HIDE DEF to, fro
    <3> QED BY <3>1, <3>2
  <2> QED BY <1>0, <2>1, <2>2, <2>3
<1> HIDE DEF to, fro
<1>4. PICK m : m = [x \in Held(f2) \ {} |-> to(x)]
  OBVIOUS
<1>5. m \in [Held(f2) \ {} -> Held(g) \ {}] /\ \A x \in Held(f2) \ {} : m[x] = to(x)
  BY <1>2, <1>4
<1>6. Back(g, f2, m, {}, {})
  <2>1. \A x, z \in Held(f2) \ {} : m[x] = m[z] => x = z
    BY <1>2, <1>5
  <2>2. \A z \in Held(g) \ {} : \E x \in Held(f2) \ {} : m[x] = z
    BY <1>3, <1>5
  <2> QED BY <1>2, <1>5, <2>1, <2>2 DEF Back
<1> QED BY <1>6

(* Slot s of block b is taken out.                                         *)
TakenOut(f, b, s, q, f2) ==
  /\ b \in DOMAIN f /\ f[b].n \in Nat /\ s \in Nat /\ s < f[b].n /\ q.n = f[b].n - 1
  /\ \A i \in 0..(f[b].n - 1) :
       q.slot[i] = IF i >= s /\ i < f[b].n - 1 THEN f[b].slot[i + 1] ELSE f[b].slot[i]
  /\ Changed(f, b, q, f2)

LEMMA BackDrop ==
  ASSUME NEW f, NEW b, NEW s, NEW q, NEW f2, TakenOut(f, b, s, q, f2), NEW z, z = <<b, s>>
  PROVE  \E m : Back(f, f2, m, {}, {z}) /\ \A x \in Held(f2) : m[x][1] = x[1]
<1>1. PICK p : p = f[b]
  OBVIOUS
<1>2. /\ DOMAIN f2 = DOMAIN f /\ f2[b] = q /\ \A a \in DOMAIN f \ {b} : f2[a] = f[a]
      /\ b \in DOMAIN f /\ p.n \in Nat /\ s \in Nat /\ s < p.n /\ q.n = p.n - 1 /\ p = f[b]
      /\ \A i \in 0..(p.n - 1) : q.slot[i] = IF i >= s /\ i < p.n - 1 THEN p.slot[i + 1] ELSE p.slot[i]
  BY <1>1 DEF Changed, TakenOut
<1> DEFINE to(x) == IF x[1] = b /\ x[2] >= s THEN <<b, x[2] + 1>> ELSE x
           fro(x) == IF x[1] = b /\ x[2] > s THEN <<b, x[2] - 1>> ELSE x
<1>3. ASSUME NEW x \in Held(f2)
      PROVE  /\ to(x) \in Held(f) \ {z} /\ RecordAt(f, to(x)) = RecordAt(f2, x) /\ fro(to(x)) = x
             /\ to(x)[1] = x[1]
  <2>1. PICK a \in DOMAIN f, i \in Nat : x = <<a, i>> /\ i < f2[a].n
    BY <1>2 DEF Held
  <2>2. RecordAt(f2, x) = f2[a].slot[i] /\ x[1] = a /\ x[2] = i
    BY <1>2, <2>1 DEF RecordAt
  <2>3. CASE a # b \/ i < s
    <3>1. to(x) = x /\ fro(x) = x /\ x # z
      BY <1>2, <2>1, <2>2, <2>3
    <3>2. i < f[a].n /\ f2[a].slot[i] = f[a].slot[i]
      BY <1>2, <2>1, <2>3
    <3>3. x \in Held(f) /\ RecordAt(f, x) = RecordAt(f2, x)
      BY <1>2, <2>1, <2>2, <3>2 DEF Held, RecordAt
    <3> HIDE DEF to, fro
    <3> QED BY <3>1, <3>3
  <2>4. CASE a = b /\ i >= s
    <3>1. to(x) = <<b, i + 1>> /\ i + 1 \in Nat /\ i + 1 > s /\ (i + 1) - 1 = i
      BY <1>2, <2>1, <2>2, <2>4
    <3>2. fro(<<b, i + 1>>) = x /\ <<b, i + 1>> # z /\ <<b, i + 1>>[1] = x[1]
      BY <1>2, <2>1, <2>4, <3>1
    <3>3. i + 1 < p.n /\ q.slot[i] = p.slot[i + 1]
      BY <1>2, <2>1, <2>4
    <3>4. <<b, i + 1>> \in Held(f) /\ RecordAt(f, <<b, i + 1>>) = RecordAt(f2, x)
      BY <1>2, <2>2, <2>4, <3>1, <3>3 DEF Held, RecordAt
    <3> HIDE DEF to, fro
    <3> QED BY <3>1, <3>2, <3>4
  <2> QED BY <1>2, <2>1, <2>3, <2>4
<1>4. ASSUME NEW x \in Held(f) \ {z} PROVE fro(x) \in Held(f2) /\ to(fro(x)) = x
  <2>1. PICK a \in DOMAIN f, i \in Nat : x = <<a, i>> /\ i < f[a].n /\ (a = b => i # s)
    BY <1>2 DEF Held
  <2>2. CASE a # b \/ i < s
    <3>1. fro(x) = x /\ to(x) = x
      BY <1>2, <2>1, <2>2
    <3>2. i < f2[a].n
      BY <1>2, <2>1, <2>2
    <3>3. x \in Held(f2)
      BY <1>2, <2>1, <3>2 DEF Held
    <3> HIDE DEF to, fro
    <3> QED BY <3>1, <3>3
  <2>3. CASE a = b /\ i > s
    <3>1. fro(x) = <<b, i - 1>> /\ to(<<b, i - 1>>) = x /\ i - 1 \in Nat
      <4>1. (i - 1) + 1 = i /\ i - 1 >= s /\ i - 1 \in Nat
        BY <1>2, <2>3
      <4> QED BY <1>2, <2>1, <2>3, <4>1
    <3>2. <<b, i - 1>> \in Held(f2)
      <4>1. i - 1 < p.n - 1
        BY <1>2, <2>1, <2>3
      <4> QED BY <1>2, <3>1, <4>1 DEF Held
    <3> HIDE DEF to, fro
    <3> QED BY <3>1, <3>2
  <2> QED BY <1>2, <2>1, <2>2, <2>3
<1> HIDE DEF to, fro
<1>5. PICK m : m = [x \in Held(f2) \ {} |-> to(x)]
  OBVIOUS
<1>6. m \in [Held(f2) \ {} -> Held(f) \ {z}] /\ \A x \in Held(f2) \ {} : m[x] = to(x)
  BY <1>3, <1>5
<1>7. Back(f, f2, m, {}, {z})
  <2>1. \A x, y \in Held(f2) \ {} : m[x] = m[y] => x = y
    BY <1>3, <1>6
  <2>2. \A y \in Held(f) \ {z} : \E x \in Held(f2) \ {} : m[x] = y
    BY <1>4, <1>6
  <2> QED BY <1>3, <1>6, <2>1, <2>2 DEF Back
<1>8. \A x \in Held(f2) : m[x][1] = x[1]
  BY <1>3, <1>6
<1> QED BY <1>7, <1>8

(* The record that an insertion writes comes to the others.                *)
LEMMA WrittenHolds ==
  ASSUME NEW f, NEW c, NEW k, NEW r, NEW f2, Recorded(f, c, k, r, f2), NEW E, Holds(f, E),
         \A e \in E : e[2] # r
  PROVE  Holds(f2, E \cup {<<k, r>>})
<1>0. PICK e : e = [key |-> k, val |-> r]
  OBVIOUS
<1>1. c \in DOMAIN f /\ f[c] \in Pages(LeafFull) /\ f[c].n \in Int
  <2>1. c \in DOMAIN f /\ f[c] \in Pages(LeafFull)
    BY LeafHas DEF Recorded, Heads
  <2> QED BY <2>1 DEF Pages
<1>2. PICK s \in Int, q \in Pages(LeafFull) :
        /\ s \in 0..f[c].n /\ Placed(LeafFull, f[c], s, e, q)
        /\ \/ f2 = [f EXCEPT ![c] = q] /\ q.n < LeafFull
           \/ \E pos \in Int : Laid(f, c, q, pos, Size(f), f2)
  BY <1>0 DEF Recorded, Written
<1>3. f[c].n \in Nat /\ s \in Nat /\ s <= f[c].n /\ q.n = f[c].n + 1 /\ q.n \in Nat
  BY <1>1, <1>2 DEF Placed
<1>4. PICK g : g = [f EXCEPT ![c] = q]
  OBVIOUS
<1>5. Changed(f, c, q, g)
  BY <1>1, <1>4, ChangedIs
<1>6. PICK z : z = <<c, s>>
  OBVIOUS
<1>7. z \in Held(g) /\ RecordAt(g, z) = e /\ \E m : Back(f, g, m, {z}, {})
  <2>1. PutIn(f, c, s, e, q, g)
    BY <1>0, <1>1, <1>2, <1>3, <1>5 DEF PutIn
  <2> QED BY <1>6, <2>1, BackAdd
<1>8. Holds(g, E \cup {<<k, r>>})
  <2>1. RecordAt(g, z).key = k /\ RecordAt(g, z).val = r
    BY <1>0, <1>7
  <2> QED BY <1>7, <2>1, HoldsAdded
<1>9. CASE f2 = g
  BY <1>8, <1>9
<1>10. CASE f2 # g
  <2>1. PICK pos, y : Laid(f, c, q, pos, y, f2)
    BY <1>2, <1>4, <1>10
  <2>2. \E m : Back(g, f2, m, {}, {})
    BY <1>1, <1>3, <1>5, <2>1, BackCut
  <2> QED BY <1>8, <2>2, HoldsSame
<1> QED BY <1>9, <1>10

(* An insertion adds to a chain in front, with a page of the same key.     *)
LEMMA WrittenChains ==
  ASSUME NEW f, NEW c, NEW k, NEW r, NEW f2, Recorded(f, c, k, r, f2), Chains(f), Hollow(f)
  PROVE  Chains(f2) /\ Hollow(f2)
<1>1. /\ c \in DOMAIN f /\ f[c].n \in Nat /\ LeavesOK(f) /\ c \in Heads(f) /\ Heads(f) \subseteq Heads(f2)
      /\ DOMAIN f = 0..(Size(f) - 1) /\ Size(f) \in Nat \ {0}
      /\ f[c].flag \in -1..(Size(f) - 1)
  BY LeafHas DEF Recorded, Heads, Chains
<1>2. PICK s \in Int, q \in Pages(LeafFull) :
        /\ Placed(LeafFull, f[c], s, [key |-> k, val |-> r], q)
        /\ \/ f2 = [f EXCEPT ![c] = q] /\ q.n < LeafFull
           \/ \E pos \in Int : Laid(f, c, q, pos, Size(f), f2)
  BY DEF Recorded, Written
<1>3. PICK y \in Nat : y = Size(f)
  BY <1>1
<1>4. q.n \in Nat
  BY <1>1, <1>2 DEF Placed
<1>5. /\ DOMAIN f \subseteq DOMAIN f2 /\ \A a \in DOMAIN f \ {c} : f2[a] = f[a]
      /\ f2[c].n \in Nat
      /\ \A a \in DOMAIN f2 \ DOMAIN f : a = y /\ \E pos \in 1..q.n : Laid(f, c, q, pos, y, f2)
  <2>1. CASE f2 = [f EXCEPT ![c] = q]
    <3>1. DOMAIN f2 = DOMAIN f /\ f2[c] = q /\ \A a \in DOMAIN f \ {c} : f2[a] = f[a]
      BY <1>1, <2>1
    <3> QED BY <1>4, <3>1
  <2>2. CASE \E pos \in Int : Laid(f, c, q, pos, Size(f), f2)
    <3>1. PICK pos \in Int : Laid(f, c, q, pos, y, f2)
      BY <1>3, <2>2
    <3>2. pos \in 1..q.n
      BY <3>1 DEF Laid
    <3>3. /\ DOMAIN f2 = DOMAIN f \cup {y} /\ \A a \in DOMAIN f \ {c} : f2[a] = f[a]
          /\ f2[c].n = pos /\ pos \in Nat
      BY <3>1, <3>2 DEF Laid
    <3> QED BY <3>1, <3>2, <3>3
  <2> QED BY <1>2, <2>1, <2>2
<1>6. ASSUME NEW a \in Overflows(f2), a # y
      PROVE  a \in Overflows(f) /\ a # c /\ a \in DOMAIN f /\ f2[a] = f[a]
  <2>1. a \in DOMAIN f2 /\ a \notin Heads(f2)
    BY DEF Overflows, Heads
  <2>2. a \in DOMAIN f /\ a \notin Heads(f) /\ a # c
    BY <1>1, <1>5, <1>6, <2>1
  <2> QED BY <1>5, <2>2 DEF Heads, Overflows
<1>7. ASSUME y \in Overflows(f2)
      PROVE  \E pos \in 1..q.n : Laid(f, c, q, pos, y, f2) /\ pos < q.n /\ f2[y].flag = f[c].flag
                                 /\ \A i \in 0..(q.n - 1) : q.slot[i].key = q.slot[0].key
  <2>1. y \in DOMAIN f2 /\ y \in Chained(f2) /\ y \notin DOMAIN f
    BY <1>1, <1>3, <1>7 DEF Overflows
  <2>2. PICK pos \in 1..q.n : Laid(f, c, q, pos, y, f2)
    BY <1>5, <2>1
  <2> QED BY <2>1, <2>2 DEF Laid
<1>8. Chains(f2)
  <2>1. ASSUME NEW a \in DOMAIN f2 PROVE f2[a].n \in Nat
    <3>1. CASE a \in DOMAIN f \ {c}
      BY <1>5, <3>1 DEF Chains
    <3>2. CASE a = c
      BY <1>5, <3>2
    <3>3. CASE a \notin DOMAIN f
      <4>1. PICK pos \in 1..q.n : Laid(f, c, q, pos, y, f2) /\ a = y
        BY <1>5, <3>3
      <4>2. f2[a].n = q.n - pos
        BY <4>1 DEF Laid
      <4> QED BY <1>4, <4>2
    <3> QED BY <3>1, <3>2, <3>3
  <2>2. 0 \notin Chained(f2)
    <3>1. 0 \in Heads(f)
      BY <1>1 DEF Heads, Chains
    <3> QED BY <1>1, <3>1 DEF Heads
  <2>3. ASSUME NEW a \in Overflows(f2)
        PROVE  f2[a].flag < a /\ \A i \in 0..(f2[a].n - 1) : f2[a].slot[i].key = f2[a].slot[0].key
    <3>1. CASE a # y
      BY <1>6, <3>1 DEF Chains
    <3>2. CASE a = y
      <4>1. PICK pos \in 1..q.n :
              /\ Laid(f, c, q, pos, y, f2) /\ pos < q.n /\ f2[y].flag = f[c].flag
              /\ \A i \in 0..(q.n - 1) : q.slot[i].key = q.slot[0].key
        BY <1>7, <3>2
      <4>2. f2[y].n = q.n - pos /\ \A i \in 0..(q.n - pos - 1) : f2[y].slot[i] = q.slot[pos + i]
        BY <4>1 DEF Laid
      <4>3. ASSUME NEW i \in 0..(q.n - pos - 1) PROVE f2[y].slot[i].key = q.slot[0].key
        <5>1. pos + i \in 0..(q.n - 1)
          BY <1>4
        <5> QED BY <4>1, <4>2, <5>1
      <4>4. 0 \in 0..(q.n - pos - 1)
        BY <1>4, <4>1
      <4>5. f[c].flag < y
        BY <1>1, <1>3
      <4> QED BY <3>2, <4>1, <4>2, <4>3, <4>4, <4>5
    <3> QED BY <3>1, <3>2
  <2> QED BY <2>1, <2>2, <2>3 DEF Chains
<1>9. Hollow(f2)
  <2> SUFFICES ASSUME NEW b \in Overflows(f2), f2[b].n = 0,
                      NEW x \in Held(f2), RecordAt(f2, x).val = f2[b].slot[0].val,
                      x[1] \notin Heads(f2)
               PROVE  x[1] > b
    BY DEF Hollow
  <2>1. b # y
    <3> SUFFICES ASSUME b = y PROVE FALSE
      OBVIOUS
    <3>1. PICK pos \in 1..q.n : Laid(f, c, q, pos, y, f2) /\ pos < q.n
      BY <1>7
    <3>2. f2[y].n = q.n - pos
      BY <3>1 DEF Laid
    <3> QED BY <1>4, <3>1, <3>2
  <2>2. b \in Overflows(f) /\ b \in DOMAIN f /\ f2[b] = f[b]
    BY <1>6, <2>1
  <2>3. x[1] \in DOMAIN f2 /\ x \in (DOMAIN f2) \X Nat /\ x[2] < f2[x[1]].n
    BY DEF Held
  <2>4. x[1] \in Overflows(f2)
    BY <2>3 DEF Overflows, Heads
  <2>5. CASE x[1] = y
    BY <1>1, <1>3, <2>2, <2>5
  <2>6. CASE x[1] # y
    <3>1. x[1] \in Overflows(f) /\ x[1] \in DOMAIN f /\ f2[x[1]] = f[x[1]]
      BY <1>6, <2>4, <2>6
    <3>2. x \in Held(f)
      <4>1. x \in (DOMAIN f) \X Nat
        BY <2>3, <3>1
      <4> QED BY <2>3, <3>1, <4>1 DEF Held
    <3>3. RecordAt(f, x).val = f[b].slot[0].val
      BY <2>2, <3>1 DEF RecordAt
    <3>4. x[1] \notin Heads(f)
      BY <3>1 DEF Overflows, Heads
    <3> QED BY <2>2, <3>2, <3>3, <3>4 DEF Hollow
  <2> QED BY <2>5, <2>6
<1> QED BY <1>8, <1>9

(* A removal takes out the entry's record, and leaves the chains.          *)
LEMMA RemoveHolds ==
  ASSUME NEW f, NEW h, NEW k, Home(f, h, k), NEW E, Holds(f, E), Hollow(f), \A e \in E : e = <<e[1], e[2]>>,
         NEW r, <<k, r>> \in E, NEW f2, f2 = LeafRemove(f, h, k, r)
  PROVE  Holds(f2, E \ {<<k, r>>}) /\ Chains(f2) /\ Hollow(f2)
<1> DEFINE t == Cursors(f, h, k)
           same == {i \in DOMAIN t : DataRid(f, t[i]) = r}
           first == CHOOSE i \in same : \A j \in same : i <= j
<1>1. f2 = IF same = {} THEN f ELSE [f EXCEPT ![t[first].blk] = RemoveAt(@, t[first].slot)]
  BY DEF LeafRemove
<1>2. Stops(f, h, k, t)
  BY LookupIs
<1> HIDE DEF t
<1>3. DOMAIN t \subseteq Nat
  <2>1. t \in Seq(Spots(f, h, k))
    BY <1>2 DEF Stops
  <2> QED BY <2>1
<1>4. same # {} /\ same \in SUBSET Nat
  <2>1. Returns(f, E, k, t)
    BY <1>2, StopsReturn
  <2>2. \E i \in DOMAIN t : DataRid(f, t[i]) = r
    BY <2>1 DEF Returns
  <2> QED BY <1>3, <2>2
<1>5. first \in same /\ \A j \in same : first <= j
  <2>1. \E i \in same : \A j \in same : i <= j
    <3> HIDE DEF same
    <3> QED BY <1>4, LeastExists
  <2> HIDE DEF same
  <2> QED BY <2>1
<1>6. PICK i \in DOMAIN t : i = first /\ DataRid(f, t[i]) = r /\ \A j \in DOMAIN t : DataRid(f, t[j]) = r => i <= j
  <2> HIDE DEF first
  <2> QED BY <1>5
<1>7. PICK b, s : b = t[i].blk /\ s = t[i].slot
  OBVIOUS
<1>8. <<b, s>> \in Held(f) /\ RecordAt(f, <<b, s>>).key = k /\ RecordAt(f, <<b, s>>).val = r
  BY <1>2, <1>6, <1>7, FirstIs
<1>9. b \in DOMAIN f /\ s \in Nat /\ s < f[b].n
  BY <1>8 DEF Held
<1>10. PICK q : q = RemoveAt(f[b], s)
  OBVIOUS
<1>11. f2 = [f EXCEPT ![b] = q]
  <2> HIDE DEF first, same
  <2> QED BY <1>1, <1>4, <1>6, <1>7, <1>9, <1>10
<1>12. PICK p \in Pages(LeafFull) : p = f[b] /\ p.n < LeafFull /\ p.n \in Nat
  BY <1>9, LeafHas DEF Home, Chains
<1>13. /\ q.n = p.n - 1 /\ q.flag = p.flag
       /\ \A j \in 0..(p.n - 1) : q.slot[j] = IF j >= s /\ j < p.n - 1 THEN p.slot[j + 1] ELSE p.slot[j]
  <2>1. LeafFull \in Nat /\ p.n <= LeafFull
    BY <1>12, Fulls
  <2>2. /\ q.n = p.n - 1 /\ q.flag = p.flag
        /\ \A j \in Slots(LeafFull) : q.slot[j] = IF j >= s /\ j < p.n - 1 THEN p.slot[j + 1] ELSE p.slot[j]
    BY <1>9, <1>10, <1>12, <2>1, RemoveAtIs
  <2>3. \A j \in 0..(p.n - 1) : j \in Slots(LeafFull)
    BY <1>12, <2>1 DEF Slots
  <2> QED BY <2>2, <2>3
<1>14. Changed(f, b, q, f2)
  BY <1>9, <1>11, ChangedIs
<1>15. DOMAIN f2 = DOMAIN f /\ f2[b] = q /\ \A a \in DOMAIN f \ {b} : f2[a] = f[a]
  BY <1>14 DEF Changed
<1>16. PICK z : z = <<b, s>>
  OBVIOUS
<1>17. PICK m : Back(f, f2, m, {}, {z}) /\ \A x \in Held(f2) : m[x][1] = x[1]
  <2>1. TakenOut(f, b, s, q, f2)
    BY <1>9, <1>12, <1>13, <1>14 DEF TakenOut
  <2> QED BY <1>16, <2>1, BackDrop
<1>18. Holds(f2, E \ {<<k, r>>}) /\ \A x \in Held(f2) : RecordAt(f2, x).val # r
  BY <1>8, <1>16, <1>17, HoldsDropped
<1>19. Chained(f2) = Chained(f) /\ Overflows(f2) = Overflows(f) /\ Heads(f2) = Heads(f)
  <2>1. \A a \in DOMAIN f : f2[a].flag = f[a].flag
    BY <1>12, <1>13, <1>15
  <2> QED BY <1>15, <2>1 DEF Chained, Overflows, Heads
<1>20. Chains(f2)
  <2>1. Chains(f)
    BY DEF Home
  <2>2. \A a \in DOMAIN f2 : f2[a].n \in Nat
    <3>1. q.n \in Nat
      BY <1>9, <1>12, <1>13
    <3> QED BY <1>15, <2>1, <3>1 DEF Chains
  <2>3. ASSUME NEW a \in Overflows(f2)
        PROVE  f2[a].flag < a /\ \A j \in 0..(f2[a].n - 1) : f2[a].slot[j].key = f2[a].slot[0].key
    <3>1. /\ a \in Overflows(f) /\ a \in DOMAIN f /\ f[a].flag < a
          /\ \A j \in 0..(f[a].n - 1) : f[a].slot[j].key = f[a].slot[0].key
      BY <1>19, <2>1, <2>3 DEF Chains, Overflows
    <3>2. CASE a # b
      BY <1>15, <3>1, <3>2
    <3>3. CASE a = b
      <4>1. ASSUME NEW j \in 0..(q.n - 1) PROVE q.slot[j].key = p.slot[0].key
        <5>1. j \in 0..(p.n - 1) /\ (j < p.n - 1 => j + 1 \in 0..(p.n - 1))
          BY <1>12, <1>13
        <5> QED BY <1>12, <1>13, <3>1, <3>3, <5>1
      <4>2. ASSUME NEW j \in 0..(q.n - 1) PROVE q.slot[j].key = q.slot[0].key
        <5>1. 0 \in 0..(q.n - 1)
          BY <1>12, <1>13
        <5> QED BY <4>1, <5>1
      <4> QED BY <1>12, <1>13, <1>15, <3>1, <3>3, <4>2
    <3> QED BY <3>2, <3>3
  <2> QED BY <1>19, <2>1, <2>2, <2>3 DEF Chains
<1>21. Hollow(f2)
  <2> SUFFICES ASSUME NEW a \in Overflows(f2), f2[a].n = 0,
                      NEW x \in Held(f2), RecordAt(f2, x).val = f2[a].slot[0].val
               PROVE  x[1] \in Heads(f2) \/ x[1] > a
    BY DEF Hollow
  <2>1. a \in Overflows(f) /\ a \in DOMAIN f
    BY <1>19 DEF Overflows
  <2>2. CASE a # b
    <3>1. f2[a] = f[a]
      BY <1>15, <2>1, <2>2
    <3>2. PICK u \in Held(f) : u = m[x] /\ RecordAt(f, u) = RecordAt(f2, x) /\ u[1] = x[1]
      <4>1. x \in Held(f2) \ {}
        OBVIOUS
      <4> QED BY <1>17, <4>1 DEF Back
    <3> QED BY <1>19, <2>1, <3>1, <3>2 DEF Hollow
  <2>3. CASE a = b
    <3>1. p.n = 1 /\ s = 0 /\ 0 \in 0..(p.n - 1)
      BY <1>9, <1>12, <1>13, <1>15, <2>3
    <3>2. q.slot[0] = p.slot[0]
      BY <1>13, <3>1
    <3>3. p.slot[0].val = r
      BY <1>8, <1>12, <3>1 DEF RecordAt
    <3> QED BY <1>15, <1>18, <2>3, <3>2, <3>3
  <2> QED BY <2>2, <2>3
<1> QED BY <1>18, <1>20, <1>21

(* Leaves that are not cut off are those of the tree.                      *)
LEMMA FitsTree ==
  ASSUME NEW d, NEW f, NEW f3, Fits(f, f3), IsTree(d, f3), \A a \in DOMAIN f : ~CutOff(f, a)
  PROVE  IsTree(d, f)
<1>1. PICK rt \in BOOLEAN : \E own : Roomy(rt, d, f3, own)
  BY DEF IsTree
<1>2. PICK own : Roomy(rt, d, f3, own)
  BY <1>1
<1>3. LeavesOK(f) /\ Heads(f3) = Heads(f) /\ \A a \in Heads(f) : f3[a] = f[a]
  BY DEF Fits, Heads
<1>4. ASSUME NEW s \in SlotsOf(rt, d) PROVE KidOK(d, f, own, s)
  <2>1. KidOK(d, f3, own, s)
    BY <1>2 DEF Roomy, Tree
  <2> QED BY <1>3, <2>1 DEF KidOK
<1>5. Covered(rt, d, f, SlotsOf(rt, d))
  <2>1. Covered(rt, d, f3, SlotsOf(rt, d))
    BY <1>2 DEF Roomy, Tree
  <2>2. 0 \in Heads(f) /\ Lost(rt, d, f3) => Lost(rt, d, f)
    BY <1>3 DEF Lost
  <2> QED BY <1>3, <2>1, <2>2 DEF Covered
<1>6. Tree(rt, d, f, own)
  BY <1>2, <1>3, <1>4, <1>5 DEF Roomy, Tree
<1>7. Roomy(rt, d, f, own)
  BY <1>2, <1>6 DEF Roomy
<1> QED BY <1>7 DEF IsTree

-----------------------------------------------------------------------------
(* The inductive invariant *)

(* The directory is a tree over the leaves, whose records are the entries. *)
Indexed(d, f, E) ==
  /\ \E f3 : Fits(f, f3) /\ IsTree(d, f3)
  /\ Chains(f) /\ Holds(f, E) /\ Hollow(f)

(* That is so until an operation is misled by a stale slot. The next       *)
(* operation needs more, that no leaf is cut off.                          *)
IndInv ==
  /\ CutOffKeys(leaf) \subseteq spoilt /\ entries \subseteq Keys \X Rids
  /\ ~astray => Indexed(dir, leaf, entries)

LEMMA FitsItself == ASSUME NEW d, NEW f, IsTree(d, f) PROVE Fits(f, f)
<1>1. PICK rt \in BOOLEAN : \E own : Roomy(rt, d, f, own)
  BY DEF IsTree
<1>2. LeavesOK(f)
  BY <1>1 DEF Roomy, Tree
<1> QED BY <1>2 DEF Fits

LEMMA InsertKeepsInv == ASSUME IndInv, NEW k \in Keys, NEW r \in Rids, Insert(k, r) PROVE IndInv'
<1>1. PICK low : low = LeafInsert(leaf, Search(dir, k), k, r)
  OBVIOUS
<1>2. PICK top : top = InsertBelow(dir, low.up)
  OBVIOUS
<1>3. /\ ~astray /\ spoilt = {} /\ Ends(dir, k) /\ (low.up # NoEntry => Ends(dir, low.up.key))
      /\ \A x \in 1..r : (x = r) <=> (\A e \in entries : e[2] # x)
      /\ leaf' = low.leaf
      /\ dir' = IF low.up = NoEntry THEN dir
                ELSE IF top.up = NoEntry THEN top.dir ELSE MakeNewRoot(top.dir, top.up)
      /\ entries' = entries \cup {<<k, r>>}
      /\ spoilt' = spoilt \cup CutOffKeys(leaf')
      /\ astray' = (Misled(dir, k) \/ (low.up # NoEntry /\ Misled(dir, low.up.key)))
  BY ONLY Insert(k, r), <1>1, <1>2 DEF Insert
<1>4. CutOffKeys(leaf') \subseteq spoilt' /\ entries' \subseteq Keys \X Rids
  BY <1>3 DEF IndInv
<1>5. ASSUME ~astray' PROVE Indexed(dir', leaf', entries')
  <2>1. CutOffKeys(leaf) = {} /\ Indexed(dir, leaf, entries)
    BY <1>3 DEF IndInv
  <2>2. \A a \in DOMAIN leaf : ~CutOff(leaf, a)
    BY <2>1, NoneCut
  <2>3. IsTree(dir, leaf)
    BY <2>1, <2>2, FitsTree DEF Indexed
  <2>4. ~Misled(dir, k) /\ (low.up # NoEntry => ~Misled(dir, low.up.key))
    BY <1>3, <1>5
  <2>5. PICK d2 : d2 = dir'
    OBVIOUS
  <2>6. d2 = IF low.up = NoEntry THEN dir ELSE Topped(InsertBelow(dir, low.up))
    BY <1>2, <1>3, <2>5 DEF Topped
  <2>7. /\ \E f3 : Fits(low.leaf, f3) /\ IsTree(d2, f3)
        /\ Recorded(leaf, Search(dir, k), k, r, low.leaf)
    BY <1>1, <1>3, <2>2, <2>3, <2>4, <2>6, InsertIsTree
  <2>8. \A e \in entries : e[2] # r
    <3>1. r \in 1..r
      BY RidsAssumption
    <3> QED BY <1>3, <3>1
  <2>9. Holds(low.leaf, entries \cup {<<k, r>>})
    BY <2>1, <2>7, <2>8, WrittenHolds DEF Indexed
  <2>10. Chains(low.leaf) /\ Hollow(low.leaf)
    BY <2>1, <2>7, WrittenChains DEF Indexed
  <2>11. Indexed(d2, low.leaf, entries \cup {<<k, r>>})
    BY <2>7, <2>9, <2>10 DEF Indexed
  <2> QED BY <1>3, <2>5, <2>11
<1> QED BY <1>4, <1>5 DEF IndInv

LEMMA RemoveKeepsInv == ASSUME IndInv, NEW k \in Keys, NEW r \in Rids, Remove(k, r) PROVE IndInv'
<1>1. PICK f2 : f2 = LeafRemove(leaf, Search(dir, k), k, r)
  OBVIOUS
<1>2. /\ ~astray /\ spoilt = {} /\ Ends(dir, k) /\ <<k, r>> \in entries /\ leaf' = f2 /\ dir' = dir
      /\ entries' = entries \ {<<k, r>>}
      /\ spoilt' = spoilt \cup CutOffKeys(leaf') /\ astray' = Misled(dir, k)
  BY ONLY Remove(k, r), <1>1 DEF Remove
<1>3. CutOffKeys(leaf') \subseteq spoilt' /\ entries' \subseteq Keys \X Rids
  BY <1>2 DEF IndInv
<1>4. ASSUME ~astray' PROVE Indexed(dir', leaf', entries')
  <2>1. CutOffKeys(leaf) = {} /\ Indexed(dir, leaf, entries) /\ ~Misled(dir, k)
    BY <1>2, <1>4 DEF IndInv
  <2>2. \A a \in DOMAIN leaf : ~CutOff(leaf, a)
    BY <2>1, NoneCut
  <2>3. IsTree(dir, leaf)
    BY <2>1, <2>2, FitsTree DEF Indexed
  <2>4. PICK rt \in BOOLEAN : \E own : Roomy(rt, dir, leaf, own)
    BY <2>3 DEF IsTree
  <2>5. PICK own : Roomy(rt, dir, leaf, own)
    BY <2>4
  <2>6. Fits(leaf, leaf) /\ Whole(leaf, k)
    BY <2>2, <2>3, FitsItself DEF Whole
  <2>7. Home(leaf, Search(dir, k), k)
    BY <1>2, <2>1, <2>5, <2>6, HomeIs DEF Indexed
  <2>8. \A e \in entries : e = <<e[1], e[2]>>
    BY DEF IndInv
  <2>9. Holds(f2, entries \ {<<k, r>>}) /\ Chains(f2) /\ Hollow(f2)
    BY <1>1, <1>2, <2>1, <2>7, <2>8, RemoveHolds DEF Indexed
  <2>10. IsTree(dir, f2)
    BY <1>1, <1>2, <2>1, <2>3, RemoveIsTree
  <2>11. Indexed(dir, f2, entries \ {<<k, r>>})
    BY <2>9, <2>10, FitsItself DEF Indexed
  <2> QED BY <1>2, <2>11
<1> QED BY <1>3, <1>4 DEF IndInv

(* No operation ends the invariant.                                        *)
LEMMA NextKeepsInv == IndInv /\ [Next]_vars => IndInv'
<1> SUFFICES ASSUME IndInv, [Next]_vars PROVE IndInv'
  OBVIOUS
<1>1. CASE UNCHANGED vars
  BY <1>1 DEF IndInv, Indexed, vars
<1>2. ASSUME NEW k \in Keys, NEW r \in Rids, Insert(k, r) PROVE IndInv'
  BY <1>2, InsertKeepsInv
<1>3. ASSUME NEW k \in Keys, NEW r \in Rids, Remove(k, r) PROVE IndInv'
  BY <1>3, RemoveKeepsInv
<1> QED BY <1>1, <1>2, <1>3 DEF Next

(* An index whose files have just been created, with and without the       *)
(* root's first entry.                                                     *)
LEMMA NewPageIs ==
  ASSUME NEW full \in Nat, NEW flag \in Int
  PROVE  /\ NewPage(flag, full) \in Pages(full) /\ NewPage(flag, full).n = 0
         /\ NewPage(flag, full).flag = flag
<1>1. PICK slot : slot = [i \in Slots(full) |-> [key |-> 0, val |-> 0]]
  OBVIOUS
<1>2. slot \in [Slots(full) -> Record]
  BY <1>1 DEF Record
<1>3. NewPage(flag, full) = [flag |-> flag, n |-> 0, slot |-> slot]
  BY <1>1 DEF NewPage
<1> QED BY <1>2, <1>3 DEF Pages

LEMMA NewLeaf ==
  ASSUME NEW f, f = [b \in {0} |-> NewPage(-1, LeafFull)]
  PROVE  /\ LeavesOK(f) /\ Heads(f) = {0} /\ CutOffKeys(f) = {}
         /\ \A S : LeafOK(f[0], S)
         /\ Chains(f) /\ Holds(f, {}) /\ Hollow(f)
<1>1. PICK p : p = NewPage(-1, LeafFull)
  OBVIOUS
<1>2. p \in Pages(LeafFull) /\ p.n = 0 /\ p.flag = -1 /\ LeafFull \in Nat /\ LeafFull > 1
  <2>1. -1 \in Int
    OBVIOUS
  <2> QED BY <1>1, <2>1, Fulls, NewPageIs
<1>3. f \in [0..(1 - 1) -> Pages(LeafFull)] /\ f[0] = p
  <2>1. 0..(1 - 1) = {0}
    OBVIOUS
  <2> QED BY <1>1, <1>2, <2>1
<1>4. f \in Files(LeafFull) /\ Size(f) = 1 /\ DOMAIN f = 0..(1 - 1)
  <2>1. 1 \in Nat \ {0}
    OBVIOUS
  <2> QED BY ONLY <1>2, <1>3, <2>1, FileIs
<1>5. DOMAIN f = {0}
  BY <1>4
<1>6. LeavesOK(f)
  BY <1>2, <1>3, <1>4, <1>5 DEF LeavesOK
<1>7. Heads(f) = {0}
  BY <1>2, <1>3, <1>5 DEF Heads, Chained
<1>8. CutOffKeys(f) = {}
  BY <1>2, <1>3, <1>5 DEF CutOffKeys, CutOff
<1>9. \A S : LeafOK(p, S)
  BY <1>2 DEF LeafOK
<1>10. Chained(f) = {-1} /\ Overflows(f) = {}
  BY <1>2, <1>3, <1>5 DEF Chained, Overflows
<1>11. Held(f) = {}
  <2>1. \A i \in Nat : ~(i < 0)
    OBVIOUS
  <2> QED BY <1>2, <1>3, <1>5, <2>1 DEF Held
<1>12. Chains(f)
  BY <1>2, <1>3, <1>5, <1>10 DEF Chains
<1>13. Holds(f, {}) /\ Hollow(f)
  BY <1>10, <1>11 DEF Holds, Hollow
<1> QED BY <1>3, <1>6, <1>7, <1>8, <1>9, <1>12, <1>13

LEMMA NewDir ==
  ASSUME NEW f, f = [b \in {0} |-> NewPage(-1, LeafFull)], NEW rt \in BOOLEAN, NEW root,
         root = IF rt THEN InsertAt(NewPage(0, DirFull), 0, [key |-> MinKey, val |-> 0])
                ELSE NewPage(0, DirFull),
         NEW d, d = [b \in {0} |-> root]
  PROVE  IsTree(d, f)
<1>0. PICK zero \in Int : zero = 0
  OBVIOUS
<1>1. PICK p : p = NewPage(zero, DirFull) /\ zero = 0
  BY <1>0
<1>2. p \in Pages(DirFull) /\ p.n = 0 /\ p.flag = zero /\ DirFull \in Nat /\ DirFull > 2 /\ MinKey \in Int
  BY <1>1, Fulls, NewPageIs
<1>3. PICK e \in Record : e = [key |-> MinKey, val |-> 0]
  BY <1>2 DEF Record
<1>4. PICK i : i = IF rt THEN 0 ELSE -1
  OBVIOUS
<1>5. /\ root \in Pages(DirFull) /\ root.flag = 0 /\ root.n = i + 1
      /\ rt => root.slot[0] = e
  <2>1. CASE rt
    <3>1. root = InsertAt(p, zero, e)
      BY <1>1, <1>3, <2>1
    <3>2. zero \in 0..p.n /\ p.n \in 0..(DirFull - 1)
      BY <1>1, <1>2
    <3>3. root \in Pages(DirFull) /\ root.n = p.n + 1 /\ root.flag = p.flag /\ root.slot[zero] = e
      BY ONLY <1>2, <3>1, <3>2, e \in Record, InsertAtIs
    <3> QED BY <1>1, <1>2, <1>4, <2>1, <3>3
  <2>2. CASE ~rt
    BY <1>1, <1>2, <1>4, <2>2
  <2> QED BY <2>1, <2>2
<1>6. d \in Files(DirFull) /\ Size(d) = 1 /\ DOMAIN d = {0} /\ d[0] = root
  <2>1. 0..(1 - 1) = {0} /\ 1 \in Nat \ {0}
    OBVIOUS
  <2>2. d \in [0..(1 - 1) -> Pages(DirFull)] /\ d[0] = root
    BY <1>5, <2>1
  <2>3. d \in Files(DirFull) /\ Size(d) = 1 /\ DOMAIN d = 0..(1 - 1)
    BY ONLY <1>2, <2>1, <2>2, FileIs
  <2> QED BY <2>1, <2>2, <2>3
<1>7. PICK own : own = [b \in {0} |-> Int]
  OBVIOUS
<1>8. i \in -1..0 /\ (rt <=> i = 0)
  BY <1>4
<1>9. Blocks(rt, d, own)
  <2>1. own \in [DOMAIN d -> SUBSET Int] /\ own[0] = Int
    BY <1>6, <1>7
  <2>2. rt => d[0].n > 0 /\ d[0].slot[0].key = MinKey
    BY <1>3, <1>5, <1>6, <1>8
  <2>3. BlockOK(root, Int)
    <3>1. \A j \in 0..(root.n - 1) : j = 0 /\ rt
      BY <1>5, <1>8
    <3>2. rt => root.slot[0].key = MinKey
      BY <1>3, <1>5
    <3>3. Sorted(root)
      BY <3>1 DEF Sorted
    <3>4. KeysIn(root, Int)
      BY <1>2, <3>1, <3>2 DEF KeysIn
    <3>5. root.n \in 0..DirFull /\ root.flag \in Nat
      BY <1>2, <1>5, <1>8
    <3> QED BY <1>5, <3>3, <3>4, <3>5 DEF BlockOK
  <2>4. \A b \in DOMAIN d : BlockOK(d[b], own[b])
    BY <1>6, <2>1, <2>3
  <2> QED BY <1>6, <2>1, <2>2, <2>4 DEF Blocks
<1>10. PICK s : s = <<0, i>>
  OBVIOUS
<1>11. \A t \in SlotsOf(rt, d) : t = s
  <2> SUFFICES ASSUME NEW t \in SlotsOf(rt, d) PROVE t = s
    OBVIOUS
  <2>1. /\ t = <<t[1], t[2]>> /\ t[1] \in DOMAIN d /\ t[2] \in -1..(DirFull - 1) /\ t[2] < d[t[1]].n
        /\ (t[2] = -1 => ~rt)
    BY SlotHas
  <2>2. t[1] = 0 /\ t[2] < i + 1
    BY <1>5, <1>6, <2>1
  <2>3. t[2] = i
    BY <1>2, <1>8, <2>1, <2>2
  <2> QED BY <1>10, <2>1, <2>2, <2>3
<1>12. s \in SlotsOf(rt, d)
  <2>1. i \in -1..(DirFull - 1) /\ i < d[0].n /\ 0 \in DOMAIN d
    BY <1>2, <1>5, <1>6, <1>8
  <2>2. i = -1 => ~rt /\ d[0].flag = 0
    BY <1>5, <1>6, <1>8
  <2> QED BY <1>10, <2>1, <2>2, SlotIn
<1>13. ~Upper(d, s) /\ Child(d, s) = 0
  <2>1. s[1] = 0 /\ s[2] = i
    BY <1>10
  <2>2. ~Upper(d, s)
    BY <1>5, <1>6, <2>1 DEF Upper
  <2>3. CASE rt
    <3>1. i = 0 /\ ~(i < 0)
      BY <1>8, <2>3
    <3>2. Child(d, s) = root.slot[0].val
      BY <1>6, <2>1, <3>1 DEF Child, ChildAt
    <3> QED BY <1>3, <1>5, <2>2, <2>3, <3>2
  <2>4. CASE ~rt
    <3>1. i < 0
      BY <1>8, <2>4
    <3> QED BY <1>5, <1>6, <2>1, <2>2, <3>1 DEF Child, ChildAt
  <2> QED BY <2>3, <2>4
<1>14. LeavesOK(f) /\ Heads(f) = {0} /\ \A S : LeafOK(f[0], S)
  BY NewLeaf
<1>15. \A t \in SlotsOf(rt, d) : KidOK(d, f, own, t)
  BY <1>11, <1>13, <1>14 DEF KidOK
<1>16. Only(d, SlotsOf(rt, d))
  BY <1>11 DEF Only
<1>17. Covered(rt, d, f, SlotsOf(rt, d))
  BY <1>6, <1>12, <1>13, <1>14 DEF Covered
<1>18. Room(d)
  BY <1>2, <1>5, <1>6, <1>8 DEF Room
<1>19. Roomy(rt, d, f, own)
  BY <1>9, <1>14, <1>15, <1>16, <1>17, <1>18 DEF Roomy, Tree
<1> QED BY <1>19 DEF IsTree

LEMMA InitHasInv == Init => IndInv
<1> SUFFICES ASSUME Init PROVE IndInv
  OBVIOUS
<1>1. leaf = [b \in {0} |-> NewPage(-1, LeafFull)]
  BY DEF Init
<1>2. CutOffKeys(leaf) \subseteq spoilt
  BY <1>1, NewLeaf DEF Init
<1>3. PICK root \in {NewPage(0, DirFull), InsertAt(NewPage(0, DirFull), 0, [key |-> MinKey, val |-> 0])} :
        dir = [b \in {0} |-> root]
  BY DEF Init
<1>4. PICK rt \in BOOLEAN :
        root = IF rt THEN InsertAt(NewPage(0, DirFull), 0, [key |-> MinKey, val |-> 0])
               ELSE NewPage(0, DirFull)
  BY <1>3
<1>5. IsTree(dir, leaf)
  BY <1>1, <1>3, <1>4, NewDir
<1>6. entries = {} /\ Chains(leaf) /\ Holds(leaf, entries) /\ Hollow(leaf)
  BY <1>1, NewLeaf DEF Init
<1>7. Indexed(dir, leaf, entries)
  BY <1>5, <1>6, FitsItself DEF Indexed
<1> QED BY <1>2, <1>6, <1>7 DEF IndInv

(* What the tree says in terms of the blocks alone.                        *)
LEMMA SlotsAreInOrder ==
  ASSUME NEW rt, NEW own, Roomy(rt, dir, leaf, own), NEW b \in DOMAIN dir
  PROVE  SlotsInOrder(b)
<1>1. PICK p : p = dir[b]
  OBVIOUS
<1>2. /\ p.n \in 0..DirFull /\ p.flag \in Nat /\ Sorted(p) /\ DirFull \in Nat
      /\ Blocks(rt, dir, own) /\ p.n < DirFull
  BY <1>1, Fulls, BlockHas DEF Roomy, Tree, Room
<1>3. ASSUME NEW i \in 0..(p.n - 1)
      PROVE  /\ IF p.flag = 0 THEN p.slot[i].val \in DOMAIN leaf
                ELSE p.slot[i].val \in DOMAIN dir /\ Below(<<b, i>>).flag = p.flag - 1
             /\ \A j \in 0..(Below(<<b, i>>).n - 1) :
                  /\ p.slot[i].key <= Below(<<b, i>>).slot[j].key
                  /\ i < p.n - 1 => Below(<<b, i>>).slot[j].key < p.slot[i + 1].key
  <2>1. PICK s : s = <<b, i>>
    OBVIOUS
  <2>2. s[1] = b /\ s[2] = i /\ i >= 0
    BY <1>2, <2>1
  <2>3. s \in SlotsOf(rt, dir)
    <3>1. i \in -1..(DirFull - 1) /\ i < dir[b].n /\ i # -1
      BY <1>1, <1>2
    <3> QED BY <2>1, <3>1, SlotIn
  <2>4. KidOK(dir, leaf, own, s)
    BY <2>3 DEF Roomy, Tree
  <2>5. PICK c, S : c = Child(dir, s) /\ S = PartOf(dir, own, s)
    OBVIOUS
  <2>6. c = p.slot[i].val /\ S = Part(own[b], p, i)
    <3>1. ~(i < 0)
      BY <2>2
    <3> QED BY <1>1, <2>2, <2>5, <3>1 DEF Child, ChildAt, PartOf
  <2>7. \A k \in S : p.slot[i].key <= k /\ (i < p.n - 1 => k < p.slot[i + 1].key)
    <3>1. i < p.n - 1 => i + 1 < p.n
      BY <1>2
    <3> QED BY <2>2, <2>6, <3>1 DEF Part
  <2>8. Below(s) = IF p.flag > 0 THEN dir[c] ELSE leaf[c]
    BY <1>1, <2>2, <2>6 DEF Below
  <2>9. CASE p.flag = 0
    <3>1. ~Upper(dir, s)
      BY <1>1, <2>2, <2>9 DEF Upper
    <3>2. c \in DOMAIN leaf /\ LeafOK(leaf[c], S)
      BY <2>4, <2>5, <3>1 DEF KidOK, Heads
    <3>3. Below(s) = leaf[c]
      BY <2>8, <2>9
    <3>4. \A j \in 0..(Below(s).n - 1) : Below(s).slot[j].key \in S
      BY <3>2, <3>3 DEF LeafOK
    <3> QED BY <2>1, <2>6, <2>7, <2>9, <3>2, <3>4
  <2>10. CASE p.flag # 0
    <3>1. Upper(dir, s) /\ p.flag > 0
      BY <1>1, <1>2, <2>2, <2>10 DEF Upper
    <3>2. c \in DOMAIN dir /\ dir[c].flag = p.flag - 1 /\ own[c] = S
      BY <1>1, <2>2, <2>4, <2>5, <3>1 DEF KidOK
    <3>3. Below(s) = dir[c]
      BY <2>8, <3>1
    <3>4. KeysIn(dir[c], S)
      BY <1>2, <3>2 DEF Blocks, BlockOK
    <3>5. \A j \in 0..(Below(s).n - 1) : Below(s).slot[j].key \in S
      BY <3>3, <3>4 DEF KeysIn
    <3> QED BY <2>1, <2>6, <2>7, <2>10, <3>2, <3>3, <3>5
  <2> QED BY <2>9, <2>10
<1>4. ASSUME NEW i \in 0..(p.n - 1), i < p.n - 1 PROVE p.slot[i].key < p.slot[i + 1].key
  <2>1. i + 1 \in 0..(p.n - 1) /\ i < i + 1
    BY <1>2, <1>4
  <2> QED BY <2>1, <1>2 DEF Sorted
<1> QED BY <1>1, <1>3, <1>4 DEF SlotsInOrder

LEMMA TreeIsTree == IndInv => DirectoryIsTree
<1> SUFFICES ASSUME IndInv, ~astray, spoilt = {}
             PROVE  /\ \A b \in DOMAIN dir : SlotsInOrder(b)
                    /\ \A c \in DOMAIN dir \ {0} : \E s \in InUse : Parents(c, TRUE) = {s}
                    /\ \A c \in DOMAIN leaf \ Chained(leaf) :
                         \/ \E s \in InUse : Parents(c, FALSE) = {s}
                         \/ c = 0 /\ Parents(0, FALSE) = {}
                    /\ \A c \in Chained(leaf) : Parents(c, FALSE) = {}
  BY DEF DirectoryIsTree
<1>0. PICK rt \in BOOLEAN : \E own : Roomy(rt, dir, leaf, own)
  <2>1. CutOffKeys(leaf) = {} /\ Indexed(dir, leaf, entries)
    BY DEF IndInv
  <2>2. IsTree(dir, leaf)
    BY <2>1, NoneCut, FitsTree DEF Indexed
  <2> QED BY <2>2 DEF IsTree
<1>1. PICK own : Roomy(rt, dir, leaf, own)
  BY <1>0
<1>2. /\ \A s \in SlotsOf(rt, dir) : KidOK(dir, leaf, own, s)
      /\ Only(dir, SlotsOf(rt, dir)) /\ Covered(rt, dir, leaf, SlotsOf(rt, dir)) /\ Room(dir)
      /\ \A b \in DOMAIN dir : dir[b].n \in 0..DirFull
  BY <1>1, BlockHas DEF Roomy, Tree
<1>3. ASSUME NEW s
      PROVE  s \in InUse <=> s \in SlotsOf(rt, dir) /\ s[2] # -1
  <2>1. ASSUME s \in InUse PROVE s \in SlotsOf(rt, dir) /\ s[2] # -1
    <3>1. s = <<s[1], s[2]>> /\ s[1] \in DOMAIN dir /\ s[2] \in Slots(DirFull) /\ s[2] < dir[s[1]].n
      BY <2>1 DEF InUse
    <3>2. s[2] \in -1..(DirFull - 1) /\ s[2] # -1
      BY <3>1, Fulls DEF Slots
    <3>3. <<s[1], s[2]>> \in SlotsOf(rt, dir)
      BY <3>1, <3>2, SlotIn
    <3> QED BY <3>1, <3>2, <3>3
  <2>2. ASSUME s \in SlotsOf(rt, dir), s[2] # -1 PROVE s \in InUse
    <3>1. s = <<s[1], s[2]>> /\ s[1] \in DOMAIN dir /\ s[2] \in -1..(DirFull - 1) /\ s[2] < dir[s[1]].n
      BY <2>2, SlotHas
    <3>2. s[2] \in Slots(DirFull)
      BY <2>2, <3>1, Fulls DEF Slots
    <3>3. s \in (DOMAIN dir) \X Slots(DirFull)
      BY <3>1, <3>2
    <3> QED BY <3>1, <3>3 DEF InUse
  <2> QED BY <2>1, <2>2
<1>4. ASSUME NEW s \in InUse PROVE Child(dir, s) = dir[s[1]].slot[s[2]].val
  <2>1. s[2] \in 0..(DirFull - 1)
    BY DEF InUse, Slots
  <2>2. ~(s[2] < 0)
    BY <2>1, Fulls
  <2> QED BY <2>2 DEF Child, ChildAt
<1>5. ASSUME NEW c, NEW upper \in BOOLEAN, NEW s \in InUse,
             upper <=> Upper(dir, s), Child(dir, s) = c
      PROVE  Parents(c, upper) = {s}
  <2>1. s \in Parents(c, upper)
    BY <1>4, <1>5 DEF Parents, Upper
  <2>2. ASSUME NEW t \in Parents(c, upper) PROVE t = s
    <3>1. t \in InUse /\ (upper <=> Upper(dir, t)) /\ dir[t[1]].slot[t[2]].val = c
      BY DEF Parents, Upper
    <3>2. Child(dir, t) = c
      BY <1>4, <3>1
    <3>3. s \in SlotsOf(rt, dir) /\ t \in SlotsOf(rt, dir)
      BY <1>3, <3>1
    <3> QED BY <1>2, <1>5, <3>1, <3>2, <3>3 DEF Only
  <2> QED BY <2>1, <2>2
<1>6. ASSUME NEW c \in DOMAIN dir \ {0} PROVE \E s \in InUse : Parents(c, TRUE) = {s}
  <2>1. PICK s \in SlotsOf(rt, dir) : Upper(dir, s) /\ Child(dir, s) = c
    BY <1>2 DEF Covered
  <2>2. s[2] # -1
    <3>1. s[2] = -1 => s[1] = 0 /\ dir[0].flag = 0
      BY SlotHas
    <3> QED BY <2>1, <3>1 DEF Upper
  <2>3. s \in InUse
    BY <1>3, <2>2
  <2> QED BY <1>5, <2>1, <2>3
<1>7. ASSUME NEW c \in DOMAIN leaf \ Chained(leaf)
      PROVE  \/ \E s \in InUse : Parents(c, FALSE) = {s}
             \/ c = 0 /\ Parents(0, FALSE) = {}
  <2>1. CASE Parents(c, FALSE) # {}
    <3>1. PICK s \in InUse : ~Upper(dir, s) /\ dir[s[1]].slot[s[2]].val = c
      BY <2>1 DEF Parents, Upper
    <3>2. Child(dir, s) = c
      BY <1>4, <3>1
    <3> QED BY <1>5, <3>1, <3>2
  <2>2. CASE Parents(c, FALSE) = {}
    <3>1. c \in Heads(leaf)
      BY DEF Heads
    <3>2. CASE \E s \in SlotsOf(rt, dir) : ~Upper(dir, s) /\ Child(dir, s) = c
      <4>1. PICK s \in SlotsOf(rt, dir) : ~Upper(dir, s) /\ Child(dir, s) = c
        BY <3>2
      <4>2. s[2] = -1
        <5>1. s[2] # -1 => s \in InUse
          BY <1>3
        <5>2. s \in InUse => s \in Parents(c, FALSE)
          BY <1>4, <4>1 DEF Parents, Upper
        <5> QED BY <2>2, <5>1, <5>2
      <4>3. s[1] = 0 /\ dir[0].flag = 0
        BY <4>2, SlotHas
      <4>4. Child(dir, s) = 0
        <5>1. s[2] < 0
          BY <4>2
        <5> QED BY <4>3, <5>1 DEF Child, ChildAt
      <4> QED BY <2>2, <4>1, <4>4
    <3>3. CASE c = 0
      BY <2>2, <3>3
    <3> QED BY <1>2, <3>1, <3>2, <3>3 DEF Covered
  <2> QED BY <2>1, <2>2
<1>8. ASSUME NEW c \in Chained(leaf) PROVE Parents(c, FALSE) = {}
  <2> SUFFICES ASSUME NEW s \in Parents(c, FALSE) PROVE FALSE
    OBVIOUS
  <2>1. s \in InUse /\ ~Upper(dir, s) /\ dir[s[1]].slot[s[2]].val = c
    BY DEF Parents, Upper
  <2>2. Child(dir, s) = c /\ s \in SlotsOf(rt, dir)
    BY <1>3, <1>4, <2>1
  <2>3. c \in Heads(leaf)
    BY <1>2, <2>1, <2>2 DEF KidOK
  <2> QED BY <2>3 DEF Heads
<1> QED BY <1>1, <1>6, <1>7, <1>8, SlotsAreInOrder

(* The directory is a tree over the leaves, in the order of the keys, for  *)
(* every capacity of the pages, every set of keys, and every sequence of   *)
(* insertions and removals (BTreeDir.cpp:25-75, BTreeLeaf.cpp:46-85).      *)
THEOREM TreeHolds == Spec => []DirectoryIsTree
<1>1. Init => IndInv
  BY InitHasInv
<1>2. IndInv /\ [Next]_vars => IndInv'
  BY NextKeepsInv
<1>3. IndInv => DirectoryIsTree
  BY TreeIsTree
<1> QED BY <1>1, <1>2, <1>3, PTL DEF Spec

LEMMA LookupRight == IndInv => LookupIsRight
<1> SUFFICES ASSUME IndInv, NEW k \in Keys, Sound(k), NEW stops, stops = Lookup(k),
                    NEW found, found = [i \in DOMAIN stops |-> DataRid(leaf, stops[i])]
             PROVE  /\ {r \in Rids : <<k, r>> \in entries} \subseteq Range(found)
                    /\ ~(\E i \in DOMAIN stops : leaf[stops[i].blk].n = 0) =>
                         IsInjective(found) /\ \A i \in DOMAIN found : <<k, found[i]>> \in entries
  BY DEF LookupIsRight
<1>1. /\ Ends(dir, k) /\ ~Misled(dir, k) /\ k \notin spoilt
      /\ CutOffKeys(leaf) \subseteq spoilt /\ Indexed(dir, leaf, entries)
  BY DEF Sound, IndInv
<1>2. PICK f3 : Fits(leaf, f3) /\ IsTree(dir, f3)
  BY <1>1 DEF Indexed
<1>3. PICK rt \in BOOLEAN : \E own : Roomy(rt, dir, f3, own)
  BY <1>2 DEF IsTree
<1>4. PICK own : Roomy(rt, dir, f3, own)
  BY <1>3
<1>5. Whole(leaf, k)
  <2> SUFFICES ASSUME NEW a \in DOMAIN leaf, CutOff(leaf, a)
               PROVE  leaf[a].slot[0].key # k /\ leaf[leaf[a].flag].slot[0].key # k
    BY DEF Whole
  <2>1. {leaf[a].slot[0].key, leaf[leaf[a].flag].slot[0].key} \subseteq CutOffKeys(leaf)
    BY DEF CutOffKeys
  <2> QED BY <1>1, <2>1
<1>6. Home(leaf, Search(dir, k), k)
  BY <1>1, <1>2, <1>4, <1>5, HomeIs DEF Indexed
<1>7. Stops(leaf, Search(dir, k), k, stops)
  BY <1>6, LookupIs DEF Lookup
<1>8. Returns(leaf, entries, k, stops)
  BY <1>1, <1>6, <1>7, StopsReturn DEF Indexed
<1>9. DOMAIN found = DOMAIN stops /\ \A i \in DOMAIN stops : found[i] = DataRid(leaf, stops[i])
  OBVIOUS
<1>10. {r \in Rids : <<k, r>> \in entries} \subseteq Range(found)
  BY <1>8, <1>9 DEF Returns, Range
<1>11. ASSUME ~(\E i \in DOMAIN stops : leaf[stops[i].blk].n = 0)
       PROVE  IsInjective(found) /\ \A i \in DOMAIN found : <<k, found[i]>> \in entries
  BY <1>8, <1>9, <1>11 DEF Returns, IsInjective
<1> QED BY <1>10, <1>11

(* A lookup returns every RID of its key, and nothing else and nothing     *)
(* twice unless it passes an empty overflow block, for every capacity of   *)
(* the pages, every set of keys and RIDs and every sequence of insertions  *)
(* and removals (BTreeIndex.cpp:50-93, BTreeLeaf.cpp:15-44).               *)
THEOREM LookupHolds == Spec => []LookupIsRight
<1>1. Init => IndInv
  BY InitHasInv
<1>2. IndInv /\ [Next]_vars => IndInv'
  BY NextKeepsInv
<1>3. IndInv => LookupIsRight
  BY LookupRight
<1> QED BY <1>1, <1>2, <1>3, PTL DEF Spec
=============================================================================
