------------------------------- MODULE BTree -------------------------------
(***************************************************************************)
(* The B-tree index of src/indexing on INTEGER keys: leaf pages, their      *)
(* overflow chains, directory pages, splits and new roots.                  *)
(*                                                                          *)
(* A page keeps what lies behind its last record, because the code reads    *)
(* it: remove and transferRecs leave copies there, format leaves zeros.     *)
(* Block-level locks held to the end of a transaction make an operation of  *)
(* the index one step for everybody else (see LockContract).                *)
(***************************************************************************)
EXTENDS Integers, Sequences, FiniteSets, Functions

CONSTANTS
    Keys,       \* the INTEGER values that are indexed
    MinKey,     \* INT_MIN, the first entry of the root
    Rids,       \* the RIDs of the table's records, 1..n
    LeafFull,   \* the number of records at which a leaf isFull()
    DirFull,    \* the same for a directory page
    MaxOps      \* bound on the number of insertions and removals

ASSUME KeysAssumption == Keys \subseteq Int /\ MinKey \in Int /\ \A k \in Keys : MinKey <= k
ASSUME RidsAssumption == Rids \subseteq Nat \ {0}
ASSUME FullAssumption == LeafFull \in Nat \ {0, 1} /\ DirFull \in Nat \ {0, 1, 2}

VARIABLES
    leaf,       \* the blocks of the index's leaf file
    dir,        \* the blocks of its directory file; block 0 is the root
    entries,    \* the entries <<key, rid>> that an index should hold
    \* history
    spoilt,     \* keys for which a leaf was once cut from its overflow chain
    astray,     \* an insertion or removal was once misled by a stale slot
    ops         \* operations so far

vars == <<leaf, dir, entries, spoilt, astray, ops>>

-----------------------------------------------------------------------------
(* BTreePage *)

Slots(full) == 0..(full - 1)
Entry == [key : Keys \cup {MinKey, 0}, val : Nat]
PageOf(full) == [flag : Nat \cup {-1}, n : 0..full, slot : [Slots(full) -> Entry]]

NewPage(flag, full) ==
    [flag |-> flag, n |-> 0, slot |-> [i \in Slots(full) |-> [key |-> 0, val |-> 0]]]

SlotBefore(p, k) ==
    CHOOSE s \in -1..p.n :
        /\ s + 1 = p.n \/ (s + 1 < p.n /\ p.slot[s + 1].key >= k)
        /\ \A i \in 0..s : p.slot[i].key < k

\* MUTANT of IsFull: slotPos(n - 1) for slotPos(n + 1).
IsFullLate(p, full) == p.n - 2 >= full

IsFull(p, full) == p.n >= full

InsertAt(p, s, e) ==
    [p EXCEPT !.n = @ + 1,
              !.slot = [i \in DOMAIN @ |-> IF i < s \/ i > p.n THEN @[i]
                                           ELSE IF i = s THEN e ELSE @[i - 1]]]

RemoveAt(p, s) ==
    [p EXCEPT !.n = @ - 1,
              !.slot = [i \in DOMAIN @ |-> IF i >= s /\ i < p.n - 1 THEN @[i + 1] ELSE @[i]]]

\* transferRecs moves the records from pos on one by one, each by a remove(pos):
\* every slot from pos on ends up as a copy of the last record moved.
Kept(p, pos) ==
    [p EXCEPT !.n = pos,
              !.slot = [i \in DOMAIN @ |-> IF i >= pos /\ i < p.n THEN @[p.n - 1] ELSE @[i]]]
Moved(p, pos, flag) ==
    [NewPage(flag, Cardinality(DOMAIN p.slot)) EXCEPT
        !.n = p.n - pos,
        !.slot = [i \in DOMAIN @ |-> IF i < p.n - pos THEN p.slot[pos + i] ELSE @[i]]]

\* split: block b of file f keeps the first pos records, the rest goes to a new block.
Split(f, b, pos, flag) ==
    [c \in 0..Cardinality(DOMAIN f) |->
        IF c = b THEN Kept(f[b], pos) ELSE IF c \in DOMAIN f THEN f[c] ELSE Moved(f[b], pos, flag)]

NoEntry == [key |-> MinKey, val |-> -1]     \* a DirEntry that isNull()

-----------------------------------------------------------------------------
(* BTreeDir *)

\* A block behind the end of the file reads as zeros.
DirPage(d, b) == IF b \in DOMAIN d THEN d[b] ELSE NewPage(0, DirFull)

\* The slot whose child the search takes: the code looks at the slot after the
\* last smaller one without asking whether it is in use.
ChildSlot(p, k) ==
    LET s == SlotBefore(p, k) IN IF p.slot[s + 1].key = k THEN s + 1 ELSE s

\* Slot -1 lies on the page's header: its "block" field is the flag.
ChildAt(p, s) == IF s < 0 THEN p.flag ELSE p.slot[s].val
FindChild(p, k) == ChildAt(p, ChildSlot(p, k))

\* The blocks a search for k goes through from the root on, until it is at level 0.
\* When it is not there after all blocks, it goes round for ever.
Down(d, b, k) == IF DirPage(d, b).flag > 0 THEN FindChild(DirPage(d, b), k) ELSE b
Path(d, k) ==
    LET b[i \in 0..Cardinality(DOMAIN d)] == IF i = 0 THEN 0 ELSE Down(d, b[i - 1], k)
    IN b
Bottom(d, k) == Path(d, k)[Cardinality(DOMAIN d)]
Ends(d, k) == DirPage(d, Bottom(d, k)).flag <= 0
Inside(d, k) == Range(Path(d, k)) \subseteq DOMAIN d
Search(d, k) == FindChild(DirPage(d, Bottom(d, k)), k)

InsertEntry(d, b, e) ==
    LET p == InsertAt(d[b], 1 + SlotBefore(d[b], e.key), e)
        pos == p.n \div 2
    IN IF ~IsFull(p, DirFull)
       THEN [dir |-> [d EXCEPT ![b] = p], up |-> NoEntry]
       ELSE [dir |-> Split([d EXCEPT ![b] = p], b, pos, p.flag),
             up |-> [key |-> p.slot[pos].key, val |-> Cardinality(DOMAIN d)]]

InsertUp(below, b) ==
    IF below.up = NoEntry THEN below ELSE InsertEntry(below.dir, b, below.up)

\* The entry goes into the block of level 0, and what a split sends up into the
\* block above; up[i] is what has been done when i steps of the path are undone.
InsertBelow(d, e) ==
    LET b == Path(d, e.key)
        n == Cardinality(DOMAIN d)
        up[i \in 0..n] ==
            IF i = 0 THEN InsertEntry(d, b[n], e)
            ELSE IF b[n - i] = b[n - i + 1] THEN up[i - 1]
            ELSE InsertUp(up[i - 1], b[n - i])
    IN up[n]

\* MUTANT of MakeNewRoot: the root's level stays.
MakeNewRootFlat(d, e) ==
    LET old == [key |-> d[0].slot[0].key, val |-> Cardinality(DOMAIN d)]
    IN InsertEntry(InsertEntry(Split(d, 0, 0, d[0].flag), 0, old).dir, 0, e).dir

MakeNewRoot(d, e) ==
    LET level == d[0].flag
        old == [key |-> d[0].slot[0].key, val |-> Cardinality(DOMAIN d)]
        halves == InsertEntry(InsertEntry(Split(d, 0, 0, level), 0, old).dir, 0, e).dir
    IN [halves EXCEPT ![0].flag = level + 1]

-----------------------------------------------------------------------------
(* BTreeLeaf: a cursor is the block it is on and _currentSlot *)

OpenLeaf(f, b, k) == [blk |-> b, slot |-> SlotBefore(f[b], k), found |-> TRUE]

\* The first record of an overflow block is returned as it is: neither its key
\* nor the number of records is looked at.
TryOverflow(f, c, k) ==
    LET p == f[c.blk]
    IN IF p.slot[0].key # k \/ p.flag < 0 THEN [c EXCEPT !.found = FALSE]
       ELSE [blk |-> p.flag, slot |-> 0, found |-> TRUE]

LeafNext(f, c, k) ==
    LET s == c.slot + 1
    IN IF s < f[c.blk].n /\ f[c.blk].slot[s].key = k THEN [c EXCEPT !.slot = s]
       ELSE TryOverflow(f, [c EXCEPT !.slot = s], k)

DataRid(f, c) == f[c.blk].slot[c.slot].val

Advance(f, c, k) ==
    LET next == LeafNext(f, c[Len(c)], k) IN IF next.found THEN Append(c, next) ELSE c

\* The cursors of the calls of next() that find a record, in their order. There
\* are no more of them than slots.
Cursors(f, b, k) ==
    LET n == Cardinality(DOMAIN f) * LeafFull
        c[i \in 0..n] ==
            IF i = 0 THEN <<OpenLeaf(f, b, k)>> ELSE Advance(f, c[i - 1], k)
    IN Tail(c[n])

LeafRemove(f, b, k, r) ==
    LET c == Cursors(f, b, k)
        same == {i \in DOMAIN c : DataRid(f, c[i]) = r}
        first == CHOOSE i \in same : \A j \in same : i <= j
    IN IF same = {} THEN f ELSE [f EXCEPT ![c[first].blk] = RemoveAt(@, c[first].slot)]

\* MUTANT of SplitPos: split in the middle.
SplitPosMiddle(p) == p.n \div 2

\* Where a full leaf with several keys is split: never between equal keys.
SplitPos(p) ==
    LET mid == p.n \div 2
        same == {i \in 0..(p.n - 1) : p.slot[i].key = p.slot[mid].key}
        first == CHOOSE i \in same : \A j \in same : i <= j
    IN IF first = 0 THEN Cardinality(same) ELSE first

LeafInsert(f, b, k, r) ==
    LET p == f[b]
        new == Cardinality(DOMAIN f)
        e == [key |-> k, val |-> r]
        q == InsertAt(p, SlotBefore(p, k) + 1, e)
        g == [f EXCEPT ![b] = q]
    IN IF p.flag >= 0 /\ p.slot[0].key > k
       THEN LET h == Split(f, b, 0, p.flag)     \* the chain moves to a block of its own
            IN [leaf |-> [h EXCEPT ![b] = InsertAt([@ EXCEPT !.flag = -1], 0, e)],
                up |-> [key |-> p.slot[0].key, val |-> new]]
       ELSE IF ~IsFull(q, LeafFull) THEN [leaf |-> g, up |-> NoEntry]
       ELSE IF q.slot[0].key = q.slot[q.n - 1].key
       THEN [leaf |-> [Split(g, b, 1, q.flag) EXCEPT ![b].flag = new], up |-> NoEntry]
       ELSE [leaf |-> Split(g, b, SplitPos(q), -1),
             up |-> [key |-> q.slot[SplitPos(q)].key, val |-> new]]

-----------------------------------------------------------------------------
(* BTreeIndex *)

\* Where beforeFirst(k) and the calls of next() after it stop, in their order.
Lookup(k) == Cursors(leaf, Search(dir, k), k)

\* A block whose overflow block holds another key than its own first record.
CutOff(f, b) == f[b].flag >= 0 /\ f[b].slot[0].key # f[f[b].flag].slot[0].key
CutOffKeys(f) ==
    UNION {{f[b].slot[0].key, f[f[b].flag].slot[0].key} : b \in {c \in DOMAIN f : CutOff(f, c)}}

\* A search for k follows the child of a slot that is not in use, and the child
\* is not the one it should follow; or it is for a key below the first entry and
\* follows the header of an upper page.
MisledAt(p, k) ==
    LET s == ChildSlot(p, k)
    IN \/ s >= p.n /\ s >= 0 /\ ChildAt(p, s) # ChildAt(p, s - 1)
       \/ s < 0 /\ p.flag > 0
Misled(d, k) == LET b == Path(d, k) IN \E i \in DOMAIN b : MisledAt(DirPage(d, b[i]), k)

\* The first use of the index creates its files. If that transaction rolls back,
\* the blocks stay, formatted, and nobody inserts the root's first entry again.
Init ==
    /\ leaf = [b \in {0} |-> NewPage(-1, LeafFull)]
    /\ \E root \in {NewPage(0, DirFull),
                    InsertAt(NewPage(0, DirFull), 0, [key |-> MinKey, val |-> 0])} :
         dir = [b \in {0} |-> root]
    /\ entries = {} /\ spoilt = {} /\ astray = FALSE /\ ops = 0

\* The caller indexes a record when it is inserted: its RID is not in use, and
\* the first free slot of the table is taken. An operation whose search goes round
\* for ever (~Ends) comes to no end and changes nothing. One that is misled to write
\* behind the end of the directory file is left out.
Insert(k, r) ==
    LET low == LeafInsert(leaf, Search(dir, k), k, r)
        top == InsertBelow(dir, low.up)
    IN /\ ops < MaxOps /\ ~astray /\ spoilt = {}
       /\ Ends(dir, k) /\ (low.up # NoEntry => Ends(dir, low.up.key) /\ Inside(dir, low.up.key))
       /\ \A x \in 1..r : (x = r) <=> (\A e \in entries : e[2] # x)
       /\ leaf' = low.leaf
       /\ dir' = IF low.up = NoEntry THEN dir
                 ELSE IF top.up = NoEntry THEN top.dir ELSE MakeNewRoot(top.dir, top.up)
       /\ entries' = entries \cup {<<k, r>>}
       /\ spoilt' = spoilt \cup CutOffKeys(leaf')
       /\ astray' = (Misled(dir, k) \/ (low.up # NoEntry /\ Misled(dir, low.up.key)))
       /\ ops' = ops + 1

\* The caller removes the entry of a record that it deletes.
Remove(k, r) ==
    /\ ops < MaxOps /\ ~astray /\ spoilt = {}
    /\ Ends(dir, k)
    /\ <<k, r>> \in entries
    /\ leaf' = LeafRemove(leaf, Search(dir, k), k, r)
    /\ entries' = entries \ {<<k, r>>}
    /\ spoilt' = spoilt \cup CutOffKeys(leaf')
    /\ astray' = Misled(dir, k)
    /\ ops' = ops + 1
    /\ UNCHANGED dir

Next == \E k \in Keys, r \in Rids : Insert(k, r) \/ Remove(k, r)

Spec == Init /\ [][Next]_vars

-----------------------------------------------------------------------------
(* Properties *)

\* The types of the variables; in particular no page holds more records than fit.
TypeOK ==
    /\ DOMAIN leaf = 0..(Cardinality(DOMAIN leaf) - 1)
    /\ DOMAIN dir = 0..(Cardinality(DOMAIN dir) - 1)
    /\ \A b \in DOMAIN leaf : leaf[b] \in PageOf(LeafFull)
    /\ \A b \in DOMAIN dir : dir[b] \in PageOf(DirFull)
    /\ entries \subseteq Keys \X Rids
    /\ spoilt \subseteq Keys \cup {0}
    /\ astray \in BOOLEAN
    /\ ops \in 0..MaxOps

\* The keys for which the index works: no insertion ever went astray, the search
\* itself is not misled, and no chain of the key was ever cut off.
Sound(k) == ~astray /\ Ends(dir, k) /\ ~Misled(dir, k) /\ k \notin spoilt

\* A search finds every entry of its key, through all leaf splits, overflow chains,
\* directory splits and new roots; and it finds nothing else and nothing twice,
\* except that the first slot of an overflow block that has become empty is returned
\* all the same.
LookupIsRight ==
    \A k \in Keys : Sound(k) =>
        LET stops == Lookup(k)
            found == [i \in DOMAIN stops |-> DataRid(leaf, stops[i])]
            hollow == \E i \in DOMAIN stops : leaf[stops[i].blk].n = 0
        IN /\ {r \in Rids : <<k, r>> \in entries} \subseteq Range(found)
           /\ ~hollow => IsInjective(found) /\ \A i \in DOMAIN found : <<k, found[i]>> \in entries

\* The page below a slot of the directory, and the slots whose child is block c of
\* the directory (upper) or leaf c.
Below(s) ==
    LET c == dir[s[1]].slot[s[2]].val IN IF dir[s[1]].flag > 0 THEN dir[c] ELSE leaf[c]
InUse == {s \in (DOMAIN dir) \X Slots(DirFull) : s[2] < dir[s[1]].n}
Parents(c, upper) ==
    {s \in InUse : (upper <=> dir[s[1]].flag > 0) /\ dir[s[1]].slot[s[2]].val = c}
Chained(f) == {f[b].flag : b \in DOMAIN f}

\* The children of a block exist, those in the directory one level lower; the keys
\* of its slots increase, and each stays between its slot's key and the next.
SlotsInOrder(b) ==
    LET p == dir[b]
    IN \A i \in 0..(p.n - 1) :
         /\ IF p.flag = 0 THEN p.slot[i].val \in DOMAIN leaf
            ELSE p.slot[i].val \in DOMAIN dir /\ Below(<<b, i>>).flag = p.flag - 1
         /\ i < p.n - 1 => p.slot[i].key < p.slot[i + 1].key
         /\ \A j \in 0..(Below(<<b, i>>).n - 1) :
              /\ p.slot[i].key <= Below(<<b, i>>).slot[j].key
              /\ i < p.n - 1 => Below(<<b, i>>).slot[j].key < p.slot[i + 1].key

\* The directory is a tree over the leaves, in the order of the keys: each block
\* but the root is the child of one slot, and so is each leaf that is no overflow
\* block, but for the first leaf of a root without first entry.
DirectoryIsTree ==
    ~astray /\ spoilt = {} =>
        /\ \A b \in DOMAIN dir : SlotsInOrder(b)
        /\ \A c \in DOMAIN dir \ {0} : \E s \in InUse : Parents(c, TRUE) = {s}
        /\ \A c \in DOMAIN leaf \ Chained(leaf) :
             \/ \E s \in InUse : Parents(c, FALSE) = {s}
             \/ c = 0 /\ Parents(0, FALSE) = {}
        /\ \A c \in Chained(leaf) : Parents(c, FALSE) = {}
=============================================================================
