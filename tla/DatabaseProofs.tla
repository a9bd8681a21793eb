---------------------------- MODULE DatabaseProofs ----------------------------
(***************************************************************************)
(* Theorems about Database for every set of tables, indexes, values and    *)
(* schemas that meets its assumptions, and any number of slots, statements *)
(* and crashes.                                                            *)
(***************************************************************************)
EXTENDS Database, NatLemmas

(***************************************************************************)
(* Layouts.                                                                *)
(***************************************************************************)
CatalogFields == {"tblname", "slotsize", "fldname", "type", "length", "offset",
                  "viewname", "viewdef", "indexname", "tablename", "fieldname"}
FieldDefs == [name : Fields \cup CatalogFields, type : {"int", "varchar", "bool"}, length : Nat]

(* A field takes at least one byte, and the next field begins where it ends. *)
LEMMA OffsetFacts ==
  ASSUME NEW schema \in Seq(FieldDefs)
  PROVE  /\ Offset(schema, 1) = IntSize
         /\ \A i \in 1..Len(schema) + 1 : Offset(schema, i) \in Nat
         /\ \A i \in 1..Len(schema) : /\ LengthInBytes(schema[i]) \in Nat
                                      /\ Offset(schema, i + 1) = Offset(schema, i) + LengthInBytes(schema[i])
<1> DEFINE L == Len(schema)
           Size(i) == LengthInBytes(schema[i])
           Eq(f) == f = [j \in 1..L + 1 |-> IF j = 1 THEN IntSize ELSE f[j - 1] + Size(j - 1)]
           pos == CHOOSE f : Eq(f)
<1>1. L \in Nat /\ \A i \in 1..L : Size(i) \in Nat
  <2>1. ASSUME NEW i \in 1..L PROVE Size(i) \in Nat
    <3>1. schema[i] \in FieldDefs
      OBVIOUS
    <3>2. schema[i].type \in {"int", "varchar", "bool"} /\ schema[i].length \in Nat
      BY <3>1 DEF FieldDefs
    <3> QED BY <3>2 DEF LengthInBytes, IntSize
  <2> QED BY <2>1
<1>2. \A i \in 1..L + 1 : Offset(schema, i) = pos[i]
  BY DEF Offset
<1> HIDE DEF Size
<1>3. PICK g \in [0..L -> Nat] : g[0] = IntSize /\ \A i \in 1..L : g[i] = g[i - 1] + Size(i)
  <2> DEFINE step == [p \in Nat \X Nat |-> IF p[1] \in 1..L THEN p[2] + Size(p[1]) ELSE p[2]]
  <2>1. step \in StepRules(Nat) /\ IntSize \in Nat
    BY <1>1 DEF IntSize, StepRules
  <2>2. PICK g : g \in Recursions(Nat, IntSize, step, L)
    <3> HIDE DEF step, L
    <3>1. L \in Nat
      BY <1>1
    <3> QED BY ONLY <2>1, <3>1, RecursionExists
  <2>3. g \in [0..L -> Nat] /\ g[0] = IntSize /\ \A i \in 1..L : g[i] = step[<<i, g[i - 1]>>]
    <3> HIDE DEF step, L
    <3> QED BY <2>2 DEF Recursions
  <2>4. ASSUME NEW i \in 1..L PROVE g[i] = g[i - 1] + Size(i)
    <3>1. i - 1 \in 0..L /\ i \in Nat
      BY <1>1
    <3>2. <<i, g[i - 1]>> \in Nat \X Nat
      BY <3>1, <2>3
    <3>3. step[<<i, g[i - 1]>>] = g[i - 1] + Size(i)
      BY <3>2
    <3> QED BY <3>3, <2>3
  <2> QED BY <2>3, <2>4
<1>4. \E f : Eq(f)
  <2> DEFINE f == [j \in 1..L + 1 |-> g[j - 1]]
  <2>1. ASSUME NEW j \in 1..L + 1 PROVE f[j] = IF j = 1 THEN IntSize ELSE f[j - 1] + Size(j - 1)
    <3>1. CASE j = 1
      BY <3>1, <1>1, <1>3
    <3>2. CASE j # 1
      <4>1. j - 1 \in 1..L /\ j - 1 \in 1..L + 1
        BY <3>2, <1>1
      <4>2. f[j - 1] = g[(j - 1) - 1] /\ f[j] = g[j - 1]
        BY <4>1
      <4>3. g[j - 1] = g[(j - 1) - 1] + Size(j - 1)
        BY <4>1, <1>3
      <4> QED BY ONLY <4>2, <4>3, <3>2
    <3> QED BY <3>1, <3>2
  <2>2. f = [j \in 1..L + 1 |-> f[j]]
    OBVIOUS
  <2> HIDE DEF f
  <2>3. Eq(f)
    BY <2>1, <2>2
  <2> QED BY <2>3
<1>5. Eq(pos)
  BY <1>4
<1> HIDE DEF pos
<1>6. ASSUME NEW j \in 1..L + 1 PROVE pos[j] = IF j = 1 THEN IntSize ELSE pos[j - 1] + Size(j - 1)
  BY <1>5
<1> HIDE DEF Eq
<1>7. pos[1] = IntSize
  BY <1>6, <1>1
<1>8. ASSUME NEW i \in 1..L PROVE pos[i + 1] = pos[i] + Size(i)
  <2>1. i + 1 \in 1..L + 1 /\ i + 1 # 1 /\ (i + 1) - 1 = i
    BY <1>1
  <2> QED BY <2>1, <1>6
<1>9. \A i \in 1..L + 1 : pos[i] \in Nat
  <2> DEFINE T == {m \in Nat : m <= L => pos[m + 1] \in Nat}
  <2>1. 0 \in T
    BY <1>7 DEF IntSize
  <2>2. ASSUME NEW m \in Nat, m \in T PROVE m + 1 \in T
    <3> SUFFICES ASSUME m + 1 <= L PROVE pos[(m + 1) + 1] \in Nat
      OBVIOUS
    <3>1. m + 1 \in 1..L /\ pos[m + 1] \in Nat
      BY <2>2, <1>1
    <3>2. pos[(m + 1) + 1] = pos[m + 1] + Size(m + 1) /\ Size(m + 1) \in Nat
      BY <3>1, <1>8, <1>1
    <3> QED BY <3>1, <3>2
  <2>3. Nat \subseteq T
    <3> HIDE DEF T
    <3> QED BY <2>1, <2>2, SetInduction
  <2>4. ASSUME NEW i \in 1..L + 1 PROVE pos[i] \in Nat
    <3>1. i - 1 \in Nat /\ i - 1 <= L /\ (i - 1) + 1 = i
      BY <1>1
    <3>2. i - 1 \in T
      BY ONLY <2>3, <3>1
    <3> QED BY <3>1, <3>2
  <2> QED BY <2>4
<1>10. 1 \in 1..L + 1 /\ \A i \in 1..L : i \in 1..L + 1 /\ i + 1 \in 1..L + 1
  BY <1>1
<1> QED BY <1>1, <1>2, <1>7, <1>8, <1>9, <1>10 DEF Size

(* Later fields begin behind the end of earlier ones.                      *)
LEMMA OffsetGrows ==
  ASSUME NEW schema \in Seq(FieldDefs), NEW i \in 1..Len(schema), NEW j \in 1..Len(schema) + 1, i < j
  PROVE  Offset(schema, i) + LengthInBytes(schema[i]) <= Offset(schema, j)
<1> DEFINE L == Len(schema)
           T == {m \in Nat : i + 1 + m <= L + 1 => Offset(schema, i + 1) <= Offset(schema, i + 1 + m)}
<1>1. L \in Nat
  OBVIOUS
<1>2. 0 \in T
  <2>1. Offset(schema, i + 1) \in Nat /\ i + 1 + 0 = i + 1
    BY OffsetFacts
  <2> QED BY <2>1
<1>3. ASSUME NEW m \in Nat, m \in T PROVE m + 1 \in T
  <2> SUFFICES ASSUME i + 1 + (m + 1) <= L + 1 PROVE Offset(schema, i + 1) <= Offset(schema, i + 1 + (m + 1))
    OBVIOUS
  <2>1. PICK k \in 1..L : k = i + 1 + m
    BY <1>1
  <2>2. Offset(schema, i + 1) <= Offset(schema, k) /\ i + 1 + (m + 1) = k + 1
    BY <2>1, <1>3
  <2>3. /\ Offset(schema, k + 1) = Offset(schema, k) + LengthInBytes(schema[k])
        /\ LengthInBytes(schema[k]) \in Nat /\ Offset(schema, k) \in Nat /\ Offset(schema, i + 1) \in Nat
    BY <2>1, OffsetFacts
  <2> QED BY <2>2, <2>3
<1>4. Nat \subseteq T
  <2> HIDE DEF T
  <2> QED BY <1>2, <1>3, SetInduction
<1>5. PICK m \in Nat : j = i + 1 + m
  <2>1. j - (i + 1) \in Nat /\ j = i + 1 + (j - (i + 1))
    OBVIOUS
  <2> QED BY <2>1
<1>6. Offset(schema, i + 1) <= Offset(schema, j)
  BY <1>4, <1>5
<1>7. Offset(schema, i + 1) = Offset(schema, i) + LengthInBytes(schema[i])
  BY OffsetFacts
<1> QED BY <1>6, <1>7

(* The layout computed from a schema fits it.                              *)
LEMMA LayoutFits ==
  ASSUME NEW schema \in Seq(FieldDefs), NEW l,
         l.fields = schema, l.slotsize = SlotSize(schema),
         l.offsets = [i \in DOMAIN schema |-> Offset(schema, i)]
  PROVE  Fits(l, schema)
<1> DEFINE L == Len(schema)
<1>1. DOMAIN schema = 1..L /\ L \in Nat
  OBVIOUS
<1>2. ASSUME NEW i \in 1..L PROVE l.offsets[i] >= IntSize
  <2>1. l.offsets[i] = Offset(schema, i) /\ Offset(schema, i) \in Nat /\ Offset(schema, 1) = IntSize
    BY <1>1, OffsetFacts
  <2>2. CASE i = 1
    BY <2>1, <2>2 DEF IntSize
  <2>3. CASE i # 1
    <3>1. 1 \in 1..L /\ i \in 1..L + 1 /\ 1 < i
      BY <2>3
    <3>2. Offset(schema, 1) + LengthInBytes(schema[1]) <= Offset(schema, i) /\ LengthInBytes(schema[1]) \in Nat
      BY <3>1, OffsetGrows, OffsetFacts
    <3> QED BY <2>1, <3>2 DEF IntSize
  <2> QED BY <2>2, <2>3
<1>3. ASSUME NEW i \in 1..L PROVE l.offsets[i] + LengthInBytes(schema[i]) <= l.slotsize
  <2>1. L + 1 \in 1..L + 1 /\ i < L + 1
    BY <1>1
  <2>2. Offset(schema, i) + LengthInBytes(schema[i]) <= Offset(schema, L + 1)
    BY <2>1, OffsetGrows
  <2> QED BY <2>2, <1>1 DEF SlotSize
<1>4. ASSUME NEW i \in 1..L, NEW j \in 1..L, i < j
      PROVE  l.offsets[i] + LengthInBytes(schema[i]) <= l.offsets[j]
  <2>1. j \in 1..L + 1
    BY <1>1
  <2>2. Offset(schema, i) + LengthInBytes(schema[i]) <= Offset(schema, j)
    BY <2>1, <1>4, OffsetGrows
  <2> QED BY <2>2, <1>1
<1>5. ASSUME NEW i \in DOMAIN schema, NEW j \in DOMAIN schema \ {i}
      PROVE  \/ l.offsets[i] + LengthInBytes(schema[i]) <= l.offsets[j]
             \/ l.offsets[j] + LengthInBytes(schema[j]) <= l.offsets[i]
  <2>1. i \in 1..L /\ j \in 1..L /\ (i < j \/ j < i)
    BY <1>1
  <2>2. CASE i < j
    BY <2>1, <2>2, <1>4
  <2>3. CASE j < i
    BY <2>1, <2>3, <1>4
  <2> QED BY <2>1, <2>2, <2>3
<1> QED BY <1>1, <1>2, <1>3, <1>5 DEF Fits

(***************************************************************************)
(* The rows of a catalog that belong to a table.                           *)
(***************************************************************************)
Walk(g, S, rows, n) ==
  /\ g \in [0..Len(rows) -> Seq(S)]
  /\ g[0] = << >>
  /\ \A i \in 1..Len(rows) : g[i] = IF rows[i].table = n THEN Append(g[i - 1], rows[i]) ELSE g[i - 1]
  /\ RowsOf(rows, n) = g[Len(rows)]

(* RowsOf walks through the rows and takes those of the table.             *)
LEMMA RowsOfWalk ==
  ASSUME NEW S, NEW rows \in Seq(S), NEW n
  PROVE  \E g : Walk(g, S, rows, n)
<1> DEFINE L == Len(rows)
           Eq(f) == f = [i \in 0..L |-> IF i = 0 THEN << >> ELSE IF rows[i].table = n THEN Append(f[i - 1], rows[i]) ELSE f[i - 1]]
           of == CHOOSE f : Eq(f)
<1>1. L \in Nat /\ \A i \in 1..L : rows[i] \in S
  OBVIOUS
<1>2. RowsOf(rows, n) = of[L]
  BY DEF RowsOf
<1>3. PICK g \in [0..L -> Seq(S)] :
        /\ g[0] = << >>
        /\ \A i \in 1..L : g[i] = IF rows[i].table = n THEN Append(g[i - 1], rows[i]) ELSE g[i - 1]
  <2> DEFINE step == [p \in Nat \X Seq(S) |->
                        IF p[1] \in 1..L /\ rows[p[1]].table = n THEN Append(p[2], rows[p[1]]) ELSE p[2]]
  <2>1. step \in StepRules(Seq(S)) /\ << >> \in Seq(S)
    <3>1. ASSUME NEW p \in Nat \X Seq(S) PROVE step[p] \in Seq(S)
      <4>1. p[2] \in Seq(S) /\ (p[1] \in 1..L => Append(p[2], rows[p[1]]) \in Seq(S))
        BY <1>1
      <4> QED BY <4>1
    <3>2. step \in [Nat \X Seq(S) -> Seq(S)]
      BY <3>1
    <3> QED BY <3>2 DEF StepRules
  <2>2. PICK g : g \in Recursions(Seq(S), << >>, step, L)
    <3> HIDE DEF step, L
    <3>1. L \in Nat
      BY <1>1
    <3>2. PICK X : X = Seq(S)
      OBVIOUS
    <3>3. PICK e : e = << >>
      OBVIOUS
    <3>4. step \in StepRules(X) /\ e \in X
      BY ONLY <2>1, <3>2, <3>3
    <3>5. Recursions(X, e, step, L) # {}
      BY ONLY <3>4, <3>1, RecursionExists
    <3> QED BY ONLY <3>2, <3>3, <3>5
  <2>3. g \in [0..L -> Seq(S)] /\ g[0] = << >> /\ \A i \in 1..L : g[i] = step[<<i, g[i - 1]>>]
    <3> HIDE DEF step, L
    <3> QED BY <2>2 DEF Recursions
  <2>4. ASSUME NEW i \in 1..L PROVE g[i] = IF rows[i].table = n THEN Append(g[i - 1], rows[i]) ELSE g[i - 1]
    <3>1. i - 1 \in 0..L /\ i \in Nat
      BY <1>1
    <3>2. g[i - 1] \in Seq(S)
      BY <3>1, <2>3
    <3>3. PICK h \in Seq(S) : h = g[i - 1]
      BY <3>2
    <3>4. <<i, h>> \in Nat \X Seq(S)
      BY <3>1
    <3>5. step[<<i, h>>] = IF rows[i].table = n THEN Append(h, rows[i]) ELSE h
      BY <3>4
    <3> QED BY <3>3, <3>5, <2>3
  <2> QED BY <2>3, <2>4
<1>4. \E f : Eq(f)
  <2>1. g = [i \in 0..L |-> g[i]]
    OBVIOUS
  <2>2. ASSUME NEW i \in 0..L
        PROVE  g[i] = IF i = 0 THEN << >> ELSE IF rows[i].table = n THEN Append(g[i - 1], rows[i]) ELSE g[i - 1]
    <3>1. i = 0 \/ i \in 1..L
      BY <1>1
    <3> QED BY <3>1, <1>3
  <2>3. Eq(g)
    BY <2>1, <2>2
  <2> HIDE DEF Eq
  <2> QED BY <2>3
<1>5. Eq(of)
  BY <1>4
<1> HIDE DEF of
<1>6. ASSUME NEW i \in 0..L
      PROVE  of[i] = IF i = 0 THEN << >> ELSE IF rows[i].table = n THEN Append(of[i - 1], rows[i]) ELSE of[i - 1]
  BY <1>5
<1> HIDE DEF Eq
<1>7. \A i \in 0..L : of[i] = g[i]
  <2> DEFINE T == {m \in Nat : m <= L => of[m] = g[m]}
  <2>1. 0 \in T
    BY <1>6, <1>3, <1>1
  <2>2. ASSUME NEW m \in Nat, m \in T PROVE m + 1 \in T
    <3> SUFFICES ASSUME m + 1 <= L PROVE of[m + 1] = g[m + 1]
      OBVIOUS
    <3>1. m + 1 \in 1..L /\ m + 1 \in 0..L /\ m + 1 # 0 /\ (m + 1) - 1 = m /\ m <= L
      BY <1>1
    <3>2. of[m] = g[m]
      BY <2>2, <3>1
    <3>3. PICK k : k = m + 1
      OBVIOUS
    <3>4. k \in 0..L /\ k # 0 /\ k \in 1..L /\ of[k - 1] = g[k - 1]
      BY <3>1, <3>2, <3>3
    <3>5. of[k] = g[k]
      BY <3>4, <1>6, <1>3
    <3> QED BY <3>5, <3>3
  <2>3. Nat \subseteq T
    <3> HIDE DEF T
    <3> QED BY <2>1, <2>2, SetInduction
  <2>4. ASSUME NEW i \in 0..L PROVE of[i] = g[i]
    <3>1. i \in Nat /\ i <= L
      BY <1>1
    <3>2. i \in T
      BY ONLY <2>3, <3>1
    <3> QED BY <3>1, <3>2
  <2> QED BY <2>4
<1>8. RowsOf(rows, n) = g[L]
  BY <1>1, <1>2, <1>7
<1>9. Walk(g, S, rows, n)
  BY <1>3, <1>8 DEF Walk
<1> QED BY <1>9

(* The rows taken are rows.                                                *)
LEMMA RowsOfType ==
  ASSUME NEW S, NEW rows \in Seq(S), NEW n
  PROVE  RowsOf(rows, n) \in Seq(S)
<1>1. PICK g : Walk(g, S, rows, n)
  BY RowsOfWalk
<1>2. Len(rows) \in 0..Len(rows)
  OBVIOUS
<1> QED BY <1>1, <1>2 DEF Walk

(* There are none in an empty catalog.                                     *)
LEMMA RowsOfEmpty ==
  ASSUME NEW n
  PROVE  RowsOf(<< >>, n) = << >>
<1>1. << >> \in Seq({})
  OBVIOUS
<1>2. PICK e \in Seq({}) : e = << >>
  BY <1>1
<1>3. PICK g : Walk(g, {}, e, n)
  BY RowsOfWalk
<1>4. Len(e) = 0
  BY <1>2
<1> QED BY <1>2, <1>3, <1>4 DEF Walk

(* A new row is taken last, if it belongs to the table.                    *)
LEMMA RowsOfAppend ==
  ASSUME NEW S, NEW rows \in Seq(S), NEW x \in S, NEW n
  PROVE  RowsOf(Append(rows, x), n) = IF x.table = n THEN Append(RowsOf(rows, n), x) ELSE RowsOf(rows, n)
<1>1. PICK more \in Seq(S) : more = Append(rows, x)
  <2>1. Append(rows, x) \in Seq(S)
    OBVIOUS
  <2> QED BY <2>1
<1>2. PICK L \in Nat : L = Len(rows)
  OBVIOUS
<1>3. Len(more) = L + 1 /\ more[L + 1] = x /\ \A i \in 1..L : more[i] = rows[i]
  BY <1>1, <1>2
<1>4. PICK g : Walk(g, S, rows, n)
  BY RowsOfWalk
<1>5. PICK h : Walk(h, S, more, n)
  BY RowsOfWalk
<1>6. h[L] = g[L]
  <2> DEFINE T == {m \in Nat : m <= L => h[m] = g[m]}
  <2>1. 0 \in T
    BY <1>4, <1>5 DEF Walk
  <2>2. ASSUME NEW m \in Nat, m \in T PROVE m + 1 \in T
    <3> SUFFICES ASSUME m + 1 <= L PROVE h[m + 1] = g[m + 1]
      OBVIOUS
    <3>1. PICK k \in Nat : k = m + 1
      OBVIOUS
    <3>2. k \in 1..L /\ k - 1 = m /\ m <= L
      BY <3>1
    <3>3. h[k - 1] = g[k - 1] /\ more[k] = rows[k] /\ k \in 1..Len(more) /\ k \in 1..Len(rows)
      BY <3>2, <2>2, <1>3, <1>2
    <3>4. h[k] = g[k]
      BY ONLY <3>3, <1>4, <1>5 DEF Walk
    <3> QED BY <3>1, <3>4
  <2>3. Nat \subseteq T
    <3> HIDE DEF T
    <3> QED BY <2>1, <2>2, SetInduction
  <2>4. L \in T
    BY ONLY <2>3, <1>2
  <2> QED BY <2>4
<1>7. L + 1 \in 1..Len(more) /\ (L + 1) - 1 = L
  BY <1>3
<1>8. h[L + 1] = IF x.table = n THEN Append(h[L], x) ELSE h[L]
  <2>1. PICK k : k = L + 1
    OBVIOUS
  <2>2. k \in 1..Len(more) /\ k - 1 = L /\ more[k] = x
    BY <2>1, <1>7, <1>3
  <2>3. h[k] = IF more[k].table = n THEN Append(h[k - 1], more[k]) ELSE h[k - 1]
    BY ONLY <2>2, <1>5 DEF Walk
  <2> QED BY ONLY <2>1, <2>2, <2>3
<1>9. RowsOf(more, n) = h[L + 1] /\ RowsOf(rows, n) = g[L]
  BY <1>2, <1>3, <1>4, <1>5 DEF Walk
<1> QED BY ONLY <1>1, <1>6, <1>8, <1>9

(* Rows of other tables change nothing.                                    *)
LEMMA RowsOfOthers ==
  ASSUME NEW S, NEW rows \in Seq(S), NEW more \in Seq(S), NEW n, \A j \in 1..Len(more) : more[j].table # n
  PROVE  RowsOf(rows \o more, n) = RowsOf(rows, n)
<1> DEFINE T == {m \in Nat : m <= Len(more) => RowsOf(rows \o SubSeq(more, 1, m), n) = RowsOf(rows, n)}
<1>1. 0 \in T
  <2>1. rows \o SubSeq(more, 1, 0) = rows
    OBVIOUS
  <2> QED BY <2>1
<1>2. ASSUME NEW m \in Nat, m \in T PROVE m + 1 \in T
  <2> SUFFICES ASSUME m + 1 <= Len(more) PROVE RowsOf(rows \o SubSeq(more, 1, m + 1), n) = RowsOf(rows, n)
    OBVIOUS
  <2>1. PICK x \in S : x = more[m + 1] /\ x.table # n
    OBVIOUS
  <2>2. PICK before \in Seq(S) : before = rows \o SubSeq(more, 1, m)
    <3>1. rows \o SubSeq(more, 1, m) \in Seq(S)
      OBVIOUS
    <3> QED BY <3>1
  <2>3. rows \o SubSeq(more, 1, m + 1) = Append(before, x)
    BY <2>1, <2>2
  <2>4. RowsOf(Append(before, x), n) = RowsOf(before, n)
    BY <2>1, RowsOfAppend
  <2>5. RowsOf(before, n) = RowsOf(rows, n)
    BY <1>2, <2>2
  <2> QED BY ONLY <2>3, <2>4, <2>5
<1>3. Nat \subseteq T
  <2> HIDE DEF T
  <2> QED BY <1>1, <1>2, SetInduction
<1>4. PICK m \in Nat : m = Len(more) /\ SubSeq(more, 1, m) = more
  OBVIOUS
<1>5. m \in T
  BY ONLY <1>3, <1>4
<1>6. m <= Len(more)
  BY <1>4
<1>7. RowsOf(rows \o SubSeq(more, 1, m), n) = RowsOf(rows, n)
  BY ONLY <1>5, <1>6
<1> QED BY ONLY <1>4, <1>7

(* The first rows of a table are all taken.                                *)
LEMMA RowsOfOwn ==
  ASSUME NEW S, NEW rows \in Seq(S), NEW more \in Seq(S), NEW n, RowsOf(rows, n) = << >>,
         \A j \in 1..Len(more) : more[j].table = n
  PROVE  RowsOf(rows \o more, n) = more
<1> DEFINE T == {m \in Nat : m <= Len(more) => RowsOf(rows \o SubSeq(more, 1, m), n) = SubSeq(more, 1, m)}
<1>1. 0 \in T
  <2>1. rows \o SubSeq(more, 1, 0) = rows /\ SubSeq(more, 1, 0) = << >>
    OBVIOUS
  <2> QED BY <2>1
<1>2. ASSUME NEW m \in Nat, m \in T PROVE m + 1 \in T
  <2> SUFFICES ASSUME m + 1 <= Len(more) PROVE RowsOf(rows \o SubSeq(more, 1, m + 1), n) = SubSeq(more, 1, m + 1)
    OBVIOUS
  <2>1. PICK x \in S : x = more[m + 1] /\ x.table = n
    OBVIOUS
  <2>2. PICK before \in Seq(S) : before = rows \o SubSeq(more, 1, m)
    <3>1. rows \o SubSeq(more, 1, m) \in Seq(S)
      OBVIOUS
    <3> QED BY <3>1
  <2>3. rows \o SubSeq(more, 1, m + 1) = Append(before, x)
    BY <2>1, <2>2
  <2>4. RowsOf(Append(before, x), n) = Append(RowsOf(before, n), x)
    BY <2>1, RowsOfAppend
  <2>5. RowsOf(before, n) = SubSeq(more, 1, m)
    BY <1>2, <2>2
  <2>6. Append(SubSeq(more, 1, m), x) = SubSeq(more, 1, m + 1)
    BY <2>1
  <2> QED BY ONLY <2>3, <2>4, <2>5, <2>6
<1>3. Nat \subseteq T
  <2> HIDE DEF T
  <2> QED BY <1>1, <1>2, SetInduction
<1>4. PICK m \in Nat : m = Len(more) /\ SubSeq(more, 1, m) = more
  OBVIOUS
<1>5. m \in T
  BY ONLY <1>3, <1>4
<1>6. m <= Len(more)
  BY <1>4
<1>7. RowsOf(rows \o SubSeq(more, 1, m), n) = SubSeq(more, 1, m)
  BY ONLY <1>5, <1>6
<1> QED BY ONLY <1>4, <1>7

(***************************************************************************)
(* Catalogs: their type, a table that is not in them, and one that is in   *)
(* them as createTable wrote it.                                           *)
(***************************************************************************)
CatalogNames == {"tblcat", "fldcat", "viewcat", "idxcat"}
Names == Tables \cup CatalogNames
TableRowType == [table : Names, slotsize : Nat]
FieldRowType == [table : Names, field : FieldDefs, offset : Nat]
IndexRowType == [index : IndexNames, table : Tables, field : Fields, early : BOOLEAN]
CatalogType == [tables : Seq(TableRowType), fields : Seq(FieldRowType),
                views : Seq(Views), indexes : Seq(IndexRowType)]

NewRow(n, schema) == [table |-> n, slotsize |-> SlotSize(schema)]
NewFields(n, schema) == [i \in DOMAIN schema |-> [table |-> n, field |-> schema[i], offset |-> Offset(schema, i)]]

SameRows(c, d, n) == RowsOf(c.tables, n) = RowsOf(d.tables, n) /\ RowsOf(c.fields, n) = RowsOf(d.fields, n)
Absent(c, n) == RowsOf(c.tables, n) = << >> /\ RowsOf(c.fields, n) = << >>
Shows(c, n, schema) == RowsOf(c.tables, n) = << NewRow(n, schema) >> /\ RowsOf(c.fields, n) = NewFields(n, schema)

NamesOf(schema) == {schema[i].name : i \in DOMAIN schema}

(* The schemas of users are sequences of fields, with fields of users.     *)
LEMMA SchemasTyped ==
  ASSUME NEW schema \in Schemas
  PROVE  schema \in Seq(FieldDefs) /\ NamesOf(schema) \subseteq Fields
<1> DEFINE F == [name : Fields, type : {"int", "varchar", "bool"}, length : Nat]
<1>1. schema \in Seq(F)
  BY SchemasAssumption
<1>2. F \subseteq FieldDefs
  BY DEF FieldDefs
<1>3. ASSUME NEW i \in DOMAIN schema PROVE schema[i].name \in Fields
  <2>1. schema[i] \in F
    <3> HIDE DEF F
    <3> QED BY <1>1
  <2> QED BY <2>1
<1>4. NamesOf(schema) \subseteq Fields
  BY <1>3 DEF NamesOf
<1>5. schema \in [1..Len(schema) -> FieldDefs] /\ Len(schema) \in Nat
  <2> HIDE DEF F
  <2> QED BY <1>1, <1>2
<1> QED BY <1>4, <1>5

(* So are those of the catalogs.                                           *)
LEMMA CatalogSchemasTyped ==
  ASSUME NEW k \in DOMAIN Catalogs
  PROVE  Catalogs[k] \in CatalogNames /\ CatalogSchema(Catalogs[k]) \in Seq(FieldDefs)
<1> DEFINE Str(f) == StringField(f, MaxName)
<1>1. \A f \in CatalogFields : Str(f) \in FieldDefs /\ IntField(f) \in FieldDefs
  BY DEF FieldDefs, StringField, IntField, MaxName
<1>2. StringField("viewdef", MaxViewDef) \in FieldDefs
  BY DEF FieldDefs, StringField, MaxViewDef, CatalogFields
<1>3. Str("tblname") \in FieldDefs /\ IntField("slotsize") \in FieldDefs /\ Str("fldname") \in FieldDefs
      /\ IntField("type") \in FieldDefs /\ IntField("length") \in FieldDefs /\ IntField("offset") \in FieldDefs
      /\ Str("viewname") \in FieldDefs /\ Str("indexname") \in FieldDefs /\ Str("tablename") \in FieldDefs
      /\ Str("fieldname") \in FieldDefs
  BY <1>1 DEF CatalogFields
<1> HIDE DEF Str
<1>4. k \in 1..4
  BY DEF Catalogs
<1>5. CASE k = 1
  <2>1. Catalogs[k] = "tblcat" /\ CatalogSchema("tblcat") = << Str("tblname"), IntField("slotsize") >>
    BY <1>5 DEF Catalogs, CatalogSchema, Str
  <2>2. << Str("tblname"), IntField("slotsize") >> \in Seq(FieldDefs)
    BY <1>3
  <2>3. Catalogs[k] \in CatalogNames
    BY <2>1 DEF CatalogNames
  <2> QED BY <2>1, <2>2, <2>3
<1>6. CASE k = 2
  <2>1. Catalogs[k] = "fldcat"
        /\ CatalogSchema("fldcat") = << Str("tblname"), Str("fldname"), IntField("type"), IntField("length"), IntField("offset") >>
    BY <1>6 DEF Catalogs, CatalogSchema, Str
  <2>2. << Str("tblname"), Str("fldname"), IntField("type"), IntField("length"), IntField("offset") >> \in Seq(FieldDefs)
    BY <1>3
  <2>3. Catalogs[k] \in CatalogNames
    BY <2>1 DEF CatalogNames
  <2> QED BY <2>1, <2>2, <2>3
<1>7. CASE k = 3
  <2>1. Catalogs[k] = "viewcat" /\ CatalogSchema("viewcat") = << Str("viewname"), StringField("viewdef", MaxViewDef) >>
    BY <1>7 DEF Catalogs, CatalogSchema, Str
  <2>2. << Str("viewname"), StringField("viewdef", MaxViewDef) >> \in Seq(FieldDefs)
    BY <1>3, <1>2
  <2>3. Catalogs[k] \in CatalogNames
    BY <2>1 DEF CatalogNames
  <2> QED BY <2>1, <2>2, <2>3
<1>8. CASE k = 4
  <2>1. Catalogs[k] = "idxcat" /\ CatalogSchema("idxcat") = << Str("indexname"), Str("tablename"), Str("fieldname") >>
    BY <1>8 DEF Catalogs, CatalogSchema, Str
  <2>2. << Str("indexname"), Str("tablename"), Str("fieldname") >> \in Seq(FieldDefs)
    BY <1>3
  <2>3. Catalogs[k] \in CatalogNames
    BY <2>1 DEF CatalogNames
  <2> QED BY <2>1, <2>2, <2>3
<1> QED BY <1>4, <1>5, <1>6, <1>7, <1>8

(* The rows createTable writes.                                            *)
LEMMA NewRowsTyped ==
  ASSUME NEW n \in Names, NEW schema \in Seq(FieldDefs)
  PROVE  /\ NewRow(n, schema) \in TableRowType
         /\ NewFields(n, schema) \in Seq(FieldRowType)
         /\ Len(NewFields(n, schema)) = Len(schema)
         /\ \A j \in 1..Len(NewFields(n, schema)) : NewFields(n, schema)[j].table = n
<1>1. DOMAIN schema = 1..Len(schema) /\ Len(schema) \in Nat
  OBVIOUS
<1>2. Offset(schema, Len(schema) + 1) \in Nat
  <2>1. Len(schema) + 1 \in 1..Len(schema) + 1
    BY <1>1
  <2> QED BY <2>1, OffsetFacts
<1>3. ASSUME NEW i \in 1..Len(schema)
      PROVE  [table |-> n, field |-> schema[i], offset |-> Offset(schema, i)] \in FieldRowType
  <2>1. Offset(schema, i) \in Nat /\ schema[i] \in FieldDefs
    <3>1. i \in 1..Len(schema) + 1
      BY <1>1
    <3> QED BY <3>1, OffsetFacts
  <2> QED BY <2>1 DEF FieldRowType
<1>4. NewFields(n, schema) \in [1..Len(schema) -> FieldRowType]
  BY <1>1, <1>3 DEF NewFields
<1>5. NewFields(n, schema) \in Seq(FieldRowType) /\ Len(NewFields(n, schema)) = Len(schema)
  BY <1>4, <1>1
<1>6. \A j \in 1..Len(schema) : NewFields(n, schema)[j].table = n
  BY <1>1 DEF NewFields
<1> QED BY <1>2, <1>5, <1>6 DEF NewRow, SlotSize, TableRowType

(* createTable adds a row to tblcat and rows to fldcat.                    *)
LEMMA WithTableIs ==
  ASSUME NEW c \in CatalogType, NEW n \in Names, NEW schema \in Seq(FieldDefs)
  PROVE  /\ WithTable(c, n, schema) \in CatalogType
         /\ WithTable(c, n, schema).tables = Append(c.tables, NewRow(n, schema))
         /\ WithTable(c, n, schema).fields = c.fields \o NewFields(n, schema)
         /\ WithTable(c, n, schema).indexes = c.indexes
<1>1. c = [tables |-> c.tables, fields |-> c.fields, views |-> c.views, indexes |-> c.indexes]
      /\ c.tables \in Seq(TableRowType) /\ c.fields \in Seq(FieldRowType)
      /\ c.views \in Seq(Views) /\ c.indexes \in Seq(IndexRowType)
  BY DEF CatalogType
<1>2. WithTable(c, n, schema) =
        [tables |-> Append(c.tables, NewRow(n, schema)), fields |-> c.fields \o NewFields(n, schema),
         views |-> c.views, indexes |-> c.indexes]
  <2>1. WithTable(c, n, schema) =
          [c EXCEPT !.tables = Append(@, NewRow(n, schema)), !.fields = @ \o NewFields(n, schema)]
    BY DEF WithTable, NewRow, NewFields
  <2>2. PICK ts, fs, vs, is : c = [tables |-> ts, fields |-> fs, views |-> vs, indexes |-> is]
    BY <1>1
  <2> QED BY ONLY <2>1, <2>2
<1>3. Append(c.tables, NewRow(n, schema)) \in Seq(TableRowType)
  BY <1>1, NewRowsTyped
<1>4. c.fields \o NewFields(n, schema) \in Seq(FieldRowType)
  BY <1>1, NewRowsTyped
<1> QED BY <1>1, <1>2, <1>3, <1>4 DEF CatalogType

(* A new table is in the catalogs as it was created.                       *)
LEMMA WithTableShows ==
  ASSUME NEW c \in CatalogType, NEW n \in Names, NEW schema \in Seq(FieldDefs), Absent(c, n)
  PROVE  Shows(WithTable(c, n, schema), n, schema)
<1>1. c.tables \in Seq(TableRowType) /\ c.fields \in Seq(FieldRowType)
  BY DEF CatalogType
<1>2. NewRow(n, schema) \in TableRowType /\ NewRow(n, schema).table = n
  BY NewRowsTyped DEF NewRow
<1>3. RowsOf(Append(c.tables, NewRow(n, schema)), n) = Append(RowsOf(c.tables, n), NewRow(n, schema))
  BY <1>1, <1>2, RowsOfAppend
<1>4. RowsOf(c.fields \o NewFields(n, schema), n) = NewFields(n, schema)
  <2>1. RowsOf(c.fields, n) = << >>
    BY DEF Absent
  <2> QED BY <2>1, <1>1, NewRowsTyped, RowsOfOwn
<1>5. Append(RowsOf(c.tables, n), NewRow(n, schema)) = << NewRow(n, schema) >>
  BY DEF Absent
<1> QED BY <1>3, <1>4, <1>5, WithTableIs DEF Shows

(* The other tables stay as they are.                                      *)
LEMMA WithTableKeeps ==
  ASSUME NEW c \in CatalogType, NEW n \in Names, NEW schema \in Seq(FieldDefs), NEW m, m # n
  PROVE  SameRows(WithTable(c, n, schema), c, m)
<1>1. c.tables \in Seq(TableRowType) /\ c.fields \in Seq(FieldRowType)
  BY DEF CatalogType
<1>2. NewRow(n, schema) \in TableRowType /\ NewRow(n, schema).table = n
  BY NewRowsTyped DEF NewRow
<1>3. RowsOf(Append(c.tables, NewRow(n, schema)), m) = RowsOf(c.tables, m)
  BY <1>1, <1>2, RowsOfAppend
<1>4. RowsOf(c.fields \o NewFields(n, schema), m) = RowsOf(c.fields, m)
  <2>1. \A j \in 1..Len(NewFields(n, schema)) : NewFields(n, schema)[j].table # m
    BY NewRowsTyped
  <2> QED BY <2>1, <1>1, NewRowsTyped, RowsOfOthers
<1> QED BY <1>3, <1>4, WithTableIs DEF SameRows

(* What has the same rows has the same layout.                             *)
LEMMA SameRowsSame ==
  ASSUME NEW c, NEW d, NEW n, SameRows(c, d, n)
  PROVE  /\ GetLayout(c, n) = GetLayout(d, n)
         /\ FieldNames(c, n) = FieldNames(d, n)
         /\ \A type : FieldsOfType(c, n, type) = FieldsOfType(d, n, type)
         /\ Absent(d, n) => Absent(c, n)
         /\ \A schema : Shows(d, n, schema) => Shows(c, n, schema)
<1>1. GetLayout(c, n) = GetLayout(d, n)
  BY DEF SameRows, GetLayout
<1> QED BY <1>1 DEF SameRows, FieldNames, FieldsOfType, Absent, Shows

(* A table that is not there has no layout.                                *)
LEMMA AbsentLayout ==
  ASSUME NEW c, NEW n, Absent(c, n)
  PROVE  GetLayout(c, n).slotsize = -1 /\ FieldNames(c, n) = {}
<1>1. GetLayout(c, n).slotsize = -1
  BY DEF Absent, GetLayout
<1>2. GetLayout(c, n).fields = [i \in DOMAIN << >> |-> << >>[i].field] /\ DOMAIN << >> = {}
  BY DEF Absent, GetLayout
<1>3. DOMAIN GetLayout(c, n).fields = {}
  BY <1>2
<1> QED BY <1>1, <1>3 DEF FieldNames

(* A table that is there has the layout of its schema, which fits it.      *)
LEMMA ShowsLayout ==
  ASSUME NEW c, NEW n \in Names, NEW schema \in Seq(FieldDefs), Shows(c, n, schema)
  PROVE  /\ GetLayout(c, n).slotsize # -1
         /\ Fits(GetLayout(c, n), schema)
         /\ FieldNames(c, n) = NamesOf(schema)
<1>1. RowsOf(c.tables, n) = << NewRow(n, schema) >> /\ RowsOf(c.fields, n) = NewFields(n, schema)
  BY DEF Shows
<1>2. DOMAIN NewFields(n, schema) = DOMAIN schema /\ DOMAIN schema = 1..Len(schema)
  BY DEF NewFields
<1>3. \A i \in DOMAIN schema : NewFields(n, schema)[i].field = schema[i] /\ NewFields(n, schema)[i].offset = Offset(schema, i)
  BY DEF NewFields
<1>4. GetLayout(c, n).slotsize = SlotSize(schema)
  <2>1. GetLayout(c, n).slotsize = IF RowsOf(c.tables, n) = << >> THEN -1 ELSE RowsOf(c.tables, n)[1].slotsize
    BY DEF GetLayout
  <2>2. << NewRow(n, schema) >> # << >> /\ << NewRow(n, schema) >>[1].slotsize = SlotSize(schema)
    BY DEF NewRow
  <2> QED BY <1>1, <2>1, <2>2
<1>5. GetLayout(c, n).fields = [i \in DOMAIN schema |-> schema[i]]
  <2>1. GetLayout(c, n).fields = [i \in DOMAIN RowsOf(c.fields, n) |-> RowsOf(c.fields, n)[i].field]
    BY DEF GetLayout
  <2> QED BY <2>1, <1>1, <1>2, <1>3
<1>6. GetLayout(c, n).fields = schema
  BY <1>5
<1>7. GetLayout(c, n).offsets = [i \in DOMAIN schema |-> Offset(schema, i)]
  <2>1. GetLayout(c, n).offsets = [i \in DOMAIN RowsOf(c.fields, n) |-> RowsOf(c.fields, n)[i].offset]
    BY DEF GetLayout
  <2> QED BY <2>1, <1>1, <1>2, <1>3
<1>8. SlotSize(schema) \in Nat
  BY NewRowsTyped DEF NewRow, TableRowType
<1>9. Fits(GetLayout(c, n), schema)
  BY <1>4, <1>6, <1>7, LayoutFits
<1>10. FieldNames(c, n) = NamesOf(schema)
  BY <1>6 DEF FieldNames, NamesOf
<1> QED BY <1>4, <1>8, <1>9, <1>10

(***************************************************************************)
(* The inductive invariant.                                                *)
(***************************************************************************)
RecordValues == UNION {[F -> Vals \cup {0}] : F \in SUBSET Fields}
SlotType == [used : BOOLEAN, vals : RecordValues, given : SUBSET Fields]
EntryType == [field : Fields, val : Vals \cup {0}, slot : 1..MaxSlots]
ResultType == [state : {"none", "open", "ended"}, live : BOOLEAN]

TypesOK ==
  /\ exists \in BOOLEAN /\ formed \in BOOLEAN /\ badLog \in BOOLEAN
  /\ boot \in {"off", "creating", "up", "dead"}
  /\ catalog \in CatalogType /\ work \in CatalogType
  /\ files \in [Tables -> Seq(SlotType)] /\ \A n \in Tables : Len(files[n]) <= MaxSlots
  /\ entries \in [IndexNames -> SUBSET EntryType]
  /\ created \in [Tables -> Seq(Schemas)]
  /\ result \in ResultType /\ (result # NoResult => boot = "up")

\* The process runs with catalogs only after the first start has committed;
\* until then nothing is stored.
StartOK ==
  /\ formed => exists
  /\ boot = "up" => formed
  /\ boot = "creating" => exists /\ ~formed /\ work.indexes = << >>
  /\ ~formed => /\ catalog = NoCatalog
                /\ \A n \in Tables : files[n] = << >> /\ created[n] = << >>
                /\ \A i \in IndexNames : entries[i] = {}

\* Each catalog describes itself, the first start's transaction at work one
\* catalog after the other.
CatalogsOK ==
  /\ formed => \A k \in DOMAIN Catalogs : Shows(catalog, Catalogs[k], CatalogSchema(Catalogs[k]))
  /\ boot = "creating" =>
       /\ \A k \in DOMAIN Catalogs :
            Absent(work, Catalogs[k]) \/ Shows(work, Catalogs[k], CatalogSchema(Catalogs[k]))
       /\ \A n \in Tables : Absent(work, n)

\* What the catalogs say of the tables.
TablesOK ==
  \A n \in Tables : /\ created[n] = << >> => Absent(catalog, n)
                    /\ Known(n) => Shows(catalog, n, created[n][1])

\* A record has the fields of its table.
SlotsOK ==
  \A n \in Tables :
    /\ created[n] = << >> => files[n] = << >>
    /\ Known(n) => \A s \in DOMAIN files[n] :
         files[n][s].given \subseteq FieldNames(catalog, n) /\ DOMAIN files[n][s].vals = FieldNames(catalog, n)

\* An index of a table that does not exist yet, with a name of its own, is empty.
Alone(k) == \A j \in DOMAIN catalog.indexes \ {k} : catalog.indexes[j].index # catalog.indexes[k].index
IndexesOK ==
  \A k \in DOMAIN catalog.indexes :
    created[catalog.indexes[k].table] = << >> /\ Alone(k) => entries[catalog.indexes[k].index] = {}

\* Entries are those of an index that was created.
EntriesOK ==
  \A i \in IndexNames : entries[i] # {} => \E k \in DOMAIN catalog.indexes : catalog.indexes[k].index = i

IInv == /\ TypesOK /\ StartOK /\ CatalogsOK /\ TablesOK /\ SlotsOK
        /\ IndexesOK /\ EntriesOK /\ IndexMatchesRecords

(* The empty catalogs.                                                     *)
LEMMA NoCatalogFacts ==
  /\ NoCatalog \in CatalogType
  /\ NoCatalog.indexes = << >>
  /\ \A n : Absent(NoCatalog, n)
<1>1. NoCatalog \in CatalogType /\ NoCatalog.indexes = << >>
  BY DEF NoCatalog, CatalogType
<1>2. ASSUME NEW n PROVE Absent(NoCatalog, n)
  BY RowsOfEmpty DEF NoCatalog, Absent
<1> QED BY <1>1, <1>2

(* It holds at the beginning.                                              *)
LEMMA InitHolds == Init => IInv
<1> SUFFICES ASSUME Init PROVE IInv
  OBVIOUS
<1> USE DEF Init
<1>1. TypesOK
  <2>1. files \in [Tables -> Seq(SlotType)] /\ \A n \in Tables : Len(files[n]) <= MaxSlots
    <3>1. << >> \in Seq(SlotType) /\ Len(<< >>) <= MaxSlots
      BY BoundsAssumption
    <3> QED BY <3>1
  <2>2. created \in [Tables -> Seq(Schemas)]
    <3>1. << >> \in Seq(Schemas)
      OBVIOUS
    <3> QED BY <3>1
  <2>3. result \in ResultType /\ result = NoResult
    BY DEF NoResult, ResultType
  <2> QED BY <2>1, <2>2, <2>3, NoCatalogFacts DEF TypesOK
<1>2. StartOK
  BY DEF StartOK
<1>3. CatalogsOK
  BY DEF CatalogsOK
<1>4. TablesOK
  <2>1. \A n \in Tables : Absent(catalog, n) /\ ~Known(n)
    BY NoCatalogFacts DEF Known
  <2> QED BY <2>1 DEF TablesOK
<1>5. SlotsOK
  <2>1. \A n \in Tables : files[n] = << >> /\ ~Known(n)
    BY DEF Known
  <2> QED BY <2>1 DEF SlotsOK
<1>6. DOMAIN catalog.indexes = {}
  BY NoCatalogFacts
<1>7. IndexesOK /\ IndexMatchesRecords
  BY <1>6 DEF IndexesOK, IndexMatchesRecords
<1>8. EntriesOK
  BY DEF EntriesOK
<1> QED BY <1>1, <1>2, <1>3, <1>4, <1>5, <1>7, <1>8 DEF IInv

(***************************************************************************)
(* Records.                                                                *)
(***************************************************************************)
IndexedIn(records, f) ==
  {Entry(f, records[s].vals[f], s) : s \in {t \in DOMAIN records : records[t].used /\ f \in records[t].given}}

(* insert() finds a slot that is not used.                                 *)
LEMMA FreeSlotFound ==
  ASSUME TypesOK, NEW n \in Tables
  PROVE  /\ FreeSlot(n) \in 1..Len(files[n]) + 1
         /\ FreeSlot(n) > Len(files[n]) \/ ~files[n][FreeSlot(n)].used
<1>1. PICK records \in Seq(SlotType) : records = files[n]
  BY DEF TypesOK
<1>2. PICK L \in Nat : L = Len(records)
  OBVIOUS
<1> DEFINE Free == {s \in 1..L + 1 : s > L \/ ~records[s].used}
           Is(s) == (s > L \/ ~records[s].used) /\ \A r \in 1..s - 1 : records[r].used
<1>3. PICK s \in Free : \A r \in Free : s <= r
  <2>1. L + 1 \in Free /\ Free \subseteq Nat
    BY <1>2
  <2> HIDE DEF Free
  <2> QED BY <2>1, LeastExists
<1>4. s \in 1..L + 1 /\ Is(s)
  <2>1. ASSUME NEW r \in 1..s - 1 PROVE records[r].used
    <3>1. r \in 1..L + 1 /\ ~(s <= r) /\ ~(r > L)
      BY <1>2, <1>3
    <3>2. r \notin Free
      BY <3>1, <1>3
    <3> QED BY <3>1, <3>2
  <2> QED BY <1>3, <2>1
<1>5. FreeSlot(n) = CHOOSE t \in 1..L + 1 : Is(t)
  BY <1>1, <1>2 DEF FreeSlot
<1> HIDE DEF Free
<1>6. FreeSlot(n) \in 1..L + 1 /\ Is(FreeSlot(n))
  <2> HIDE DEF Is
  <2> QED BY <1>4, <1>5
<1> QED BY <1>1, <1>2, <1>6

\* What INSERT, DELETE and UPDATE do to the records of a table.
Inserted(records, s, rec) == IF s > Len(records) THEN Append(records, rec) ELSE [records EXCEPT ![s] = rec]
Deleted(records, sel) ==
  [t \in DOMAIN records |-> IF t \in sel THEN [records[t] EXCEPT !.used = FALSE] ELSE records[t]]
Modified(records, sel, g, w) ==
  [t \in DOMAIN records |-> IF t \in sel THEN WithValue(records[t], g, w) ELSE records[t]]
\* The entries the selected records have in an index of g, and those they get.
Left(records, sel, g) == {Entry(g, records[t].vals[g], t) : t \in sel}
Moved(sel, g, w) == {Entry(g, w, t) : t \in sel}
\* What is left of an index of f when it loses those of gone and gets those of new.
Exchanged(old, gone, new, f) == (old \ {e \in gone : e.field = f}) \cup {e \in new : e.field = f}
\* Selected records are there, and have both fields.
Eligible(records, sel, f, g) == \A t \in sel : records[t].used /\ {f, g} \subseteq DOMAIN records[t].vals

(* What an insertion adds to an index.                                     *)
LEMMA InsertIndexed ==
  ASSUME NEW records \in Seq(SlotType), NEW s \in 1..Len(records) + 1, NEW new, NEW f,
         s > Len(records) \/ ~records[s].used, new.used = TRUE
  PROVE  IndexedIn(Inserted(records, s, new), f) =
           IndexedIn(records, f) \cup (IF f \in new.given THEN {Entry(f, new.vals[f], s)} ELSE {})
<1> DEFINE In(t) == t \in DOMAIN records /\ records[t].used /\ f \in records[t].given
<1>0. PICK more : more = Inserted(records, s, new)
  OBVIOUS
<1>1. DOMAIN records = 1..Len(records) /\ Len(records) \in Nat
  OBVIOUS
<1>2. /\ s \in DOMAIN more /\ more[s] = new
      /\ \A t : t # s => ((t \in DOMAIN more) <=> (t \in DOMAIN records))
      /\ \A t \in DOMAIN records : t # s => more[t] = records[t]
      /\ ~In(s)
  <2>1. CASE s > Len(records)
    <3>1. s = Len(records) + 1 /\ more = Append(records, new)
      BY <2>1, <1>0, <1>1 DEF Inserted
    <3>2. DOMAIN more = 1..Len(records) + 1
      BY <3>1, <1>1
    <3> QED BY <3>1, <3>2, <2>1, <1>1
  <2>2. CASE ~(s > Len(records))
    <3>1. s \in DOMAIN records /\ ~records[s].used /\ more = [records EXCEPT ![s] = new]
      BY <2>2, <1>0, <1>1 DEF Inserted
    <3> QED BY <3>1, <2>2
  <2> QED BY <2>1, <2>2
<1>3. \A e : e \in IndexedIn(records, f) <=> \E t : In(t) /\ e = Entry(f, records[t].vals[f], t)
  BY DEF IndexedIn
<1>4. \A e : e \in IndexedIn(more, f) <=>
             \E t : t \in DOMAIN more /\ more[t].used /\ f \in more[t].given /\ e = Entry(f, more[t].vals[f], t)
  BY DEF IndexedIn
<1>5. ASSUME NEW e
      PROVE  e \in IndexedIn(more, f) <=> (e \in IndexedIn(records, f) \/ (f \in new.given /\ e = Entry(f, new.vals[f], s)))
  <2>1. ASSUME e \in IndexedIn(more, f)
        PROVE  e \in IndexedIn(records, f) \/ (f \in new.given /\ e = Entry(f, new.vals[f], s))
    <3>1. PICK t : t \in DOMAIN more /\ more[t].used /\ f \in more[t].given /\ e = Entry(f, more[t].vals[f], t)
      BY <2>1, <1>4
    <3>2. CASE t = s
      BY <3>1, <3>2, <1>2
    <3>3. CASE t # s
      <4>1. In(t) /\ more[t] = records[t]
        BY <3>1, <3>3, <1>2
      <4> QED BY <4>1, <3>1, <1>3
    <3> QED BY <3>2, <3>3
  <2>2. ASSUME e \in IndexedIn(records, f) PROVE e \in IndexedIn(more, f)
    <3>1. PICK t : In(t) /\ e = Entry(f, records[t].vals[f], t)
      BY <2>2, <1>3
    <3>2. t # s /\ t \in DOMAIN more /\ more[t] = records[t]
      BY <3>1, <1>2
    <3> QED BY <3>1, <3>2, <1>4
  <2>3. ASSUME f \in new.given /\ e = Entry(f, new.vals[f], s) PROVE e \in IndexedIn(more, f)
    BY <2>3, <1>2, <1>4
  <2> QED BY <2>1, <2>2, <2>3
<1> QED BY <1>0, <1>5

(* What a deletion takes from it.                                          *)
LEMMA DeleteIndexed ==
  ASSUME NEW records \in Seq(SlotType), NEW sel \in SUBSET (DOMAIN records), NEW f
  PROVE  IndexedIn(Deleted(records, sel), f) = IndexedIn(records, f) \ {Entry(f, records[t].vals[f], t) : t \in sel}
<1>0. PICK more : more = Deleted(records, sel)
  OBVIOUS
<1> DEFINE In(t) == t \in DOMAIN records /\ records[t].used /\ f \in records[t].given
<1>1. DOMAIN more = DOMAIN records /\ \A t \in DOMAIN records \ sel : more[t] = records[t]
  BY <1>0 DEF Deleted
<1>2. ASSUME NEW t \in sel PROVE ~more[t].used
  <2>1. records[t] \in SlotType
    OBVIOUS
  <2>2. more[t] = [records[t] EXCEPT !.used = FALSE]
    BY <1>0 DEF Deleted
  <2> QED BY <2>1, <2>2 DEF SlotType
<1>3. \A e : e \in IndexedIn(records, f) <=> \E t : In(t) /\ e = Entry(f, records[t].vals[f], t)
  BY DEF IndexedIn
<1>4. \A e : e \in IndexedIn(more, f) <=>
             \E t : t \in DOMAIN more /\ more[t].used /\ f \in more[t].given /\ e = Entry(f, more[t].vals[f], t)
  BY DEF IndexedIn
<1>5. \A a, b, t, u : Entry(f, a, t) = Entry(f, b, u) => t = u
  BY DEF Entry
<1>6. ASSUME NEW e
      PROVE  e \in IndexedIn(more, f) <=> (e \in IndexedIn(records, f) /\ e \notin {Entry(f, records[t].vals[f], t) : t \in sel})
  <2>1. ASSUME e \in IndexedIn(more, f)
        PROVE  e \in IndexedIn(records, f) /\ e \notin {Entry(f, records[t].vals[f], t) : t \in sel}
    <3>1. PICK t : t \in DOMAIN more /\ more[t].used /\ f \in more[t].given /\ e = Entry(f, more[t].vals[f], t)
      BY <2>1, <1>4
    <3>2. t \notin sel /\ In(t) /\ more[t] = records[t]
      BY <3>1, <1>1, <1>2
    <3>3. \A u \in sel : e # Entry(f, records[u].vals[f], u)
      BY <3>1, <3>2, <1>5
    <3> QED BY <3>1, <3>2, <3>3, <1>3
  <2>2. ASSUME e \in IndexedIn(records, f), e \notin {Entry(f, records[t].vals[f], t) : t \in sel}
        PROVE  e \in IndexedIn(more, f)
    <3>1. PICK t : In(t) /\ e = Entry(f, records[t].vals[f], t)
      BY <2>2, <1>3
    <3>2. t \notin sel
      BY <3>1, <2>2
    <3> QED BY <3>1, <3>2, <1>1, <1>4
  <2> QED BY <2>1, <2>2
<1> QED BY <1>0, <1>6

(* What a modification changes in it: only if it is of the field.          *)
LEMMA ModifyIndexed ==
  ASSUME NEW records \in Seq(SlotType), NEW sel \in SUBSET (DOMAIN records), NEW f, NEW g, NEW w,
         Eligible(records, sel, f, g)
  PROVE  IndexedIn(Modified(records, sel, g, w), f) =
           IF f = g THEN (IndexedIn(records, f) \ Left(records, sel, g)) \cup Moved(sel, g, w)
                    ELSE IndexedIn(records, f)
<1> DEFINE In(t) == t \in DOMAIN records /\ records[t].used /\ f \in records[t].given
<1>0. \A t \in DOMAIN records : records[t] \in SlotType
  BY ONLY records \in Seq(SlotType)
<1>10. PICK more : more = Modified(records, sel, g, w)
  OBVIOUS
<1>1. DOMAIN more = DOMAIN records /\ \A t \in DOMAIN records \ sel : more[t] = records[t]
  BY <1>10 DEF Modified
<1>2. ASSUME NEW t \in sel
      PROVE  /\ more[t].used = records[t].used
             /\ more[t].given = records[t].given \cup {g}
             /\ more[t].vals = [records[t].vals EXCEPT ![g] = w]
             /\ more[t].vals[g] = w
             /\ f # g => more[t].vals[f] = records[t].vals[f]
  <2>0. t \in DOMAIN records /\ f \in DOMAIN records[t].vals /\ g \in DOMAIN records[t].vals
    BY DEF Eligible
  <2>1. PICK r \in SlotType : r = records[t]
    BY <1>0, <2>0
  <2>2. more[t] = [r EXCEPT !.vals[g] = w, !.given = @ \cup {g}]
    BY <2>0, <2>1, <1>10 DEF Modified, WithValue
  <2>3. r = [used |-> r.used, vals |-> r.vals, given |-> r.given]
    BY DEF SlotType
  <2>4. /\ more[t].used = r.used
        /\ more[t].given = r.given \cup {g}
        /\ more[t].vals = [r.vals EXCEPT ![g] = w]
    BY ONLY <2>2, <2>3
  <2>5. PICK F : r.vals \in [F -> Vals \cup {0}]
    BY DEF SlotType, RecordValues
  <2>6. f \in F /\ g \in F
    BY ONLY <2>0, <2>1, <2>5
  <2>7. [r.vals EXCEPT ![g] = w][g] = w /\ (f # g => [r.vals EXCEPT ![g] = w][f] = r.vals[f])
    BY ONLY <2>5, <2>6
  <2> QED BY ONLY <2>1, <2>4, <2>7
<1>3. \A e : e \in IndexedIn(records, f) <=> \E t : In(t) /\ e = Entry(f, records[t].vals[f], t)
  BY DEF IndexedIn
<1>4. \A e : e \in IndexedIn(more, f) <=>
             \E t : t \in DOMAIN more /\ more[t].used /\ f \in more[t].given /\ e = Entry(f, more[t].vals[f], t)
  BY DEF IndexedIn
<1>5. \A a, b, t, u : Entry(f, a, t) = Entry(f, b, u) => t = u
  BY DEF Entry
<1>6. CASE f = g
  <2>1. ASSUME NEW t \in sel PROVE more[t].used /\ f \in more[t].given /\ more[t].vals[f] = w
    <3>1. more[t].used = records[t].used /\ more[t].given = records[t].given \cup {g} /\ more[t].vals[g] = w
      BY <1>2
    <3>2. records[t].used
      BY DEF Eligible
    <3> QED BY ONLY <3>1, <3>2, <1>6
  <2>2. ASSUME NEW e \in IndexedIn(more, f)
        PROVE  e \in (IndexedIn(records, f) \ {Entry(g, records[t].vals[g], t) : t \in sel})
                           \cup {Entry(g, w, t) : t \in sel}
    <3>1. PICK t : t \in DOMAIN more /\ more[t].used /\ f \in more[t].given /\ e = Entry(f, more[t].vals[f], t)
      BY <1>4
    <3>2. CASE t \in sel
      BY <3>1, <3>2, <2>1, <1>6
    <3>3. CASE t \notin sel
      <4>1. In(t) /\ more[t] = records[t]
        BY <3>1, <3>3, <1>1
      <4>2. ASSUME NEW u \in sel PROVE e # Entry(g, records[u].vals[g], u)
        <5>1. u # t /\ e = Entry(g, more[t].vals[f], t)
          BY <3>1, <3>3, <1>6
        <5> QED BY <5>1 DEF Entry
      <4> QED BY <3>1, <4>1, <4>2, <1>3
    <3> QED BY <3>2, <3>3
  <2>3. ASSUME NEW e \in IndexedIn(records, f), e \notin {Entry(g, records[t].vals[g], t) : t \in sel}
        PROVE  e \in IndexedIn(more, f)
    <3>1. PICK t : In(t) /\ e = Entry(f, records[t].vals[f], t)
      BY <1>3
    <3>2. t \notin sel
      BY <3>1, <2>3, <1>6
    <3> QED BY <3>1, <3>2, <1>1, <1>4
  <2>4. ASSUME NEW t \in sel PROVE Entry(g, w, t) \in IndexedIn(more, f)
    BY <2>1, <1>1, <1>4, <1>6
  <2>5. IndexedIn(more, f) = (IndexedIn(records, f) \ {Entry(g, records[t].vals[g], t) : t \in sel})
                               \cup {Entry(g, w, t) : t \in sel}
    BY <2>2, <2>3, <2>4
  <2> QED BY ONLY <2>5, <1>6, <1>10 DEF Left, Moved
<1>7. CASE f # g
  <2>1. ASSUME NEW t \in DOMAIN records
        PROVE  /\ more[t].used = records[t].used
               /\ (f \in more[t].given) <=> (f \in records[t].given)
               /\ more[t].vals[f] = records[t].vals[f]
    <3>1. CASE t \in sel
      <4>1. more[t].used = records[t].used /\ more[t].given = records[t].given \cup {g}
            /\ more[t].vals[f] = records[t].vals[f]
        BY ONLY <3>1, <1>2, <1>7
      <4>2. (f \in more[t].given) <=> (f \in records[t].given)
        BY ONLY <4>1, <1>7
      <4> QED BY ONLY <4>1, <4>2
    <3>2. CASE t \notin sel
      <4>1. more[t] = records[t]
        BY ONLY <3>2, <1>1, t \in DOMAIN records
      <4> QED BY ONLY <4>1
    <3> QED BY <3>1, <3>2
  <2>2. ASSUME NEW e, e \in IndexedIn(more, f) PROVE e \in IndexedIn(records, f)
    <3>1. PICK t \in DOMAIN records : more[t].used /\ f \in more[t].given /\ e = Entry(f, more[t].vals[f], t)
      BY ONLY <2>2, <1>1, <1>4
    <3>2. records[t].used /\ f \in records[t].given /\ e = Entry(f, records[t].vals[f], t)
      BY ONLY <3>1, <2>1
    <3> QED BY ONLY <3>2, <1>3, t \in DOMAIN records
  <2>3. ASSUME NEW e, e \in IndexedIn(records, f) PROVE e \in IndexedIn(more, f)
    <3>1. PICK t \in DOMAIN records : records[t].used /\ f \in records[t].given /\ e = Entry(f, records[t].vals[f], t)
      BY ONLY <2>3, <1>3
    <3>2. more[t].used /\ f \in more[t].given /\ e = Entry(f, more[t].vals[f], t)
      BY ONLY <3>1, <2>1
    <3> QED BY ONLY <3>2, <1>1, <1>4, t \in DOMAIN records
  <2>4. IndexedIn(more, f) = IndexedIn(records, f)
    BY <2>2, <2>3
  <2> QED BY ONLY <2>4, <1>7, <1>10
<1> QED BY <1>6, <1>7

(* The fields of a table created once are fields of users.                 *)
LEMMA KnownFields ==
  ASSUME TypesOK, TablesOK, NEW n \in Tables, Known(n)
  PROVE  FieldNames(catalog, n) \subseteq Fields /\ created[n] # << >>
<1>1. created[n] \in Seq(Schemas) /\ Len(created[n]) = 1
  BY DEF TypesOK, Known
<1>2. PICK schema \in Schemas : schema = created[n][1]
  BY <1>1
<1>3. schema \in Seq(FieldDefs) /\ NamesOf(schema) \subseteq Fields
  BY SchemasTyped
<1>4. Shows(catalog, n, schema)
  BY <1>2 DEF TablesOK
<1>5. FieldNames(catalog, n) = NamesOf(schema)
  BY <1>3, <1>4, ShowsLayout DEF Names
<1>6. created[n] # << >>
  <2> SUFFICES ASSUME created[n] = << >> PROVE FALSE
    OBVIOUS
  <2>1. Len(<< >>) = 0
    OBVIOUS
  <2> QED BY <1>1, <2>1
<1> QED BY <1>3, <1>5, <1>6

(* An int field is a field and no string.                                  *)
LEMMA TypesDiffer ==
  ASSUME TypesOK, TablesOK, NEW n \in Tables, Known(n), NEW f \in FieldsOfType(catalog, n, "int")
  PROVE  f \in FieldNames(catalog, n) /\ f \notin FieldsOfType(catalog, n, "varchar")
<1>1. created[n] \in Seq(Schemas) /\ Len(created[n]) = 1
  BY DEF TypesOK, Known
<1>2. PICK schema \in Schemas : schema = created[n][1]
  BY <1>1
<1>3. schema \in Seq(FieldDefs) /\ Shows(catalog, n, schema)
  BY <1>2, SchemasTyped DEF TablesOK
<1>4. GetLayout(catalog, n).fields = schema
  BY <1>3, ShowsLayout DEF Names, Fits
<1>5. PICK i \in DOMAIN schema : f = schema[i].name /\ schema[i].type = "int"
  BY <1>4 DEF FieldsOfType
<1>6. \A j \in DOMAIN schema : schema[j].name = f => schema[j].type = "int"
  BY <1>5, SchemasAssumption
<1>7. f \notin FieldsOfType(catalog, n, "varchar")
  BY <1>4, <1>6 DEF FieldsOfType
<1> QED BY <1>4, <1>5, <1>7 DEF FieldNames

(* The record an insertion writes.                                         *)
LEMMA RecordIs ==
  ASSUME TypesOK, TablesOK, SlotsOK, NEW n \in Tables, Known(n), NEW s \in 1..Len(files[n]) + 1,
         NEW values, DOMAIN values \subseteq FieldNames(catalog, n), \A f \in DOMAIN values : values[f] \in Vals
  PROVE  /\ Record(n, s, values) \in SlotType
         /\ Record(n, s, values).used = TRUE
         /\ Record(n, s, values).given = DOMAIN values
         /\ DOMAIN Record(n, s, values).vals = FieldNames(catalog, n)
         /\ \A f \in DOMAIN values : Record(n, s, values).vals[f] = values[f]
<1> DEFINE F == FieldNames(catalog, n)
           old == IF s <= Len(files[n]) THEN files[n][s].vals ELSE [f \in F |-> 0]
           vs == [f \in DOMAIN old |-> IF f \in DOMAIN values THEN values[f] ELSE old[f]]
<1>1. F \subseteq Fields
  BY KnownFields
<1>2. files[n] \in Seq(SlotType)
  BY DEF TypesOK
<1>3. DOMAIN old = F /\ \A f \in F : old[f] \in Vals \cup {0}
  <2>1. CASE s <= Len(files[n])
    <3>1. s \in DOMAIN files[n] /\ files[n][s] \in SlotType
      BY <2>1, <1>2
    <3>2. DOMAIN files[n][s].vals = F
      BY <3>1 DEF SlotsOK
    <3>3. files[n][s].vals \in RecordValues
      BY <3>1 DEF SlotType
    <3>4. PICK G : files[n][s].vals \in [G -> Vals \cup {0}]
      BY <3>3 DEF RecordValues
    <3>5. old = files[n][s].vals
      BY <2>1
    <3> QED BY ONLY <3>2, <3>4, <3>5
  <2>2. CASE ~(s <= Len(files[n]))
    BY <2>2
  <2> QED BY <2>1, <2>2
<1>4. Record(n, s, values) = [used |-> TRUE, vals |-> vs, given |-> DOMAIN values]
  BY DEF Record
<1> HIDE DEF old, F
<1>5. DOMAIN values \subseteq F /\ \A f \in DOMAIN values : values[f] \in Vals
  BY DEF F
<1>6. vs \in [F -> Vals \cup {0}] /\ \A f \in DOMAIN values : vs[f] = values[f]
  BY <1>3, <1>5
<1>7. vs \in RecordValues
  BY <1>1, <1>6 DEF RecordValues
<1>8. DOMAIN vs = F
  BY <1>6
<1> HIDE DEF vs
<1>9. Record(n, s, values) \in SlotType
  <2>1. DOMAIN values \in SUBSET Fields
    BY <1>1, <1>5
  <2> QED BY <1>4, <1>5, <1>7, <2>1 DEF SlotType
<1> QED BY <1>4, <1>5, <1>6, <1>8, <1>9 DEF F

(* getIndexInfo gives the newest index of the field.                       *)
LEMMA IndexInfoIs ==
  ASSUME NEW c \in CatalogType, NEW n, NEW f, IndexRows(c, n, f) # {}
  PROVE  \E k \in IndexRows(c, n, f) :
           /\ \A j \in IndexRows(c, n, f) : j <= k
           /\ f \in FieldNames(c, n) => f \in DOMAIN IndexInfo(c, n) /\ IndexInfo(c, n)[f] = c.indexes[k].index
<1>1. c.indexes \in Seq(IndexRowType)
  BY DEF CatalogType
<1>2. PICK R : R = IndexRows(c, n, f)
  OBVIOUS
<1>3. PICK L \in Nat : L = Len(c.indexes)
  BY <1>1
<1>4. R \subseteq Nat /\ R # {} /\ \A y \in R : y <= L
  BY <1>1, <1>2, <1>3 DEF IndexRows
<1>5. PICK k \in R : \A j \in R : j <= k
  BY ONLY <1>3, <1>4, GreatestExists
<1>6. Max(R) \in R /\ \A j \in R : j <= Max(R)
  <2>1. \A j \in R : k >= j
    BY <1>4, <1>5
  <2>2. Max(R) \in R /\ \A j \in R : Max(R) >= j
    BY ONLY <1>5, <2>1 DEF Max
  <2> QED BY <2>2, <1>4
<1>7. f \in FieldNames(c, n) => f \in DOMAIN IndexInfo(c, n) /\ IndexInfo(c, n)[f] = c.indexes[Max(R)].index
  BY <1>2 DEF IndexInfo
<1> QED BY <1>2, <1>6, <1>7

(* A field whose index has the name of a row, when no other row has it, is *)
(* the field of the row.                                                   *)
LEMMA FieldOfIndex ==
  ASSUME TypesOK, NEW k \in DOMAIN catalog.indexes, Alone(k), NEW r, r = catalog.indexes[k], NEW n,
         NEW f \in DOMAIN IndexInfo(catalog, n), IndexInfo(catalog, n)[f] = r.index
  PROVE  n = r.table /\ f = r.field
<1>1. catalog \in CatalogType
  BY DEF TypesOK
<1>2. f \in FieldNames(catalog, n) /\ IndexRows(catalog, n, f) # {}
  BY DEF IndexInfo
<1>3. PICK j \in IndexRows(catalog, n, f) : IndexInfo(catalog, n)[f] = catalog.indexes[j].index
  BY <1>1, <1>2, IndexInfoIs
<1>4. j \in DOMAIN catalog.indexes /\ catalog.indexes[j].table = n /\ catalog.indexes[j].field = f
  BY DEF IndexRows
<1>5. j = k
  BY <1>3, <1>4 DEF Alone
<1> QED BY <1>4, <1>5

(* A statement leaves the index of another table alone.                    *)
LEMMA ReindexedAway ==
  ASSUME TypesOK, NEW k \in DOMAIN catalog.indexes, Alone(k), NEW r, r = catalog.indexes[k],
         NEW n \in Tables, n # r.table, NEW gone, NEW new
  PROVE  Reindexed(n, gone, new)[r.index] = entries[r.index]
<1> DEFINE fs == {f \in DOMAIN IndexInfo(catalog, n) : IndexInfo(catalog, n)[f] = r.index}
<1>1. r \in IndexRowType
  <2>1. catalog.indexes \in Seq(IndexRowType)
    BY DEF TypesOK, CatalogType
  <2> QED BY <2>1
<1>2. Reindexed(n, gone, new)[r.index] =
        (entries[r.index] \ {e \in gone : e.field \in fs}) \cup {e \in new : e.field \in fs}
  BY <1>1 DEF Reindexed, IndexRowType
<1>3. fs = {}
  BY FieldOfIndex
<1> HIDE DEF fs
<1> QED BY <1>2, <1>3

(* What one does to a sound index of its table: only entries of its field  *)
(* go and come.                                                            *)
LEMMA ReindexedAt ==
  ASSUME TypesOK, NEW k \in DOMAIN catalog.indexes, Sound(k), NEW r, r = catalog.indexes[k],
         NEW n \in Tables, n = r.table, NEW gone, NEW new
  PROVE  Reindexed(n, gone, new)[r.index] = Exchanged(entries[r.index], gone, new, r.field)
<1> DEFINE fs == {f \in DOMAIN IndexInfo(catalog, n) : IndexInfo(catalog, n)[f] = r.index}
<1>1. catalog \in CatalogType /\ r \in IndexRowType
  <2>1. catalog.indexes \in Seq(IndexRowType)
    BY DEF TypesOK, CatalogType
  <2> QED BY <2>1 DEF TypesOK
<1>2. Reindexed(n, gone, new)[r.index] =
        (entries[r.index] \ {e \in gone : e.field \in fs}) \cup {e \in new : e.field \in fs}
  BY <1>1 DEF Reindexed, IndexRowType
<1>3. Alone(k) /\ IndexInfo(catalog, n)[r.field] = r.index /\ r.field \in FieldNames(catalog, n)
  BY DEF Sound, Alone, FieldsOfType, FieldNames
<1>4. k \in IndexRows(catalog, n, r.field)
  BY DEF IndexRows
<1>5. r.field \in DOMAIN IndexInfo(catalog, n)
  BY <1>3, <1>4 DEF IndexInfo
<1>6. \A f \in fs : f = r.field
  BY <1>3, FieldOfIndex
<1>7. fs = {r.field}
  BY <1>3, <1>5, <1>6
<1> HIDE DEF fs
<1> QED BY <1>2, <1>7 DEF Exchanged

(* Entries keep their type and belong to indexes that were created.        *)
LEMMA ReindexedTyped ==
  ASSUME TypesOK, EntriesOK, NEW n \in Tables, NEW gone, NEW new \in SUBSET EntryType
  PROVE  /\ Reindexed(n, gone, new) \in [IndexNames -> SUBSET EntryType]
         /\ \A i \in IndexNames : Reindexed(n, gone, new)[i] # {} =>
              \E k \in DOMAIN catalog.indexes : catalog.indexes[k].index = i
<1> DEFINE I == IndexInfo(catalog, n)
           fs(i) == {f \in DOMAIN I : I[f] = i}
<1>1. entries \in [IndexNames -> SUBSET EntryType] /\ catalog \in CatalogType
  BY DEF TypesOK
<1>2. Reindexed(n, gone, new) =
        [i \in IndexNames |-> (entries[i] \ {e \in gone : e.field \in fs(i)}) \cup {e \in new : e.field \in fs(i)}]
  BY DEF Reindexed
<1>3. ASSUME NEW i \in IndexNames, fs(i) # {}
      PROVE  \E k \in DOMAIN catalog.indexes : catalog.indexes[k].index = i
  <2>1. PICK f : f \in DOMAIN I /\ I[f] = i
    BY <1>3
  <2>2. f \in FieldNames(catalog, n) /\ IndexRows(catalog, n, f) # {}
    BY <2>1 DEF IndexInfo
  <2>3. PICK j \in IndexRows(catalog, n, f) : I[f] = catalog.indexes[j].index
    BY <2>2, <1>1, IndexInfoIs
  <2> QED BY <2>1, <2>3 DEF IndexRows
<1> HIDE DEF fs
<1>4. ASSUME NEW i \in IndexNames, Reindexed(n, gone, new)[i] # {}
      PROVE  \E k \in DOMAIN catalog.indexes : catalog.indexes[k].index = i
  <2>1. CASE fs(i) = {}
    <3>1. entries[i] # {}
      BY <1>2, <1>4, <2>1
    <3> QED BY <3>1 DEF EntriesOK
  <2>2. CASE fs(i) # {}
    BY <2>2, <1>3
  <2> QED BY <2>1, <2>2
<1>5. Reindexed(n, gone, new) \in [IndexNames -> SUBSET EntryType]
  BY <1>1, <1>2
<1> QED BY <1>4, <1>5

(***************************************************************************)
(* Every step keeps the invariant.                                         *)
(***************************************************************************)
Stored == TablesOK /\ SlotsOK /\ IndexesOK /\ EntriesOK /\ IndexMatchesRecords

(* What is said of the stored tables is not disturbed when they are left   *)
(* alone.                                                                  *)
LEMMA StoredKept ==
  ASSUME Stored, UNCHANGED << catalog, files, entries, created >>
  PROVE  Stored'
<1>1. TablesOK'
  BY DEF Stored, TablesOK, Known
<1>2. SlotsOK'
  BY DEF Stored, SlotsOK, Known
<1>3. IndexesOK'
  BY DEF Stored, IndexesOK, Alone
<1>4. EntriesOK'
  BY DEF Stored, EntriesOK
<1>5. IndexMatchesRecords'
  BY DEF Stored, IndexMatchesRecords, Sound, Known, EntriesOf
<1> QED BY <1>1, <1>2, <1>3, <1>4, <1>5 DEF Stored

(* The start of the process.                                               *)
LEMMA StartKeeps ==
  ASSUME IInv, Start
  PROVE  IInv'
<1> USE DEF IInv
<1>1. /\ boot = "off" /\ exists' = TRUE /\ files' = WithoutTemps(files)
      /\ boot' = IF ~exists THEN "creating" ELSE IF badLog THEN "dead" ELSE OpensCatalogs
      /\ work' = catalog
      /\ UNCHANGED << catalog, entries, badLog, result, ops, crashes, created, formed >>
  BY DEF Start, history
<1>2. OpensCatalogs \in {"dead", "up"} /\ (OpensCatalogs = "up" => GetLayout(catalog, "tblcat").slotsize # -1)
  BY DEF OpensCatalogs
<1>3. OpensCatalogs = "up" => formed
  <2> SUFFICES ASSUME ~formed PROVE GetLayout(catalog, "tblcat").slotsize = -1
    BY <1>2
  <2>1. Absent(catalog, "tblcat")
    BY NoCatalogFacts DEF StartOK
  <2> QED BY <2>1, AbsentLayout
<1>4. \A n \in Tables : files'[n] = IF n \in TempNames THEN << >> ELSE files[n]
  BY <1>1 DEF WithoutTemps
<1>5. TypesOK'
  <2>1. files \in [Tables -> Seq(SlotType)] /\ \A n \in Tables : Len(files[n]) <= MaxSlots
    BY DEF TypesOK
  <2>2. << >> \in Seq(SlotType) /\ Len(<< >>) <= MaxSlots
    BY BoundsAssumption
  <2>3. files' \in [Tables -> Seq(SlotType)]
    <3>1. WithoutTemps(files) \in [Tables -> Seq(SlotType)]
      BY <2>1, <2>2 DEF WithoutTemps
    <3> QED BY <3>1, <1>1
  <2>4. \A n \in Tables : Len(files'[n]) <= MaxSlots
    BY <2>1, <2>2, <1>4
  <2>5. boot' \in {"off", "creating", "up", "dead"}
    BY <1>1, <1>2
  <2>6. result' = NoResult
    BY <1>1 DEF TypesOK
  <2> QED BY <1>1, <2>3, <2>4, <2>5, <2>6 DEF TypesOK
<1>6. StartOK'
  <2>1. boot' = "up" => formed'
    BY <1>1, <1>2, <1>3
  <2>2. boot' = "creating" => ~exists
    BY <1>1, <1>2
  <2>3. ~formed => catalog = NoCatalog
    BY DEF StartOK
  <2>4. boot' = "creating" => exists' /\ ~formed' /\ work'.indexes = << >>
    BY <1>1, <2>2, <2>3, NoCatalogFacts DEF StartOK
  <2>5. ~formed' => /\ catalog' = NoCatalog
                    /\ \A n \in Tables : files'[n] = << >> /\ created'[n] = << >>
                    /\ \A i \in IndexNames : entries'[i] = {}
    BY <1>1, <1>4 DEF StartOK
  <2> QED BY <1>1, <2>1, <2>4, <2>5 DEF StartOK
<1>7. CatalogsOK'
  <2>1. boot' = "creating" => \A n : Absent(work', n)
    <3> SUFFICES ASSUME boot' = "creating" PROVE \A n : Absent(work', n)
      OBVIOUS
    <3>1. work' = NoCatalog
      BY <1>1, <1>2 DEF StartOK
    <3> QED BY <3>1, NoCatalogFacts
  <2>2. formed' => \A k \in DOMAIN Catalogs : Shows(catalog', Catalogs[k], CatalogSchema(Catalogs[k]))
    BY <1>1 DEF CatalogsOK
  <2> QED BY <2>1, <2>2 DEF CatalogsOK
<1>8. TablesOK'
  BY <1>1 DEF TablesOK, Known
<1>9. SlotsOK'
  <2> SUFFICES ASSUME NEW n \in Tables
               PROVE  /\ created'[n] = << >> => files'[n] = << >>
                      /\ Known(n)' => \A s \in DOMAIN files'[n] :
                           files'[n][s].given \subseteq FieldNames(catalog', n) /\ DOMAIN files'[n][s].vals = FieldNames(catalog', n)
    BY DEF SlotsOK
  <2>1. CASE n \in TempNames
    <3>1. files'[n] = << >> /\ DOMAIN << >> = {}
      BY <2>1, <1>4
    <3> QED BY <3>1
  <2>2. CASE n \notin TempNames
    <3>1. files'[n] = files[n] /\ created' = created /\ catalog' = catalog
      BY <2>2, <1>1, <1>4
    <3> QED BY <3>1 DEF SlotsOK, Known
  <2> QED BY <2>1, <2>2
<1>10. IndexesOK' /\ EntriesOK'
  BY <1>1 DEF IndexesOK, Alone, EntriesOK
<1>11. IndexMatchesRecords'
  <2> SUFFICES ASSUME NEW k \in DOMAIN catalog.indexes, Sound(k)'
               PROVE  entries[catalog.indexes[k].index] = EntriesOf(catalog.indexes[k].table, catalog.indexes[k].field)'
    BY <1>1 DEF IndexMatchesRecords
  <2>1. Sound(k)
    BY <1>1 DEF Sound, Known
  <2>2. catalog.indexes[k].table \in Tables \ TempNames
    <3>1. catalog.indexes[k] \in IndexRowType
      BY DEF TypesOK, CatalogType
    <3> QED BY <3>1, <2>1 DEF Sound, IndexRowType
  <2>3. files'[catalog.indexes[k].table] = files[catalog.indexes[k].table]
    BY <2>2, <1>4
  <2> QED BY <2>1, <2>3, <1>1 DEF EntriesOf, IndexMatchesRecords
<1> QED BY <1>5, <1>6, <1>7, <1>8, <1>9, <1>10, <1>11

(* One catalog more in the first start's transaction.                      *)
LEMMA CreateCatalogKeeps ==
  ASSUME IInv, CreateCatalog
  PROVE  IInv'
<1> USE DEF IInv
<1>1. /\ boot = "creating"
      /\ UNCHANGED << exists, catalog, files, entries, badLog, boot, result, ops, crashes, created, formed >>
  BY DEF CreateCatalog, disk, history
<1>2. PICK k \in DOMAIN Catalogs :
        /\ GetLayout(work, Catalogs[k]).slotsize = -1
        /\ work' = WithTable(work, Catalogs[k], CatalogSchema(Catalogs[k]))
  BY DEF CreateCatalog
<1>3. PICK n \in CatalogNames, schema \in Seq(FieldDefs) : n = Catalogs[k] /\ schema = CatalogSchema(n)
  BY CatalogSchemasTyped
<1>4. n \in Names /\ n \notin Tables /\ work \in CatalogType
  BY NamesAssumption DEF TypesOK, Names, CatalogNames
<1>5. work' = WithTable(work, n, schema) /\ Absent(work, n)
  <2>1. Absent(work, n) \/ Shows(work, n, schema)
    BY <1>1, <1>3 DEF CatalogsOK
  <2>2. ~Shows(work, n, schema)
    BY <1>2, <1>3, <1>4, ShowsLayout
  <2> QED BY <2>1, <2>2, <1>2, <1>3
<1>6. TypesOK'
  BY <1>1, <1>4, <1>5, WithTableIs DEF TypesOK
<1>7. StartOK'
  <2>1. work'.indexes = << >>
    BY <1>1, <1>4, <1>5, WithTableIs DEF StartOK
  <2> QED BY <2>1, <1>1 DEF StartOK
<1>8. CatalogsOK'
  <2>1. ASSUME NEW j \in DOMAIN Catalogs
        PROVE  Absent(work', Catalogs[j]) \/ Shows(work', Catalogs[j], CatalogSchema(Catalogs[j]))
    <3>1. CASE Catalogs[j] = n
      <4>1. Shows(WithTable(work, n, schema), n, schema)
        BY <1>4, <1>5, WithTableShows
      <4> QED BY <4>1, <3>1, <1>3, <1>5
    <3>2. CASE Catalogs[j] # n
      <4>1. SameRows(WithTable(work, n, schema), work, Catalogs[j])
        BY <3>2, <1>4, WithTableKeeps
      <4> QED BY <4>1, <1>1, <1>5, SameRowsSame DEF CatalogsOK
    <3> QED BY <3>1, <3>2
  <2>2. ASSUME NEW m \in Tables PROVE Absent(work', m)
    <3>1. m # n
      BY <1>4
    <3>2. SameRows(WithTable(work, n, schema), work, m)
      BY <3>1, <1>4, WithTableKeeps
    <3> QED BY <3>2, <1>1, <1>5, SameRowsSame DEF CatalogsOK
  <2> QED BY <2>1, <2>2, <1>1 DEF CatalogsOK
<1>9. Stored'
  BY <1>1, StoredKept DEF Stored
<1> QED BY <1>6, <1>7, <1>8, <1>9 DEF Stored

(* The end of the first start.                                             *)
LEMMA CommitStartKeeps ==
  ASSUME IInv, CommitStart
  PROVE  IInv'
<1> USE DEF IInv
<1>1. /\ boot = "creating" /\ catalog' = work /\ boot' = "up" /\ formed' = TRUE
      /\ \A k \in DOMAIN Catalogs : GetLayout(work, Catalogs[k]).slotsize # -1
      /\ UNCHANGED << exists, files, entries, badLog, work, result, ops, crashes, created >>
  BY DEF CommitStart
<1>2. /\ ~formed /\ work.indexes = << >> /\ \A n \in Tables : files[n] = << >> /\ created[n] = << >>
      /\ \A i \in IndexNames : entries[i] = {}
  BY <1>1 DEF StartOK
<1>3. TypesOK'
  BY <1>1 DEF TypesOK
<1>4. exists
  BY <1>1 DEF StartOK
<1>5. StartOK'
  BY <1>1, <1>4 DEF StartOK
<1>6. CatalogsOK'
  <2>1. ASSUME NEW k \in DOMAIN Catalogs
        PROVE  Shows(work, Catalogs[k], CatalogSchema(Catalogs[k]))
    <3>1. ~Absent(work, Catalogs[k])
      BY <1>1, AbsentLayout
    <3> QED BY <3>1, <1>1 DEF CatalogsOK
  <2> QED BY <2>1, <1>1 DEF CatalogsOK
<1>7. TablesOK'
  <2>1. ASSUME NEW n \in Tables PROVE Absent(work, n) /\ created'[n] = << >> /\ ~(Known(n)')
    <3>1. Len(<< >>) = 0
      OBVIOUS
    <3> QED BY <3>1, <1>1, <1>2 DEF CatalogsOK, Known
  <2> QED BY <2>1, <1>1 DEF TablesOK
<1>8. SlotsOK'
  <2>1. \A n \in Tables : files'[n] = << >> /\ DOMAIN << >> = {}
    BY <1>1, <1>2
  <2> QED BY <2>1 DEF SlotsOK
<1>9. DOMAIN catalog'.indexes = {}
  BY <1>1, <1>2
<1>10. IndexesOK' /\ IndexMatchesRecords'
  BY <1>9 DEF IndexesOK, IndexMatchesRecords
<1>11. EntriesOK'
  BY <1>1, <1>2 DEF EntriesOK
<1> QED BY <1>3, <1>5, <1>6, <1>7, <1>8, <1>10, <1>11

(* The undo of a statement touches strings of records only.                *)
LEMMA WithoutStringsIs ==
  ASSUME TypesOK, NEW n \in Tables, NEW cells, NEW fs, fs = WithoutStrings(n, cells)
  PROVE  /\ fs \in [Tables -> Seq(SlotType)]
         /\ \A m \in Tables \ {n} : fs[m] = files[m]
         /\ Len(fs[n]) = Len(files[n]) /\ DOMAIN fs[n] = DOMAIN files[n]
         /\ \A s \in DOMAIN files[n] :
              /\ fs[n][s].used = files[n][s].used /\ fs[n][s].given = files[n][s].given
              /\ DOMAIN fs[n][s].vals = DOMAIN files[n][s].vals
              /\ \A f \in DOMAIN files[n][s].vals : << s, f >> \notin cells => fs[n][s].vals[f] = files[n][s].vals[f]
<1>1. files \in [Tables -> Seq(SlotType)]
  BY DEF TypesOK
<1>2. PICK records \in Seq(SlotType) : records = files[n]
  BY <1>1
<1> DEFINE Empty(s) == Emptied(records[s], s, cells)
           more == [s \in DOMAIN records |-> Empty(s)]
<1>3. fs = [files EXCEPT ![n] = more]
  BY <1>2 DEF WithoutStrings
<1>4. ASSUME NEW s \in DOMAIN records
      PROVE  /\ Empty(s) \in SlotType
             /\ Empty(s).used = records[s].used /\ Empty(s).given = records[s].given
             /\ DOMAIN Empty(s).vals = DOMAIN records[s].vals
             /\ \A f \in DOMAIN records[s].vals : << s, f >> \notin cells => Empty(s).vals[f] = records[s].vals[f]
  <2>1. PICK r \in SlotType : r = records[s]
    OBVIOUS
  <2>2. PICK F \in SUBSET Fields : r.vals \in [F -> Vals \cup {0}]
    BY DEF SlotType, RecordValues
  <2>3. PICK vs : vs = [f \in DOMAIN r.vals |-> IF << s, f >> \in cells THEN 0 ELSE r.vals[f]]
    OBVIOUS
  <2>4. vs \in [F -> Vals \cup {0}] /\ DOMAIN vs = DOMAIN r.vals
        /\ \A f \in DOMAIN r.vals : << s, f >> \notin cells => vs[f] = r.vals[f]
    BY ONLY <2>2, <2>3
  <2>5. vs \in RecordValues
    BY <2>4 DEF RecordValues
  <2>6. r = [used |-> r.used, vals |-> r.vals, given |-> r.given] /\ r.used \in BOOLEAN /\ r.given \in SUBSET Fields
    BY DEF SlotType
  <2>7. Empty(s) = [r EXCEPT !.vals = vs]
    BY <2>1, <2>3 DEF Emptied
  <2>8. Empty(s) = [used |-> r.used, vals |-> vs, given |-> r.given]
    BY ONLY <2>6, <2>7
  <2>9. Empty(s) \in SlotType /\ Empty(s).used = r.used /\ Empty(s).given = r.given /\ Empty(s).vals = vs
    BY ONLY <2>5, <2>6, <2>8 DEF SlotType
  <2> QED BY ONLY <2>1, <2>4, <2>9
<1> HIDE DEF Empty
<1>5. DOMAIN records = 1..Len(records) /\ Len(records) \in Nat
  OBVIOUS
<1>6. more \in [1..Len(records) -> SlotType] /\ \A s \in DOMAIN records : more[s] = Empty(s)
  BY <1>4, <1>5
<1>7. more \in Seq(SlotType) /\ Len(more) = Len(records) /\ DOMAIN more = DOMAIN records
  BY <1>5, <1>6
<1> HIDE DEF more
<1>8. fs \in [Tables -> Seq(SlotType)] /\ fs[n] = more /\ \A m \in Tables \ {n} : fs[m] = files[m]
  BY <1>1, <1>3, <1>7
<1> QED BY <1>2, <1>4, <1>6, <1>7, <1>8

(* Its undo in the indexes touches the keys it names.                      *)
LEMMA WithoutKeysIs ==
  ASSUME TypesOK, NEW keys, NEW es, es = WithoutKeys(keys)
  PROVE  /\ es \in [IndexNames -> SUBSET EntryType]
         /\ \A i \in IndexNames : /\ es[i] # {} => entries[i] # {}
                                  /\ (\A e \in entries[i] : << i, e >> \notin keys) => es[i] = entries[i]
<1>1. entries \in [IndexNames -> SUBSET EntryType]
  BY DEF TypesOK
<1> DEFINE Empty(i, e) == IF << i, e >> \in keys THEN [e EXCEPT !.val = 0] ELSE e
<1>2. ASSUME NEW i \in IndexNames, NEW e \in entries[i] PROVE Empty(i, e) \in EntryType
  <2>1. PICK x \in EntryType : x = e
    BY <1>1
  <2>2. [x EXCEPT !.val = 0] \in EntryType
    BY DEF EntryType
  <2> QED BY <2>1, <2>2
<1>3. es = [i \in IndexNames |-> {Empty(i, e) : e \in entries[i]}]
  BY DEF WithoutKeys
<1>4. ASSUME NEW i \in IndexNames, \A e \in entries[i] : << i, e >> \notin keys
      PROVE  {Empty(i, e) : e \in entries[i]} = entries[i]
  <2>1. \A e \in entries[i] : Empty(i, e) = e
    BY <1>4
  <2> HIDE DEF Empty
  <2> QED BY <2>1
<1> HIDE DEF Empty
<1> QED BY <1>2, <1>3, <1>4

(* No key of a sound index is among those of strings.                      *)
LEMMA SoundKeys ==
  ASSUME TypesOK, TablesOK, NEW k \in DOMAIN catalog.indexes, Sound(k), NEW n \in Tables, Known(n),
         NEW keys \in SUBSET Keys(n), NEW e
  PROVE  << catalog.indexes[k].index, e >> \notin keys
<1> SUFFICES ASSUME << catalog.indexes[k].index, e >> \in keys PROVE FALSE
  OBVIOUS
<1>1. PICK r : r = catalog.indexes[k]
  OBVIOUS
<1>2. << r.index, e >> \in Keys(n)
  BY <1>1
<1>3. PICK f \in Indexed(catalog, n, "varchar") : << r.index, e >> \in {IndexInfo(catalog, n)[f]} \X entries[IndexInfo(catalog, n)[f]]
  BY <1>2 DEF Keys
<1>4. f \in FieldsOfType(catalog, n, "varchar") /\ f \in DOMAIN IndexInfo(catalog, n) /\ IndexInfo(catalog, n)[f] = r.index
  BY <1>3 DEF Indexed
<1>5. Alone(k) /\ r.field \in FieldsOfType(catalog, r.table, "int")
  BY <1>1 DEF Sound, Alone
<1>6. n = r.table /\ f = r.field
  BY <1>1, <1>4, <1>5, FieldOfIndex
<1> QED BY <1>4, <1>5, <1>6, TypesDiffer

(* What is stored is as the invariant says after the undo.                 *)
LEMMA UndoneKeeps ==
  ASSUME IInv, NEW unread, Undone(unread), UNCHANGED << catalog, created >>
  PROVE  /\ Stored'
         /\ files' \in [Tables -> Seq(SlotType)] /\ \A n \in Tables : Len(files'[n]) <= MaxSlots
         /\ entries' \in [IndexNames -> SUBSET EntryType]
<1> USE DEF IInv
<1>1. CASE UNCHANGED << files, entries >>
  <2>1. Stored'
    BY <1>1, StoredKept DEF Stored
  <2> QED BY <2>1, <1>1 DEF TypesOK
<1>2. CASE ~(UNCHANGED << files, entries >>)
  <2>1. PICK n \in Tables : Known(n) /\ \E cells \in Replaced(n), keys \in SUBSET Keys(n) :
                              files' = WithoutStrings(n, cells) /\ entries' = WithoutKeys(keys)
    BY <1>2 DEF Undone
  <2>2. PICK cells \in Replaced(n), keys \in SUBSET Keys(n) :
          files' = WithoutStrings(n, cells) /\ entries' = WithoutKeys(keys)
    BY <2>1
  <2>3. PICK fs, es : fs = files' /\ es = entries'
    OBVIOUS
  <2>4. fs = WithoutStrings(n, cells) /\ es = WithoutKeys(keys)
    BY <2>2, <2>3
  <2>5. /\ fs \in [Tables -> Seq(SlotType)]
        /\ \A m \in Tables \ {n} : fs[m] = files[m]
        /\ Len(fs[n]) = Len(files[n]) /\ DOMAIN fs[n] = DOMAIN files[n]
        /\ \A s \in DOMAIN files[n] :
             /\ fs[n][s].used = files[n][s].used /\ fs[n][s].given = files[n][s].given
             /\ DOMAIN fs[n][s].vals = DOMAIN files[n][s].vals
             /\ \A f \in DOMAIN files[n][s].vals : << s, f >> \notin cells => fs[n][s].vals[f] = files[n][s].vals[f]
    BY <2>4, WithoutStringsIs
  <2>6. /\ es \in [IndexNames -> SUBSET EntryType]
        /\ \A i \in IndexNames : /\ es[i] # {} => entries[i] # {}
                                 /\ (\A e \in entries[i] : << i, e >> \notin keys) => es[i] = entries[i]
    BY <2>4, WithoutKeysIs
  <2>7. \A c \in cells : c[2] \in FieldsOfType(catalog, n, "varchar")
    BY DEF Replaced
  <2>8. \A m \in Tables : Len(fs[m]) <= MaxSlots
    BY <2>5 DEF TypesOK
  <2>9. \A k \in DOMAIN catalog.indexes : catalog.indexes[k] \in IndexRowType
    <3>1. catalog.indexes \in Seq(IndexRowType)
      BY DEF TypesOK, CatalogType
    <3> QED BY <3>1
  <2>10. TablesOK'
    BY DEF TablesOK, Known
  <2>11. SlotsOK'
    <3>1. ASSUME NEW m \in Tables
          PROVE  /\ created[m] = << >> => fs[m] = << >>
                 /\ Known(m) => \A s \in DOMAIN fs[m] :
                      fs[m][s].given \subseteq FieldNames(catalog, m) /\ DOMAIN fs[m][s].vals = FieldNames(catalog, m)
      <4>1. CASE m = n
        BY <4>1, <2>1, <2>5, KnownFields DEF SlotsOK
      <4>2. CASE m # n
        BY <4>2, <2>5 DEF SlotsOK
      <4> QED BY <4>1, <4>2
    <3> QED BY <3>1, <2>3 DEF SlotsOK, Known
  <2>12. IndexesOK'
    <3>1. ASSUME NEW k \in DOMAIN catalog.indexes, created[catalog.indexes[k].table] = << >>, Alone(k)
          PROVE  es[catalog.indexes[k].index] = {}
      BY <3>1, <2>6, <2>9 DEF IndexesOK, IndexRowType
    <3> QED BY <3>1, <2>3 DEF IndexesOK, Alone
  <2>13. EntriesOK'
    <3>1. ASSUME NEW i \in IndexNames, es[i] # {} PROVE \E k \in DOMAIN catalog.indexes : catalog.indexes[k].index = i
      BY <3>1, <2>6 DEF EntriesOK
    <3> QED BY <3>1, <2>3 DEF EntriesOK
  <2>14. IndexMatchesRecords'
    <3>1. ASSUME NEW k \in DOMAIN catalog.indexes, Sound(k), NEW r, r = catalog.indexes[k]
          PROVE  es[r.index] = IndexedIn(fs[r.table], r.field)
      <4>1. r.index \in IndexNames /\ r.table \in Tables
        BY <3>1, <2>9 DEF IndexRowType
      <4>2. \A e \in entries[r.index] : << r.index, e >> \notin keys
        BY <3>1, <2>1, SoundKeys
      <4>3. es[r.index] = entries[r.index]
        BY <4>1, <4>2, <2>6
      <4>4. entries[r.index] = IndexedIn(files[r.table], r.field)
        BY <3>1 DEF IndexMatchesRecords, EntriesOf, IndexedIn
      <4>5. IndexedIn(fs[r.table], r.field) = IndexedIn(files[r.table], r.field)
        <5>1. CASE r.table # n
          BY <5>1, <4>1, <2>5
        <5>2. CASE r.table = n
          <6>1. r.field \in FieldNames(catalog, n) /\ r.field \notin FieldsOfType(catalog, n, "varchar")
            BY <5>2, <3>1, <2>1, TypesDiffer DEF Sound
          <6>2. \A s : << s, r.field >> \notin cells
            BY <6>1, <2>7
          <6>3. PICK old, new, f : old = files[n] /\ new = fs[n] /\ f = r.field
            OBVIOUS
          <6>4. /\ DOMAIN new = DOMAIN old
                /\ \A s \in DOMAIN old :
                     new[s].used = old[s].used /\ new[s].given = old[s].given /\ new[s].vals[f] = old[s].vals[f]
            <7>1. \A s \in DOMAIN old : f \in DOMAIN old[s].vals
              BY <6>1, <6>3, <2>1 DEF SlotsOK
            <7> QED BY <7>1, <6>2, <6>3, <2>5
          <6>5. IndexedIn(new, f) = IndexedIn(old, f)
            BY ONLY <6>4 DEF IndexedIn, Entry
          <6> QED BY <6>3, <6>5, <5>2
        <5> QED BY <5>1, <5>2
      <4> QED BY <4>3, <4>4, <4>5
    <3>2. \A k : Sound(k)' <=> Sound(k)
      BY DEF Sound, Known
    <3>3. \A m, f : EntriesOf(m, f)' = IndexedIn(fs[m], f)
      BY <2>3 DEF EntriesOf, IndexedIn
    <3> QED BY <3>1, <3>2, <3>3, <2>3 DEF IndexMatchesRecords
  <2> QED BY <2>3, <2>5, <2>6, <2>8, <2>10, <2>11, <2>12, <2>13, <2>14 DEF Stored
<1> QED BY <1>1, <1>2

(* The end of the process.                                                 *)
LEMMA CrashKeeps ==
  ASSUME IInv, Crash
  PROVE  IInv'
<1> USE DEF IInv
<1>1. /\ boot' = "off" /\ result' = NoResult /\ work' = NoCatalog
      /\ UNCHANGED << exists, catalog, created, formed >>
      /\ badLog' \in BOOLEAN
  BY DEF Crash, history
<1>2. NoResult \in ResultType
  BY DEF NoResult, ResultType
<1>3. PICK unread \in BOOLEAN : IF boot = "up" THEN Undone(unread) ELSE UNCHANGED << files, entries >>
  BY DEF Crash
<1>4. /\ Stored'
      /\ files' \in [Tables -> Seq(SlotType)] /\ \A n \in Tables : Len(files'[n]) <= MaxSlots
      /\ entries' \in [IndexNames -> SUBSET EntryType]
  <2>1. CASE boot = "up"
    <3>1. Undone(unread) /\ UNCHANGED << catalog, created >>
      BY <1>1, <1>3, <2>1
    <3> QED BY <3>1, UndoneKeeps
  <2>2. CASE boot # "up"
    <3>1. UNCHANGED << catalog, files, entries, created >>
      BY <1>1, <1>3, <2>2
    <3>2. Stored'
      BY <3>1, StoredKept DEF Stored
    <3> QED BY <3>1, <3>2 DEF TypesOK
  <2> QED BY <2>1, <2>2
<1>5. TypesOK'
  BY <1>1, <1>2, <1>4, NoCatalogFacts DEF TypesOK
<1>6. StartOK' /\ CatalogsOK'
  <2>1. ~formed => UNCHANGED << files, entries >>
    BY <1>3 DEF StartOK
  <2> QED BY <2>1, <1>1 DEF StartOK, CatalogsOK
<1> QED BY <1>4, <1>5, <1>6 DEF Stored

(* What every statement leaves alone.                                      *)
LEMMA CalledKeeps ==
  ASSUME IInv, Called
  PROVE  /\ boot = "up" /\ formed /\ result = NoResult
         /\ UNCHANGED << exists, work, result, crashes, formed >>
<1>1. /\ boot = "up" /\ result = NoResult
      /\ UNCHANGED << exists, work, result, crashes, formed >>
  BY DEF Called
<1> QED BY <1>1 DEF IInv, StartOK

LEMMA ExecutesKeeps ==
  ASSUME IInv, Executes
  PROVE  /\ boot = "up" /\ formed /\ result = NoResult
         /\ UNCHANGED << exists, boot, work, result, crashes, formed >>
<1>1. Called /\ UNCHANGED boot
  BY DEF Executes
<1> QED BY <1>1, CalledKeeps

(* A statement that throws, and one that ends the process.                 *)
LEMMA FailuresKeep ==
  ASSUME IInv, UpdateFails \/ UpdateKills
  PROVE  IInv'
<1> USE DEF IInv
<1>1. Called /\ UNCHANGED << catalog, created >> /\ boot' \in {"up", "dead"} /\ badLog' \in BOOLEAN
  BY DEF UpdateFails, UpdateKills
<1>2. PICK unread \in BOOLEAN : Undone(unread)
  BY DEF UpdateFails, UpdateKills
<1>3. /\ Stored'
      /\ files' \in [Tables -> Seq(SlotType)] /\ \A n \in Tables : Len(files'[n]) <= MaxSlots
      /\ entries' \in [IndexNames -> SUBSET EntryType]
  BY <1>1, <1>2, UndoneKeeps
<1>4. boot = "up" /\ formed /\ result = NoResult /\ UNCHANGED << exists, work, result, crashes, formed >>
  BY <1>1, CalledKeeps
<1>5. TypesOK'
  BY <1>1, <1>3, <1>4 DEF TypesOK
<1>6. StartOK' /\ CatalogsOK'
  BY <1>1, <1>4 DEF StartOK, CatalogsOK
<1> QED BY <1>3, <1>5, <1>6 DEF Stored

(* Result sets.                                                            *)
LEMMA ResultSetsKeep ==
  ASSUME IInv, ExecuteQuery \/ FetchRow \/ NextFails \/ ColumnFails \/ CloseResult \/ DeadScan
  PROVE  IInv'
<1> USE DEF IInv
<1>1. /\ boot = "up" /\ boot' \in {"up", "dead"} /\ UNCHANGED << exists, catalog, files, entries, badLog, work, created, formed >>
  BY DEF ExecuteQuery, FetchRow, NextFails, ColumnFails, CloseResult, DeadScan, Session, disk, history
<1>2. result' \in ResultType /\ (boot' = "up" \/ result' = NoResult)
  <2>1. PICK s \in {"none", "open", "ended"}, l \in BOOLEAN : result = [state |-> s, live |-> l]
    BY DEF TypesOK, ResultType
  <2>2. NoResult \in ResultType
    BY DEF NoResult, ResultType
  <2>3. CASE ExecuteQuery \/ CloseResult \/ DeadScan
    <3>1. [state |-> "open", live |-> TRUE] \in ResultType
      BY DEF ResultType
    <3> QED BY <3>1, <2>2, <2>3, <1>1 DEF ExecuteQuery, CloseResult, DeadScan
  <2>4. CASE FetchRow
    <3>1. [state |-> s, live |-> l] \in ResultType /\ [state |-> "ended", live |-> l] \in ResultType
      BY DEF ResultType
    <3>2. result' \in {[state |-> s, live |-> l], [state |-> "ended", live |-> l]}
      BY <2>1, <2>4 DEF FetchRow
    <3> QED BY <3>1, <3>2, <2>4, <1>1 DEF FetchRow
  <2>5. CASE NextFails
    <3>1. [state |-> "ended", live |-> FALSE] \in ResultType
      BY DEF ResultType
    <3> QED BY <3>1, <2>5, <1>1 DEF NextFails
  <2>6. CASE ColumnFails
    <3>1. [state |-> s, live |-> FALSE] \in ResultType
      BY DEF ResultType
    <3>2. result' = [state |-> s, live |-> FALSE]
      BY <2>1, <2>6 DEF ColumnFails
    <3> QED BY <3>1, <3>2, <2>6, <1>1 DEF ColumnFails
  <2> QED BY <2>3, <2>4, <2>5, <2>6
<1>3. TypesOK'
  BY <1>1, <1>2 DEF TypesOK
<1>4. StartOK' /\ CatalogsOK'
  BY <1>1 DEF StartOK, CatalogsOK
<1>5. Stored'
  BY <1>1, StoredKept DEF Stored
<1> QED BY <1>3, <1>4, <1>5 DEF Stored

(* CREATE TABLE.  A table created again is known no more.                  *)
LEMMA CreateTableKeeps ==
  ASSUME IInv, NEW n \in Tables, NEW schema \in Schemas, CreateTable(n, schema)
  PROVE  IInv'
<1> USE DEF IInv
<1>1. /\ Executes
      /\ catalog' = WithTable(catalog, n, schema)
      /\ created' = [created EXCEPT ![n] = Append(@, schema)]
      /\ UNCHANGED << files, entries, badLog >>
  BY DEF CreateTable
<1>2. /\ boot = "up" /\ formed
      /\ UNCHANGED << exists, boot, work, result, crashes, formed >>
  BY <1>1, ExecutesKeeps
<1>3. n \in Names /\ schema \in Seq(FieldDefs) /\ catalog \in CatalogType
  BY SchemasTyped DEF Names, TypesOK
<1>4. catalog' \in CatalogType /\ catalog'.indexes = catalog.indexes
  BY <1>1, <1>3, WithTableIs
<1>5. ASSUME NEW m, m # n
      PROVE  /\ FieldNames(catalog', m) = FieldNames(catalog, m)
             /\ \A type : FieldsOfType(catalog', m, type) = FieldsOfType(catalog, m, type)
             /\ Absent(catalog, m) => Absent(catalog', m)
             /\ \A s : Shows(catalog, m, s) => Shows(catalog', m, s)
  <2>1. SameRows(catalog', catalog, m)
    BY <1>1, <1>3, <1>5, WithTableKeeps
  <2> QED BY <2>1, SameRowsSame
<1>6. created \in [Tables -> Seq(Schemas)]
  BY DEF TypesOK
<1>7. /\ created' \in [Tables -> Seq(Schemas)]
      /\ \A m \in Tables \ {n} : created'[m] = created[m]
      /\ created'[n] = Append(created[n], schema)
  BY <1>1, <1>6
<1>8. /\ created'[n] # << >>
      /\ Known(n)' => created[n] = << >> /\ created'[n][1] = schema
  <2>1. PICK s \in Seq(Schemas) : s = created[n]
    BY <1>6
  <2>2. Append(s, schema) # << >> /\ (Len(Append(s, schema)) = 1 => s = << >> /\ Append(s, schema)[1] = schema)
    OBVIOUS
  <2> QED BY <2>1, <2>2, <1>7 DEF Known
<1>9. \A m \in Tables \ {n} : Known(m)' <=> Known(m)
  BY <1>7 DEF Known
<1>10. TypesOK'
  BY <1>1, <1>2, <1>4, <1>7 DEF TypesOK
<1>11. StartOK'
  BY <1>2 DEF StartOK
<1>12. CatalogsOK'
  <2>1. ASSUME NEW k \in DOMAIN Catalogs
        PROVE  Shows(catalog', Catalogs[k], CatalogSchema(Catalogs[k]))
    <3>1. Catalogs[k] # n
      BY CatalogSchemasTyped, NamesAssumption DEF CatalogNames
    <3> QED BY <3>1, <1>2, <1>5 DEF CatalogsOK
  <2> QED BY <2>1, <1>2 DEF CatalogsOK
<1>13. TablesOK'
  <2>1. ASSUME NEW m \in Tables
        PROVE  /\ created'[m] = << >> => Absent(catalog', m)
               /\ Known(m)' => Shows(catalog', m, created'[m][1])
    <3>1. CASE m = n
      <4>1. created[n] = << >> => Absent(catalog, n)
        BY DEF TablesOK
      <4>2. created[n] = << >> => Shows(catalog', n, schema)
        BY <4>1, <1>1, <1>3, WithTableShows
      <4> QED BY <4>2, <3>1, <1>8
    <3>2. CASE m # n
      BY <3>2, <1>5, <1>7, <1>9 DEF TablesOK
    <3> QED BY <3>1, <3>2
  <2> QED BY <2>1 DEF TablesOK
<1>14. SlotsOK'
  <2>1. ASSUME NEW m \in Tables
        PROVE  /\ created'[m] = << >> => files[m] = << >>
               /\ Known(m)' => \A s \in DOMAIN files[m] :
                    files[m][s].given \subseteq FieldNames(catalog', m) /\ DOMAIN files[m][s].vals = FieldNames(catalog', m)
    <3>1. CASE m = n
      <4>1. created[n] = << >> => files[n] = << >> /\ DOMAIN << >> = {}
        BY DEF SlotsOK
      <4> QED BY <4>1, <3>1, <1>8
    <3>2. CASE m # n
      <4>1. created'[m] = created[m] /\ (Known(m)' <=> Known(m)) /\ FieldNames(catalog', m) = FieldNames(catalog, m)
        BY <3>2, <1>5, <1>7, <1>9
      <4> QED BY <4>1 DEF SlotsOK
    <3> QED BY <3>1, <3>2
  <2> QED BY <2>1, <1>1 DEF SlotsOK
<1>15. \A k \in DOMAIN catalog.indexes : catalog.indexes[k].table \in Tables
  <2>1. catalog.indexes \in Seq(IndexRowType)
    BY DEF TypesOK, CatalogType
  <2>2. \A k \in DOMAIN catalog.indexes : catalog.indexes[k] \in IndexRowType
    BY <2>1
  <2> QED BY <2>2 DEF IndexRowType
<1>16. IndexesOK'
  <2>1. ASSUME NEW k \in DOMAIN catalog.indexes, created'[catalog.indexes[k].table] = << >>
        PROVE  created[catalog.indexes[k].table] = << >>
    BY <2>1, <1>7, <1>8, <1>15
  <2> QED BY <2>1, <1>1, <1>4 DEF IndexesOK, Alone
<1>17. EntriesOK'
  BY <1>1, <1>4 DEF EntriesOK
<1>18. IndexMatchesRecords'
  <2>1. ASSUME NEW k \in DOMAIN catalog.indexes, Sound(k)', NEW r, r = catalog.indexes[k]
        PROVE  entries[r.index] = EntriesOf(r.table, r.field)
    <3>1. /\ r.early /\ r.table \notin TempNames /\ Known(r.table)' /\ Alone(k)
          /\ r.field \in FieldsOfType(catalog', r.table, "int")
          /\ IndexInfo(catalog', r.table)[r.field] = r.index
      BY <2>1, <1>4 DEF Sound, Alone
    <3>2. r.table \in Tables
      BY <2>1, <1>15
    <3>3. CASE r.table = n
      <4>1. created[n] = << >>
        BY <3>1, <3>3, <1>8
      <4>2. entries[r.index] = {}
        BY <4>1, <3>1, <3>3, <2>1 DEF IndexesOK
      <4>3. files[n] = << >> /\ DOMAIN << >> = {}
        BY <4>1 DEF SlotsOK
      <4>4. EntriesOf(n, r.field) = {}
        BY <4>3 DEF EntriesOf
      <4> QED BY <4>2, <4>4, <3>3
    <3>4. CASE r.table # n
      <4>1. FieldNames(catalog', r.table) = FieldNames(catalog, r.table)
            /\ FieldsOfType(catalog', r.table, "int") = FieldsOfType(catalog, r.table, "int")
        BY <3>4, <1>5
      <4>2. IndexInfo(catalog', r.table) = IndexInfo(catalog, r.table)
        BY <4>1, <1>4 DEF IndexInfo, IndexRows
      <4>3. Known(r.table)
        BY <3>1, <3>2, <3>4, <1>9
      <4>4. Sound(k)
        BY <2>1, <3>1, <4>1, <4>2, <4>3 DEF Sound, Alone
      <4> QED BY <2>1, <4>4 DEF IndexMatchesRecords
    <3> QED BY <3>3, <3>4
  <2>2. \A m, f : EntriesOf(m, f)' = EntriesOf(m, f)
    BY <1>1 DEF EntriesOf
  <2> QED BY <2>1, <2>2, <1>1, <1>4 DEF IndexMatchesRecords
<1> QED BY <1>2, <1>10, <1>11, <1>12, <1>13, <1>14, <1>16, <1>17, <1>18

(* CREATE VIEW.                                                            *)
LEMMA CreateViewKeeps ==
  ASSUME IInv, NEW v \in Views, CreateView(v)
  PROVE  IInv'
<1> USE DEF IInv
<1>1. Executes /\ catalog' = [catalog EXCEPT !.views = Append(@, v)] /\ UNCHANGED << files, entries, badLog, created >>
  BY DEF CreateView
<1>2. /\ boot = "up" /\ formed
      /\ UNCHANGED << exists, boot, work, result, crashes, formed >>
  BY <1>1, ExecutesKeeps
<1>3. /\ catalog' \in CatalogType
      /\ catalog'.tables = catalog.tables /\ catalog'.fields = catalog.fields /\ catalog'.indexes = catalog.indexes
  <2>1. catalog \in CatalogType
    BY DEF TypesOK
  <2>2. PICK ts \in Seq(TableRowType), fs \in Seq(FieldRowType), vs \in Seq(Views), is \in Seq(IndexRowType) :
          catalog = [tables |-> ts, fields |-> fs, views |-> vs, indexes |-> is]
    BY <2>1 DEF CatalogType
  <2>3. catalog' = [tables |-> ts, fields |-> fs, views |-> Append(vs, v), indexes |-> is]
    BY ONLY <2>2, <1>1
  <2>4. Append(vs, v) \in Seq(Views)
    OBVIOUS
  <2> QED BY ONLY <2>2, <2>3, <2>4 DEF CatalogType
<1>4. \A m : SameRows(catalog', catalog, m)
  BY <1>3 DEF SameRows
<1>5. TypesOK'
  BY <1>1, <1>2, <1>3 DEF TypesOK
<1>6. StartOK'
  BY <1>2 DEF StartOK
<1>7. CatalogsOK'
  BY <1>2, <1>4, SameRowsSame DEF CatalogsOK
<1>8. \A m : FieldNames(catalog', m) = FieldNames(catalog, m)
             /\ (\A type : FieldsOfType(catalog', m, type) = FieldsOfType(catalog, m, type))
             /\ (Absent(catalog, m) => Absent(catalog', m))
             /\ \A s : Shows(catalog, m, s) => Shows(catalog', m, s)
  BY <1>4, SameRowsSame
<1>9. TablesOK'
  BY <1>1, <1>8 DEF TablesOK, Known
<1>10. SlotsOK' /\ IndexesOK' /\ EntriesOK'
  <2>1. SlotsOK'
    BY <1>1, <1>8 DEF SlotsOK, Known
  <2>2. IndexesOK'
    BY <1>1, <1>3 DEF IndexesOK, Alone
  <2>3. EntriesOK'
    BY <1>1, <1>3 DEF EntriesOK
  <2> QED BY <2>1, <2>2, <2>3
<1>11. IndexMatchesRecords'
  <2>1. \A m : IndexInfo(catalog', m) = IndexInfo(catalog, m)
    BY <1>3, <1>8 DEF IndexInfo, IndexRows
  <2>2. ASSUME NEW k \in DOMAIN catalog.indexes, Sound(k)'
        PROVE  entries[catalog.indexes[k].index] = EntriesOf(catalog.indexes[k].table, catalog.indexes[k].field)
    <3>1. Sound(k)
      BY <2>1, <2>2, <1>1, <1>3, <1>8 DEF Sound, Known
    <3> QED BY <3>1 DEF IndexMatchesRecords
  <2>3. \A m, f : EntriesOf(m, f)' = EntriesOf(m, f)
    BY <1>1 DEF EntriesOf
  <2> QED BY <2>2, <2>3, <1>1, <1>3 DEF IndexMatchesRecords
<1> QED BY <1>2, <1>5, <1>6, <1>7, <1>9, <1>10, <1>11

(* CREATE INDEX.  A sound index was sound before; a new one has no entries *)
(* yet, and its table no records.                                          *)
LEMMA CreateIndexKeeps ==
  ASSUME IInv, NEW i \in IndexNames, NEW n \in Tables, NEW f \in Fields, CreateIndex(i, n, f)
  PROVE  IInv'
<1> USE DEF IInv
<1> DEFINE early == \A s \in DOMAIN files[n] : ~files[n][s].used
           row == [index |-> i, table |-> n, field |-> f, early |-> early]
<1>1. Executes /\ catalog' = [catalog EXCEPT !.indexes = Append(@, row)] /\ UNCHANGED << files, entries, badLog, created >>
  BY DEF CreateIndex
<1>2. /\ boot = "up" /\ formed
      /\ UNCHANGED << exists, boot, work, result, crashes, formed >>
  BY <1>1, ExecutesKeeps
<1>5. row \in IndexRowType
  BY DEF IndexRowType
<1>6. PICK is \in Seq(IndexRowType) : is = catalog.indexes
  BY DEF TypesOK, CatalogType
<1>7. /\ catalog' \in CatalogType
      /\ catalog'.tables = catalog.tables /\ catalog'.fields = catalog.fields /\ catalog'.indexes = Append(is, row)
  <2> HIDE DEF row
  <2>1. catalog \in CatalogType
    BY DEF TypesOK
  <2>2. PICK ts \in Seq(TableRowType), fs \in Seq(FieldRowType), vs \in Seq(Views) :
          catalog = [tables |-> ts, fields |-> fs, views |-> vs, indexes |-> is]
    BY <2>1, <1>6 DEF CatalogType
  <2>3. catalog' = [tables |-> ts, fields |-> fs, views |-> vs, indexes |-> Append(is, row)]
    BY ONLY <2>2, <1>1
  <2>4. Append(is, row) \in Seq(IndexRowType)
    BY ONLY <1>5, <1>6
  <2> QED BY ONLY <2>2, <2>3, <2>4 DEF CatalogType
<1>8. PICK L \in Nat : L = Len(is)
  OBVIOUS
<1>9. PICK js : js = Append(is, row)
  OBVIOUS
<1>10. /\ DOMAIN is = 1..L /\ DOMAIN js = 1..L + 1 /\ L + 1 \notin 1..L
       /\ js[L + 1] = row /\ \A k \in 1..L : js[k] = is[k]
       /\ DOMAIN js = (1..L) \cup {L + 1}
  BY <1>5, <1>6, <1>8, <1>9
<1> HIDE DEF row
<1>11. row.index = i /\ row.table = n /\ row.field = f /\ (row.early => early)
  BY DEF row
<1>12. catalog'.indexes = js /\ catalog.indexes = is
  BY <1>6, <1>7, <1>9
<1>13. \A m : SameRows(catalog', catalog, m)
  BY <1>7 DEF SameRows
<1>14. \A m : FieldNames(catalog', m) = FieldNames(catalog, m)
             /\ (\A type : FieldsOfType(catalog', m, type) = FieldsOfType(catalog, m, type))
             /\ (Absent(catalog, m) => Absent(catalog', m))
             /\ \A s : Shows(catalog, m, s) => Shows(catalog', m, s)
  BY <1>13, SameRowsSame
<1>15. TypesOK'
  BY <1>1, <1>2, <1>7 DEF TypesOK
<1>16. StartOK'
  BY <1>2 DEF StartOK
<1>17. CatalogsOK'
  BY <1>2, <1>13, SameRowsSame DEF CatalogsOK
<1>18. TablesOK' /\ SlotsOK'
  BY <1>1, <1>14 DEF TablesOK, SlotsOK, Known
<1>19. IndexesOK'
  <2>1. ASSUME NEW k \in DOMAIN js, created[js[k].table] = << >>, \A j \in DOMAIN js \ {k} : js[j].index # js[k].index
        PROVE  entries[js[k].index] = {}
    <3>1. CASE k = L + 1
      <4>1. \A j \in DOMAIN is : is[j].index # i
        BY <2>1, <3>1, <1>10, <1>11
      <4> QED BY <4>1, <3>1, <1>10, <1>11, <1>12 DEF EntriesOK
    <3>2. CASE k # L + 1
      <4>1. k \in DOMAIN is /\ js[k] = is[k] /\ \A j \in DOMAIN is \ {k} : is[j].index # is[k].index
        BY <2>1, <3>2, <1>10
      <4> QED BY <4>1, <2>1, <1>12 DEF IndexesOK, Alone
    <3> QED BY <3>1, <3>2
  <2>2. \A k : Alone(k)' <=> \A j \in DOMAIN js \ {k} : js[j].index # js[k].index
    BY <1>12 DEF Alone
  <2> QED BY <2>1, <2>2, <1>1, <1>12 DEF IndexesOK
<1>20. EntriesOK'
  <2>1. ASSUME NEW j \in IndexNames, entries[j] # {}
        PROVE  \E k \in DOMAIN js : js[k].index = j
    <3>1. PICK k \in DOMAIN is : is[k].index = j
      BY <2>1, <1>12 DEF EntriesOK
    <3> QED BY <3>1, <1>10
  <2> QED BY <2>1, <1>1, <1>12 DEF EntriesOK
<1>21. IndexMatchesRecords'
  <2>1. ASSUME NEW k \in DOMAIN js, Sound(k)'
        PROVE  entries[js[k].index] = EntriesOf(js[k].table, js[k].field)
    <3>1. PICK r : r = js[k]
      OBVIOUS
    <3>2. /\ r.early /\ r.table \notin TempNames /\ Known(r.table)
          /\ r.field \in FieldNames(catalog, r.table) /\ r.field \in FieldsOfType(catalog, r.table, "int")
          /\ IndexInfo(catalog', r.table)[r.field] = r.index
          /\ \A j \in DOMAIN js \ {k} : js[j].index # r.index
      <4>1. /\ r.early /\ r.table \notin TempNames /\ Known(r.table)
            /\ r.field \in FieldsOfType(catalog, r.table, "int")
            /\ IndexInfo(catalog', r.table)[r.field] = r.index
            /\ \A j \in DOMAIN js \ {k} : js[j].index # r.index
        BY <2>1, <3>1, <1>1, <1>12, <1>14 DEF Sound, Known
      <4>2. r.field \in FieldNames(catalog, r.table)
        BY <4>1 DEF FieldsOfType, FieldNames
      <4> QED BY <4>1, <4>2
    <3>3. CASE k = L + 1
      <4>1. r = row
        BY <3>1, <3>3, <1>10
      <4>2. \A j \in DOMAIN is : is[j].index # i
        BY <3>2, <3>3, <4>1, <1>10, <1>11
      <4>3. entries[i] = {}
        BY <4>2, <1>12 DEF EntriesOK
      <4>4. EntriesOf(n, f) = {}
        BY <3>2, <4>1, <1>11 DEF EntriesOf
      <4> QED BY <4>1, <4>3, <4>4, <3>1, <1>11
    <3>4. CASE k # L + 1
      <4>1. k \in DOMAIN is /\ is[k] = r
        BY <3>1, <3>4, <1>10
      <4>2. r.index # i
        BY <3>2, <3>4, <1>10, <1>11
      <4>3. ~(r.table = n /\ r.field = f)
        <5> SUFFICES ASSUME r.table = n, r.field = f PROVE FALSE
          OBVIOUS
        <5>1. k \in IndexRows(catalog', n, f) /\ L + 1 \in IndexRows(catalog', n, f)
          BY <3>1, <1>10, <1>11, <1>12 DEF IndexRows
        <5>2. f \in FieldNames(catalog', n)
          BY <3>2, <1>14
        <5>3. PICK j \in IndexRows(catalog', n, f) :
                /\ \A h \in IndexRows(catalog', n, f) : h <= j
                /\ IndexInfo(catalog', n)[f] = catalog'.indexes[j].index
          <6>1. PICK c \in CatalogType : c = catalog'
            BY <1>7
          <6>2. PICK j \in IndexRows(c, n, f) :
                  /\ \A h \in IndexRows(c, n, f) : h <= j
                  /\ f \in FieldNames(c, n) => f \in DOMAIN IndexInfo(c, n) /\ IndexInfo(c, n)[f] = c.indexes[j].index
            BY <5>1, <6>1, IndexInfoIs
          <6> QED BY ONLY <6>1, <6>2, <5>2
        <5>4. j \in 1..L + 1 /\ L + 1 <= j
          BY <5>1, <5>3, <1>10, <1>12 DEF IndexRows
        <5>5. j = L + 1
          BY <5>4
        <5>6. IndexInfo(catalog', n)[f] = i
          BY <5>3, <5>5, <1>10, <1>11, <1>12
        <5> QED BY <5>6, <3>2, <4>2
      <4>4. IndexRows(catalog', r.table, r.field) = IndexRows(catalog, r.table, r.field)
        <5>1. \A j \in DOMAIN js : js[j].table = r.table /\ js[j].field = r.field => j \in DOMAIN is
          BY <4>3, <1>10, <1>11
        <5> QED BY <5>1, <1>10, <1>12 DEF IndexRows
      <4>5. k \in IndexRows(catalog, r.table, r.field)
        BY <4>1, <1>12 DEF IndexRows
      <4>6. r.field \in FieldNames(catalog, r.table)
        BY <3>2
      <4>7. PICK j \in IndexRows(catalog, r.table, r.field) :
              /\ \A h \in IndexRows(catalog, r.table, r.field) : h <= j
              /\ IndexInfo(catalog, r.table)[r.field] = is[j].index
        <5>1. PICK c \in CatalogType : c = catalog
          BY DEF TypesOK
        <5>2. PICK g : g = r.field
          OBVIOUS
        <5>3. PICK j \in IndexRows(c, r.table, g) :
                /\ \A h \in IndexRows(c, r.table, g) : h <= j
                /\ g \in FieldNames(c, r.table) =>
                     g \in DOMAIN IndexInfo(c, r.table) /\ IndexInfo(c, r.table)[g] = c.indexes[j].index
          BY <4>5, <5>1, <5>2, IndexInfoIs
        <5> QED BY ONLY <5>1, <5>2, <5>3, <4>6, <1>12
      <4>8. PICK h \in IndexRows(catalog, r.table, r.field) :
              /\ \A g \in IndexRows(catalog, r.table, r.field) : g <= h
              /\ IndexInfo(catalog', r.table)[r.field] = js[h].index
        <5>1. r.field \in FieldNames(catalog', r.table)
          BY <4>6, <1>14
        <5> QED BY <4>4, <4>5, <5>1, <1>7, <1>12, IndexInfoIs
      <4>9. j \in 1..L /\ h \in 1..L
        BY <4>7, <4>8, <1>10, <1>12 DEF IndexRows
      <4>10. j = h
        <5>1. j <= h /\ h <= j
          BY <4>7, <4>8
        <5> QED BY <5>1, <4>9
      <4>11. IndexInfo(catalog, r.table)[r.field] = r.index
        BY <4>7, <4>8, <4>9, <4>10, <3>2, <1>10
      <4>12. \A g \in DOMAIN is \ {k} : is[g].index # r.index
        BY <3>2, <1>10
      <4>13. Sound(k)
        BY <3>2, <4>1, <4>11, <4>12, <1>12 DEF Sound
      <4> QED BY <4>1, <4>13, <3>1, <1>12 DEF IndexMatchesRecords
    <3> QED BY <3>3, <3>4
  <2>2. \A m, g : EntriesOf(m, g)' = EntriesOf(m, g)
    BY <1>1 DEF EntriesOf
  <2> QED BY <2>1, <2>2, <1>1, <1>12 DEF IndexMatchesRecords
<1> QED BY <1>2, <1>15, <1>16, <1>17, <1>18, <1>19, <1>20, <1>21

\* A statement changes the records of n to more, and gives each index what
\* the change gives and takes.
Change(n, more, gone, new) ==
  /\ Executes /\ UNCHANGED << catalog, created >> /\ Known(n) /\ badLog' \in BOOLEAN
  /\ more \in Seq(SlotType) /\ Len(more) <= MaxSlots /\ files' = [files EXCEPT ![n] = more]
  /\ new \in SUBSET EntryType /\ entries' = Reindexed(n, gone, new)
  /\ \A s \in DOMAIN more : more[s].given \subseteq FieldNames(catalog, n) /\ DOMAIN more[s].vals = FieldNames(catalog, n)
  /\ \A f \in FieldNames(catalog, n) :
       IndexedIn(more, f) = (IndexedIn(files[n], f) \ {e \in gone : e.field = f}) \cup {e \in new : e.field = f}

(* Then the indexes match.                                                 *)
LEMMA ChangeKeeps ==
  ASSUME IInv, NEW n \in Tables, NEW more, NEW gone, NEW new, Change(n, more, gone, new)
  PROVE  IInv'
<1>0. /\ Executes /\ UNCHANGED << catalog, created >> /\ Known(n) /\ badLog' \in BOOLEAN
      /\ more \in Seq(SlotType) /\ Len(more) <= MaxSlots /\ files' = [files EXCEPT ![n] = more]
      /\ new \in SUBSET EntryType /\ entries' = Reindexed(n, gone, new)
      /\ \A s \in DOMAIN more : more[s].given \subseteq FieldNames(catalog, n) /\ DOMAIN more[s].vals = FieldNames(catalog, n)
      /\ \A f \in FieldNames(catalog, n) :
           IndexedIn(more, f) = (IndexedIn(files[n], f) \ {e \in gone : e.field = f}) \cup {e \in new : e.field = f}
  BY DEF Change
<1> USE DEF IInv
<1>1. /\ boot = "up" /\ formed
      /\ UNCHANGED << exists, boot, work, result, crashes, formed >>
  BY <1>0, ExecutesKeeps
<1>2. files \in [Tables -> Seq(SlotType)] /\ \A m \in Tables : Len(files[m]) <= MaxSlots
  BY DEF TypesOK
<1>3. files' \in [Tables -> Seq(SlotType)] /\ files'[n] = more /\ \A m \in Tables \ {n} : files'[m] = files[m]
  BY <1>0, <1>2
<1>4. entries' \in [IndexNames -> SUBSET EntryType]
      /\ \A i \in IndexNames : entries'[i] # {} => \E k \in DOMAIN catalog.indexes : catalog.indexes[k].index = i
  BY <1>0, ReindexedTyped
<1>5. TypesOK'
  <2>1. ASSUME NEW m \in Tables PROVE Len(files'[m]) <= MaxSlots
    BY <1>0, <1>2, <1>3
  <2> QED BY <2>1, <1>0, <1>1, <1>3, <1>4 DEF TypesOK
<1>6. StartOK' /\ CatalogsOK' /\ TablesOK' /\ IndexesOK'
  <2>1. StartOK'
    BY <1>0, <1>1 DEF StartOK
  <2>2. CatalogsOK'
    BY <1>0, <1>1 DEF CatalogsOK
  <2>3. TablesOK'
    BY <1>0 DEF TablesOK, Known
  <2>4. IndexesOK'
    <3>1. ASSUME NEW k \in DOMAIN catalog.indexes, NEW r, r = catalog.indexes[k], created[r.table] = << >>, Alone(k)
          PROVE  entries'[r.index] = {}
      <4>1. r.table # n /\ entries[r.index] = {}
        BY <3>1, <1>0, KnownFields DEF IndexesOK
      <4>2. TypesOK
        OBVIOUS
      <4>3. Reindexed(n, gone, new)[r.index] = entries[r.index]
        BY ONLY <4>1, <4>2, <3>1, k \in DOMAIN catalog.indexes, n \in Tables, ReindexedAway
      <4> QED BY <4>1, <4>3, <1>0
    <3> QED BY <3>1, <1>0 DEF IndexesOK, Alone
  <2> QED BY <2>1, <2>2, <2>3, <2>4
<1>7. SlotsOK'
  <2>1. ASSUME NEW m \in Tables
        PROVE  /\ created[m] = << >> => files'[m] = << >>
               /\ Known(m) => \A s \in DOMAIN files'[m] :
                    files'[m][s].given \subseteq FieldNames(catalog, m) /\ DOMAIN files'[m][s].vals = FieldNames(catalog, m)
    <3>1. CASE m = n
      BY <3>1, <1>0, <1>3, KnownFields
    <3>2. CASE m # n
      BY <3>2, <1>3 DEF SlotsOK
    <3> QED BY <3>1, <3>2
  <2> QED BY <2>1, <1>0 DEF SlotsOK, Known
<1>8. EntriesOK'
  BY <1>0, <1>4 DEF EntriesOK
<1>9. IndexMatchesRecords'
  <2>1. ASSUME NEW k \in DOMAIN catalog.indexes, Sound(k)
        PROVE  entries'[catalog.indexes[k].index] = IndexedIn(files'[catalog.indexes[k].table], catalog.indexes[k].field)
    <3>1. PICK r : r = catalog.indexes[k]
      OBVIOUS
    <3>2. r \in IndexRowType
      <4>1. catalog.indexes \in Seq(IndexRowType)
        BY DEF TypesOK, CatalogType
      <4> QED BY <4>1, <3>1
    <3>3. r.table \in Tables /\ Known(r.table)
      BY <2>1, <3>1, <3>2 DEF Sound, IndexRowType
    <3>4. r.field \in FieldNames(catalog, r.table)
      BY <2>1, <3>1 DEF Sound, FieldsOfType, FieldNames
    <3>5. entries[r.index] = IndexedIn(files[r.table], r.field)
      <4>1. entries[r.index] = EntriesOf(r.table, r.field)
        BY <2>1, <3>1 DEF IndexMatchesRecords
      <4>2. EntriesOf(r.table, r.field) = IndexedIn(files[r.table], r.field)
        BY DEF EntriesOf, IndexedIn
      <4> QED BY ONLY <4>1, <4>2
    <3>6. entries'[r.index] =
            IF n = r.table THEN (entries[r.index] \ {e \in gone : e.field = r.field}) \cup {e \in new : e.field = r.field}
                           ELSE entries[r.index]
      <4>1. TypesOK /\ Alone(k)
        BY <2>1 DEF Sound, Alone
      <4>2. n = r.table => Reindexed(n, gone, new)[r.index] = Exchanged(entries[r.index], gone, new, r.field)
        BY ONLY <4>1, <2>1, <3>1, k \in DOMAIN catalog.indexes, n \in Tables, ReindexedAt
      <4>3. n # r.table => Reindexed(n, gone, new)[r.index] = entries[r.index]
        BY ONLY <4>1, <3>1, k \in DOMAIN catalog.indexes, n \in Tables, ReindexedAway
      <4> QED BY ONLY <4>2, <4>3, <1>0 DEF Exchanged
    <3>7. CASE n = r.table
      BY <3>1, <3>4, <3>5, <3>6, <3>7, <1>0, <1>3
    <3>8. CASE n # r.table
      BY <3>1, <3>3, <3>5, <3>6, <3>8, <1>3
    <3> QED BY <3>7, <3>8
  <2>2. \A k : Sound(k)' <=> Sound(k)
    BY <1>0 DEF Sound, Known
  <2>3. \A m, f : EntriesOf(m, f)' = IndexedIn(files'[m], f)
    BY DEF EntriesOf, IndexedIn
  <2> QED BY <2>1, <2>2, <2>3, <1>0 DEF IndexMatchesRecords
<1> QED BY <1>1, <1>5, <1>6, <1>7, <1>8, <1>9

(* INSERT.                                                                 *)
LEMMA InsertKeeps ==
  ASSUME IInv, NEW n \in Tables, NEW listed \in SUBSET FieldNames(catalog, n), NEW values \in [listed -> Vals],
         ExecuteInsert(n, values)
  PROVE  IInv'
<1>1. PICK s : s = FreeSlot(n)
  OBVIOUS
<1>2. PICK records \in Seq(SlotType) : records = files[n]
  BY DEF IInv, TypesOK
<1>3. Executes /\ Known(n) /\ UNCHANGED << catalog, created >> /\ badLog' \in BOOLEAN
  BY DEF ExecuteInsert, Changes, Logged
<1>4. s \in 1..Len(records) + 1 /\ (s > Len(records) \/ ~records[s].used) /\ s <= MaxSlots
  BY <1>1, <1>2, FreeSlotFound DEF IInv, ExecuteInsert
<1>5. PICK rec : rec = Record(n, s, values)
  OBVIOUS
<1>6. /\ rec \in SlotType /\ rec.used = TRUE /\ rec.given = listed
      /\ DOMAIN rec.vals = FieldNames(catalog, n) /\ \A f \in listed : rec.vals[f] = values[f]
  <2>1. TypesOK /\ TablesOK /\ SlotsOK
    BY DEF IInv
  <2>2. DOMAIN values = listed /\ \A f \in DOMAIN values : values[f] \in Vals
    OBVIOUS
  <2>3. DOMAIN values \subseteq FieldNames(catalog, n) /\ s \in 1..Len(files[n]) + 1
    BY <2>2, <1>2, <1>4
  <2>4. /\ Record(n, s, values) \in SlotType
        /\ Record(n, s, values).used = TRUE
        /\ Record(n, s, values).given = DOMAIN values
        /\ DOMAIN Record(n, s, values).vals = FieldNames(catalog, n)
        /\ \A f \in DOMAIN values : Record(n, s, values).vals[f] = values[f]
    BY ONLY <2>1, <2>2, <2>3, <1>3, n \in Tables, RecordIs
  <2> QED BY ONLY <2>2, <2>4, <1>5
<1>7. PICK more : more = Inserted(records, s, rec)
  OBVIOUS
<1>8. files' = [files EXCEPT ![n] = more]
  BY <1>1, <1>2, <1>5, <1>7 DEF ExecuteInsert, Inserted
<1>9. PICK new : new = {Entry(f, values[f], s) : f \in DOMAIN values}
  OBVIOUS
<1>10. entries' = Reindexed(n, {}, new)
  BY <1>1, <1>9 DEF ExecuteInsert
<1>11. new \in SUBSET EntryType
  <2>1. ASSUME NEW f \in listed PROVE Entry(f, values[f], s) \in EntryType
    <3>1. f \in Fields
      BY <1>3, KnownFields DEF IInv
    <3>2. s \in 1..MaxSlots
      BY <1>4, BoundsAssumption
    <3> QED BY <3>1, <3>2 DEF Entry, EntryType
  <2> QED BY <2>1, <1>9
<1>12. Len(records) \in Nat /\ Len(records) <= MaxSlots /\ DOMAIN records = 1..Len(records)
  BY <1>2 DEF IInv, TypesOK
<1>13. /\ more \in Seq(SlotType) /\ Len(more) <= MaxSlots
       /\ \A t \in DOMAIN more : t = s \/ (t \in DOMAIN records /\ more[t] = records[t])
       /\ s \in DOMAIN more => more[s] = rec
  <2>1. CASE s > Len(records)
    <3>1. s = Len(records) + 1 /\ more = Append(records, rec)
      BY <2>1, <1>4, <1>7, <1>12 DEF Inserted
    <3> QED BY <3>1, <1>4, <1>6, <1>12
  <2>2. CASE ~(s > Len(records))
    <3>1. s \in DOMAIN records /\ more = [records EXCEPT ![s] = rec]
      BY <2>2, <1>4, <1>7, <1>12 DEF Inserted
    <3> QED BY <3>1, <1>6, <1>12
  <2> QED BY <2>1, <2>2
<1>14. \A t \in DOMAIN more : more[t].given \subseteq FieldNames(catalog, n) /\ DOMAIN more[t].vals = FieldNames(catalog, n)
  BY <1>2, <1>3, <1>6, <1>13 DEF IInv, SlotsOK
<1>15. ASSUME NEW f \in FieldNames(catalog, n)
       PROVE  IndexedIn(more, f) = (IndexedIn(files[n], f) \ {e \in {} : e.field = f}) \cup {e \in new : e.field = f}
  <2>1. IndexedIn(more, f) = IndexedIn(records, f) \cup (IF f \in rec.given THEN {Entry(f, rec.vals[f], s)} ELSE {})
    BY ONLY records \in Seq(SlotType), <1>4, <1>6, <1>7, InsertIndexed
  <2>2. {e \in new : e.field = f} = IF f \in listed THEN {Entry(f, values[f], s)} ELSE {}
    BY <1>9 DEF Entry
  <2> QED BY <2>1, <2>2, <1>2, <1>6
<1>16. Change(n, more, {}, new)
  BY <1>3, <1>8, <1>10, <1>11, <1>13, <1>14, <1>15 DEF Change
<1> QED BY <1>16, ChangeKeeps

(* DELETE.                                                                 *)
LEMMA DeleteKeeps ==
  ASSUME IInv, NEW n \in Tables, NEW g \in FieldNames(catalog, n), NEW v \in Vals, ExecuteDelete(n, g, v)
  PROVE  IInv'
<1>1. PICK sel : sel = Selected(n, g, v)
  OBVIOUS
<1>2. PICK records \in Seq(SlotType) : records = files[n]
  BY DEF IInv, TypesOK
<1>3. Executes /\ Known(n) /\ UNCHANGED << catalog, created >> /\ badLog' \in BOOLEAN
  BY DEF ExecuteDelete, Changes, Logged
<1>4. sel \in SUBSET (DOMAIN records)
  BY <1>1, <1>2 DEF Selected
<1>5. PICK more : more = Deleted(records, sel)
  OBVIOUS
<1>6. files' = [files EXCEPT ![n] = more]
  BY <1>1, <1>2, <1>5 DEF ExecuteDelete, Deleted
<1> DEFINE gone == {Entry(h, records[t].vals[h], t) : h \in FieldNames(catalog, n), t \in sel}
<1>7. \A e : e \in gone <=> \E h \in FieldNames(catalog, n), t \in sel : e = Entry(h, records[t].vals[h], t)
  OBVIOUS
<1>8. entries' = Reindexed(n, gone, {})
  BY <1>1, <1>2 DEF ExecuteDelete
<1> HIDE DEF gone
<1>9. ASSUME NEW t \in DOMAIN records
      PROVE  more[t] \in SlotType /\ more[t].given = records[t].given /\ more[t].vals = records[t].vals
  <2>1. PICK r \in SlotType : r = records[t]
    OBVIOUS
  <2>2. [r EXCEPT !.used = FALSE] \in SlotType /\ [r EXCEPT !.used = FALSE].given = r.given
        /\ [r EXCEPT !.used = FALSE].vals = r.vals
    BY DEF SlotType
  <2>3. more[t] = r \/ more[t] = [r EXCEPT !.used = FALSE]
    BY <1>5, <2>1 DEF Deleted
  <2> QED BY <2>1, <2>2, <2>3
<1>10. more \in Seq(SlotType) /\ Len(more) = Len(records) /\ DOMAIN more = DOMAIN records
  <2>1. DOMAIN records = 1..Len(records) /\ Len(records) \in Nat
    OBVIOUS
  <2>2. more \in [1..Len(records) -> SlotType]
    BY <2>1, <1>5, <1>9 DEF Deleted
  <2> QED BY <2>1, <2>2
<1>11. Len(more) <= MaxSlots
  BY <1>2, <1>10 DEF IInv, TypesOK
<1>12. \A t \in DOMAIN more : more[t].given \subseteq FieldNames(catalog, n) /\ DOMAIN more[t].vals = FieldNames(catalog, n)
  BY <1>2, <1>3, <1>9, <1>10 DEF IInv, SlotsOK
<1>13. ASSUME NEW f \in FieldNames(catalog, n)
       PROVE  IndexedIn(more, f) = (IndexedIn(files[n], f) \ {e \in gone : e.field = f}) \cup {e \in {} : e.field = f}
  <2>1. IndexedIn(more, f) = IndexedIn(records, f) \ {Entry(f, records[t].vals[f], t) : t \in sel}
    BY ONLY records \in Seq(SlotType), <1>4, <1>5, DeleteIndexed
  <2>2. {e \in gone : e.field = f} = {Entry(f, records[t].vals[f], t) : t \in sel}
    BY <1>7 DEF Entry
  <2> QED BY <2>1, <2>2, <1>2
<1>14. {} \in SUBSET EntryType
  OBVIOUS
<1>15. Change(n, more, gone, {})
  BY <1>3, <1>6, <1>8, <1>10, <1>11, <1>12, <1>13, <1>14 DEF Change
<1> QED BY <1>15, ChangeKeeps

(* UPDATE, with a value.                                                   *)
LEMMA ModifyKeeps ==
  ASSUME IInv, NEW n \in Tables, NEW h \in FieldNames(catalog, n), NEW g \in FieldNames(catalog, n),
         NEW v \in Vals, NEW w \in Vals, ExecuteModify(n, g, w, h, v)
  PROVE  IInv'
<1>1. PICK sel : sel = Selected(n, h, v)
  OBVIOUS
<1>2. PICK records \in Seq(SlotType) : records = files[n]
  BY DEF IInv, TypesOK
<1>3. Executes /\ Known(n) /\ UNCHANGED << catalog, created >> /\ badLog' \in BOOLEAN
  BY DEF ExecuteModify, Changes, Logged
<1>4. sel \in SUBSET (DOMAIN records) /\ \A t \in sel : records[t].used
  BY <1>1, <1>2 DEF Selected
<1>5. PICK more : more = Modified(records, sel, g, w)
  OBVIOUS
<1>6. files' = [files EXCEPT ![n] = more]
  BY <1>1, <1>2, <1>5 DEF ExecuteModify, Modified
<1>7. PICK gone, new : gone = {Entry(g, records[t].vals[g], t) : t \in sel} /\ new = {Entry(g, w, t) : t \in sel}
  OBVIOUS
<1>8. entries' = Reindexed(n, gone, new)
  BY <1>1, <1>2, <1>7 DEF ExecuteModify
<1>9. FieldNames(catalog, n) \subseteq Fields
  BY <1>3, KnownFields DEF IInv
<1>10. \A t \in DOMAIN records : records[t].given \subseteq FieldNames(catalog, n) /\ DOMAIN records[t].vals = FieldNames(catalog, n)
  BY <1>2, <1>3 DEF IInv, SlotsOK
<1>11. ASSUME NEW t \in DOMAIN records
       PROVE  /\ more[t] \in SlotType
              /\ more[t].given \subseteq FieldNames(catalog, n)
              /\ DOMAIN more[t].vals = FieldNames(catalog, n)
  <2>1. PICK r \in SlotType : r = records[t]
    OBVIOUS
  <2>2. PICK new1 : new1 = [r EXCEPT !.vals[g] = w, !.given = @ \cup {g}]
    OBVIOUS
  <2>3. r = [used |-> r.used, vals |-> r.vals, given |-> r.given] /\ r.used \in BOOLEAN /\ r.given \in SUBSET Fields
    BY DEF SlotType
  <2>4. new1 = [used |-> r.used, vals |-> [r.vals EXCEPT ![g] = w], given |-> r.given \cup {g}]
    BY ONLY <2>2, <2>3
  <2>5. PICK F \in SUBSET Fields : r.vals \in [F -> Vals \cup {0}]
    BY DEF SlotType, RecordValues
  <2>6. [r.vals EXCEPT ![g] = w] \in [F -> Vals \cup {0}] /\ DOMAIN r.vals = F
    BY <2>5
  <2>7. [r.vals EXCEPT ![g] = w] \in RecordValues /\ DOMAIN [r.vals EXCEPT ![g] = w] = DOMAIN r.vals
    BY <2>6 DEF RecordValues
  <2>8. new1 \in SlotType
    BY <2>3, <2>4, <2>7, <1>9 DEF SlotType
  <2>9. new1.given \subseteq FieldNames(catalog, n) /\ DOMAIN new1.vals = FieldNames(catalog, n)
    BY <2>1, <2>4, <2>7, <1>10
  <2>10. more[t] = r \/ more[t] = new1
    BY <1>5, <2>1, <2>2 DEF Modified, WithValue
  <2> QED BY <2>1, <2>8, <2>9, <2>10, <1>10
<1>12. more \in Seq(SlotType) /\ Len(more) = Len(records) /\ DOMAIN more = DOMAIN records /\ DOMAIN records = 1..Len(records)
  <2>1. DOMAIN records = 1..Len(records) /\ Len(records) \in Nat
    OBVIOUS
  <2>2. more \in [1..Len(records) -> SlotType]
    BY <2>1, <1>5, <1>11 DEF Modified
  <2> QED BY <2>1, <2>2
<1>13. Len(records) <= MaxSlots /\ Len(records) \in Nat
  BY <1>2 DEF IInv, TypesOK
<1>14. new \in SUBSET EntryType
  <2>1. ASSUME NEW t \in sel PROVE Entry(g, w, t) \in EntryType
    <3>1. t \in 1..MaxSlots
      BY <1>4, <1>12, <1>13, BoundsAssumption
    <3> QED BY <3>1, <1>9 DEF Entry, EntryType
  <2> QED BY <2>1, <1>7
<1>15. \A t \in DOMAIN more : more[t].given \subseteq FieldNames(catalog, n) /\ DOMAIN more[t].vals = FieldNames(catalog, n)
  BY <1>11, <1>12
<1>16. ASSUME NEW f \in FieldNames(catalog, n)
       PROVE  IndexedIn(more, f) = (IndexedIn(files[n], f) \ {e \in gone : e.field = f}) \cup {e \in new : e.field = f}
  <2>1. Eligible(records, sel, f, g)
    BY <1>4, <1>10 DEF Eligible
  <2>2. IndexedIn(more, f) =
          IF f = g THEN (IndexedIn(records, f) \ Left(records, sel, g)) \cup Moved(sel, g, w) ELSE IndexedIn(records, f)
    BY ONLY records \in Seq(SlotType), <2>1, <1>4, <1>5, ModifyIndexed
  <2>3. \A e \in gone \cup new : e.field = g
    BY <1>7 DEF Entry
  <2>4. gone = Left(records, sel, g) /\ new = Moved(sel, g, w)
    BY <1>7 DEF Left, Moved
  <2> QED BY <2>2, <2>3, <2>4, <1>2
<1>17. Change(n, more, gone, new)
  BY <1>3, <1>6, <1>8, <1>12, <1>13, <1>14, <1>15, <1>16 DEF Change
<1> QED BY <1>17, ChangeKeeps

(* Every step of the database keeps the inductive invariant.               *)
LEMMA StepKeeps == IInv /\ [Next]_vars => IInv'
<1> SUFFICES ASSUME IInv, [Next]_vars PROVE IInv'
  OBVIOUS
<1>1. CASE UNCHANGED vars
  <2> USE <1>1 DEF IInv, vars, disk, history
  <2>1. TypesOK'
    BY DEF TypesOK
  <2>2. StartOK' /\ CatalogsOK'
    BY DEF StartOK, CatalogsOK
  <2>3. Stored'
    BY StoredKept DEF Stored
  <2> QED BY <2>1, <2>2, <2>3 DEF Stored
<1>2. ASSUME Start PROVE IInv'
  BY <1>2, StartKeeps
<1>3. ASSUME CreateCatalog PROVE IInv'
  BY <1>3, CreateCatalogKeeps
<1>4. ASSUME CommitStart PROVE IInv'
  BY <1>4, CommitStartKeeps
<1>5. ASSUME Crash PROVE IInv'
  BY <1>5, CrashKeeps
<1>6. ASSUME NEW n \in Tables, NEW schema \in Schemas, CreateTable(n, schema) PROVE IInv'
  BY <1>6, CreateTableKeeps
<1>7. ASSUME NEW v \in Views, CreateView(v) PROVE IInv'
  BY <1>7, CreateViewKeeps
<1>8. ASSUME NEW i \in IndexNames, NEW n \in Tables, NEW f \in Fields, CreateIndex(i, n, f) PROVE IInv'
  BY <1>8, CreateIndexKeeps
<1>9. ASSUME NEW n \in Tables, NEW listed \in SUBSET FieldNames(catalog, n), NEW values \in [listed -> Vals],
             ExecuteInsert(n, values)
      PROVE  IInv'
  BY <1>9, InsertKeeps
<1>10. ASSUME NEW n \in Tables, NEW f \in FieldNames(catalog, n), NEW v \in Vals, ExecuteDelete(n, f, v) PROVE IInv'
  BY <1>10, DeleteKeeps
<1>11. ASSUME NEW n \in Tables, NEW f \in FieldNames(catalog, n), NEW g \in FieldNames(catalog, n),
              NEW v \in Vals, NEW w \in Vals, ExecuteModify(n, g, w, f, v)
       PROVE  IInv'
  BY <1>11, ModifyKeeps
<1>12. ASSUME UpdateFails \/ UpdateKills PROVE IInv'
  BY <1>12, FailuresKeep
<1>13. ASSUME ExecuteQuery \/ FetchRow \/ NextFails \/ ColumnFails \/ CloseResult \/ DeadScan PROVE IInv'
  BY <1>13, ResultSetsKeep
<1>14. CASE Next
  BY <1>14, <1>2, <1>3, <1>4, <1>5, <1>6, <1>7, <1>8, <1>9, <1>10, <1>11, <1>12, <1>13 DEF Next
<1> QED BY <1>1, <1>14

(* The conjuncts of IInv hold through every sequence of statements, result *)
(* sets, failures, crashes and restarts of the program.                    *)
THEOREM Invariant == Spec => []IInv
  BY InitHolds, StepKeeps, PTL DEF Spec

(* A record has values in the fields of its table's layout only, an entry  *)
(* of an index is of a field and a slot that exist, and only a running     *)
(* database has a result set.                                              *)
THEOREM TypeCorrect == Spec => []TypeOK
<1>1. IInv => TypeOK
  <2> SUFFICES ASSUME IInv PROVE TypeOK
    OBVIOUS
  <2>1. ASSUME NEW i \in IndexNames, NEW e \in entries[i] PROVE e.field \in Fields /\ e.slot \in 1..MaxSlots
    <3>1. e \in EntryType
      BY DEF IInv, TypesOK
    <3> QED BY <3>1 DEF EntryType
  <2>2. boot \in {"off", "creating", "up", "dead"} /\ result.state \in {"none", "open", "ended"}
        /\ (result # NoResult => boot = "up")
    BY DEF IInv, TypesOK, ResultType
  <2>3. \A n \in Tables : Len(files[n]) <= MaxSlots
    BY DEF IInv, TypesOK
  <2>4. SlotsOK /\ badLog \in BOOLEAN
    BY DEF IInv, TypesOK
  <2> QED BY <2>1, <2>2, <2>3, <2>4 DEF SlotsOK, TypeOK
<1> QED BY <1>1, Invariant, PTL

(* The layout that TableMgr reads back is that of the schema, and the      *)
(* fields it places share no byte: of every table created once, and of the *)
(* catalogs, for any number of fields of any lengths.                      *)
THEOREM LayoutsAlwaysFit == Spec => []LayoutsFit
<1>1. IInv => LayoutsFit
  <2> SUFFICES ASSUME IInv PROVE LayoutsFit
    OBVIOUS
  <2>1. ASSUME formed, NEW k \in DOMAIN Catalogs
        PROVE  Fits(GetLayout(catalog, Catalogs[k]), CatalogSchema(Catalogs[k]))
    <3>1. Shows(catalog, Catalogs[k], CatalogSchema(Catalogs[k]))
      BY <2>1 DEF IInv, CatalogsOK
    <3>2. Catalogs[k] \in Names /\ CatalogSchema(Catalogs[k]) \in Seq(FieldDefs)
      BY CatalogSchemasTyped DEF Catalogs, CatalogNames, Names
    <3> QED BY <3>1, <3>2, ShowsLayout
  <2>2. ASSUME NEW n \in Tables, Known(n) PROVE Fits(GetLayout(catalog, n), created[n][1])
    <3>1. created[n] \in Seq(Schemas) /\ Len(created[n]) = 1
      BY <2>2 DEF IInv, TypesOK, Known
    <3>2. created[n][1] \in Seq(FieldDefs)
      BY <3>1, SchemasTyped
    <3>3. Shows(catalog, n, created[n][1])
      BY <2>2 DEF IInv, TablesOK
    <3> QED BY <3>2, <3>3, ShowsLayout DEF Names
  <2> QED BY <2>1, <2>2 DEF LayoutsFit
<1> QED BY <1>1, Invariant, PTL

(* The index of an int field agrees with the records of its table          *)
(* (IndexUpdatePlanner) through statements that fail or are cut off by the *)
(* end of the process, whatever their undo does to strings, for any number *)
(* of tables, indexes and statements.                                      *)
THEOREM IndexesMatch == Spec => []IndexMatchesRecords
<1>1. IInv => IndexMatchesRecords
  BY DEF IInv
<1> QED BY <1>1, Invariant, PTL

(* If recovery can read the log, a directory is opened by every later      *)
(* start or by none, as the first start committed or did not (SampleDB's   *)
(* constructor, TableMgr::getLayout).                                      *)
THEOREM Starts == Spec => []StartsOnceFormed
<1>1. IInv => StartsOnceFormed
  <2> SUFFICES ASSUME IInv PROVE OpensCatalogs = "up" <=> formed
    BY DEF StartsOnceFormed
  <2>1. 1 \in DOMAIN Catalogs /\ Catalogs[1] = "tblcat"
    BY DEF Catalogs
  <2>2. CASE formed
    <3>1. Shows(catalog, "tblcat", CatalogSchema("tblcat"))
      BY <2>1, <2>2 DEF IInv, CatalogsOK
    <3>2. "tblcat" \in Names /\ CatalogSchema("tblcat") \in Seq(FieldDefs)
      BY <2>1, CatalogSchemasTyped DEF CatalogNames, Names
    <3>3. GetLayout(catalog, "tblcat").slotsize # -1
      BY <3>1, <3>2, ShowsLayout
    <3> QED BY <3>3, <2>2 DEF OpensCatalogs
  <2>3. CASE ~formed
    <3>1. Absent(catalog, "tblcat")
      BY <2>3, NoCatalogFacts DEF IInv, StartOK
    <3>2. GetLayout(catalog, "tblcat").slotsize = -1
      BY <3>1, AbsentLayout
    <3> QED BY <3>2, <2>3 DEF OpensCatalogs
  <2> QED BY <2>2, <2>3
<1> QED BY <1>1, Invariant, PTL
=============================================================================
