------------------------------ MODULE MCQuery ------------------------------
\* Two tables, four views, queries with every clause, and a statement of every
\* other kind.
EXTENDS Query, FiniteSetsExt

NumberLexemes == ("0" :> 0 @@ "1" :> 1 @@ "2" :> 2 @@ "7" :> 7)
StringLexemes == ("'x'" :> "x" @@ "'y'" :> "y")
Order == << "t1", "t2", "v1", "v2", "v3", "v4" >>
Fields == [t1 |-> << "a", "b" >>, t2 |-> << "c", "d" >>]

F(f) == Field(f)
N(n) == Const(Num(n))
From(fields, tables, pred) == Query(fields, tables, << >>, pred, << >>, << >>)

ViewQueries ==
  [v1 |-> From(<< "a" >>, {"t1"}, << >>),
   v2 |-> Query(<< "b", "count" >>, {"t1"}, << >>, << >>, << "b" >>, << >>),
   v3 |-> From(<< "c" >>, {"t2"}, << Term(F("d"), N(1)) >>),
   v4 |-> Query(<< "a" >>, {"t1"}, << >>, << >>, << >>, << "a" >>)]

Queries ==
  {From(<< "a", "b" >>, {"t1"}, << Term(F("a"), N(1)), Term(N(2), F("b")) >>),
   From(<< "b", "c" >>, {"t1", "t2"}, << Term(F("a"), F("c")) >>),
   Query(<< "b", "a" >>, {"t1"}, << >>, << >>, << >>, << "b", "a" >>),
   Query(<< "a" >>, {"t1"}, << >>, << >>, << >>, << "b" >>),
   Query(<< "a" >>, {"t1"}, << >>, << >>, << >>, << "a", "b" >>),
   Query(<< "b", "count", "maxa", "mina", "suma" >>, {"t1"}, << >>, << >>, << "b" >>, << >>),
   Query(<< "b", "suma" >>, {"t1", "t2"}, << >>, << Term(F("a"), F("c")) >>, << "b" >>, << "suma" >>),
   Query(<< "a", "c" >>, {"t2"}, << From(<< "a" >>, {"t1"}, << Term(F("b"), N(1)) >>) >>, << >>, << >>, << >>),
   Query(<< "a", "count" >>, {}, << From(<< "a" >>, {"t1"}, << >>) >>, << >>, << "a" >>, << >>),
   Query(<< "a", "maxa" >>, {"t1", "v3"}, << >>, << >>, << "a" >>, << >>),
   Query(<< "c", "count" >>, {"v2"}, << From(<< "c" >>, {"t2"}, << >>) >>, << >>, << "c" >>, << >>),
   From(<< "c", "a" >>, {"t2", "v1"}, << Term(F("a"), F("c")) >>),
   From(<< "c", "count" >>, {"t2", "v2"}, << >>),
   From(<< "a", "d" >>, {"t2", "v4"}, << >>),
   From(<< "c" >>, {"v3"}, << >>)}

OtherStatements ==
  {[kind |-> "insert", table |-> "t1", fields |-> << "a", "b" >>, values |-> << Num(7), Str("x") >>],
   [kind |-> "delete", table |-> "t1", pred |-> << Term(F("a"), Const(Str("y"))) >>],
   [kind |-> "modify", table |-> "t1", field |-> "a", value |-> N(1), pred |-> << Term(F("b"), N(2)) >>],
   [kind |-> "createtable", table |-> "t3",
    schema |-> << [name |-> "a", type |-> "int", length |-> 0], [name |-> "s", type |-> "varchar", length |-> 7],
                  [name |-> "b", type |-> "bool", length |-> 0] >>],
   [kind |-> "createview", table |-> "v5",
    query |-> From(<< "a" >>, {"t1"}, << Term(F("a"), N(1)), Term(F("b"), Const(Str("x"))) >>)],
   [kind |-> "createindex", index |-> "i", table |-> "t1", field |-> "a"]}

Asked == Queries \cup OtherStatements

Pair(x, y, v, w) == (x :> v @@ y :> w)
Rows1 == {Pair("a", "b", 1, 1), Pair("a", "b", 2, 1), Pair("a", "b", 3, 2), Pair("a", "b", 2, 2)}
Rows2 == {Pair("c", "d", 1, 1), Pair("c", "d", 2, 1)}
Long1 == {<< Pair("a", "b", 3, 3), Pair("a", "b", 2, 2), Pair("a", "b", 1, 2), Pair("a", "b", 1, 1), Pair("a", "b", 3, 0) >>}
Tables == {[t1 |-> r1, t2 |-> r2] : r1 \in SeqOf(Rows1, 3) \cup Long1, r2 \in SeqOf(Rows2, 3)}
=============================================================================
