-------------------------------- MODULE Query --------------------------------
(***************************************************************************)
(* A statement's way from its text to its rows: the parser, the query      *)
(* planner (plan/), and the tree of scans that is pulled row by row        *)
(* (scan/, materialize/).  A scan is a record; Next and BeforeFirst return *)
(* the record after the call, whose "more" is what next() returned.        *)
(*                                                                         *)
(* Two records stand for calls that do not return: Thrown is an exception, *)
(* Undefined a null or missing scan that is dereferenced, or a field read  *)
(* in front of the first slot of a page.  Tables and temporary tables hold *)
(* ints and at most one block of rows; Records models the pages.           *)
(***************************************************************************)
EXTENDS Parser, SequencesExt

CONSTANTS
  Columns,     \* for every table, its fields in order
  Views,       \* for every view, the query it was created with
  Statements,  \* the statements that may be asked
  Contents     \* what the tables may hold: functions from table to rows

VARIABLES
  asked,       \* the statement the text was written from
  text,        \* the text given to the parser
  db,          \* the rows of every table
  phase,       \* "text", "parsed", "planned", "open", "done", "thrown", "undefined"
  stmt,        \* what the parser made of the text
  work,        \* the plan, then the scan
  rows         \* the rows fetched so far
vars == << asked, text, db, phase, stmt, work, rows >>

Thrown    == [k |-> "thrown", more |-> FALSE, schema |-> << >>]
Undefined == [k |-> "undefined", more |-> FALSE, schema |-> << >>]
Stopped(x) == x.k \in {"thrown", "undefined"}
\* What is made of x, unless x did not return.
Unless(x, y) == IF Stopped(x) THEN x ELSE y

NoRow == << >>

(***************************************************************************)
(* Plans.                                                                  *)
(***************************************************************************)
TablePlan(n) == [k |-> "table", schema |-> Columns[n], name |-> n]

ProductPlan(l, r) ==
  Unless(l, Unless(r, [k |-> "product", schema |-> l.schema \o r.schema, left |-> l, right |-> r]))

SelectPlan(p, pred) == Unless(p, [k |-> "select", schema |-> p.schema, src |-> p, pred |-> pred])

MaterializePlan(p) == Unless(p, [k |-> "materialize", schema |-> p.schema, src |-> p])

\* Schema::add throws for a field that the plan below does not have.
ProjectPlan(p, fields) ==
  Unless(p, IF ToSet(fields) \subseteq ToSet(p.schema)
              THEN [k |-> "project", schema |-> fields, src |-> p] ELSE Thrown)

SortPlan(p, by) == Unless(p, [k |-> "sort", schema |-> p.schema, src |-> p, by |-> by])

AggregateName(a) == a.fn \o a.field

\* Mutant: the aggregates are missing in the schema.
GroupByPlanBare(p, group, aggregates) ==
  Unless(p, [k |-> "group", src |-> SortPlan(p, group), group |-> group, aggregates |-> aggregates,
             schema |-> group])
GroupByPlan(p, group, aggregates) ==
  Unless(p, IF ToSet(group) \subseteq ToSet(p.schema)
              THEN [k |-> "group", src |-> SortPlan(p, group), group |-> group, aggregates |-> aggregates,
                    schema |-> group \o [i \in DOMAIN aggregates |-> AggregateName(aggregates[i])]]
              ELSE Thrown)

\* max, min and sum of every field of a base table.
AggregatesOf(n) ==
  FoldLeft(LAMBDA acc, f : acc \o << [fn |-> "max", field |-> f], [fn |-> "min", field |-> f],
                                     [fn |-> "sum", field |-> f] >>, << >>, Columns[n])
Count == [fn |-> "count", field |-> ""]

\* The plan above the product of the operands' plans.
Grouped(p, q, aggregates) == IF q.group = << >> THEN p ELSE GroupByPlan(p, q.group, aggregates)
Sorted(p, q) == IF q.sort = << >> THEN p ELSE SortPlan(p, q.sort)
Combined(q, plans, aggregates) ==
  [plan |-> Sorted(ProjectPlan(Grouped(SelectPlan(FoldLeft(ProductPlan, Head(plans), Tail(plans)), q.pred),
                                       q, aggregates), q.fields), q),
   aggregates |-> aggregates]
WithCount(q, operands) ==
  Combined(q, operands.plans,
           IF q.group = << >> THEN operands.aggregates ELSE Append(operands.aggregates, Count))

\* The planner's member _aggFns is cleared by every call and filled while the
\* tables are visited: a call for a view or a subquery leaves its own list in it.
RECURSIVE CreatePlan(_)
CreatePlan(q) ==
  LET AddView(acc, parsed) ==
        IF parsed.pos = 0 THEN [acc EXCEPT !.plans = Append(@, Thrown)]
        ELSE LET sub == CreatePlan(parsed.query)
             IN [plans |-> Append(acc.plans, sub.plan), aggregates |-> sub.aggregates]
      AddTable(acc, n) ==
        IF n \in DOMAIN Views THEN AddView(acc, ParseQuery(QueryText(Views[n], TRUE), 1))
        ELSE [plans |-> Append(acc.plans, TablePlan(n)),
              aggregates |-> acc.aggregates \o (IF q.group = << >> THEN << >> ELSE AggregatesOf(n))]
      AddQuery(acc, s) ==
        LET sub == CreatePlan(s)
        IN [plans |-> Append(acc.plans, MaterializePlan(sub.plan)), aggregates |-> sub.aggregates]
  IN WithCount(q, FoldLeft(AddQuery,
                           FoldLeft(AddTable, [plans |-> << >>, aggregates |-> << >>], SortedTables(q)),
                           q.subs))

(***************************************************************************)
(* Reading the current row of a scan.                                      *)
(***************************************************************************)
\* What stops getValue(f), if anything does.  Only a product asks hasField.
RECURSIVE Fault(_, _), Value(_, _)
Fault(s, f) ==
  CASE s.k = "product" -> Fault(IF f \in s.left.has THEN s.left ELSE s.right, f)
    [] s.k = "select"  -> Fault(s.src, f)
    [] s.k = "project" -> IF f \notin s.has THEN "thrown" ELSE Fault(s.src, f)
    [] s.k = "sort"    -> IF s.current = 0 THEN "undefined" ELSE Fault(s.runs[s.current], f)
    [] s.k = "table"   -> IF f \notin s.has THEN "thrown" ELSE IF s.pos = 0 THEN "undefined" ELSE "none"
    [] s.k = "group"   -> IF f \notin s.has THEN "thrown" ELSE IF s.row = NoRow THEN "undefined" ELSE "none"

Value(s, f) ==
  CASE s.k = "product" -> Value(IF f \in s.left.has THEN s.left ELSE s.right, f)
    [] s.k \in {"select", "project"} -> Value(s.src, f)
    [] s.k = "sort"    -> Value(s.runs[s.current], f)
    [] s.k = "table"   -> s.rows[s.pos][f]
    [] s.k = "group"   -> s.row[f]

\* The scan that stands for a fault in reading one of the fields, in order; or r.
Reading(s, fields, r) ==
  LET bad == SelectSeq(fields, LAMBDA f : Fault(s, f) # "none") IN
  IF bad = << >> THEN r ELSE IF Fault(s, Head(bad)) = "thrown" THEN Thrown ELSE Undefined

RowOf(s, fields) == [f \in ToSet(fields) |-> Value(s, f)]

Evaluate(s, e) == IF e.value.kind = "null" THEN Value(s, e.field) ELSE e.value.int
ExpressionFields(e) == IF e.value.kind = "null" THEN << e.field >> ELSE << >>
TermFields(t) == ExpressionFields(t.lhs) \o ExpressionFields(t.rhs)

\* isSatisfied stops at the first term that is false, or that cannot be read.
Satisfied(s, pred) ==
  LET stops == {i \in DOMAIN pred : \/ Stopped(Reading(s, TermFields(pred[i]), s))
                                    \/ Evaluate(s, pred[i].lhs) # Evaluate(s, pred[i].rhs)}
      first == CHOOSE i \in stops : \A j \in stops : i <= j
  IN IF stops = {} THEN [k |-> "yes"]
     ELSE Unless(Reading(s, TermFields(pred[first]), s), [k |-> "no"])

\* RecordComparator: -1, 0 or 1 by the first field in which two rows differ.
Compare(r1, r2, by) ==
  LET differ == SelectSeq(by, LAMBDA f : r1[f] # r2[f])
  IN IF differ = << >> THEN 0 ELSE IF r1[Head(differ)] < r2[Head(differ)] THEN -1 ELSE 1

\* The fields before the first that the rows do not have.  If there is one, a
\* comparison of two rows that agree in the fields before it throws.
Readable(by, has) ==
  LET missing == SelectInSeq(by, LAMBDA f : f \notin has)
  IN IF missing = 0 THEN by ELSE SubSeq(by, 1, missing - 1)

(***************************************************************************)
(* Sorting: rows of temporary tables.                                      *)
(***************************************************************************)
TempScan(schema, contents) ==
  [k |-> "table", has |-> ToSet(schema), rows |-> contents, pos |-> 0, more |-> FALSE]

\* splitIntoRuns: a new run where a row is less than the one copied before it.
SplitIntoRuns(contents, by) ==
  FoldLeft(LAMBDA runs, r : IF runs # << >> /\ Compare(r, Last(Last(runs)), by) >= 0
                              THEN [runs EXCEPT ![Len(runs)] = Append(@, r)]
                              ELSE Append(runs, << r >>),
           << >>, contents)

RECURSIVE MergeTwoRuns(_, _, _)
MergeTwoRuns(r1, r2, by) ==
  IF r1 = << >> \/ r2 = << >> THEN r1 \o r2
  ELSE IF Compare(Head(r1), Head(r2), by) < 0
    THEN << Head(r1) >> \o MergeTwoRuns(Tail(r1), r2, by)
    ELSE << Head(r2) >> \o MergeTwoRuns(r1, Tail(r2), by)

\* Mutant: an odd run is lost.
DoAMergeIterationPairs(runs, by) ==
  [i \in 1..Len(runs) \div 2 |-> MergeTwoRuns(runs[2 * i - 1], runs[2 * i], by)]
\* The runs in pairs, an odd one at the end as it is.
DoAMergeIteration(runs, by) ==
  [i \in 1..(Len(runs) + 1) \div 2 |->
     IF 2 * i <= Len(runs) THEN MergeTwoRuns(runs[2 * i - 1], runs[2 * i], by) ELSE Last(runs)]

RECURSIVE MergeRuns(_, _)
MergeRuns(runs, by) == IF Len(runs) > 2 THEN MergeRuns(DoAMergeIteration(runs, by), by) ELSE runs

(***************************************************************************)
(* Groups: the aggregates over one group of the sorted rows.               *)
(***************************************************************************)
FirstOf(a, s) == IF a.fn = "count" THEN 1 ELSE Value(s, a.field)

Accumulate(a, old, s) ==
  CASE a.fn = "count" -> old + 1
    [] a.fn = "sum"   -> old + Value(s, a.field)
    [] a.fn = "max"   -> IF Value(s, a.field) > old THEN Value(s, a.field) ELSE old
    [] a.fn = "min"   -> IF Value(s, a.field) < old THEN Value(s, a.field) ELSE old

\* The fields read for one row of a group, in the order of the code.
GroupReads(s) ==
  FoldLeft(LAMBDA acc, a : IF a.fn = "count" THEN acc ELSE Append(acc, a.field), << >>, s.aggregates)
  \o s.group

\* The first aggregate of a name gives the value of that name.
GroupRow(s, key, values) ==
  LET named(f) == {i \in DOMAIN values : AggregateName(s.aggregates[i]) = f}
  IN [f \in s.has |-> IF f \in DOMAIN key THEN key[f]
                      ELSE values[CHOOSE i \in named(f) : \A j \in named(f) : i <= j]]

(***************************************************************************)
(* Scans.                                                                  *)
(***************************************************************************)
RECURSIVE Next_(_), BeforeFirst(_), Group(_, _, _)

\* The rest of a group: src stands on a row of it already counted in values.
Group(s, key, values) ==
  LET n == Next_(s.src)
      same == RowOf(n, s.group) = key
  IN CASE Stopped(n) -> n
       [] ~Stopped(n) /\ n.more /\ same ->
            Group([s EXCEPT !.src = n], key,
                  [i \in DOMAIN values |-> Accumulate(s.aggregates[i], values[i], n)])
       [] OTHER -> [s EXCEPT !.src = n, !.groups = n.more, !.row = GroupRow(s, key, values), !.more = TRUE]

NextRow(s) ==
  IF s.pos < Len(s.rows) THEN [s EXCEPT !.pos = @ + 1, !.more = TRUE]
                         ELSE [s EXCEPT !.pos = 0, !.more = FALSE]

NextSelected(s) ==
  LET n == Next_(s.src)
      answer == Satisfied(n, s.pred)
  IN IF Stopped(n) THEN n
     ELSE IF ~n.more THEN [s EXCEPT !.src = n, !.more = FALSE]
     ELSE IF Stopped(answer) THEN answer
     ELSE IF answer.k = "yes" THEN [s EXCEPT !.src = n, !.more = TRUE]
     ELSE Next_([s EXCEPT !.src = n])

NextPair(s) ==
  LET right == Next_(s.right)
      left  == Next_(s.left)
      again == Next_(BeforeFirst(right))
  IN IF Stopped(right) THEN right
     ELSE IF right.more THEN [s EXCEPT !.right = right, !.more = TRUE]
     ELSE IF Stopped(left) THEN left
     ELSE IF left.more
       THEN Unless(again, [s EXCEPT !.left = left, !.right = again, !.more = again.more])
       ELSE [s EXCEPT !.left = left, !.right = BeforeFirst(right), !.more = FALSE]

\* The run whose row was returned moves on; of two rows that compare equal the
\* second run's comes first.
NextMerged(s) ==
  LET runs == IF s.current = 0 THEN s.runs ELSE [s.runs EXCEPT ![s.current] = Next_(@)]
      live == {i \in DOMAIN runs : runs[i].more}
      Row(i) == runs[i].rows[runs[i].pos]
      next == IF Cardinality(live) = 2
                THEN IF Compare(Row(1), Row(2), s.by) < 0 THEN 1 ELSE 2
                ELSE CHOOSE i \in live : TRUE
      throws == s.partial /\ Cardinality(live) = 2 /\ Compare(Row(1), Row(2), s.by) = 0
  IN IF throws THEN Thrown
     ELSE IF live = {} THEN [s EXCEPT !.runs = runs, !.more = FALSE]
     ELSE [s EXCEPT !.runs = runs, !.current = next, !.more = TRUE]

NextGroup(s) ==
  IF ~s.groups THEN [s EXCEPT !.more = FALSE]
  ELSE LET start == Group(s, RowOf(s.src, s.group),
                          [i \in DOMAIN s.aggregates |-> FirstOf(s.aggregates[i], s.src)])
       IN Reading(s.src, GroupReads(s), start)

Next_(s) ==
  CASE Stopped(s) -> s
    [] s.k = "table"   -> NextRow(s)
    [] s.k = "select"  -> NextSelected(s)
    [] s.k = "project" -> LET n == Next_(s.src) IN Unless(n, [s EXCEPT !.src = n, !.more = n.more])
    [] s.k = "product" -> NextPair(s)
    [] s.k = "sort"    -> NextMerged(s)
    [] s.k = "group"   -> NextGroup(s)

BeforeFirst(s) ==
  CASE Stopped(s) -> s
    [] s.k = "table" -> [s EXCEPT !.pos = 0]
    [] s.k \in {"select", "project"} -> LET b == BeforeFirst(s.src) IN Unless(b, [s EXCEPT !.src = b])
    [] s.k = "product" -> LET l == Next_(BeforeFirst(s.left))
                          IN Unless(l, [s EXCEPT !.left = l, !.right = BeforeFirst(s.right)])
    [] s.k = "sort" -> [s EXCEPT !.runs = [i \in DOMAIN @ |-> Next_(BeforeFirst(@[i]))], !.current = 0]
    [] s.k = "group" -> LET b == Next_(BeforeFirst(s.src))
                        IN Unless(b, [s EXCEPT !.src = b, !.groups = b.more])

\* Every row of a scan from where it stands, copied into a temporary table.
RECURSIVE Drain(_, _, _)
Drain(s, schema, acc) ==
  LET n == Next_(s) IN
  IF Stopped(n) THEN n
  ELSE IF ~n.more THEN [k |-> "rows", rows |-> acc]
  ELSE Reading(n, schema, Drain(n, schema, Append(acc, RowOf(n, schema))))

\* With no row there is no run, and SortScan opens the first one all the same.
\* If a field is missing, two rows that agree in the fields before it stop the
\* sort when they are compared: those of one run have been, by splitting or
\* merging, those of the last two runs are while pulling.
SortScan(schema, contents, by) ==
  LET keys == Readable(by, ToSet(schema))
      runs == MergeRuns(SplitIntoRuns(contents, keys), keys)
      tied(run) == \E i \in 1..Len(run) - 1 : Compare(run[i], run[i + 1], keys) = 0
  IN
  IF contents = << >> THEN Undefined
  ELSE IF keys # by /\ \E i \in DOMAIN runs : tied(runs[i]) THEN Thrown
  ELSE [k |-> "sort", has |-> ToSet(schema), by |-> keys, partial |-> keys # by, current |-> 0, more |-> FALSE,
        runs |-> [i \in DOMAIN runs |-> Next_(TempScan(schema, runs[i]))]]

\* Opening a plan over the contents d of the tables.
RECURSIVE Open(_, _)
Open(p, d) ==
  LET src == Open(p.src, d)
      has == ToSet(p.schema)
      first == Next_(Open(p.left, d))
      right == Open(p.right, d)
      copied == Drain(IF p.k = "sort" THEN BeforeFirst(src) ELSE src, p.schema, << >>)
      start == Next_(BeforeFirst(src))
  IN CASE p.k = "table" -> TempScan(p.schema, d[p.name])
       [] p.k = "select" -> Unless(src, [k |-> "select", has |-> has, src |-> src, pred |-> p.pred, more |-> FALSE])
       [] p.k = "project" -> Unless(src, [k |-> "project", has |-> has, src |-> src, more |-> FALSE])
       [] p.k = "product" ->
            Unless(first, Unless(right, [k |-> "product", has |-> has, left |-> first, right |-> right, more |-> FALSE]))
       [] p.k = "materialize" -> Unless(copied, TempScan(p.schema, copied.rows))
       [] p.k = "sort" -> Unless(copied, SortScan(p.schema, copied.rows, p.by))
       [] p.k = "group" -> Unless(start, [k |-> "group", has |-> has, src |-> start, group |-> p.group,
                                          aggregates |-> p.aggregates, groups |-> start.more, row |-> NoRow, more |-> FALSE])

(***************************************************************************)
(* A statement's way: parse, plan, open and fetch until there is no more.  *)
(* A statement that is not a query ends after the parser here.             *)
(***************************************************************************)
Init ==
  /\ asked \in Statements
  /\ text = StatementText(asked)
  /\ db = [n \in DOMAIN Columns |-> << >>]
  /\ phase = "text" /\ stmt = [kind |-> "none"] /\ work = Undefined /\ rows = << >>

ParseText ==
  /\ phase = "text"
  /\ phase' = IF Parse(text).pos = 0 THEN "thrown" ELSE "parsed"
  /\ stmt' = Parse(text).stmt
  /\ UNCHANGED << asked, text, db, work, rows >>

CreateQueryPlan ==
  /\ phase = "parsed" /\ stmt.kind = "query"
  /\ work' = CreatePlan(stmt).plan
  /\ phase' = IF Stopped(work') THEN work'.k ELSE "planned"
  /\ UNCHANGED << asked, text, db, stmt, rows >>

OpenPlan ==
  /\ phase = "planned"
  /\ db' \in Contents
  /\ work' = Open(work, db')
  /\ phase' = IF Stopped(work') THEN work'.k ELSE "open"
  /\ UNCHANGED << asked, text, stmt, rows >>

\* ResultSet::next, and the columns of its row.  An exception in next() is
\* caught: the caller is told that there are no more rows.
Fetch ==
  /\ phase = "open"
  /\ LET n == Next_(work)
         read == Reading(n, stmt.fields, n)
     IN /\ work' = IF Stopped(n) \/ ~n.more THEN n ELSE read
        /\ phase' = IF Stopped(work') THEN work'.k ELSE IF n.more THEN "open" ELSE "done"
        /\ rows' = IF phase' = "open" THEN Append(rows, RowOf(n, stmt.fields)) ELSE rows
  /\ UNCHANGED << asked, text, db, stmt >>

Next == ParseText \/ CreateQueryPlan \/ OpenPlan \/ Fetch

Spec == Init /\ [][Next]_vars

(***************************************************************************)
(* What a query means: its rows in any order, and what the code answers.   *)
(***************************************************************************)
Cross(R, S) == FlattenSeq([i \in DOMAIN R |-> [j \in DOMAIN S |-> R[i] @@ S[j]]])

Meaning(r, e) == IF e.value.kind = "null" THEN r[e.field] ELSE e.value.int
Meets(r, pred) == \A i \in DOMAIN pred : Meaning(r, pred[i].lhs) = Meaning(r, pred[i].rhs)

Part(r, fields) == [f \in ToSet(fields) |-> r[f]]

\* One row for every value of the grouping fields.
GroupsOf(R, group) ==
  LET keys == {Part(R[i], group) : i \in DOMAIN R}
      members(key) == SelectSeq(R, LAMBDA r : Part(r, group) = key)
      column(key, f) == [i \in DOMAIN members(key) |-> members(key)[i][f]]
      fields == DOMAIN R[1]
      Aggregate(key) ==
        key @@ ("count" :> Len(members(key)))
            @@ [m \in {"max" \o f : f \in fields} |->
                  Max(ToSet(column(key, CHOOSE f \in fields : "max" \o f = m)))]
            @@ [m \in {"min" \o f : f \in fields} |->
                  Min(ToSet(column(key, CHOOSE f \in fields : "min" \o f = m)))]
            @@ [m \in {"sum" \o f : f \in fields} |->
                  FoldLeft(+, 0, column(key, CHOOSE f \in fields : "sum" \o f = m))]
  IN SetToSeq({Aggregate(key) : key \in keys})

RECURSIVE Answer(_, _)
Operands(q, d) ==
  LET tables == SortedTables(q)
  IN [i \in DOMAIN tables |-> IF tables[i] \in DOMAIN Views THEN Answer(Views[tables[i]], d) ELSE d[tables[i]]]
     \o [i \in DOMAIN q.subs |-> Answer(q.subs[i], d)]
CrossAll(ops) == FoldLeft(Cross, Head(ops), Tail(ops))
Selected(q, d) == SelectSeq(CrossAll(Operands(q, d)), LAMBDA r : Meets(r, q.pred))
Answer(q, d) ==
  LET R == Selected(q, d)
      G == IF q.group = << >> \/ R = << >> THEN R ELSE GroupsOf(R, q.group)
  IN [i \in DOMAIN G |-> Part(G[i], q.fields)]

SameBag(R, S) ==
  \A r \in ToSet(R) \cup ToSet(S) :
    Cardinality({i \in DOMAIN R : R[i] = r}) = Cardinality({i \in DOMAIN S : S[i] = r})

\* The queries a query is made of: subqueries and views.
Inner(q) == ToSet(q.subs) \cup {Views[n] : n \in q.tables \cap DOMAIN Views}

RECURSIVE Filters(_), Groups(_), Supported(_), Filled(_, _)
Filters(q) == q.pred # << >> \/ \E i \in Inner(q) : Filters(i)
Groups(q) == q.group # << >> \/ \E i \in Inner(q) : Groups(i)

\* What the planner can do: no view with a condition, rows sorted by fields
\* that are selected, groups of groups nowhere, and of a grouped view or
\* subquery only the count.
Supported(q) ==
  /\ \A n \in q.tables \cap DOMAIN Views : ~Filters(Views[n])
  /\ \A i \in Inner(q) : Supported(i)
  /\ ToSet(q.sort) \subseteq ToSet(q.fields)
  /\ q.group # << >> /\ Inner(q) # {} =>
       /\ \A i \in Inner(q) : ~Groups(i)
       /\ ToSet(q.fields) \subseteq ToSet(q.group) \cup {"count"}

\* No empty left operand before a right one with rows, and nothing to sort
\* or to group without a row.
Filled(q, d) ==
  LET ops == Operands(q, d) IN
  /\ \A i \in 2..Len(ops) : CrossAll(SubSeq(ops, 1, i - 1)) # << >> \/ ops[i] = << >>
  /\ q.sort \o q.group # << >> => Selected(q, d) # << >>
  /\ \A i \in Inner(q) : Filled(i, d)

(***************************************************************************)
(* Properties.                                                             *)
(***************************************************************************)
\* The text with words i and i + 1 written as one.
Glued(i) == SubSeq(text, 1, i - 1) \o << text[i] \o text[i + 1] >> \o SubSeq(text, i + 2, Len(text))
Glues == {i \in 1..Len(text) - 1 :
            /\ text[i] # << "," >> /\ text[i + 1] # << "," >>
            /\ {text[i][1], text[i + 1][1]} \cap (Punctuation \cup DOMAIN SVal) # {}}

\* What the parser makes of a statement written with a space between any two
\* words is the statement, for all but UPDATE, whose value it does not read.  A
\* forgotten space is refused, not misread: the parser knows a word of two
\* lexemes by its first character and drops the rest, so that this holds only
\* because what follows does not fit then.  Behind a closing parenthesis or an
\* equality sign something else may fit.
ParsedAsWritten ==
  /\ asked.kind # "modify" => /\ phase # "text" => stmt = asked
                              /\ phase = "thrown" => asked.kind = "query"
  /\ phase = "text" =>
       \A i \in Glues : text[i] \notin {<< ")" >>, << "=" >>} =>
         LET r == Parse(Glued(i)) IN r.pos = 0 \/ r.stmt = Parse(text).stmt

\* The pulled rows are the query's meaning: for every query the planner
\* supports, the whole tree of scans gives each row as often as it belongs.
\* And at every moment the rows fetched so far are in the order asked for: runs,
\* their merging and the last merge while pulling keep it.
RowsAreRight ==
  /\ phase = "done" /\ Supported(asked) /\ Filled(asked, db) => SameBag(rows, Answer(asked, db))
  /\ asked.kind = "query" /\ ToSet(asked.sort) \subseteq ToSet(asked.fields) =>
       \A i \in 1..Len(rows) - 1 : Compare(rows[i], rows[i + 1], asked.sort) <= 0

\* A query ends in an exception only if it is not supported, and leaves the
\* defined behaviour of the language only over an empty operand.
EndsAsSupported ==
  asked.kind = "query" =>
    /\ phase = "thrown" => ~Supported(asked)
    /\ phase = "undefined" => ~(Supported(asked) /\ Filled(asked, db))
=============================================================================
