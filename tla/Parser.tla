------------------------------- MODULE Parser -------------------------------
(***************************************************************************)
(* The SQL parser: parse/StreamTokenizer, Lexer, Parser and the classes of *)
(* its results.  The tokenizer cuts a text at spaces and around commas,    *)
(* nowhere else: a text is a sequence of words, a word a sequence of       *)
(* lexemes that nothing separates ("( a" is two words, "(a" is one).       *)
(* Letters are lower case and a quoted string holds neither space nor      *)
(* comma.  A position of 0 stands for an exception.  The recursion of the  *)
(* code over a list is replaced by the list's length.                      *)
(***************************************************************************)
EXTENDS Integers, SequencesExt

CONSTANTS
  NVal,        \* the lexemes that are numbers, and their values
  SVal,        \* the quoted lexemes, and the strings between the quotes
  TableOrder   \* the names of tables and views, in the order of std::set

Keywords == {"select", "from", "where", "and", "insert", "into", "values", "delete",
             "update", "set", "create", "table", "varchar", "int", "bool", "true",
             "false", "view", "as", "index", "on"}
Punctuation == {"(", ")", ",", "="}

Num(n) == [kind |-> "int", int |-> n, str |-> ""]
Str(s) == [kind |-> "str", int |-> 0, str |-> s]
Null   == [kind |-> "null", int |-> 0, str |-> ""]

\* An expression is a field's name or a constant (scan::Expression).
Field(f) == [field |-> f, value |-> Null]
Const(c) == [field |-> "", value |-> c]
Term(l, r) == [lhs |-> l, rhs |-> r]

Query(fields, tables, subs, pred, group, sort) ==
  [kind |-> "query", fields |-> fields, tables |-> tables, subs |-> subs,
   pred |-> pred, group |-> group, sort |-> sort]

(***************************************************************************)
(* Matching: the kind of a word is that of its only lexeme; a word of      *)
(* several lexemes is known by its first character.                        *)
(***************************************************************************)
At(t, p) == IF p \in 1..Len(t) THEN t[p] ELSE << "EOF" >>

IsNumber(w) == Len(w) = 1 /\ w[1] \in DOMAIN NVal
IsQuoted(w) == w[1] \in DOMAIN SVal
IsWord(w) == Len(w) = 1 /\ w[1] \notin Punctuation \cup DOMAIN NVal \cup DOMAIN SVal

IsDelimiter(t, p, d)  == At(t, p)[1] = d
IsKeyword(t, p, k)    == At(t, p) = << k >>
IsIdentifier(t, p)    == p \in 1..Len(t) /\ IsWord(t[p]) /\ t[p][1] \notin Keywords
IsConstant(t, p)      == LET w == At(t, p)
                         IN w \in {<< "true" >>, << "false" >>} \/ IsQuoted(w) \/ IsNumber(w)

\* Mutant: a closing parenthesis may be missing.
EatDelimiterOptional(t, p, d) ==
  IF IsDelimiter(t, p, d) THEN p + 1 ELSE IF d = ")" THEN p ELSE 0
EatDelimiter(t, p, d) == IF IsDelimiter(t, p, d) THEN p + 1 ELSE 0
EatKeyword(t, p, k)   == IF IsKeyword(t, p, k) THEN p + 1 ELSE 0
EatIdentifier(t, p)   == IF IsIdentifier(t, p) THEN p + 1 ELSE 0
\* The text of a word that is an identifier.
Name(t, p) == At(t, p)[1]

\* The text of a quoted word without its quotes, which a word that does not end
\* in a quote keeps: see unquote.
Unquoted(w) ==
  LET shown(l) == IF l \in DOMAIN SVal THEN "'" \o SVal[l] \o "'" ELSE l
      between == FoldLeft(LAMBDA acc, l : acc \o shown(l), "", SubSeq(w, 2, Len(w) - 1))
      first == SVal[w[1]]
      last == w[Len(w)]
  IN IF Len(w) = 1 THEN first
     ELSE IF last \in DOMAIN SVal THEN first \o "'" \o between \o "'" \o SVal[last]
     ELSE shown(w[1]) \o between \o last

Constant(t, p) ==
  LET w == At(t, p) IN
  CASE w = << "true" >>  -> Num(1)
    [] w = << "false" >> -> Num(0)
    [] IsQuoted(w)       -> Str(Unquoted(w))
    [] IsNumber(w)       -> Num(NVal[w[1]])
    [] OTHER             -> Null

IsExpression(t, p) == IsIdentifier(t, p) \/ IsConstant(t, p)
Expression(t, p) == IF IsIdentifier(t, p) THEN Field(Name(t, p)) ELSE Const(Constant(t, p))

(***************************************************************************)
(* Lists: items of the same width, a separator between two of them.        *)
(***************************************************************************)
ListLength(t, p, width, Separates(_)) ==
  CHOOSE n \in 1..Len(t) + 1 :
    /\ ~Separates(p + n * (width + 1) - 1)
    /\ \A i \in 1..n - 1 : Separates(p + i * (width + 1) - 1)

ListOf(t, p, width, Separates(_), Valid(_), Item(_)) ==
  LET n == ListLength(t, p, width, Separates)
      start(i) == p + (i - 1) * (width + 1)
  IN IF p # 0 /\ \A i \in 1..n : Valid(start(i))
       THEN [pos |-> p + n * (width + 1) - 1, list |-> [i \in 1..n |-> Item(start(i))]]
       ELSE [pos |-> 0, list |-> << >>]

\* selectList and fieldList.
FieldList(t, p) ==
  ListOf(t, p, 1, LAMBDA i : IsDelimiter(t, i, ","), LAMBDA i : IsIdentifier(t, i),
         LAMBDA i : Name(t, i))

ConstantList(t, p) ==
  ListOf(t, p, 1, LAMBDA i : IsDelimiter(t, i, ","), LAMBDA i : IsConstant(t, i),
         LAMBDA i : Constant(t, i))

\* A predicate: terms of three words, "and" between them.
Predicate(t, p) ==
  ListOf(t, p, 3, LAMBDA i : IsKeyword(t, i, "and"),
         LAMBDA i : IsExpression(t, i) /\ IsDelimiter(t, i + 1, "=") /\ IsExpression(t, i + 2),
         LAMBDA i : Term(Expression(t, i), Expression(t, i + 2)))

Nothing(p) == [pos |-> p, list |-> << >>]

WherePart(t, p) == IF IsKeyword(t, p, "where") THEN Predicate(t, p + 1) ELSE Nothing(p)

\* groupFieldList and sortFieldList: the word alone, without "by", is eaten.
ByPart(t, p, k) ==
  IF ~IsKeyword(t, p, k) THEN Nothing(p)
  ELSE IF IsKeyword(t, p + 1, "by") THEN FieldList(t, p + 2) ELSE Nothing(p + 1)

RECURSIVE TableList(_, _), ParseQuery(_, _)

\* An item of the list, and the rest of it after a comma.
TableList(t, p) ==
  LET sub  == ParseQuery(t, p + 1)
      item == IF IsDelimiter(t, p, "(")
                THEN [pos |-> EatDelimiter(t, sub.pos, ")"), tables |-> {}, subs |-> << sub.query >>]
                ELSE [pos |-> EatIdentifier(t, p), tables |-> {Name(t, p)}, subs |-> << >>]
      rest == TableList(t, item.pos + 1)
  IN IF item.pos = 0 \/ ~IsDelimiter(t, item.pos, ",") THEN item
     ELSE [pos |-> rest.pos, tables |-> item.tables \cup rest.tables, subs |-> item.subs \o rest.subs]

ParseQuery(t, p) ==
  LET fields == FieldList(t, EatKeyword(t, p, "select"))
      from   == TableList(t, EatKeyword(t, fields.pos, "from"))
      where  == WherePart(t, from.pos)
      group  == ByPart(t, where.pos, "group")
      sort   == ByPart(t, group.pos, "order")
  IN [pos |-> sort.pos,
      query |-> Query(fields.list, from.tables, from.subs, where.list, group.list, sort.list)]

(***************************************************************************)
(* The other statements.  Each gives a position and what was read; what    *)
(* stands behind the end of a statement is not looked at.                  *)
(***************************************************************************)
RECURSIVE FieldDefinitionList(_, _)

\* fieldDefinition and fieldType, then the rest of the list after a comma.
FieldDefinitionList(t, p) ==
  LET type == At(t, p + 1)
      simple == type \in {<< "int" >>, << "bool" >>}
      sized == /\ type = << "varchar" >> /\ IsDelimiter(t, p + 2, "(")
               /\ IsNumber(At(t, p + 3)) /\ IsDelimiter(t, p + 4, ")")
      next == IF simple THEN p + 2 ELSE p + 5
      item == << [name |-> Name(t, p), type |-> type[1],
                  length |-> IF simple THEN 0 ELSE NVal[At(t, p + 3)[1]]] >>
      rest == FieldDefinitionList(t, next + 1)
  IN IF ~IsIdentifier(t, p) \/ ~(simple \/ sized) THEN Nothing(0)
     ELSE IF IsDelimiter(t, next, ",") THEN [pos |-> rest.pos, list |-> item \o rest.list]
     ELSE [pos |-> next, list |-> item]

ParseInsert(t) ==
  LET open   == EatDelimiter(t, EatIdentifier(t, EatKeyword(t, 2, "into")), "(")
      fields == FieldList(t, open)
      again  == EatDelimiter(t, EatKeyword(t, EatDelimiter(t, fields.pos, ")"), "values"), "(")
      values == ConstantList(t, again)
  IN [pos |-> EatDelimiter(t, values.pos, ")"),
      stmt |-> [kind |-> "insert", table |-> Name(t, 3), fields |-> fields.list, values |-> values.list]]

ParseDelete(t) ==
  LET where == WherePart(t, EatIdentifier(t, EatKeyword(t, 2, "from")))
  IN [pos |-> where.pos, stmt |-> [kind |-> "delete", table |-> Name(t, 3), pred |-> where.list]]

\* The new value is declared and never read from the text: the null expression.
ParseModify(t) ==
  LET after == EatIdentifier(t, EatKeyword(t, EatIdentifier(t, 2), "set"))
      where == WherePart(t, EatDelimiter(t, after, "="))
  IN [pos |-> where.pos,
      stmt |-> [kind |-> "modify", table |-> Name(t, 2), field |-> Name(t, 4),
                value |-> Const(Null), pred |-> where.list]]

ParseCreateTable(t) ==
  LET schema == FieldDefinitionList(t, EatDelimiter(t, EatIdentifier(t, 3), "("))
  IN [pos |-> EatDelimiter(t, schema.pos, ")"),
      stmt |-> [kind |-> "createtable", table |-> Name(t, 3), schema |-> schema.list]]

ParseCreateView(t) ==
  LET def == ParseQuery(t, EatKeyword(t, EatIdentifier(t, 3), "as"))
  IN [pos |-> def.pos, stmt |-> [kind |-> "createview", table |-> Name(t, 3), query |-> def.query]]

ParseCreateIndex(t) ==
  LET open == EatDelimiter(t, EatIdentifier(t, EatKeyword(t, EatIdentifier(t, EatKeyword(t, 2, "index")), "on")), "(")
  IN [pos |-> EatDelimiter(t, EatIdentifier(t, open), ")"),
      stmt |-> [kind |-> "createindex", index |-> Name(t, 3), table |-> Name(t, 5), field |-> Name(t, 7)]]

\* main asks for a query when the text begins with "select", for an update otherwise.
Parse(t) ==
  LET q == ParseQuery(t, 1) IN
  CASE IsKeyword(t, 1, "select") -> [pos |-> q.pos, stmt |-> q.query]
    [] IsKeyword(t, 1, "insert") -> ParseInsert(t)
    [] IsKeyword(t, 1, "delete") -> ParseDelete(t)
    [] IsKeyword(t, 1, "update") -> ParseModify(t)
    [] IsKeyword(t, 1, "create") /\ IsKeyword(t, 2, "table") -> ParseCreateTable(t)
    [] IsKeyword(t, 1, "create") /\ IsKeyword(t, 2, "view")  -> ParseCreateView(t)
    [] IsKeyword(t, 1, "create") -> ParseCreateIndex(t)
    [] OTHER -> [pos |-> 0, stmt |-> [kind |-> "none"]]

(***************************************************************************)
(* Texts.  As somebody writes them, with a space between any two lexemes;  *)
(* and as QueryData::toString prints them for ViewMgr to store and the     *)
(* planner to parse again: a term without spaces, a string without quotes. *)
(***************************************************************************)
RECURSIVE Joined(_, _)
Joined(texts, separator) ==
  IF texts = << >> THEN << >>
  ELSE texts[1] \o (IF Len(texts) = 1 THEN << >> ELSE << separator >>) \o Joined(Tail(texts), separator)

Words(lexemes) == [i \in DOMAIN lexemes |-> << lexemes[i] >>]
Commas(lexemes) == Joined([i \in DOMAIN lexemes |-> Words(<< lexemes[i] >>)], << "," >>)

\* A constant as it is written, and as Constant::toString prints it.
Written(c) == IF c.kind = "int" THEN CHOOSE l \in DOMAIN NVal : NVal[l] = c.int
                                ELSE CHOOSE l \in DOMAIN SVal : SVal[l] = c.str
Printed(c) == IF c.kind = "int" THEN Written(c) ELSE c.str

TermText(t, stored) ==
  LET Side(e) == IF e.value.kind = "null" THEN e.field
                 ELSE IF stored THEN Printed(e.value) ELSE Written(e.value)
      lexemes == << Side(t.lhs), "=", Side(t.rhs) >>
  IN IF stored THEN << lexemes >> ELSE Words(lexemes)

WhereText(pred, stored) ==
  IF pred = << >> THEN << >>
  ELSE Words(<< "where" >>) \o Joined([i \in DOMAIN pred |-> TermText(pred[i], stored)], << "and" >>)

ByText(word, names) == IF names = << >> THEN << >> ELSE Words(<< word, "by" >>) \o Commas(names)

SortedTables(q) == SelectSeq(TableOrder, LAMBDA n : n \in q.tables)

RECURSIVE QueryText(_, _)
QueryText(q, stored) ==
  LET tables == SortedTables(q)
      from == [i \in DOMAIN tables |-> Words(<< tables[i] >>)]
              \o [i \in DOMAIN q.subs |-> Words(<< "(" >>) \o QueryText(q.subs[i], stored) \o Words(<< ")" >>)]
  IN Words(<< "select" >>) \o Commas(q.fields) \o Words(<< "from" >>) \o Joined(from, << "," >>)
     \o WhereText(q.pred, stored) \o ByText("group", q.group) \o ByText("order", q.sort)

DefinitionText(d) ==
  Words(<< d.name, d.type >>)
  \o (IF d.type = "varchar" THEN Words(<< "(", Written(Num(d.length)), ")" >>) ELSE << >>)

\* A statement as it is written.
StatementText(s) ==
  CASE s.kind = "query"  -> QueryText(s, FALSE)
    [] s.kind = "insert" -> Words(<< "insert", "into", s.table, "(" >>) \o Commas(s.fields)
                            \o Words(<< ")", "values", "(" >>)
                            \o Commas([i \in DOMAIN s.values |-> Written(s.values[i])]) \o Words(<< ")" >>)
    [] s.kind = "delete" -> Words(<< "delete", "from", s.table >>) \o WhereText(s.pred, FALSE)
    [] s.kind = "modify" -> Words(<< "update", s.table, "set", s.field, "=", Written(s.value.value) >>)
                            \o WhereText(s.pred, FALSE)
    [] s.kind = "createtable" -> Words(<< "create", "table", s.table, "(" >>)
                            \o Joined([i \in DOMAIN s.schema |-> DefinitionText(s.schema[i])], << "," >>)
                            \o Words(<< ")" >>)
    [] s.kind = "createview"  -> Words(<< "create", "view", s.table, "as" >>) \o QueryText(s.query, FALSE)
    [] s.kind = "createindex" -> Words(<< "create", "index", s.index, "on", s.table, "(", s.field, ")" >>)
=============================================================================
