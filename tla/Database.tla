------------------------------ MODULE Database ------------------------------
(***************************************************************************)
(* The database as a client of one connection sees it: its start and the   *)
(* catalogs (app/SampleDB, meta/), the statements that change tables and   *)
(* their indexes (indexing/IndexUpdatePlanner), and the result sets of     *)
(* queries (interface/), driven as app/main.cpp drives them: one statement *)
(* at a time, a result set read to its end and closed.                     *)
(*                                                                         *)
(* A statement commits when it succeeds and is rolled back when it throws, *)
(* so that it is one step here; Recovery and Records model what happens    *)
(* inside.  The undo of ints restores them; the undo of strings does what  *)
(* SetStringRecord does: it leaves empty strings, and a log record whose   *)
(* old string has one to three characters ends every process that reads    *)
(* it.  A file of records is a sequence of slots, an index the set of its  *)
(* entries (Records and BTree model both).  Of the statistics only the     *)
(* first read of the catalogs is kept: no plan depends on their numbers.   *)
(***************************************************************************)
EXTENDS Integers, Sequences, FiniteSetsExt

CONSTANTS
  Tables,      \* the names tables are created with
  TempNames,   \* those of them that begin with "temp"
  Schemas,     \* sequences of [name, type, length], no name twice in one
  IndexNames, Fields, Vals, Views,
  Short,       \* the strings of one to three characters among Vals; 0 is the empty one
  MaxSlots,    \* bound: slots of a file
  MaxOps,      \* bound: statements, queries among them
  MaxCrashes   \* bound: ends of the process

ASSUME NamesAssumption ==
  /\ TempNames \subseteq Tables
  /\ {"tblcat", "fldcat", "viewcat", "idxcat"} \cap Tables = {}   \* a statement that creates one of these is left out
ASSUME SchemasAssumption ==
  /\ Schemas \subseteq Seq([name : Fields, type : {"int", "varchar", "bool"}, length : Nat])
  /\ \A schema \in Schemas : \A i, j \in DOMAIN schema : i # j => schema[i].name # schema[j].name
ASSUME ValuesAssumption == Short \subseteq Vals
ASSUME BoundsAssumption == MaxSlots \in Nat

VARIABLES
  exists,      \* whether the directory exists (not FileMgr::_isNew)
  boot,        \* "off", "creating", "up", "dead"
  work,        \* the catalogs as the first start's transaction has them
  catalog,     \* the committed catalogs
  files,       \* for every table, the slots of its file
  entries,     \* for every index, its entries
  result,      \* the open result set: its state, and whether its transaction lives
  ops, crashes,
  created,     \* history: the schemas each table was created with
  badLog,      \* the log behind the last checkpoint has a record that cannot be read
  formed       \* history: the first start has committed
disk == << exists, catalog, files, entries, badLog >>
history == << created, formed >>
vars == << disk, boot, work, result, ops, crashes, history >>

NoResult == [state |-> "none", live |-> FALSE]

(***************************************************************************)
(* Layouts and catalogs.                                                   *)
(***************************************************************************)
IntSize == 4
LengthInBytes(f) == IF f.type = "varchar" THEN IntSize + f.length ELSE IntSize

\* Mutant: the slot's flag is forgotten.
OffsetNoFlag(schema, i) ==
  LET pos[j \in 1..Len(schema) + 1] == IF j = 1 THEN 0 ELSE pos[j - 1] + LengthInBytes(schema[j - 1])
  IN pos[i]
\* Layout(schema): the fields one behind the other, behind the flag.
Offset(schema, i) ==
  LET pos[j \in 1..Len(schema) + 1] == IF j = 1 THEN IntSize ELSE pos[j - 1] + LengthInBytes(schema[j - 1])
  IN pos[i]
SlotSize(schema) == Offset(schema, Len(schema) + 1)

IntField(f) == [name |-> f, type |-> "int", length |-> 0]
StringField(f, n) == [name |-> f, type |-> "varchar", length |-> n]
MaxName == 16
MaxViewDef == 100
CatalogSchema(n) ==
  CASE n = "tblcat"  -> << StringField("tblname", MaxName), IntField("slotsize") >>
    [] n = "fldcat"  -> << StringField("tblname", MaxName), StringField("fldname", MaxName),
                           IntField("type"), IntField("length"), IntField("offset") >>
    [] n = "viewcat" -> << StringField("viewname", MaxName), StringField("viewdef", MaxViewDef) >>
    [] n = "idxcat"  -> << StringField("indexname", MaxName), StringField("tablename", MaxName),
                           StringField("fieldname", MaxName) >>
\* In the order in which TableMgr, ViewMgr and IndexMgr create them.
Catalogs == << "tblcat", "fldcat", "viewcat", "idxcat" >>

NoCatalog == [tables |-> << >>, fields |-> << >>, views |-> << >>, indexes |-> << >>]

\* TableMgr::createTable does not look whether the name is there already.
WithTable(c, n, schema) ==
  [c EXCEPT !.tables = Append(@, [table |-> n, slotsize |-> SlotSize(schema)]),
            !.fields = @ \o [i \in DOMAIN schema |-> [table |-> n, field |-> schema[i], offset |-> Offset(schema, i)]]]

\* A scan of a catalog for the rows of a table.
RowsOf(rows, n) ==
  LET of[i \in 0..Len(rows)] ==
        IF i = 0 THEN << >> ELSE IF rows[i].table = n THEN Append(of[i - 1], rows[i]) ELSE of[i - 1]
  IN of[Len(rows)]

\* The slot size of the first row, the fields of all rows; -1 without a row.
GetLayout(c, n) ==
  LET rows == RowsOf(c.tables, n)
      of   == RowsOf(c.fields, n)
  IN [slotsize |-> IF rows = << >> THEN -1 ELSE rows[1].slotsize,
      fields   |-> [i \in DOMAIN of |-> of[i].field],
      offsets  |-> [i \in DOMAIN of |-> of[i].offset]]

FieldNames(c, n) == LET l == GetLayout(c, n).fields IN {l[i].name : i \in DOMAIN l}
FieldsOfType(c, n, t) ==
  LET l == GetLayout(c, n).fields IN {l[i].name : i \in {j \in DOMAIN l : l[j].type = t}}

\* getIndexInfo: one index for every field, the one created last.
IndexRows(c, n, f) == {k \in DOMAIN c.indexes : c.indexes[k].table = n /\ c.indexes[k].field = f}
IndexInfo(c, n) ==
  [f \in {g \in FieldNames(c, n) : IndexRows(c, n, g) # {}} |-> c.indexes[Max(IndexRows(c, n, f))].index]
\* It builds an IndexInfo from every row, and throws at a field the table lacks.
IndexesFit(c, n) ==
  \A k \in DOMAIN c.indexes : c.indexes[k].table = n => c.indexes[k].field \in FieldNames(c, n)
Indexed(c, n, t) == FieldsOfType(c, n, t) \cap DOMAIN IndexInfo(c, n)

(***************************************************************************)
(* Start, crash.                                                           *)
(***************************************************************************)
Init ==
  /\ exists = FALSE /\ boot = "off" /\ work = NoCatalog /\ catalog = NoCatalog
  /\ files = [n \in Tables |-> << >>]
  /\ entries = [i \in IndexNames |-> {}]
  /\ result = NoResult /\ ops = 0 /\ crashes = 0
  /\ created = [n \in Tables |-> << >>]
  /\ badLog = FALSE /\ formed = FALSE

\* FileMgr's constructor removes every file whose name begins with "temp".
WithoutTemps(fs) == [n \in Tables |-> IF n \in TempNames THEN << >> ELSE fs[n]]

\* The layout of tblcat, read to gather the statistics, has slots of -1 bytes if
\* its row is missing, and the scan runs in front of the page.
OpensCatalogs == IF GetLayout(catalog, "tblcat").slotsize = -1 THEN "dead" ELSE "up"

\* A directory that exists is a database to be recovered.  recover() reads every
\* record behind the last checkpoint, and the process ends at one it cannot read;
\* so there is no checkpoint behind that record, and the next start meets it too.
\* (What recovery undoes is part of Crash.)
Start ==
  /\ boot = "off"
  /\ exists' = TRUE
  /\ files' = WithoutTemps(files)
  /\ boot' = IF ~exists THEN "creating" ELSE IF badLog THEN "dead" ELSE OpensCatalogs
  /\ work' = catalog
  /\ UNCHANGED << catalog, entries, badLog, result, ops, crashes, history >>

\* One catalog after the other, in the transaction of the start.
CreateCatalog ==
  /\ boot = "creating"
  /\ \E k \in DOMAIN Catalogs :
       /\ GetLayout(work, Catalogs[k]).slotsize = -1
       /\ \A j \in 1..k - 1 : GetLayout(work, Catalogs[j]).slotsize # -1
       /\ work' = WithTable(work, Catalogs[k], CatalogSchema(Catalogs[k]))
  /\ UNCHANGED << disk, boot, result, ops, crashes, history >>

\* Mutant: the constructor leaves its transaction without a commit.
CommitStartLost ==
  /\ boot = "creating"
  /\ \A k \in DOMAIN Catalogs : GetLayout(work, Catalogs[k]).slotsize # -1
  /\ boot' = "up" /\ formed' = TRUE
  /\ UNCHANGED << disk, work, result, ops, crashes, created >>

CommitStart ==
  /\ boot = "creating"
  /\ \A k \in DOMAIN Catalogs : GetLayout(work, Catalogs[k]).slotsize # -1
  /\ catalog' = work /\ boot' = "up" /\ formed' = TRUE
  /\ UNCHANGED << exists, files, entries, badLog, work, result, ops, crashes, created >>

(***************************************************************************)
(* A statement that did not get to its commit, and its undo.  setString    *)
(* logs the string it replaces, and SetStringRecord reads it back four     *)
(* bytes early: a longer one comes back empty, one of one to three         *)
(* characters ends the process that reads the record, be it to undo it or  *)
(* to pass it.                                                             *)
(***************************************************************************)
\* A table with one layout; a name given twice has the fields of both.
Known(n) == Len(created[n]) = 1

\* The slot insert() finds: the first that is not used, if need be a new one.
FreeSlot(n) ==
  CHOOSE s \in 1..Len(files[n]) + 1 :
    /\ s > Len(files[n]) \/ ~files[n][s].used
    /\ \A r \in 1..s - 1 : files[n][r].used

\* The strings of records, by slot and field, that a statement on n may have
\* replaced: fields of the slot it inserts, or one field of records it selects.
Replaced(n) ==
  LET strings == FieldsOfType(catalog, n, "varchar")
      used    == {s \in DOMAIN files[n] : files[n][s].used}
  IN {{FreeSlot(n)} \X fs : fs \in SUBSET strings} \cup {ss \X {f} : ss \in SUBSET used, f \in strings}
ReplacesShort(n, cells) ==
  \E c \in cells : c[1] \in DOMAIN files[n] /\ files[n][c[1]].vals[c[2]] \in Short

\* An entry that enters or leaves a leaf of string keys moves others, key by key:
\* a statement on n may have replaced some keys of its indexes.  Which of them, and
\* which removed ones behind the last entry of a leaf, is left open.
Keys(n) == UNION {{i} \X entries[i] : i \in {IndexInfo(catalog, n)[f] : f \in Indexed(catalog, n, "varchar")}}
MovesShort(n, fs) == Short # {} /\ fs \cap Indexed(catalog, n, "varchar") # {}

Emptied(r, s, cells) ==
  [r EXCEPT !.vals = [f \in DOMAIN r.vals |-> IF << s, f >> \in cells THEN 0 ELSE r.vals[f]]]
WithoutStrings(n, cells) == [files EXCEPT ![n] = [s \in DOMAIN @ |-> Emptied(@[s], s, cells)]]
WithoutKeys(keys) ==
  [i \in IndexNames |-> {IF << i, e >> \in keys THEN [e EXCEPT !.val = 0] ELSE e : e \in entries[i]}]

\* unread: a record of it cannot be read.
Undone(unread) ==
  \/ ~unread /\ UNCHANGED << files, entries >>
  \/ \E n \in Tables :
       /\ Known(n) /\ IndexesFit(catalog, n)
       /\ \E cells \in Replaced(n), keys \in SUBSET Keys(n) :
            /\ files' = WithoutStrings(n, cells) /\ entries' = WithoutKeys(keys)
            /\ \/ unread = (ReplacesShort(n, cells) \/ \E k \in keys : k[2].val \in Short)
               \/ unread /\ MovesShort(n, FieldNames(catalog, n))

\* The end of the process, by exit or at any other moment: what was committed
\* stays, and the next start undoes the statement that was running.  If the log
\* file was growing, its last block has no header and cannot be read (LogMgr).
Crash ==
  /\ boot # "off" /\ crashes < MaxCrashes
  /\ boot' = "off" /\ crashes' = crashes + 1 /\ result' = NoResult /\ work' = NoCatalog
  /\ \E unread, headless \in BOOLEAN :
       /\ IF boot = "up" THEN Undone(unread) ELSE ~unread /\ UNCHANGED << files, entries >>
       /\ headless => boot # "dead"
       /\ badLog' = (badLog \/ unread \/ headless)
  /\ UNCHANGED << exists, catalog, ops, history >>

(***************************************************************************)
(* Statements.                                                             *)
(***************************************************************************)
\* Statement::executeUpdate: a statement of main, with no result set open.
Called ==
  /\ boot = "up" /\ result = NoResult /\ ops < MaxOps
  /\ ops' = ops + 1
  /\ UNCHANGED << exists, work, result, crashes, formed >>
Executes == Called /\ UNCHANGED boot
\* It replaced strings of records and moved keys of indexes; cells and fs say which.
Logged(n, cells, fs) ==
  badLog' \in {badLog \/ ReplacesShort(n, cells), badLog \/ ReplacesShort(n, cells) \/ MovesShort(n, fs)}
Strings(n, slots, fs) == slots \X (fs \cap FieldsOfType(catalog, n, "varchar"))

CreateTable(n, schema) ==
  /\ Executes
  /\ catalog' = WithTable(catalog, n, schema)
  /\ created' = [created EXCEPT ![n] = Append(@, schema)]
  /\ UNCHANGED << files, entries, badLog >>

CreateView(v) ==
  /\ Executes
  /\ catalog' = [catalog EXCEPT !.views = Append(@, v)]
  /\ UNCHANGED << files, entries, badLog, created >>

\* IndexMgr::createIndex adds a row to idxcat, whether or not there is such a table
\* or field; the records that are there do not enter the index.  "early" is
\* history: there were none.
CreateIndex(i, n, f) ==
  /\ Executes
  /\ catalog' = [catalog EXCEPT !.indexes =
       Append(@, [index |-> i, table |-> n, field |-> f, early |-> \A s \in DOMAIN files[n] : ~files[n][s].used])]
  /\ UNCHANGED << files, entries, badLog, created >>

\* Mutant: a record has the listed fields only.
RecordListed(n, s, values) == [used |-> TRUE, vals |-> values, given |-> DOMAIN values]

\* A slot keeps the values of its last record in the fields that are not
\* listed; "given" is history: the fields that had a value from a statement.
Record(n, s, values) ==
  LET old == IF s <= Len(files[n]) THEN files[n][s].vals ELSE [f \in FieldNames(catalog, n) |-> 0]
  IN [used |-> TRUE, vals |-> [f \in DOMAIN old |-> IF f \in DOMAIN values THEN values[f] ELSE old[f]],
      given |-> DOMAIN values]

\* The entries of the indexes after one record's were removed and others added.
Reindexed(n, gone, new) ==
  [i \in IndexNames |->
     LET fs == {f \in DOMAIN IndexInfo(catalog, n) : IndexInfo(catalog, n)[f] = i}
     IN (entries[i] \ {e \in gone : e.field \in fs}) \cup {e \in new : e.field \in fs}]
Entry(f, v, s) == [field |-> f, val |-> v, slot |-> s]

\* The index of a BOOL field has keys of type VARCHAR, and comparing one of them
\* with an int ends the process.
Changes(n, fs) ==
  /\ Executes
  /\ Known(n) /\ IndexesFit(catalog, n)
  /\ fs \cap Indexed(catalog, n, "bool") = {}
  /\ UNCHANGED << catalog, created >>

ExecuteInsert(n, values) ==
  /\ Changes(n, DOMAIN values)
  /\ LET s == FreeSlot(n) IN
     /\ s <= MaxSlots
     /\ Logged(n, Strings(n, {s}, DOMAIN values), DOMAIN values)
     /\ files' = [files EXCEPT ![n] = IF s > Len(@) THEN Append(@, Record(n, s, values))
                                                    ELSE [@ EXCEPT ![s] = Record(n, s, values)]]
     /\ entries' = Reindexed(n, {}, {Entry(f, values[f], s) : f \in DOMAIN values})

\* The slots that a condition "f = v" selects.
Selected(n, f, v) == {s \in DOMAIN files[n] : files[n][s].used /\ files[n][s].vals[f] = v}
Touched(n, fs, f, v) == IF Selected(n, f, v) = {} THEN {} ELSE fs

\* Every index loses the entry of the record's value, then the record goes.
ExecuteDelete(n, f, v) ==
  /\ Changes(n, Touched(n, FieldNames(catalog, n), f, v))
  /\ Logged(n, {}, Touched(n, FieldNames(catalog, n), f, v))
  /\ files' = [files EXCEPT ![n] = [s \in DOMAIN @ |-> IF s \in Selected(n, f, v) THEN [@[s] EXCEPT !.used = FALSE] ELSE @[s]]]
  /\ entries' = Reindexed(n, {Entry(g, files[n][s].vals[g], s) : g \in FieldNames(catalog, n), s \in Selected(n, f, v)}, {})

\* A record after its field g was set.
WithValue(r, g, w) == [r EXCEPT !.vals[g] = w, !.given = @ \cup {g}]

\* Mutant: the old value is read after the new one has been set.
ExecuteModifyReadsLate(n, g, w, f, v) ==
  /\ Changes(n, Touched(n, {g}, f, v))
  /\ Logged(n, Strings(n, Selected(n, f, v), {g}), Touched(n, {g}, f, v))
  /\ files' = [files EXCEPT ![n] = [s \in DOMAIN @ |->
       IF s \in Selected(n, f, v) THEN WithValue(@[s], g, w) ELSE @[s]]]
  /\ entries' = Reindexed(n, {Entry(g, w, s) : s \in Selected(n, f, v)},
                             {Entry(g, w, s) : s \in Selected(n, f, v)})

\* Only the index of the changed field moves its entry.  (The parser never
\* gives a value: a statement's text fails here; a ModifyData made by a caller
\* does not.)
ExecuteModify(n, g, w, f, v) ==
  /\ Changes(n, Touched(n, {g}, f, v))
  /\ Logged(n, Strings(n, Selected(n, f, v), {g}), Touched(n, {g}, f, v))
  /\ files' = [files EXCEPT ![n] = [s \in DOMAIN @ |->
       IF s \in Selected(n, f, v) THEN WithValue(@[s], g, w) ELSE @[s]]]
  /\ entries' = Reindexed(n, {Entry(g, files[n][s].vals[g], s) : s \in Selected(n, f, v)},
                             {Entry(g, w, s) : s \in Selected(n, f, v)})

\* An exception: the statement is rolled back, and the caller is told 0 rows,
\* if the rollback can read what it undoes.
UpdateFails ==
  /\ Called
  /\ \E unread \in BOOLEAN :
       /\ Undone(unread)
       /\ boot' = IF unread THEN "dead" ELSE "up"
       /\ badLog' = (badLog \/ unread)
  /\ UNCHANGED << catalog, created >>

\* A statement that ends the process: on a table that does not exist (its layout
\* is empty, and formatting its first block runs in front of the page), with a
\* value that is not of its field's type, or on the index of a BOOL field (the
\* value of a Constant of the other type is a null pointer).
Missing(n) == GetLayout(catalog, n).slotsize = -1
UpdateKills ==
  /\ Called
  /\ \E n \in Tables : Missing(n) \/ (Known(n) /\ IndexesFit(catalog, n))
  /\ boot' = "dead"
  /\ \E unread \in BOOLEAN : Undone(unread) /\ badLog' = (badLog \/ unread)
  /\ UNCHANGED << catalog, created >>

(***************************************************************************)
(* Result sets.  A result set's scan uses the transaction that was the     *)
(* connection's when the query was executed; commit and rollback end that  *)
(* transaction and destroy it.                                             *)
(***************************************************************************)
Session ==
  /\ boot = "up"
  /\ UNCHANGED << disk, work, crashes, history >>

ExecuteQuery ==
  /\ Session /\ result = NoResult /\ ops < MaxOps
  /\ ops' = ops + 1 /\ UNCHANGED boot
  /\ result' \in {[state |-> "open", live |-> TRUE], NoResult}   \* the second: it threw

\* next() and the columns of the row: TRUE, FALSE, or an exception, on which
\* the result set itself rolls back and returns FALSE, or from a column -1.
FetchRow ==
  /\ Session /\ result.state = "open" /\ UNCHANGED << ops, boot >>
  /\ result' \in {result, [result EXCEPT !.state = "ended"]}
NextFails ==
  /\ Session /\ result.state = "open" /\ UNCHANGED << ops, boot >>
  /\ result' = [state |-> "ended", live |-> FALSE]
ColumnFails ==
  /\ Session /\ result.state = "open" /\ UNCHANGED << ops, boot >>
  /\ result' = [result EXCEPT !.live = FALSE]

\* close() closes the scan and commits the connection's transaction.  If one of
\* the two throws, it does both once more: what that leaves is the same.
CloseResult ==
  /\ Session /\ result.state = "ended" /\ UNCHANGED << ops, boot >>
  /\ result' = NoResult

\* The scan of a result set uses the transaction it was opened with.  When that
\* one was destroyed the call is undefined: it goes on as above with what is left
\* in memory, or ends the process.
DeadScan ==
  /\ Session /\ result.state # "none" /\ ~result.live /\ UNCHANGED ops
  /\ boot' = "dead" /\ result' = NoResult

Next ==
  \/ Start \/ CreateCatalog \/ CommitStart \/ Crash
  \/ \E n \in Tables, schema \in Schemas : CreateTable(n, schema)
  \/ \E v \in Views : CreateView(v)
  \/ \E i \in IndexNames, n \in Tables, f \in Fields : CreateIndex(i, n, f)
  \/ \E n \in Tables : \E listed \in SUBSET FieldNames(catalog, n) \ {{}} :
       \E values \in [listed -> Vals] : ExecuteInsert(n, values)
  \/ \E n \in Tables : \E f \in FieldNames(catalog, n), v \in Vals : ExecuteDelete(n, f, v)
  \/ \E n \in Tables : \E f, g \in FieldNames(catalog, n), v, w \in Vals : ExecuteModify(n, g, w, f, v)
  \/ UpdateFails \/ UpdateKills
  \/ ExecuteQuery \/ FetchRow \/ NextFails \/ ColumnFails \/ CloseResult \/ DeadScan

Spec == Init /\ [][Next]_vars

(***************************************************************************)
(* Properties.                                                             *)
(***************************************************************************)
TypeOK ==
  /\ boot \in {"off", "creating", "up", "dead"}
  /\ result.state \in {"none", "open", "ended"} /\ (result # NoResult => boot = "up")
  /\ \A n \in Tables : /\ Len(files[n]) <= MaxSlots
                       /\ Known(n) => \A s \in DOMAIN files[n] :
                            files[n][s].given \subseteq FieldNames(catalog, n) /\ DOMAIN files[n][s].vals = FieldNames(catalog, n)
  /\ \A i \in IndexNames : \A e \in entries[i] : e.field \in Fields /\ e.slot \in 1..MaxSlots
  /\ badLog \in BOOLEAN

\* The layout read back from the catalogs is one in which no field touches
\* another or the slot's flag and all end inside the slot, in the order of
\* creation: for every table created once, and for the catalogs themselves.
Fits(l, schema) ==
  /\ l.fields = schema
  /\ \A i \in DOMAIN schema :
       /\ l.offsets[i] >= IntSize
       /\ l.offsets[i] + LengthInBytes(schema[i]) <= l.slotsize
       /\ \A j \in DOMAIN schema \ {i} :
            \/ l.offsets[i] + LengthInBytes(schema[i]) <= l.offsets[j]
            \/ l.offsets[j] + LengthInBytes(schema[j]) <= l.offsets[i]
LayoutsFit ==
  /\ formed => \A k \in DOMAIN Catalogs : Fits(GetLayout(catalog, Catalogs[k]), CatalogSchema(Catalogs[k]))
  /\ \A n \in Tables : Known(n) => Fits(GetLayout(catalog, n), created[n][1])

\* The index of an int field holds exactly the values its field was given in the
\* records that are there, through reused slots, fields not listed, changes,
\* failed statements, crashes in the middle of one and restarts: if it is the last
\* one of its field, its name is its own, and the table was empty when it was
\* created and is not removed by a start.  (Of string keys nothing is claimed: the
\* undo of a statement empties them.)
Sound(k) ==
  LET r == catalog.indexes[k] IN
  /\ r.early /\ r.table \notin TempNames /\ Known(r.table)
  /\ r.field \in FieldsOfType(catalog, r.table, "int")
  /\ IndexInfo(catalog, r.table)[r.field] = r.index
  /\ \A j \in DOMAIN catalog.indexes \ {k} : catalog.indexes[j].index # r.index
EntriesOf(n, f) ==
  LET records == files[n]
  IN {Entry(f, records[s].vals[f], s) : s \in {t \in DOMAIN records : records[t].used /\ f \in records[t].given}}
IndexMatchesRecords ==
  \A k \in DOMAIN catalog.indexes :
    Sound(k) => entries[catalog.indexes[k].index] = EntriesOf(catalog.indexes[k].table, catalog.indexes[k].field)

\* A directory whose log recovery can read is opened by every later start if the
\* first start has committed, whatever crashed in between, and by none if it has
\* not: FileMgr takes the directory of a first start that crashed for a database.
StartsOnceFormed ==
  boot = "off" /\ exists /\ ~badLog => (OpensCatalogs = "up" <=> formed)
=============================================================================
