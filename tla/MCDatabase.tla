----------------------------- MODULE MCDatabase -----------------------------
\* A table beside the catalogs, a schema with a BOOL field and one with an int
\* and a string, two indexes, two values, one of them a short string.
EXTENDS Database

BoolField(f) == [name |-> f, type |-> "bool", length |-> 0]
SmallSchemas == {<< BoolField("a") >>, << IntField("a"), StringField("b", 9) >>}
=============================================================================
