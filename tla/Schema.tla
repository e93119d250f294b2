------------------------------- MODULE Schema -------------------------------
(***************************************************************************)
(* Schemas of tables, src/sql/schema.c: created from columns, written to a *)
(* buffer and read back.  The buffer is the sequence of the fields written *)
(* in it, each with its size in bytes, and has room for them; the next     *)
(* AUTOINCREMENT value is written in two halves.                           *)
(***************************************************************************)
EXTENDS Naturals, Sequences

CONSTANTS
    Name,               \* names and default values that fit in their fields
    ColumnTypes,        \* ColumnType
    ColumnLists,        \* the columns of the tables
    MAX_COLUMNS,
    Half                \* the values of half an auto_increment, 2^32

SchemaColumn ==
    [name : Name, type : ColumnTypes, not_null : BOOLEAN, primary_key : BOOLEAN,
     auto_increment : BOOLEAN, default_value : Name \cup {""}]

ASSUME SchemaAssumption ==
    ColumnLists \subseteq Seq(SchemaColumn) \ {<<>>} /\ MAX_COLUMNS \in Nat /\ Half \in Nat \ {0}

VARIABLES
    schema,             \* the schema
    buf,                \* the buffer, a sequence of [size, val]
    size,               \* the size returned with it
    restored,           \* what schema_deserialize returned: [done, schema]
    written             \* history: the schema as it was written

schemaVars == <<schema, buf, size, restored, written>>

NoSchema == [table_name |-> "", columns |-> <<>>, auto_increment |-> 0]

NotRead == [done |-> FALSE, schema |-> NoSchema]

\* The columns are cloned; the first AUTOINCREMENT value is 1.
schema_create(table_name, columns) ==
    IF columns = <<>> THEN NoSchema
    ELSE [table_name |-> table_name, columns |-> columns, auto_increment |-> 1]

SchemaInit ==
    /\ \E t \in Name, columns \in ColumnLists : schema = schema_create(t, columns)
    /\ buf = <<>>
    /\ size = 0
    /\ restored = NotRead
    /\ written = NoSchema

\* A row takes values.  No code in src/ does yet; the field is for it.
NextValue(n) ==
    /\ schema.auto_increment < n
    /\ schema' = [schema EXCEPT !.auto_increment = n]
    /\ UNCHANGED <<buf, size, restored, written>>

Put(bytes, val) == [size |-> bytes, val |-> val]
Bit(b) == IF b THEN 1 ELSE 0

\* Mutant: the halves in the other order.
Header_swapped(s) ==
    <<Put(4, "SCHM"), Put(4, 1), Put(64, s.table_name), Put(4, Len(s.columns)),
      Put(4, s.auto_increment % Half), Put(4, s.auto_increment \div Half)>>

Header(s) ==
    <<Put(4, "SCHM"), Put(4, 1), Put(64, s.table_name), Put(4, Len(s.columns)),
      Put(4, s.auto_increment \div Half), Put(4, s.auto_increment % Half)>>

ColumnFields(c) ==
    <<Put(64, c.name), Put(4, c.type), Put(4, Bit(c.not_null)), Put(4, Bit(c.primary_key)),
      Put(4, Bit(c.auto_increment)), Put(256, c.default_value)>>

\* The bytes of six fields.
Bytes(fields) ==
    fields[1].size + fields[2].size + fields[3].size + fields[4].size + fields[5].size + fields[6].size

HeaderFields == 6
PerColumn == 6

\* The fields of a schema in order, and their bytes.
Fields(s) ==
    [k \in 1 .. HeaderFields + PerColumn * Len(s.columns) |->
       IF k <= HeaderFields THEN Header(s)[k]
       ELSE LET at == k - HeaderFields - 1
            IN  ColumnFields(s.columns[(at \div PerColumn) + 1])[(at % PerColumn) + 1]]

SizeOf(s) == Bytes(Header(s)) + Len(s.columns) * Bytes(ColumnFields(s.columns[1]))

schema_serialize ==
    /\ buf' = Fields(schema)
    /\ size' = SizeOf(schema)
    /\ written' = schema
    /\ restored' = NotRead
    /\ UNCHANGED schema

ColumnAt(b, i) ==
    LET field(k) == b[HeaderFields + PerColumn * (i - 1) + k].val
    IN  [name |-> field(1), type |-> field(2), not_null |-> field(3) # 0,
         primary_key |-> field(4) # 0, auto_increment |-> field(5) # 0, default_value |-> field(6)]

\* Nothing is returned for a buffer that is shorter than 148 bytes, has another
\* magic or version, or more columns than there may be.
Restore(b, bytes) ==
    IF bytes < 148 \/ b[1].val # "SCHM" \/ b[2].val # 1 \/ b[4].val > MAX_COLUMNS THEN NoSchema
    ELSE LET read == schema_create(b[3].val, [i \in 1 .. b[4].val |-> ColumnAt(b, i)])
         IN  [read EXCEPT !.auto_increment = b[5].val * Half + b[6].val]

schema_deserialize ==
    /\ buf # <<>>
    /\ restored' = [done |-> TRUE, schema |-> Restore(buf, size)]
    /\ UNCHANGED <<schema, buf, size, written>>

SchemaNext ==
    \/ \E n \in 1 .. Half * Half - 1 : NextValue(n)
    \/ schema_serialize
    \/ schema_deserialize

SchemaSpec == SchemaInit /\ [][SchemaNext]_schemaVars

----------------------------------------------------------------------------
(* Properties.                                                             *)

\* What is read from a buffer is the schema as it was when it was written, every
\* column, flag and default value of it and the whole AUTOINCREMENT value, whatever
\* has been taken from the schema since; a schema with more columns than there may
\* be was written all the same, and is not read.
ReadsBack ==
    restored.done =>
       restored.schema = IF Len(written.columns) <= MAX_COLUMNS THEN written ELSE NoSchema
=============================================================================
