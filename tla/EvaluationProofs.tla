-------------------------- MODULE EvaluationProofs --------------------------
(***************************************************************************)
(* Theorems about what is computed from rows and kept about tables: the    *)
(* stored form of schemas, the statistics of tables, LIKE and the clauses  *)
(* on result sets.                                                         *)
(***************************************************************************)
EXTENDS Schema, Statistics, Like, ResultSet, Rounds, TLAPS

----------------------------------------------------------------------------
(* Schemas.                                                                *)

StoredSchema ==
    [table_name : Name, columns : Seq(SchemaColumn) \ {<<>>}, auto_increment : Nat]

\* The header of the buffer of a schema.
LEMMA HeaderStored ==
    ASSUME NEW sch \in StoredSchema
    PROVE  LET b == Fields(sch)
           IN  /\ b[1].val = "SCHM" /\ b[2].val = 1 /\ b[3].val = sch.table_name
               /\ b[4].val = Len(sch.columns)
               /\ b[5].val = sch.auto_increment \div Half /\ b[6].val = sch.auto_increment % Half
  <1>1. Len(sch.columns) \in Nat
    BY DEF StoredSchema
  <1>2. \A k \in 1 .. 6 : Fields(sch)[k] = Header(sch)[k]
    BY <1>1 DEF Fields, HeaderFields, PerColumn
  <1> QED
    BY <1>2 DEF Header, Put

\* The fields of a column are where schema_deserialize looks for them.
LEMMA ColumnStored ==
    ASSUME NEW sch \in StoredSchema, NEW i \in 1 .. Len(sch.columns), NEW k \in 1 .. 6
    PROVE  Fields(sch)[HeaderFields + PerColumn * (i - 1) + k] = ColumnFields(sch.columns[i])[k]
  <1> DEFINE place == 6 + 6 * (i - 1) + k
  <1>1. Len(sch.columns) \in Nat
    BY DEF StoredSchema
  <1>2. /\ place \in 1 .. 6 + 6 * Len(sch.columns) /\ ~(place <= 6)
        /\ ((place - 6 - 1) \div 6) + 1 = i /\ ((place - 6 - 1) % 6) + 1 = k
    BY <1>1
  <1> HIDE DEF place
  <1>3. Fields(sch)[place] = ColumnFields(sch.columns[i])[k]
    BY <1>2 DEF Fields, HeaderFields, PerColumn
  <1> QED
    BY <1>3 DEF place, HeaderFields, PerColumn

\* A column is read as it was written.
LEMMA ColumnRead ==
    ASSUME NEW sch \in StoredSchema, NEW i \in 1 .. Len(sch.columns)
    PROVE  ColumnAt(Fields(sch), i) = sch.columns[i]
  <1> DEFINE col == sch.columns[i]
             got(k) == Fields(sch)[HeaderFields + PerColumn * (i - 1) + k].val
  <1>1. col \in SchemaColumn
    BY DEF StoredSchema
  <1>2. /\ got(1) = col.name /\ got(2) = col.type /\ got(3) = Bit(col.not_null)
        /\ got(4) = Bit(col.primary_key) /\ got(5) = Bit(col.auto_increment)
        /\ got(6) = col.default_value
    <2>1. \A k \in 1 .. 6 : got(k) = ColumnFields(col)[k].val
      BY ColumnStored
    <2>2. /\ ColumnFields(col)[1].val = col.name /\ ColumnFields(col)[2].val = col.type
          /\ ColumnFields(col)[3].val = Bit(col.not_null)
          /\ ColumnFields(col)[4].val = Bit(col.primary_key)
          /\ ColumnFields(col)[5].val = Bit(col.auto_increment)
          /\ ColumnFields(col)[6].val = col.default_value
      BY DEF ColumnFields, Put
    <2> HIDE DEF got, col
    <2> QED
      BY <2>1, <2>2
  <1>3. ColumnAt(Fields(sch), i) =
          [name |-> got(1), type |-> got(2), not_null |-> got(3) # 0, primary_key |-> got(4) # 0,
           auto_increment |-> got(5) # 0, default_value |-> got(6)]
    BY DEF ColumnAt
  <1> HIDE DEF col, got
  <1>4. \A x \in BOOLEAN : (Bit(x) # 0) = x
    BY DEF Bit
  <1>5. /\ (got(3) # 0) = col.not_null /\ (got(4) # 0) = col.primary_key
        /\ (got(5) # 0) = col.auto_increment
    BY <1>1, <1>2, <1>4 DEF SchemaColumn
  <1>6. col = [name |-> col.name, type |-> col.type, not_null |-> col.not_null,
               primary_key |-> col.primary_key, auto_increment |-> col.auto_increment,
               default_value |-> col.default_value]
    BY <1>1 DEF SchemaColumn
  <1> QED
    BY <1>2, <1>3, <1>5, <1>6 DEF col

\* What schema_deserialize makes of the buffer that schema_serialize wrote: the
\* schema, unless it has too many columns.
LEMMA RestoresStored ==
    ASSUME NEW sch \in StoredSchema
    PROVE  Restore(Fields(sch), SizeOf(sch)) =
             IF Len(sch.columns) <= MAX_COLUMNS THEN sch ELSE NoSchema
  <1> DEFINE n == Len(sch.columns)
             b == Fields(sch)
             cols == [i \in 1 .. n |-> ColumnAt(b, i)]
  <1>1. n \in Nat \ {0} /\ sch.columns = [i \in 1 .. n |-> sch.columns[i]]
    BY DEF StoredSchema
  <1>2. SizeOf(sch) = 84 + n * 336
    <2>1. Bytes(Header(sch)) = 84
      BY DEF Bytes, Header, Put
    <2>2. Bytes(ColumnFields(sch.columns[1])) = 336
      BY DEF Bytes, ColumnFields, Put
    <2> QED
      BY <2>1, <2>2 DEF SizeOf
  <1>3. ~(SizeOf(sch) < 148)
    BY <1>1, <1>2
  <1>4. cols = sch.columns
    BY <1>1, ColumnRead
  <1>5. (sch.auto_increment \div Half) * Half + (sch.auto_increment % Half) = sch.auto_increment
    BY SchemaAssumption DEF StoredSchema
  <1>6. schema_create(sch.table_name, cols) =
          [table_name |-> sch.table_name, columns |-> sch.columns, auto_increment |-> 1]
    BY <1>4, Zenon DEF schema_create, StoredSchema
  <1>7. [schema_create(sch.table_name, cols) EXCEPT !.auto_increment = sch.auto_increment] = sch
    <2>1. sch = [table_name |-> sch.table_name, columns |-> sch.columns,
                 auto_increment |-> sch.auto_increment]
      BY DEF StoredSchema
    <2>2. [schema_create(sch.table_name, cols) EXCEPT !.auto_increment = sch.auto_increment] =
            [table_name |-> sch.table_name, columns |-> sch.columns,
             auto_increment |-> sch.auto_increment]
      BY <1>6
    <2> QED
      BY <2>1, <2>2
  <1> HIDE DEF cols
  <1>8. Restore(b, SizeOf(sch)) =
          IF n > MAX_COLUMNS THEN NoSchema
          ELSE [schema_create(sch.table_name, cols) EXCEPT !.auto_increment = sch.auto_increment]
    BY <1>3, <1>5, HeaderStored, Zenon DEF Restore, cols
  <1> QED
    BY <1>1, <1>7, <1>8, SchemaAssumption

\* The schema is one that can be stored, the buffer holds the fields of the schema
\* that was written, and what was read is what it stands for.
SchemaInv ==
    /\ schema \in StoredSchema
    /\ buf # <<>> => written \in StoredSchema /\ buf = Fields(written) /\ size = SizeOf(written)
    /\ restored.done \in BOOLEAN
    /\ ReadsBack

\* ReadsBack for every set of names, lists of columns and width of the counter:
\* schema_deserialize returns what schema_serialize wrote, or nothing when there are
\* too many columns.
THEOREM SchemaReadsBack == SchemaSpec => []ReadsBack
  <1>1. SchemaInit => SchemaInv
    BY SchemaAssumption
    DEF SchemaInit, SchemaInv, schema_create, NotRead, ReadsBack, StoredSchema
  <1>2. SchemaInv /\ [SchemaNext]_schemaVars => SchemaInv'
    <2> SUFFICES ASSUME SchemaInv, [SchemaNext]_schemaVars
                 PROVE  SchemaInv'
      OBVIOUS
    <2>1. ASSUME NEW n \in 1 .. Half * Half - 1, NextValue(n)
          PROVE  SchemaInv'
      BY <2>1, SchemaAssumption DEF NextValue, SchemaInv, StoredSchema, ReadsBack
    <2>2. CASE schema_serialize
      BY <2>2 DEF schema_serialize, SchemaInv, NotRead, ReadsBack
    <2>3. CASE schema_deserialize
      BY <2>3, RestoresStored DEF schema_deserialize, SchemaInv, ReadsBack
    <2>4. CASE UNCHANGED schemaVars
      BY <2>4 DEF schemaVars, SchemaInv, ReadsBack
    <2> QED
      BY <2>1, <2>2, <2>3, <2>4 DEF SchemaNext
  <1>3. SchemaInv => ReadsBack
    BY DEF SchemaInv
  <1> QED
    BY <1>1, <1>2, <1>3, PTL DEF SchemaSpec
----------------------------------------------------------------------------
(* The statistics of tables.                                               *)

Update == [table : Table, op : Operation, delta : 1 .. 2]
TallyState == [calls : Nat, rows : Nat]
NoTally == [calls |-> 0, rows |-> 0]

\* The tally of the first updates, by their number.
IsTally(f, updates, t, op) ==
    /\ f \in [0 .. Len(updates) -> TallyState]
    /\ f[0] = NoTally
    /\ \A n \in 1 .. Len(updates) : f[n] = Tallied(f[n - 1], updates[n], t, op)
    /\ Tally(updates, t, op) = f[Len(updates)]

\* An update changes a tally to a tally.
LEMMA TalliedType ==
    ASSUME NEW c \in TallyState, NEW u \in Update, NEW t, NEW op
    PROVE  Tallied(c, u, t, op) \in TallyState
  BY DEF Tallied, TallyState, Update

\* Tally is the end of a loop over the updates.
LEMMA TallyRuns ==
    ASSUME NEW updates \in Seq(Update), NEW t, NEW op
    PROVE  \E f : IsTally(f, updates, t, op)
  <1> DEFINE N == Len(updates)
             body == [n \in 1 .. N |-> [c \in TallyState |-> Tallied(c, updates[n], t, op)]]
             Turns(f) == [n \in 0 .. N |->
                            IF n = 0 THEN NoTally ELSE Tallied(f[n - 1], updates[n], t, op)]
             tally == CHOOSE f : f = Turns(f)
  <1>1. N \in Nat /\ NoTally \in TallyState
    BY DEF TallyState, NoTally
  <1>2. body \in [1 .. N -> [TallyState -> TallyState]]
    BY TalliedType
  <1>3. Tally(updates, t, op) = tally[N]
    BY DEF Tally, NoTally
  <1>4. PICK g : AreRounds(g, TallyState, NoTally, N, body)
    <2> HIDE DEF body, N
    <2> QED
      BY <1>1, <1>2, RoundsExist, Zenon
  <1> HIDE DEF N
  <1>5. g \in [0 .. N -> TallyState] /\ g[0] = NoTally
    BY <1>4 DEF AreRounds
  <1>6. ASSUME NEW n \in 1 .. N PROVE g[n] = Tallied(g[n - 1], updates[n], t, op)
    <2>1. g[n - 1] \in TallyState
      BY <1>1, <1>5
    <2>2. g[n] = body[n][g[n - 1]]
      BY <1>4 DEF AreRounds
    <2> QED
      BY <2>1, <2>2
  <1>7. g = Turns(g)
    <2>1. \A n \in 0 .. N : n = 0 \/ n \in 1 .. N
      BY <1>1
    <2> QED
      BY <1>5, <1>6, <2>1
  <1>8. tally = Turns(tally)
    <2> HIDE DEF Turns
    <2> QED
      BY <1>7
  <1> HIDE DEF tally
  <1>9. tally[0] = g[0]
    <2>1. tally[0] = Turns(tally)[0] /\ 0 \in 0 .. N
      BY <1>1, <1>8
    <2> QED
      BY <1>5, <2>1
  <1>10. ASSUME NEW n \in 1 .. N, tally[n - 1] = g[n - 1] PROVE tally[n] = g[n]
    <2>1. n \in 0 .. N /\ n # 0
      BY <1>1
    <2>2. tally[n] = Turns(tally)[n]
      BY <1>8, Zenon
    <2>3. tally[n] = Tallied(tally[n - 1], updates[n], t, op)
      BY <2>1, <2>2
    <2> QED
      BY <1>6, <1>10, <2>3
  <1>11. tally[N] = g[N]
    <2>1. Agree(tally, g, N) /\ N \in 0 .. N
      BY <1>1, <1>9, <1>10 DEF Agree
    <2> QED
      BY <1>1, <2>1, SameRounds
  <1> QED
    BY <1>3, <1>5, <1>6, <1>11 DEF IsTally, N

\* The tally of no updates, and that of one update more.
LEMMA TallyStep ==
    ASSUME NEW updates \in Seq(Update), NEW u \in Update, NEW t, NEW op
    PROVE  /\ Tally(<<>>, t, op) = NoTally
           /\ Tally(updates, t, op) \in TallyState
           /\ Tally(Append(updates, u), t, op) = Tallied(Tally(updates, t, op), u, t, op)
  <1> DEFINE N == Len(updates)
             more == Append(updates, u)
  <1>1. more \in Seq(Update) /\ Len(more) = N + 1 /\ more[N + 1] = u /\ N \in Nat
        /\ \A n \in 1 .. N : more[n] = updates[n]
    OBVIOUS
  <1>2. Tally(<<>>, t, op) = NoTally
    <2>1. <<>> \in Seq(Update) /\ Len(<<>>) = 0
      OBVIOUS
    <2>2. PICK e : IsTally(e, <<>>, t, op)
      BY <2>1, TallyRuns, Zenon
    <2> QED
      BY <2>1, <2>2 DEF IsTally
  <1>3. PICK f : IsTally(f, updates, t, op)
    BY TallyRuns
  <1> HIDE DEF more
  <1>4. PICK g : IsTally(g, more, t, op)
    BY <1>1, TallyRuns, Zenon
  <1>5. Agree(g, f, N)
    BY <1>1, <1>3, <1>4 DEF IsTally, Agree
  <1>6. g[N] = f[N] /\ Tally(updates, t, op) = f[N] /\ f[N] \in TallyState
    <2>1. \A n \in 0 .. N : g[n] = f[n]
      BY <1>1, <1>5, SameRounds
    <2> QED
      BY <1>1, <1>3, <2>1 DEF IsTally
  <1>7. Tally(more, t, op) = Tallied(g[N], u, t, op)
    BY <1>1, <1>4 DEF IsTally
  <1> QED
    BY <1>2, <1>6, <1>7 DEF more
\* A remainder is found by its quotient.
LEMMA RemainderIs ==
    ASSUME NEW M \in Nat \ {0}, NEW x \in Int, NEW q \in Int, NEW r \in 0 .. M - 1, x = M * q + r
    PROVE  x % M = r
  OBVIOUS

\* A counter that wraps counts on from the remainder.
LEMMA WrapsOn ==
    ASSUME NEW M \in Nat \ {0}, NEW x \in Int, NEW d \in Int
    PROVE  ((x % M) + d) % M = (x + d) % M
  <1> DEFINE q == ((x + d) \div M) - (x \div M)
             r == (x + d) % M
  <1>1. \A y \in Int : y \div M \in Int /\ y % M \in 0 .. M - 1 /\ y = M * (y \div M) + (y % M)
    OBVIOUS
  <1>2. /\ x = M * (x \div M) + (x % M) /\ x + d = M * ((x + d) \div M) + r /\ x \div M \in Int
        /\ (x + d) \div M \in Int /\ x % M \in Int /\ q \in Int /\ r \in 0 .. M - 1
    <2>1. x + d \in Int
      OBVIOUS
    <2>2. x = M * (x \div M) + (x % M) /\ x \div M \in Int /\ x % M \in Int
      BY <1>1
    <2>3. x + d = M * ((x + d) \div M) + r /\ (x + d) \div M \in Int /\ r \in 0 .. M - 1
      BY <1>1, <2>1, Zenon
    <2> QED
      BY <2>2, <2>3
  <1>3. (x % M) + d = M * q + r
    BY <1>2
  <1> HIDE DEF q, r
  <1>4. ((x % M) + d) % M = r
    BY <1>2, <1>3, RemainderIs
  <1> QED
    BY <1>4 DEF r
TableEntry ==
    [name : Table, row_count : 0 .. RowCounts - 1, scans : Nat, inserts : Nat, updates : Nat, deletes : Nat]

\* An entry with other counts is an entry.
LEMMA EntryType ==
    ASSUME NEW e \in TableEntry, NEW x \in 0 .. RowCounts - 1, NEW n \in Nat
    PROVE  /\ [e EXCEPT !.inserts = n, !.row_count = x] \in TableEntry
           /\ [e EXCEPT !.deletes = n, !.row_count = x] \in TableEntry
  BY Zenon DEF TableEntry

\* The entry of the table that is updated counts the update.
LEMMA EntryCounts ==
    ASSUME NEW updates \in Seq(Update), NEW u \in Update, NEW e \in TableEntry,
           CountsUpdates(e, u.table, updates)
    PROVE  LET c == Counted(e, u.op, u.delta)
           IN  /\ c \in TableEntry /\ c.name = e.name
               /\ CountsUpdates(c, u.table, Append(updates, u))
  <1> DEFINE c == Counted(e, u.op, u.delta)
             old(op) == Tally(updates, u.table, op)
             new(op) == Tally(Append(updates, u), u.table, op)
             net == old("insert").rows - old("delete").rows
  <1> SUFFICES c \in TableEntry /\ c.name = e.name /\ CountsUpdates(c, u.table, Append(updates, u))
    OBVIOUS
  <1>1. \A op : old(op) \in TallyState /\ new(op) = Tallied(old(op), u, u.table, op)
    BY TallyStep
  <1>2. \A op : new(op) = IF u.op = op THEN [calls |-> old(op).calls + 1, rows |-> old(op).rows + u.delta]
                          ELSE old(op)
    BY <1>1, Zenon DEF Tallied
  <1>3. /\ e.scans = old("scan").calls /\ e.inserts = old("insert").calls
        /\ e.updates = old("update").calls /\ e.deletes = old("delete").calls
        /\ e.row_count = net % RowCounts
    BY DEF CountsUpdates
  <1>4. RowCounts \in Nat \ {0} /\ u.delta \in Int /\ u.op \in Operation
    BY StatisticsAssumption DEF Update
  <1>5. net \in Int
    BY <1>1 DEF TallyState
  <1>6. \A d \in Int : ((net % RowCounts) + d) % RowCounts = (net + d) % RowCounts
    BY <1>4, <1>5, WrapsOn, Zenon
  <1>7. \A y \in Int : y % RowCounts \in 0 .. RowCounts - 1
    BY <1>4
  <1>8. CountsUpdates(c, u.table, Append(updates, u)) <=>
          /\ c.scans = new("scan").calls /\ c.inserts = new("insert").calls
          /\ c.updates = new("update").calls /\ c.deletes = new("delete").calls
          /\ c.row_count = (new("insert").rows - new("delete").rows) % RowCounts
    BY DEF CountsUpdates
  <1> HIDE DEF old, new
  <1>9. CASE u.op = "scan"
    BY <1>2, <1>3, <1>8, <1>9 DEF Counted, TableEntry
  <1>10. CASE u.op = "update"
    BY <1>2, <1>3, <1>8, <1>10, SMTT(30) DEF Counted, TableEntry
  <1>11. CASE u.op = "insert"
    <2>1. c = [e EXCEPT !.inserts = e.inserts + 1, !.row_count = (e.row_count + u.delta) % RowCounts]
      BY <1>11 DEF Counted
    <2>2. new("insert").rows - new("delete").rows = net + u.delta
      BY <1>1, <1>2, <1>4, <1>11, SMTT(30) DEF TallyState
    <2>3. (e.row_count + u.delta) % RowCounts = (net + u.delta) % RowCounts
      BY <1>3, <1>4, <1>6
    <2>4. (e.row_count + u.delta) % RowCounts \in 0 .. RowCounts - 1
      <3>1. net + u.delta \in Int
        BY <1>4, <1>5
      <3> QED
        BY <1>7, <2>3, <3>1
    <2> HIDE DEF net, c
    <2>5. c \in TableEntry
      <3>1. e.inserts + 1 \in Nat
        BY DEF TableEntry
      <3> QED
        BY <2>1, <2>4, <3>1, EntryType, Zenon
    <2>6. /\ c.name = e.name /\ c.scans = e.scans /\ c.updates = e.updates
          /\ c.deletes = e.deletes /\ c.inserts = e.inserts + 1
          /\ c.row_count = (net + u.delta) % RowCounts
      BY <2>1, <2>3 DEF TableEntry
    <2> QED
      BY <1>2, <1>3, <1>8, <1>11, <2>2, <2>5, <2>6
  <1>12. CASE u.op = "delete"
    <2>1. c = [e EXCEPT !.deletes = e.deletes + 1, !.row_count = (e.row_count - u.delta) % RowCounts]
      BY <1>12 DEF Counted
    <2>2. new("insert").rows - new("delete").rows = net + (-u.delta)
      BY <1>1, <1>2, <1>4, <1>12 DEF TallyState
    <2>3. (e.row_count - u.delta) % RowCounts = (net + (-u.delta)) % RowCounts
      <3>1. -u.delta \in Int
        BY <1>4
      <3>2. e.row_count - u.delta = e.row_count + (-u.delta)
        BY <1>4 DEF TableEntry
      <3> QED
        BY <1>3, <1>6, <3>1, <3>2
    <2>4. (e.row_count - u.delta) % RowCounts \in 0 .. RowCounts - 1
      <3>1. net + (-u.delta) \in Int
        BY <1>4, <1>5, SMTT(30)
      <3> QED
        BY <1>7, <2>3, <3>1
    <2> HIDE DEF net, c
    <2>5. c \in TableEntry
      <3>1. e.deletes + 1 \in Nat
        BY DEF TableEntry
      <3> QED
        BY <2>1, <2>4, <3>1, EntryType, Zenon
    <2>6. /\ c.name = e.name /\ c.scans = e.scans /\ c.updates = e.updates
          /\ c.inserts = e.inserts /\ c.deletes = e.deletes + 1
          /\ c.row_count = (net + (-u.delta)) % RowCounts
      BY <2>1, <2>3 DEF TableEntry
    <2> QED
      BY <1>2, <1>3, <1>8, <1>12, <2>2, <2>5, <2>6
  <1> QED
    BY <1>4, <1>9, <1>10, <1>11, <1>12 DEF Operation

\* The entries of other tables count as before.
LEMMA OtherCounts ==
    ASSUME NEW updates \in Seq(Update), NEW u \in Update, NEW t, t # u.table
    PROVE  \A op : Tally(Append(updates, u), t, op) = Tally(updates, t, op)
  BY TallyStep DEF Tallied
Unseen(t, updates) ==
    (\A i \in DOMAIN updates : updates[i].table # t) /\ \A op : Tally(updates, t, op) = NoTally

\* Entries have different names, each counts the updates of its table, and while
\* there is room a table without an entry was not updated.
StatsInv ==
    /\ entries \in Seq(TableEntry) /\ log \in Seq(Update) /\ Len(entries) <= MaxTables
    /\ \A i, j \in DOMAIN entries : entries[i].name = entries[j].name => i = j
    /\ \A i \in DOMAIN entries : CountsUpdates(entries[i], entries[i].name, log)
    /\ \A t \in Table : Found(t) = {} => Unseen(t, log) \/ Len(entries) = MaxTables

\* A new entry starts with no count.
LEMMA EntryStarts ==
    ASSUME NEW t \in Table, NamesFit, NEW updates, Unseen(t, updates)
    PROVE  Entry(t) \in TableEntry /\ Entry(t).name = t /\ CountsUpdates(Entry(t), t, updates)
  <1>1. Entry(t) \in TableEntry /\ Entry(t).name = t
    BY StatisticsAssumption DEF Entry, TableEntry, NamesFit
  <1>2. (0 - 0) % RowCounts = 0
    BY StatisticsAssumption
  <1> QED
    BY <1>1, <1>2 DEF Entry, CountsUpdates, Unseen, NoTally

\* Empty arrays count no updates.
LEMMA StatsStart == entries = <<>> /\ log = <<>> => StatsInv
  <1>1. Len(<<>>) = 0 /\ DOMAIN <<>> = {} /\ \A S : <<>> \in Seq(S)
    OBVIOUS
  <1>2. \A t, op : Tally(<<>>, t, op) = NoTally
    <2>1. \A t, op : \E f : IsTally(f, <<>>, t, op)
      BY <1>1, TallyRuns, Zenon
    <2> QED
      BY <1>1, <2>1 DEF IsTally
  <1> QED
    BY <1>1, <1>2, StatisticsAssumption DEF StatsInv, Unseen

\* An update of one table keeps what the entries of the others and the tables
\* without an entry say.
LEMMA StatsUpdate ==
    ASSUME NEW t \in Table, NEW op \in Operation, NEW delta \in 1 .. 2, NamesFit, StatsInv,
           stats_update_table_stats(t, op, delta)
    PROVE  StatsInv'
  <1> DEFINE u == [table |-> t, op |-> op, delta |-> delta]
  <1>1. u \in Update /\ u.table = t /\ u.op = op /\ u.delta = delta
    BY DEF Update
  <1> HIDE DEF u
  <1>2. log' = Append(log, u) /\ log \in Seq(Update) /\ entries \in Seq(TableEntry)
    BY DEF stats_update_table_stats, StatsInv, u
  <1>3. /\ log' \in Seq(Update) /\ DOMAIN log' = 1 .. Len(log) + 1 /\ DOMAIN log = 1 .. Len(log)
        /\ Len(log) \in Nat /\ log'[Len(log) + 1] = u /\ \A i \in DOMAIN log : log'[i] = log[i]
    BY <1>1, <1>2
  <1>4. \A x : x # t => \A o : Tally(log', x, o) = Tally(log, x, o)
    BY <1>1, <1>2, OtherCounts
  <1>5. ASSUME NEW x, x # t, Unseen(x, log) PROVE Unseen(x, log')
    BY <1>1, <1>3, <1>4, <1>5 DEF Unseen
  <1>6. ASSUME NEW e, NEW x, x # t, CountsUpdates(e, x, log) PROVE CountsUpdates(e, x, log')
    BY <1>4, <1>6 DEF CountsUpdates
  <1>7. ASSUME NEW e \in TableEntry, CountsUpdates(e, t, log)
        PROVE  /\ Counted(e, op, delta) \in TableEntry /\ Counted(e, op, delta).name = e.name
               /\ CountsUpdates(Counted(e, op, delta), t, log')
    BY <1>1, <1>2, <1>7, EntryCounts, Zenon
  <1>8. CASE Found(t) # {}
    <2>1. PICK i \in DOMAIN entries : Found(t) = {i} /\ entries[i].name = t
      BY <1>8 DEF Found, StatsInv
    <2>2. (CHOOSE k \in Found(t) : \A j \in Found(t) : k <= j) = i
      BY <1>2, <2>1
    <2> DEFINE c == Counted(entries[i], op, delta)
    <2>3. entries' = [entries EXCEPT ![i] = c]
      BY <1>8, <2>2, Zenon DEF stats_update_table_stats
    <2>4. c \in TableEntry /\ c.name = t /\ CountsUpdates(c, t, log')
      BY <1>2, <1>7, <2>1 DEF StatsInv
    <2> HIDE DEF c
    <2>5. /\ entries' \in Seq(TableEntry) /\ DOMAIN entries' = DOMAIN entries
          /\ Len(entries') = Len(entries) /\ entries'[i] = c
          /\ \A j \in DOMAIN entries : j # i => entries'[j] = entries[j]
      BY <1>2, <2>3, <2>4
    <2>6. \A j \in DOMAIN entries : entries'[j].name = entries[j].name
      BY <2>1, <2>4, <2>5
    <2>7. \A x : Found(x)' = Found(x)
      BY <2>5, <2>6 DEF Found
    <2>8. ASSUME NEW j \in DOMAIN entries PROVE CountsUpdates(entries'[j], entries'[j].name, log')
      <3>1. CASE j = i
        BY <2>4, <2>5, <3>1
      <3>2. CASE j # i
        <4>1. entries'[j] = entries[j] /\ entries[j].name # t
          BY <2>1, <2>5, <3>2, Zenon DEF StatsInv
        <4> QED
          BY <1>6, <4>1, Zenon DEF StatsInv
      <3> QED
        BY <3>1, <3>2
    <2>9. ASSUME NEW x \in Table, Found(x) = {} PROVE Unseen(x, log') \/ Len(entries') = MaxTables
      <3>1. x # t
        BY <1>8, <2>9, Zenon
      <3> QED
        BY <1>5, <2>5, <2>9, <3>1 DEF StatsInv
    <2> QED
      BY <1>3, <2>5, <2>6, <2>7, <2>8, <2>9 DEF StatsInv
  <1>9. CASE Found(t) = {} /\ Len(entries) < MaxTables
    <2> DEFINE c == Counted(Entry(t), op, delta)
    <2>1. entries' = Append(entries, c)
      BY <1>9 DEF stats_update_table_stats
    <2>2. Unseen(t, log)
      BY <1>2, <1>9, StatisticsAssumption DEF StatsInv
    <2>3. c \in TableEntry /\ c.name = t /\ CountsUpdates(c, t, log')
      BY <1>7, <2>2, EntryStarts, Zenon
    <2> HIDE DEF c
    <2>4. /\ entries' \in Seq(TableEntry) /\ Len(entries) \in Nat /\ Len(entries') = Len(entries) + 1
          /\ DOMAIN entries = 1 .. Len(entries) /\ DOMAIN entries' = 1 .. Len(entries) + 1
          /\ entries'[Len(entries) + 1] = c /\ \A j \in DOMAIN entries : entries'[j] = entries[j]
      BY <1>2, <2>1, <2>3
    <2>5. Len(entries') <= MaxTables
      BY <1>9, <2>4, StatisticsAssumption
    <2>6. \A j \in DOMAIN entries : entries[j].name # t
      BY <1>9, Zenon DEF Found
    <2>7. \A i, j \in DOMAIN entries' : entries'[i].name = entries'[j].name => i = j
      <3>1. \A j \in DOMAIN entries' : j \in DOMAIN entries \/ j = Len(entries) + 1
        BY <2>4, SMTT(30)
      <3> QED
        BY <2>3, <2>4, <2>6, <3>1, Zenon DEF StatsInv
    <2>8. ASSUME NEW j \in DOMAIN entries' PROVE CountsUpdates(entries'[j], entries'[j].name, log')
      <3>1. j \in DOMAIN entries \/ j = Len(entries) + 1
        BY <2>4
      <3> QED
        BY <1>6, <2>3, <2>4, <2>6, <3>1, Zenon DEF StatsInv
    <2>9. ASSUME NEW x \in Table, Found(x)' = {} PROVE Unseen(x, log')
      <3>1. Len(entries) + 1 \in DOMAIN entries' /\ DOMAIN entries \subseteq DOMAIN entries'
        BY <2>4
      <3>2. x # t
        BY <2>3, <2>4, <2>9, <3>1, Zenon DEF Found
      <3>3. Found(x) = {}
        BY <2>4, <2>9, <3>1, Zenon DEF Found
      <3>4. Unseen(x, log)
        <4>1. Len(entries) # MaxTables
          BY <1>2, <1>9, StatisticsAssumption
        <4> QED
          BY <3>3, <4>1 DEF StatsInv
      <3> QED
        BY <1>5, <3>2, <3>4
    <2> QED
      BY <1>3, <2>4, <2>5, <2>7, <2>8, <2>9 DEF StatsInv
  <1>10. CASE Found(t) = {} /\ ~(Len(entries) < MaxTables)
    <2>1. entries' = entries
      BY <1>10 DEF stats_update_table_stats
    <2>2. Len(entries) = MaxTables
      BY <1>2, <1>10, StatisticsAssumption DEF StatsInv
    <2>3. \A j \in DOMAIN entries : entries[j].name # t
      BY <1>10 DEF Found
    <2>4. \A j \in DOMAIN entries : CountsUpdates(entries[j], entries[j].name, log')
      BY <1>6, <2>3 DEF StatsInv
    <2> QED
      BY <1>3, <2>1, <2>2, <2>4 DEF StatsInv
  <1> QED
    BY <1>8, <1>9, <1>10

\* CountsAll for every set of tables, limit and width: each table has one entry,
\* with every update since the last reset in it, unless the array is full.  The
\* hypothesis is the one that stats_update_table_stats needs: it looks a table up
\* by its whole name.
THEOREM StatisticsCountAll == NamesFit => (StatsSpec => []CountsAll)
  <1> SUFFICES ASSUME NamesFit PROVE StatsSpec => []CountsAll
    OBVIOUS
  <1>1. StatsInit => StatsInv
    BY StatsStart DEF StatsInit
  <1>2. StatsInv /\ [StatsNext]_statisticsVars => StatsInv'
    <2> SUFFICES ASSUME StatsInv, [StatsNext]_statisticsVars PROVE StatsInv'
      OBVIOUS
    <2>1. (entries = <<>> /\ log = <<>>)' => StatsInv'
      BY StatsStart, PTL
    <2>2. CASE stats_init \/ stats_reset
      BY <2>1, <2>2 DEF stats_init, stats_reset
    <2>3. CASE stats_destroy \/ UNCHANGED statisticsVars
      BY <2>3 DEF stats_destroy, statisticsVars, StatsInv, Found
    <2>4. CASE \E t \in Table, op \in Operation, delta \in 1 .. 2 : stats_update_table_stats(t, op, delta)
      BY <2>4, StatsUpdate
    <2> QED
      BY <2>2, <2>3, <2>4 DEF StatsNext
  <1>3. StatsInv => CountsAll
    <2> SUFFICES ASSUME StatsInv, NEW t \in Table, Found(t) # {}
                 PROVE  \E i \in DOMAIN entries : Found(t) = {i} /\ CountsUpdates(entries[i], t, log)
      BY DEF CountsAll, StatsInv, Unseen
    <2>1. PICK i \in DOMAIN entries : Found(t) = {i} /\ entries[i].name = t
      BY DEF Found, StatsInv
    <2> QED
      BY <2>1, Zenon DEF StatsInv
  <1> QED
    BY <1>1, <1>2, <1>3, PTL DEF StatsSpec
----------------------------------------------------------------------------
(* LIKE.                                                                   *)

PatternChar == Char \cup {Percent, Underscore}

\* Bounded texts are sequences.
LEMMA TextsAreSequences ==
    ASSUME NEW chars, NEW m \in Nat, NEW t \in Texts(chars, m)
    PROVE  t \in Seq(chars) /\ Len(t) \in 0 .. m
  <1>1. PICK k \in 0 .. m : t \in [1 .. k -> chars]
    BY DEF Texts
  <1>2. k \in Nat
    BY <1>1
  <1> QED
    BY <1>1, <1>2

\* As long as a pattern has no %, its characters stand for one character each.
LEMMA OneEach ==
    ASSUME NEW t \in Seq(Char), NEW q \in Seq(PatternChar), NEW end, Divides(end, t, q),
           NEW k \in 0 .. Len(q), \A n \in 1 .. k : q[n] # Percent
    PROVE  \A n \in 1 .. k : end[n] = n
  <1> DEFINE Good == {n \in 0 .. k : n = 0 \/ end[n] = n}
  <1>1. k \in Nat /\ Len(q) \in Nat
    OBVIOUS
  <1>2. 0 \in Good
    BY <1>1
  <1>3. ASSUME NEW n \in 1 .. k, n - 1 \in Good PROVE n \in Good
    <2>1. n \in 1 .. Len(q) /\ q[n] # Percent /\ n \in 0 .. k
      BY <1>1
    <2>2. end[n] = (IF n = 1 THEN 0 ELSE end[n - 1]) + 1
      BY <2>1 DEF Divides
    <2>3. n - 1 = 0 \/ end[n - 1] = n - 1
      BY <1>3
    <2> QED
      BY <2>1, <2>2, <2>3
  <1> HIDE DEF Good
  <1>4. \A n \in 0 .. k : n \in Good
    BY <1>1, <1>2, <1>3, EveryRound, Zenon
  <1> QED
    BY <1>1, <1>4 DEF Good

\* Before the first % the two positions are the same, and what is behind them
\* agrees.
Aligned ==
    /\ s = p /\ p <= Len(str) + 1 /\ p <= Len(pattern) + 1
    /\ \A i \in 1 .. p - 1 : pattern[i] # Percent /\ pattern[i] \in {Underscore, str[i]}

\* The texts are texts of their lengths, the positions are in them and, before the
\* first %, aligned; behind it the match is running and stays on a %.
LikeInv ==
    /\ str \in Texts(Char, MaxStr) \cup {NotText}
    /\ pattern \in Texts(PatternChar, MaxPattern) \cup {NotText}
    /\ not \in BOOLEAN
    /\ s \in 1 .. MaxStr + 1 /\ p \in 1 .. MaxPattern + 1
    /\ last_star \in 0 .. MaxPattern /\ last_star_s \in 0 .. MaxStr + 1
    /\ result \in {Running, 0, 1}
    /\ ~IsText => last_star = 0
    /\ IsText /\ last_star = 0 => Aligned
    /\ MatchReturned
    /\ StaysOnPercent

\* The types of the operands when they are texts.
LEMMA LikeTexts ==
    ASSUME LikeInv, IsText
    PROVE  /\ str \in Seq(Char) /\ Len(str) \in 0 .. MaxStr
           /\ pattern \in Seq(PatternChar) /\ Len(pattern) \in 0 .. MaxPattern
           /\ Len(str) \in Nat /\ Len(pattern) \in Nat
           /\ p \in Nat \ {0} /\ s \in Nat \ {0}
  <1>1. MaxStr \in Nat /\ MaxPattern \in Nat
    BY LikeAssumption
  <1>2. str \in Seq(Char) /\ Len(str) \in 0 .. MaxStr
    BY <1>1, TextsAreSequences DEF LikeInv, IsText
  <1>3. pattern \in Seq(PatternChar) /\ Len(pattern) \in 0 .. MaxPattern
    BY <1>1, TextsAreSequences DEF LikeInv, IsText
  <1>4. p \in Nat \ {0} /\ s \in Nat \ {0}
    BY <1>1 DEF LikeInv
  <1> QED
    BY <1>1, <1>2, <1>3, <1>4

\* When the pattern has ended, the text matches if and only if it has ended too.
LEMMA PatternEnds ==
    ASSUME LikeInv, IsText, last_star = 0, p > Len(pattern)
    PROVE  Matches(str, pattern) <=> s > Len(str)
  <1>1. /\ str \in Seq(Char) /\ pattern \in Seq(PatternChar) /\ Len(str) \in Nat
        /\ Len(pattern) \in Nat /\ Aligned /\ p \in Nat \ {0}
    BY LikeTexts DEF LikeInv
  <1>2. p = Len(pattern) + 1 /\ s = p /\ p - 1 = Len(pattern)
    BY <1>1 DEF Aligned
  <1>3. \A n \in 1 .. Len(pattern) : pattern[n] # Percent /\ pattern[n] \in {Underscore, str[n]}
    BY <1>1, <1>2 DEF Aligned
  <1>4. ASSUME s > Len(str) PROVE Matches(str, pattern)
    <2> DEFINE end == [n \in 1 .. Len(pattern) |-> n]
    <2>1. Len(str) = Len(pattern)
      BY <1>1, <1>2, <1>4 DEF Aligned
    <2>2. end \in [1 .. Len(pattern) -> 0 .. Len(str)]
      BY <1>1, <2>1
    <2>3. ASSUME NEW n \in 1 .. Len(pattern)
          PROVE  end[n] = (IF n = 1 THEN 0 ELSE end[n - 1]) + 1
      BY <1>1
    <2>4. Len(str) = IF pattern = <<>> THEN 0 ELSE end[Len(pattern)]
      BY <1>1, <2>1
    <2>5. Divides(end, str, pattern)
      BY <1>3, <2>3, <2>4 DEF Divides
    <2> QED
      BY <2>2, <2>5 DEF Matches
  <1>5. ASSUME Matches(str, pattern) PROVE s > Len(str)
    <2>1. PICK end \in [1 .. Len(pattern) -> 0 .. Len(str)] : Divides(end, str, pattern)
      BY <1>5 DEF Matches
    <2>2. Len(pattern) \in 0 .. Len(pattern)
      BY <1>1
    <2>3. \A n \in 1 .. Len(pattern) : end[n] = n
      BY <1>1, <1>3, <2>1, <2>2, OneEach
    <2>4. Len(str) = Len(pattern)
      BY <1>1, <2>1, <2>3 DEF Divides
    <2> QED
      BY <1>1, <1>2, <2>4
  <1> QED
    BY <1>4, <1>5

\* When the text has ended before the pattern, or the next characters differ, the
\* text does not match.
LEMMA NoMatch ==
    ASSUME LikeInv, AtPlain, last_star = 0, s > Len(str) \/ pattern[p] \notin {Underscore, str[s]}
    PROVE  ~Matches(str, pattern)
  <1>1. /\ str \in Seq(Char) /\ pattern \in Seq(PatternChar) /\ Len(str) \in Nat
        /\ Len(pattern) \in Nat /\ Aligned /\ p \in 1 .. Len(pattern) /\ s = p
    <2>1. /\ str \in Seq(Char) /\ pattern \in Seq(PatternChar) /\ Len(str) \in Nat
          /\ Len(pattern) \in Nat /\ p \in Nat \ {0} /\ Aligned
      BY LikeTexts, Zenon DEF LikeInv, AtPlain
    <2> QED
      BY <2>1 DEF Aligned, AtPlain
  <1>2. \A n \in 1 .. p : pattern[n] # Percent
    BY <1>1 DEF Aligned, AtPlain
  <1> SUFFICES ASSUME NEW end \in [1 .. Len(pattern) -> 0 .. Len(str)], Divides(end, str, pattern)
               PROVE  FALSE
    BY DEF Matches
  <1>3. p \in 0 .. Len(pattern) /\ p \in 1 .. p
    BY <1>1
  <1>4. end[p] = p
    BY <1>1, <1>2, <1>3, OneEach
  <1>5. pattern[p] \in {Underscore, str[end[p]]} /\ end[p] \in 0 .. Len(str)
    BY <1>1, <1>2, <1>3 DEF Divides
  <1> QED
    BY <1>1, <1>4, <1>5
\* From a % there is a last one of those in a row.
LEMMA LastOfRow ==
    ASSUME NEW q \in Seq(PatternChar), NEW k \in 1 .. Len(q), q[k] = Percent
    PROVE  \E m \in k .. Len(q) :
              (\A i \in k .. m : q[i] = Percent) /\ (m < Len(q) => q[m + 1] # Percent)
  <1> DEFINE Ends == {m \in k .. Len(q) : m < Len(q) => q[m + 1] # Percent}
  <1>1. Len(q) \in Nat /\ k \in Nat
    OBVIOUS
  <1>2. Len(q) \in Ends /\ Ends \subseteq Nat
    BY <1>1
  <1> HIDE DEF Ends
  <1>3. PICK m \in Ends : \A j \in Ends : m <= j
    BY <1>2, LeastNumber, Zenon
  <1>4. m \in k .. Len(q) /\ (m < Len(q) => q[m + 1] # Percent) /\ m \in Nat
    BY <1>1, <1>3 DEF Ends
  <1> DEFINE Good == {n \in 0 .. m - k : q[k + n] = Percent}
             gap == m - k
  <1>5. gap \in Nat
    BY <1>1, <1>4
  <1>6. 0 \in Good
    BY <1>1, <1>5
  <1>7. ASSUME NEW n \in 1 .. gap, n - 1 \in Good PROVE n \in Good
    <2>1. k + (n - 1) \in k .. Len(q) /\ ~(m <= k + (n - 1)) /\ (k + (n - 1)) + 1 = k + n
          /\ n \in 0 .. m - k
      BY <1>1, <1>4, <1>5
    <2>2. k + (n - 1) \notin Ends
      BY <1>3, <2>1
    <2>3. q[k + n] = Percent
      BY <2>1, <2>2 DEF Ends
    <2> QED
      BY <2>1, <2>3
  <1>8. \A n \in 0 .. gap : n \in Good
    <2> HIDE DEF Good, gap
    <2> QED
      BY <1>5, <1>6, <1>7, EveryRound, Zenon
  <1>9. ASSUME NEW i \in k .. m PROVE q[i] = Percent
    <2>1. i - k \in 0 .. gap /\ k + (i - k) = i
      BY <1>1, <1>4
    <2>2. i - k \in Good
      BY <1>8, <2>1
    <2> QED
      BY <2>1, <2>2
  <1> QED
    BY <1>4, <1>9

\* A % is remembered, and the match is on a % afterwards.
LEMMA AtPercentInv ==
    ASSUME LikeInv, result = Running, at_percent, UNCHANGED <<str, pattern, not>>
    PROVE  LikeInv'
  <1>1. /\ IsText /\ pattern[p] = Percent /\ last_star' = p /\ last_star_s' = s
        /\ UNCHANGED <<s, result>> /\ p \in 1 .. Len(pattern)
    BY LikeTexts DEF at_percent
  <1>2. /\ pattern \in Seq(PatternChar) /\ Len(pattern) \in 0 .. MaxPattern /\ MaxPattern \in Nat
        /\ MaxStr \in Nat
    BY <1>1, LikeTexts, LikeAssumption
  <1>3. p' \in p .. Len(pattern) /\ \A i \in p .. p' : pattern[i] = Percent
    <2> DEFINE Last(q) == (\A i \in p .. q : pattern[i] = Percent)
                          /\ (q < Len(pattern) => pattern[q + 1] # Percent)
    <2>1. \E m \in p .. Len(pattern) : Last(m)
      BY <1>1, <1>2, LastOfRow, Zenon
    <2>2. p' = CHOOSE q \in p .. Len(pattern) : Last(q)
      BY DEF at_percent
    <2>3. p' \in p .. Len(pattern) /\ Last(p')
      <3> HIDE DEF Last
      <3> QED
        BY <2>1, <2>2
    <2> QED
      BY <2>3
  <1>4. /\ p' \in 1 .. MaxPattern + 1 /\ p' \in p .. Len(pattern) /\ pattern[p'] = Percent
        /\ last_star' \in 0 .. MaxPattern /\ last_star' # 0
    BY <1>1, <1>2, <1>3
  <1>5. last_star_s' \in 0 .. MaxStr + 1
    BY <1>1, <1>2 DEF LikeInv
  <1>6. IsText'
    BY <1>1 DEF IsText
  <1>7. MatchReturned'
    BY <1>1 DEF MatchReturned
  <1>8. StaysOnPercent'
    BY <1>1, <1>4, Zenon DEF StaysOnPercent
  <1> QED
    BY <1>1, <1>4, <1>5, <1>6, <1>7, <1>8 DEF LikeInv

\* A character that agrees leaves both positions aligned.
LEMMA SameCharacterInv ==
    ASSUME LikeInv, result = Running, same_character, UNCHANGED <<str, pattern, not>>
    PROVE  LikeInv'
  <1>1. /\ AtPlain /\ IsText /\ s <= Len(str) /\ pattern[p] \in {Underscore, str[s]}
        /\ s' = s + 1 /\ p' = p + 1 /\ UNCHANGED <<last_star, last_star_s, result>>
        /\ pattern[p] # Percent /\ p <= Len(pattern)
    BY DEF same_character, AtPlain
  <1>2. /\ Len(str) \in 0 .. MaxStr /\ Len(pattern) \in 0 .. MaxPattern /\ p \in Nat \ {0}
        /\ s \in Nat \ {0} /\ MaxPattern \in Nat /\ MaxStr \in Nat
    BY <1>1, LikeTexts, LikeAssumption, Zenon
  <1>3. last_star = 0
    BY <1>1 DEF LikeInv, StaysOnPercent
  <1>4. Aligned
    BY <1>1, <1>3 DEF LikeInv
  <1>5. s' \in 1 .. MaxStr + 1 /\ p' \in 1 .. MaxPattern + 1
    BY <1>1, <1>2
  <1>6. Aligned'
    <2>1. s' = p' /\ p' <= Len(str) + 1 /\ p' <= Len(pattern) + 1
      BY <1>1, <1>2, <1>4 DEF Aligned
    <2>2. ASSUME NEW i \in 1 .. p' - 1 PROVE pattern[i] # Percent /\ pattern[i] \in {Underscore, str[i]}
      <3>1. i \in 1 .. p - 1 \/ i = p
        BY <1>1, <1>2
      <3> QED
        BY <1>1, <1>4, <3>1, Zenon DEF Aligned
    <2> QED
      BY <2>1, <2>2, Zenon DEF Aligned
  <1>7. MatchReturned'
    BY <1>1, Zenon DEF MatchReturned
  <1> QED
    BY <1>1, <1>3, <1>5, <1>6, <1>7, Zenon DEF LikeInv, IsText, StaysOnPercent

\* A result that is right ends the match.
LEMMA ReturnInv ==
    ASSUME LikeInv, IsText, last_star = 0, NEW matches \in BOOLEAN, Return(matches),
           matches <=> Matches(str, pattern), UNCHANGED <<str, pattern, not>>
    PROVE  LikeInv'
  <1>1. UNCHANGED <<s, p, last_star, last_star_s>> /\ result' = IF matches # not THEN 1 ELSE 0
    BY DEF Return
  <1>2. not \in BOOLEAN /\ Matches(str, pattern) \in BOOLEAN
    BY DEF LikeInv, Matches
  <1>3. result' = 1 <=> (Matches(str, pattern) # not)
    BY <1>1, <1>2
  <1>4. result' \in {0, 1}
    BY <1>1
  <1>5. MatchReturned'
    BY <1>3, Zenon DEF MatchReturned
  <1>6. Aligned' /\ IsText'
    BY <1>1, Zenon DEF LikeInv, Aligned, IsText
  <1> QED
    BY <1>1, <1>4, <1>5, <1>6 DEF LikeInv, StaysOnPercent

\* ReturnsMatch for every alphabet and every length of text and pattern: what
\* simple_like_match returns is what LIKE means, and behind a % it returns nothing.
THEOREM LikeReturnsMatch == LikeSpec => []ReturnsMatch
  <1>1. LikeInit => LikeInv
    <2> SUFFICES ASSUME LikeInit PROVE LikeInv
      OBVIOUS
    <2>1. MaxStr \in Nat /\ MaxPattern \in Nat
      BY LikeAssumption
    <2>2. /\ str \in Texts(Char, MaxStr) \cup {NotText}
          /\ pattern \in Texts(PatternChar, MaxPattern) \cup {NotText}
          /\ not \in BOOLEAN /\ s = 1 /\ p = 1 /\ last_star = 0 /\ last_star_s = 0 /\ result = Running
      BY DEF LikeInit, PatternChar
    <2>3. ASSUME IsText PROVE Aligned
      <3>1. str \in Texts(Char, MaxStr) /\ pattern \in Texts(PatternChar, MaxPattern)
        BY <2>2, <2>3 DEF IsText
      <3>2. Len(str) \in Nat /\ Len(pattern) \in Nat
        BY <2>1, <3>1, TextsAreSequences
      <3> QED
        BY <2>2, <3>2 DEF Aligned
    <2> QED
      BY <2>1, <2>2, <2>3 DEF LikeInv, MatchReturned, StaysOnPercent
  <1>2. LikeInv /\ [LikeNext]_likeVars => LikeInv'
    <2> SUFFICES ASSUME LikeInv, [LikeNext]_likeVars PROVE LikeInv'
      OBVIOUS
    <2>1. CASE UNCHANGED likeVars
      BY <2>1 DEF likeVars, LikeInv, IsText, Aligned, MatchReturned, StaysOnPercent
    <2>2. CASE LikeNext
      <3>1. result = Running /\ UNCHANGED <<str, pattern, not>>
        BY <2>2, Zenon DEF LikeNext
      <3>2. CASE eval_like
        <4>1. ~IsText /\ ~IsText' /\ result' = 0 /\ UNCHANGED <<s, p, last_star, last_star_s>>
          BY <3>1, <3>2 DEF eval_like, IsText
        <4> QED
          BY <3>1, <4>1 DEF LikeInv, MatchReturned, StaysOnPercent
      <3>3. CASE pattern_ends
        <4>1. IsText /\ p > Len(pattern) /\ Return(s > Len(str))
          BY <3>3 DEF pattern_ends
        <4>2. last_star = 0
          BY <4>1, LikeTexts DEF LikeInv, StaysOnPercent
        <4> QED
          <5>1. Matches(str, pattern) <=> s > Len(str)
            BY <4>1, <4>2, PatternEnds
          <5>2. CASE s > Len(str)
            <6>1. Return(TRUE)
              BY <4>1, <5>2, Zenon DEF Return
            <6> QED
              BY <3>1, <4>1, <4>2, <5>1, <5>2, <6>1, ReturnInv, Zenon
          <5>3. CASE ~(s > Len(str))
            <6>1. Return(FALSE)
              <7>1. not \in BOOLEAN /\ (s > Len(str)) = FALSE
                BY <5>3 DEF LikeInv
              <7> QED
                BY <4>1, <7>1, Zenon DEF Return
            <6> QED
              BY <3>1, <4>1, <4>2, <5>1, <5>3, <6>1, ReturnInv, Zenon
          <5> QED
            BY <5>2, <5>3
      <3>4. CASE at_percent
        BY <3>1, <3>4, AtPercentInv, Zenon
      <3>5. CASE text_ends \/ differs
        <4>1. IsText /\ AtPlain /\ Return(FALSE) /\ (s > Len(str) \/ pattern[p] \notin {Underscore, str[s]})
          BY <3>5, Zenon DEF text_ends, differs, Differs, AtPlain
        <4>2. last_star = 0
          BY <4>1 DEF LikeInv, StaysOnPercent, AtPlain
        <4> QED
          BY <3>1, <4>1, <4>2, NoMatch, ReturnInv, Zenon
      <3>6. CASE same_character
        BY <3>1, <3>6, SameCharacterInv
      <3> QED
        BY <2>2, <3>2, <3>3, <3>4, <3>5, <3>6 DEF LikeNext
    <2> QED
      BY <2>1, <2>2, Zenon
  <1>3. LikeInv => ReturnsMatch
    <2> SUFFICES ASSUME LikeInv PROVE LikeTypeOK
      BY Zenon DEF LikeInv, ReturnsMatch
    <2>1. MaxStr \in Nat /\ MaxPattern \in Nat
      BY LikeAssumption
    <2>2. str \in Seq(Char) \cup {NotText} /\ pattern \in Seq(PatternChar) \cup {NotText}
      BY <2>1, TextsAreSequences, Zenon DEF LikeInv
    <2> QED
      BY <2>2 DEF LikeInv, LikeTypeOK, PatternChar
  <1> QED
    BY <1>1, <1>2, <1>3, PTL DEF LikeSpec
----------------------------------------------------------------------------
(* DISTINCT on result sets.                                                *)

RowOrUnset == Row \cup {Unset}
DistinctState(cap) == [rows : [0 .. cap - 1 -> RowOrUnset], kept : Nat]

\* A round of DISTINCT changes a state to a state.
LEMMA DistinctRoundType ==
    ASSUME NEW cap \in Nat, NEW st \in DistinctState(cap), NEW k \in 0 .. cap - 1
    PROVE  DistinctRound(st, k) \in DistinctState(cap)
  <1> DEFINE moved == [st.rows EXCEPT ![st.kept] = st.rows[k]]
  <1>1. st.rows \in [0 .. cap - 1 -> RowOrUnset] /\ st.kept \in Nat
    BY Zenon DEF DistinctState
  <1>2. moved \in [0 .. cap - 1 -> RowOrUnset] /\ st.kept + 1 \in Nat
    <2>1. \A D, T, w : \A h \in [D -> T], x \in T : [h EXCEPT ![w] = x] \in [D -> T]
      BY Zenon
    <2>2. st.rows[k] \in RowOrUnset
      BY <1>1
    <2>3. moved \in [0 .. cap - 1 -> RowOrUnset]
      BY <1>1, <2>1, <2>2, Zenon
    <2> QED
      BY <1>1, <2>3
  <1>3. DistinctRound(st, k) \in {st, [rows |-> moved, kept |-> st.kept + 1]}
    BY Zenon DEF DistinctRound
  <1> HIDE DEF moved
  <1>4. [rows |-> moved, kept |-> st.kept + 1] \in DistinctState(cap)
    BY <1>2, Zenon DEF DistinctState
  <1> QED
    BY <1>3, <1>4

\* The states of DISTINCT, by the number of rounds.
IsDistinct(f, places, count, cap) ==
    /\ f \in [0 .. count -> DistinctState(cap)]
    /\ f[0] = [rows |-> places, kept |-> 0]
    /\ \A n \in 1 .. count : f[n] = DistinctRound(f[n - 1], n - 1)
    /\ Distinct(places, count) = f[count]

\* Distinct is the end of a loop over the places.
LEMMA DistinctRuns ==
    ASSUME NEW cap \in Nat, NEW places \in [0 .. cap - 1 -> RowOrUnset], NEW count \in 0 .. cap
    PROVE  \E f : IsDistinct(f, places, count, cap)
  <1> DEFINE start == [rows |-> places, kept |-> 0]
             S == DistinctState(cap)
             body == [n \in 1 .. count |-> [st \in S |-> DistinctRound(st, n - 1)]]
             Turns(f) == [n \in 0 .. count |-> IF n = 0 THEN start ELSE DistinctRound(f[n - 1], n - 1)]
             end == CHOOSE f : f = Turns(f)
  <1>1. count \in Nat /\ start \in S
    BY DEF DistinctState
  <1>2. body \in [1 .. count -> [S -> S]]
    <2>1. ASSUME NEW n \in 1 .. count, NEW st \in S PROVE DistinctRound(st, n - 1) \in S
      <3>1. n - 1 \in 0 .. cap - 1
        BY <1>1
      <3> QED
        BY <3>1, DistinctRoundType, Zenon
    <2> HIDE DEF S
    <2> QED
      BY <2>1
  <1>3. Distinct(places, count) = end[count]
    BY DEF Distinct
  <1> HIDE DEF S, start
  <1>4. PICK g : AreRounds(g, S, start, count, body)
    <2> HIDE DEF body
    <2> QED
      BY <1>1, <1>2, RoundsExist, Zenon
  <1>5. g \in [0 .. count -> S] /\ g[0] = start
    BY <1>4, Zenon DEF AreRounds
  <1>6. ASSUME NEW n \in 1 .. count PROVE g[n] = DistinctRound(g[n - 1], n - 1)
    <2>1. g[n - 1] \in S
      BY <1>1, <1>5
    <2>2. g[n] = body[n][g[n - 1]]
      BY <1>4 DEF AreRounds
    <2> QED
      BY <2>1, <2>2
  <1>7. g = Turns(g)
    <2>1. \A n \in 0 .. count : n = 0 \/ n \in 1 .. count
      BY <1>1
    <2> QED
      BY <1>5, <1>6, <2>1
  <1>8. end = Turns(end)
    <2> HIDE DEF Turns
    <2> QED
      BY <1>7
  <1> HIDE DEF end
  <1>9. end[0] = g[0]
    <2>1. end[0] = Turns(end)[0] /\ 0 \in 0 .. count
      BY <1>1, <1>8
    <2> QED
      BY <1>5, <2>1
  <1>10. ASSUME NEW n \in 1 .. count, end[n - 1] = g[n - 1] PROVE end[n] = g[n]
    <2>1. n \in 0 .. count /\ n # 0
      BY <1>1
    <2>2. end[n] = Turns(end)[n]
      BY <1>8, Zenon
    <2>3. end[n] = DistinctRound(end[n - 1], n - 1)
      BY <2>1, <2>2, Zenon
    <2> QED
      BY <1>6, <1>10, <2>3
  <1>11. end[count] = g[count]
    <2>1. Agree(end, g, count) /\ count \in 0 .. count
      BY <1>1, <1>9, <1>10 DEF Agree
    <2> QED
      BY <1>1, <2>1, SameRounds
  <1> QED
    BY <1>3, <1>5, <1>6, <1>11, Zenon DEF IsDistinct, S, start

\* The first occurrences among the first rows, by their number.
FirstRound(list, n, l) ==
    IF \E j \in 1 .. n - 1 : list[j] = list[n] THEN l ELSE Append(l, list[n])

IsFirst(f, list) ==
    /\ f \in [0 .. Len(list) -> Seq(Row)]
    /\ f[0] = <<>>
    /\ \A n \in 1 .. Len(list) : f[n] = FirstRound(list, n, f[n - 1])
    /\ FirstOccurrences(list) = f[Len(list)]

\* FirstOccurrences is the end of a loop over the rows.
LEMMA FirstRuns ==
    ASSUME NEW list \in Seq(Row)
    PROVE  \E f : IsFirst(f, list)
  <1> DEFINE N == Len(list)
             body == [n \in 1 .. N |-> [l \in Seq(Row) |-> FirstRound(list, n, l)]]
             Turns(f) == [n \in 0 .. N |-> IF n = 0 THEN <<>> ELSE FirstRound(list, n, f[n - 1])]
             first == CHOOSE f : f = Turns(f)
  <1>1. N \in Nat /\ <<>> \in Seq(Row)
    OBVIOUS
  <1>2. body \in [1 .. N -> [Seq(Row) -> Seq(Row)]]
    <2>1. ASSUME NEW n \in 1 .. N, NEW l \in Seq(Row) PROVE FirstRound(list, n, l) \in Seq(Row)
      <3>1. list[n] \in Row
        OBVIOUS
      <3> QED
        BY <3>1 DEF FirstRound
    <2> QED
      BY <2>1
  <1>3. FirstOccurrences(list) = first[N]
    BY DEF FirstOccurrences, FirstRound
  <1> HIDE DEF N
  <1>4. PICK g : AreRounds(g, Seq(Row), <<>>, N, body)
    <2> HIDE DEF body
    <2> QED
      BY <1>1, <1>2, RoundsExist, Zenon
  <1>5. g \in [0 .. N -> Seq(Row)] /\ g[0] = <<>>
    BY <1>4 DEF AreRounds
  <1>6. ASSUME NEW n \in 1 .. N PROVE g[n] = FirstRound(list, n, g[n - 1])
    <2>1. g[n - 1] \in Seq(Row)
      BY <1>1, <1>5
    <2>2. g[n] = body[n][g[n - 1]]
      BY <1>4 DEF AreRounds
    <2> QED
      BY <2>1, <2>2
  <1>7. g = Turns(g)
    <2>1. \A n \in 0 .. N : n = 0 \/ n \in 1 .. N
      BY <1>1
    <2> QED
      BY <1>5, <1>6, <2>1
  <1>8. first = Turns(first)
    <2> HIDE DEF Turns
    <2> QED
      BY <1>7
  <1> HIDE DEF first
  <1>9. first[0] = g[0]
    <2>1. first[0] = Turns(first)[0] /\ 0 \in 0 .. N
      BY <1>1, <1>8
    <2> QED
      BY <1>5, <2>1, Zenon
  <1>10. ASSUME NEW n \in 1 .. N, first[n - 1] = g[n - 1] PROVE first[n] = g[n]
    <2>1. n \in 0 .. N /\ n # 0
      BY <1>1
    <2>2. first[n] = Turns(first)[n]
      BY <1>8, Zenon
    <2>3. first[n] = FirstRound(list, n, first[n - 1])
      BY <2>1, <2>2, Zenon
    <2> QED
      BY <1>6, <1>10, <2>3
  <1>11. first[N] = g[N]
    <2>1. Agree(first, g, N) /\ N \in 0 .. N
      BY <1>1, <1>9, <1>10 DEF Agree
    <2> QED
      BY <1>1, <2>1, SameRounds
  <1> QED
    BY <1>3, <1>5, <1>6, <1>11 DEF IsFirst, N
\* After n rounds the first places hold the first occurrences among the first n
\* rows, and the places from n on are as they were.
InStep(st, l, list, n) ==
    /\ st.kept = Len(l) /\ Len(l) <= n
    /\ \A i \in 1 .. Len(l) : st.rows[i - 1] = l[i]
    /\ \A i \in n + 1 .. Len(list) : st.rows[i - 1] = list[i]
    /\ \A i \in 1 .. Len(l) : \E j \in 1 .. n : l[i] = list[j]
    /\ \A j \in 1 .. n : \E i \in 1 .. Len(l) : l[i] = list[j]

\* Rows that agree in all columns are equal.
LEMMA SameRowIsEqual ==
    ASSUME WholeRows, NEW a \in Row, NEW b \in Row
    PROVE  SameRow(a, b) <=> a = b
  <1>1. a = [c \in 1 .. RowWidth |-> a[c]] /\ b = [c \in 1 .. RowWidth |-> b[c]]
    BY DEF Row
  <1>2. SameRow(a, b) <=> \A c \in 1 .. RowWidth : a[c] = b[c]
    BY Zenon DEF SameRow, WholeRows
  <1> QED
    BY <1>1, <1>2

\* A round finds the row among those kept when an earlier row is equal to it.
LEMMA RoundFinds ==
    ASSUME WholeRows, NEW cap \in Nat, NEW st \in DistinctState(cap), NEW l \in Seq(Row),
           NEW list \in Seq(Row), NEW n \in 1 .. Len(list), InStep(st, l, list, n - 1)
    PROVE  /\ st.rows[n - 1] = list[n]
           /\ (\E i \in 0 .. st.kept - 1 : SameRow(st.rows[n - 1], st.rows[i])) <=>
              (\E j \in 1 .. n - 1 : list[j] = list[n])
  <1>1. Len(l) \in Nat /\ Len(list) \in Nat /\ n \in Nat /\ st.kept = Len(l)
    BY DEF InStep
  <1>2. st.rows[n - 1] = list[n] /\ list[n] \in Row
    <2>1. n \in (n - 1) + 1 .. Len(list)
      BY <1>1
    <2> QED
      BY <2>1 DEF InStep
  <1>3. \A i \in 1 .. Len(l) : st.rows[i - 1] = l[i] /\ l[i] \in Row
    <2>1. \A i \in 1 .. Len(l) : l[i] \in Row
      OBVIOUS
    <2>2. \A i \in 1 .. Len(l) : st.rows[i - 1] = l[i]
      BY Zenon DEF InStep
    <2> QED
      BY <2>1, <2>2
  <1>4. ASSUME NEW i \in 0 .. st.kept - 1, SameRow(st.rows[n - 1], st.rows[i])
        PROVE  \E j \in 1 .. n - 1 : list[j] = list[n]
    <2>1. i + 1 \in 1 .. Len(l) /\ (i + 1) - 1 = i
      BY <1>1
    <2>2. st.rows[i] = l[i + 1] /\ l[i + 1] \in Row
      BY <1>3, <2>1, Zenon
    <2>3. l[i + 1] = list[n]
      BY <1>2, <1>4, <2>2, SameRowIsEqual, Zenon
    <2> QED
      BY <2>1, <2>3 DEF InStep
  <1>5. ASSUME NEW j \in 1 .. n - 1, list[j] = list[n]
        PROVE  \E i \in 0 .. st.kept - 1 : SameRow(st.rows[n - 1], st.rows[i])
    <2>1. PICK i \in 1 .. Len(l) : l[i] = list[j]
      BY Zenon DEF InStep
    <2>2. i - 1 \in 0 .. st.kept - 1
      BY <1>1
    <2>3. st.rows[i - 1] = list[n]
      BY <1>3, <1>5, <2>1, Zenon
    <2>4. SameRow(st.rows[n - 1], st.rows[i - 1])
      BY <1>2, <2>3, SameRowIsEqual, Zenon
    <2> QED
      BY <2>2, <2>4, Zenon
  <1> QED
    BY <1>2, <1>4, <1>5, Zenon

\* A round of DISTINCT in place and a round of its meaning keep in step.
LEMMA RoundInStep ==
    ASSUME WholeRows, NEW cap \in Nat, NEW st \in DistinctState(cap), NEW l \in Seq(Row),
           NEW list \in Seq(Row), Len(list) <= cap, NEW n \in 1 .. Len(list), InStep(st, l, list, n - 1)
    PROVE  InStep(DistinctRound(st, n - 1), FirstRound(list, n, l), list, n)
  <1>1. Len(l) \in Nat /\ Len(list) \in Nat /\ n \in Nat /\ st.kept = Len(l) /\ Len(l) <= n - 1
    BY SMTT(30) DEF InStep
  <1>2. st.rows[n - 1] = list[n] /\ list[n] \in Row
    BY RoundFinds
  <1>3. st.rows \in [0 .. cap - 1 -> RowOrUnset]
    BY Zenon DEF DistinctState
  <1>4. \A i \in 1 .. Len(l) : st.rows[i - 1] = l[i] /\ \E j \in 1 .. n - 1 : l[i] = list[j]
    BY Zenon DEF InStep
  <1>5. \A i \in (n - 1) + 1 .. Len(list) : st.rows[i - 1] = list[i]
    BY Zenon DEF InStep
  <1>6. \A j \in 1 .. n - 1 : \E i \in 1 .. Len(l) : l[i] = list[j]
    BY DEF InStep
  <1>7. CASE \E j \in 1 .. n - 1 : list[j] = list[n]
    <2>1. DistinctRound(st, n - 1) = st /\ FirstRound(list, n, l) = l
      BY <1>7, RoundFinds DEF DistinctRound, FirstRound
    <2>2. \A i \in n + 1 .. Len(list) : i \in (n - 1) + 1 .. Len(list)
      BY <1>1
    <2>3. \A j \in 1 .. n - 1 : j \in 1 .. n
      BY <1>1, SMTT(30)
    <2>4. ASSUME NEW j \in 1 .. n PROVE \E i \in 1 .. Len(l) : l[i] = list[j]
      <3>1. j \in 1 .. n - 1 \/ j = n
        BY <1>1, SMTT(30)
      <3> QED
        BY <1>6, <1>7, <3>1, Zenon
    <2>5. InStep(st, l, list, n)
      <3>1. Len(l) <= n
        BY <1>1
      <3>2. \A i \in 1 .. Len(l) : \E j \in 1 .. n : l[i] = list[j]
        BY <1>4, <2>3, Zenon
      <3>3. \A i \in n + 1 .. Len(list) : st.rows[i - 1] = list[i]
        BY <1>5, <2>2, Zenon
      <3>4. \A i \in 1 .. Len(l) : st.rows[i - 1] = l[i]
        BY <1>4, Zenon
      <3> QED
        BY <1>1, <2>4, <3>1, <3>2, <3>3, <3>4, Zenon DEF InStep
    <2> QED
      BY <2>1, <2>5, Zenon
  <1>8. CASE ~\E j \in 1 .. n - 1 : list[j] = list[n]
    <2> DEFINE w == Len(l)
               moved == [st.rows EXCEPT ![w] = list[n]]
               more == Append(l, list[n])
    <2>1. DistinctRound(st, n - 1) = [rows |-> moved, kept |-> w + 1] /\ FirstRound(list, n, l) = more
      <3>1. ~\E i \in 0 .. st.kept - 1 : SameRow(st.rows[n - 1], st.rows[i])
        <4>1. (\E i \in 0 .. st.kept - 1 : SameRow(st.rows[n - 1], st.rows[i])) <=>
              (\E j \in 1 .. n - 1 : list[j] = list[n])
          BY RoundFinds
        <4> QED
          BY <1>8, <4>1, Zenon
      <3>2. DistinctRound(st, n - 1) =
              [rows |-> [st.rows EXCEPT ![st.kept] = st.rows[n - 1]], kept |-> st.kept + 1]
        BY <3>1, Zenon DEF DistinctRound
      <3> QED
        BY <1>1, <1>2, <1>8, <3>2 DEF FirstRound
    <2>2. /\ more \in Seq(Row) /\ Len(more) = w + 1 /\ more[w + 1] = list[n]
          /\ \A i \in 1 .. w : more[i] = l[i]
      BY <1>2
    <2>3. w \in 0 .. cap - 1 /\ w + 1 <= n
      BY <1>1
    <2>4. moved[w] = list[n] /\ \A k \in 0 .. cap - 1 : k # w => moved[k] = st.rows[k]
      BY <1>3, <2>3, Zenon
    <2> HIDE DEF moved, more
    <2>5. ASSUME NEW i \in 1 .. Len(more) PROVE moved[i - 1] = more[i] /\ \E j \in 1 .. n : more[i] = list[j]
      <3>1. i \in 1 .. w \/ i = w + 1
        BY <1>1, <2>2
      <3>2. CASE i \in 1 .. w
        <4>1. i - 1 \in 0 .. cap - 1 /\ i - 1 # w
          BY <1>1, <2>3, <3>2, SMTT(30)
        <4>2. moved[i - 1] = l[i] /\ more[i] = l[i]
          BY <1>4, <2>2, <2>4, <3>2, <4>1, Zenon
        <4>3. PICK j \in 1 .. n - 1 : l[i] = list[j]
          BY <1>4, <3>2, Zenon
        <4>4. j \in 1 .. n
          BY <1>1, SMTT(30)
        <4> QED
          BY <4>2, <4>3, <4>4, Zenon
      <3>3. CASE i = w + 1
        <4>1. i - 1 = w /\ n \in 1 .. n
          BY <1>1, <3>3
        <4> QED
          BY <2>2, <2>4, <3>3, <4>1, Zenon
      <3> QED
        BY <3>1, <3>2, <3>3, Zenon
    <2>6. ASSUME NEW i \in n + 1 .. Len(list) PROVE moved[i - 1] = list[i]
      <3>1. i - 1 \in 0 .. cap - 1 /\ i - 1 # w /\ i \in (n - 1) + 1 .. Len(list)
        BY <1>1, <2>3
      <3> QED
        BY <1>5, <2>4, <3>1, Zenon
    <2>7. ASSUME NEW j \in 1 .. n PROVE \E i \in 1 .. Len(more) : more[i] = list[j]
      <3>1. j \in 1 .. n - 1 \/ j = n
        BY <1>1
      <3>2. w + 1 \in 1 .. Len(more) /\ \A i \in 1 .. w : i \in 1 .. Len(more)
        BY <1>1, <2>2
      <3>3. CASE j = n
        BY <2>2, <3>2, <3>3, Zenon
      <3>4. CASE j \in 1 .. n - 1
        <4>1. PICK i \in 1 .. w : l[i] = list[j]
          BY <1>6, <3>4, Zenon
        <4> QED
          BY <2>2, <3>2, <4>1, Zenon
      <3> QED
        BY <3>1, <3>3, <3>4, Zenon
    <2>8. InStep([rows |-> moved, kept |-> w + 1], more, list, n)
      BY <2>2, <2>3, <2>5, <2>6, <2>7, Zenon DEF InStep
    <2> QED
      BY <2>1, <2>8, Zenon
  <1> QED
    BY <1>7, <1>8, Zenon
\* The first places hold a list of rows.
Holds(places, count, list) == count = Len(list) /\ \A i \in 1 .. count : places[i - 1] = list[i]

\* DISTINCT in place leaves the first occurrences, in order.
LEMMA DistinctHolds ==
    ASSUME WholeRows, NEW cap \in Nat, NEW places \in [0 .. cap - 1 -> RowOrUnset], NEW list \in Seq(Row),
           NEW count \in 0 .. cap, Holds(places, count, list)
    PROVE  /\ Distinct(places, count) \in DistinctState(cap)
           /\ Distinct(places, count).kept \in 0 .. count
           /\ FirstOccurrences(list) \in Seq(Row)
           /\ Holds(Distinct(places, count).rows, Distinct(places, count).kept, FirstOccurrences(list))
  <1>1. count = Len(list) /\ count \in Nat /\ Len(list) <= cap /\ \A i \in 1 .. count : places[i - 1] = list[i]
    BY DEF Holds
  <1>2. PICK f : IsDistinct(f, places, count, cap)
    BY DistinctRuns, Zenon
  <1>3. PICK g : IsFirst(g, list)
    BY FirstRuns
  <1> DEFINE Good == {n \in 0 .. count : InStep(f[n], g[n], list, n)}
  <1>4. \A n \in 0 .. count : f[n] \in DistinctState(cap) /\ g[n] \in Seq(Row)
    BY <1>1, <1>2, <1>3, Zenon DEF IsDistinct, IsFirst
  <1>5. 0 \in Good
    <2>1. f[0].rows = places /\ f[0].kept = 0 /\ g[0] = <<>> /\ 0 \in 0 .. count
      BY <1>1, <1>2, <1>3 DEF IsDistinct, IsFirst
    <2>2. InStep(f[0], g[0], list, 0)
      BY <1>1, <2>1 DEF InStep
    <2> QED
      BY <2>1, <2>2
  <1>6. ASSUME NEW n \in 1 .. count, n - 1 \in Good PROVE n \in Good
    <2>1. /\ n \in 0 .. count /\ n - 1 \in 0 .. count /\ n \in 1 .. Len(list)
      BY <1>1
    <2>2. InStep(f[n - 1], g[n - 1], list, n - 1)
      BY <1>6, Zenon
    <2>3. f[n] = DistinctRound(f[n - 1], n - 1) /\ g[n] = FirstRound(list, n, g[n - 1])
      BY <1>2, <1>3, <2>1, Zenon DEF IsDistinct, IsFirst
    <2>4. f[n - 1] \in DistinctState(cap) /\ g[n - 1] \in Seq(Row)
      BY <1>4, <2>1, Zenon
    <2>5. InStep(f[n], g[n], list, n)
      BY <1>1, <2>1, <2>2, <2>3, <2>4, RoundInStep, Zenon
    <2> QED
      BY <2>1, <2>5, Zenon
  <1> HIDE DEF Good
  <1>7. \A n \in 0 .. count : n \in Good
    BY <1>1, <1>5, <1>6, EveryRound, Zenon
  <1>8. count \in Good /\ count \in 0 .. count
    BY <1>1, <1>7
  <1>9. InStep(f[count], g[count], list, count)
    BY <1>8 DEF Good
  <1>10. Distinct(places, count) = f[count] /\ FirstOccurrences(list) = g[count]
    BY <1>1, <1>2, <1>3 DEF IsDistinct, IsFirst
  <1>11. f[count] \in DistinctState(cap) /\ g[count] \in Seq(Row)
    BY <1>4, <1>8, Zenon
  <1>12. f[count].kept \in 0 .. count
    BY <1>1, <1>9, <1>11, SMTT(30) DEF InStep, DistinctState
  <1>13. Holds(f[count].rows, f[count].kept, g[count])
    BY <1>9, Zenon DEF InStep, Holds
  <1> QED
    BY <1>10, <1>11, <1>12, <1>13

----------------------------------------------------------------------------
(* LIMIT and OFFSET.                                                       *)

\* An int is itself, and the sum of two that does not fit is negative.
LEMMA ToIntIs ==
    ASSUME NEW n \in 0 .. 2 * INT_MAX
    PROVE  ToInt(n) = IF n <= INT_MAX THEN n ELSE n - (2 * INT_MAX + 2)
  <1> DEFINE M == 2 * INT_MAX + 2
  <1>1. INT_MAX \in Nat /\ M \in Nat \ {0}
    BY ResultSetAssumption
  <1>2. CASE n <= INT_MAX
    <2>1. n + INT_MAX + 1 = M * 0 + (n + INT_MAX + 1) /\ n + INT_MAX + 1 \in 0 .. M - 1
      BY <1>1, <1>2
    <2>2. (n + INT_MAX + 1) % M = n + INT_MAX + 1
      <3> HIDE DEF M
      <3> QED
        BY <1>1, <2>1, RemainderIs
    <2> QED
      BY <1>1, <1>2, <2>2 DEF ToInt
  <1>3. CASE n > INT_MAX
    <2>1. n + INT_MAX + 1 = M * 1 + (n - INT_MAX - 1) /\ n - INT_MAX - 1 \in 0 .. M - 1
          /\ n + INT_MAX + 1 \in Int
      BY <1>1, <1>3
    <2>2. (n + INT_MAX + 1) % M = n - INT_MAX - 1
      <3> HIDE DEF M
      <3> QED
        BY <1>1, <2>1, RemainderIs
    <2> QED
      BY <1>1, <1>3, <2>2 DEF ToInt
  <1> QED
    BY <1>1, <1>2, <1>3
\* The types, and the places counted hold the rows that are meant; the count is an
\* int.
ResultSetInv ==
    /\ capacity \in Nat \ {0}
    /\ rows \in [0 .. capacity - 1 -> RowOrUnset]
    /\ row_count \in 0 .. capacity
    /\ added \in 0 .. MaxRows /\ row_count <= added
    /\ steps \in 0 .. MaxSteps
    /\ meant \in Seq(Row)
    /\ Holds(rows, row_count, meant)

\* A part of a list of rows.
LEMMA SubSeqIs ==
    ASSUME NEW list \in Seq(Row), NEW from \in Nat, NEW to \in 0 .. Len(list)
    PROVE  /\ SubSeq(list, from + 1, to) \in Seq(Row)
           /\ from <= to => Len(SubSeq(list, from + 1, to)) = to - from
           /\ ~(from <= to) => Len(SubSeq(list, from + 1, to)) = 0
           /\ \A i \in 1 .. to - from : SubSeq(list, from + 1, to)[i] = list[i + from]
  <1> DEFINE part == SubSeq(list, from + 1, to)
             n == IF from <= to THEN to - from ELSE 0
  <1>1. Len(list) \in Nat /\ n \in Nat /\ to \in Nat
    OBVIOUS
  <1>2. part = [i \in 1 .. to - from |-> list[i + from]]
    <2>1. part = [i \in 1 .. (1 + to) - (from + 1) |-> list[(from + 1) + i - 1]]
      BY <1>1
    <2>2. (1 + to) - (from + 1) = to - from /\ \A i \in 1 .. to - from : (from + 1) + i - 1 = i + from
      BY <1>1
    <2> HIDE DEF part
    <2> QED
      BY <2>1, <2>2
  <1>3. 1 .. to - from = 1 .. n
    BY <1>1
  <1>4. ASSUME NEW i \in 1 .. n PROVE list[i + from] \in Row
    <2>1. i + from \in 1 .. Len(list)
      BY <1>1
    <2> QED
      BY <2>1
  <1> HIDE DEF part, n
  <1>5. part \in [1 .. n -> Row]
    BY <1>2, <1>3, <1>4, Zenon
  <1>6. part \in Seq(Row) /\ Len(part) = n
    BY <1>1, <1>5, SMTT(30)
  <1> QED
    BY <1>2, <1>6 DEF part, n
\* A row added is behind the others.
LEMMA AddRowInv ==
    ASSUME ResultSetInv, NEW row \in Row, result_set_add_row(row)
    PROVE  ResultSetInv'
  <1>1. /\ capacity \in Nat \ {0} /\ row_count \in 0 .. capacity /\ row_count \in Nat
        /\ rows \in [0 .. capacity - 1 -> RowOrUnset] /\ meant \in Seq(Row) /\ Len(meant) = row_count
        /\ added \in 0 .. MaxRows /\ row_count <= added /\ MaxRows \in Nat
    BY ResultSetAssumption DEF ResultSetInv, Holds
  <1>2. /\ added < MaxRows /\ added' = added + 1 /\ row_count' = row_count + 1
        /\ capacity' = IF row_count >= capacity THEN 2 * capacity ELSE capacity
        /\ meant' = Append(meant, row) /\ steps' = steps
        /\ rows' = [i \in 0 .. capacity' - 1 |->
                      IF i = row_count THEN row ELSE IF i < capacity THEN rows[i] ELSE Unset]
    BY Zenon DEF result_set_add_row
  <1>3. capacity' \in Nat \ {0} /\ row_count < capacity' /\ capacity <= capacity'
    BY <1>1, <1>2
  <1>4. row_count' \in 0 .. capacity' /\ added' \in 0 .. MaxRows /\ row_count' <= added'
    BY <1>1, <1>2, <1>3
  <1>5. rows' \in [0 .. capacity' - 1 -> RowOrUnset]
    <2>1. ASSUME NEW i \in 0 .. capacity' - 1
          PROVE  (IF i = row_count THEN row ELSE IF i < capacity THEN rows[i] ELSE Unset) \in RowOrUnset
      <3>1. i < capacity => i \in 0 .. capacity - 1
        BY <1>1, <1>3, SMTT(30)
      <3> QED
        BY <1>1, <3>1, Zenon DEF RowOrUnset
    <2> QED
      BY <1>2, <2>1, Zenon
  <1>6. /\ meant' \in Seq(Row) /\ Len(meant') = row_count + 1 /\ meant'[row_count + 1] = row
        /\ \A i \in 1 .. row_count : meant'[i] = meant[i]
    BY <1>1, <1>2
  <1>7. ASSUME NEW i \in 1 .. row_count + 1 PROVE rows'[i - 1] = meant'[i]
    <2>1. i - 1 \in 0 .. capacity' - 1
      BY <1>1, <1>3, SMTT(30)
    <2>2. rows'[i - 1] = IF i - 1 = row_count THEN row ELSE IF i - 1 < capacity THEN rows[i - 1] ELSE Unset
      BY <1>2, <2>1
    <2>3. CASE i = row_count + 1
      <3>1. i - 1 = row_count
        BY <1>1, <2>3, SMTT(30)
      <3> QED
        BY <1>6, <2>2, <2>3, <3>1
    <2>4. CASE i # row_count + 1
      <3>1. i \in 1 .. row_count /\ i - 1 # row_count /\ i - 1 < capacity
        BY <1>1, <2>4
      <3>2. rows[i - 1] = meant[i]
        BY <3>1, Zenon DEF ResultSetInv, Holds
      <3> QED
        BY <1>6, <2>2, <3>1, <3>2, Zenon
    <2> QED
      BY <2>3, <2>4, Zenon
  <1>8. Holds(rows, row_count, meant)'
    BY <1>2, <1>6, <1>7, Zenon DEF Holds
  <1> QED
    BY <1>2, <1>3, <1>4, <1>5, <1>6, <1>8, Zenon DEF ResultSetInv

\* DISTINCT leaves the first occurrences of the rows meant.
LEMMA ApplyDistinctInv ==
    ASSUME WholeRows, ResultSetInv, select_apply_distinct
    PROVE  ResultSetInv'
  <1> DEFINE d == Distinct(rows, row_count)
  <1>1. /\ steps < MaxSteps /\ rows' = d.rows /\ row_count' = d.kept /\ steps' = steps + 1
        /\ meant' = FirstOccurrences(meant) /\ UNCHANGED <<capacity, added>>
    BY Zenon DEF select_apply_distinct
  <1>2. /\ capacity \in Nat \ {0} /\ row_count \in 0 .. capacity /\ added \in 0 .. MaxRows
        /\ row_count <= added /\ steps \in 0 .. MaxSteps /\ MaxSteps \in Nat /\ MaxRows \in Nat
    BY ResultSetAssumption, SMTT(30) DEF ResultSetInv
  <1>3. /\ d \in DistinctState(capacity) /\ d.kept \in 0 .. row_count
        /\ FirstOccurrences(meant) \in Seq(Row) /\ Holds(d.rows, d.kept, FirstOccurrences(meant))
    BY <1>2, DistinctHolds, Zenon DEF ResultSetInv
  <1> HIDE DEF d
  <1>4. d.rows \in [0 .. capacity - 1 -> RowOrUnset]
    BY <1>3 DEF DistinctState
  <1>5. /\ row_count' \in 0 .. capacity /\ row_count' <= added' /\ added' \in 0 .. MaxRows
        /\ steps' \in 0 .. MaxSteps
    BY <1>1, <1>2, <1>3
  <1> QED
    BY <1>1, <1>2, <1>3, <1>4, <1>5, Zenon DEF ResultSetInv, Holds

\* The rows between two places, moved to the front.
LEMMA MovedHolds ==
    ASSUME ResultSetInv, NEW o \in 0 .. row_count, NEW to \in o .. row_count
    PROVE  Holds(IF o > 0 THEN Moved(o) ELSE rows, to - o, SubSeq(meant, o + 1, to))
  <1>1. /\ row_count \in Nat /\ capacity \in Nat /\ row_count <= capacity /\ meant \in Seq(Row)
        /\ Len(meant) = row_count /\ rows \in [0 .. capacity - 1 -> RowOrUnset]
    BY DEF ResultSetInv, Holds
  <1>2. o \in Nat /\ to \in 0 .. Len(meant) /\ o <= to /\ to \in Nat
    BY <1>1
  <1>3. /\ Len(SubSeq(meant, o + 1, to)) = to - o
        /\ \A i \in 1 .. to - o : SubSeq(meant, o + 1, to)[i] = meant[i + o]
    BY <1>1, <1>2, SubSeqIs, Zenon
  <1>4. ASSUME NEW i \in 1 .. to - o
        PROVE  (IF o > 0 THEN Moved(o) ELSE rows)[i - 1] = meant[i + o]
    <2>1. /\ i + o \in 1 .. row_count /\ (i + o) - 1 = (i - 1) + o /\ i - 1 \in 0 .. capacity - 1
          /\ (i - 1) + o < row_count
      BY <1>1, <1>2
    <2>2. rows[(i - 1) + o] = meant[i + o]
      BY <2>1, Zenon DEF ResultSetInv, Holds
    <2>3. CASE o > 0
      <3>1. Moved(o)[i - 1] = rows[(i - 1) + o]
        BY <1>1, <2>1, Zenon DEF Moved
      <3> QED
        BY <2>2, <2>3, <3>1, Zenon
    <2>4. CASE ~(o > 0)
      <3>1. (i - 1) + o = i - 1
        BY <1>2, <2>4
      <3> QED
        BY <2>2, <2>4, <3>1, Zenon
    <2> QED
      BY <2>3, <2>4, Zenon
  <1> QED
    BY <1>3, <1>4 DEF Holds
\* The numbers of a LIMIT and an OFFSET as ints.
LEMMA CountsAreInts ==
    ASSUME CountsFit, NEW n \in Count
    PROVE  ToInt(n) = n /\ n \in 0 .. INT_MAX /\ n # NoCount
  <1>1. n \in 0 .. INT_MAX /\ INT_MAX \in Nat
    BY ResultSetAssumption DEF CountsFit
  <1>2. n \in 0 .. 2 * INT_MAX /\ n <= INT_MAX
    BY <1>1
  <1> QED
    BY <1>1, <1>2, ToIntIs DEF NoCount

\* LIMIT and OFFSET leave the rows between two places.
LEMMA ApplyLimitInv ==
    ASSUME CountsFit, ResultSetInv, NEW limit \in Count \cup {NoCount},
           NEW offset \in Count \cup {NoCount}, select_apply_limit(limit, offset)
    PROVE  ResultSetInv'
  <1> DEFINE o == IF offset = NoCount THEN 0 ELSE ToInt(offset)
             l0 == IF limit = NoCount THEN row_count ELSE ToInt(limit)
             sum == ToInt(o + l0)
             l == IF sum > row_count THEN row_count - o ELSE l0
             left == IF o > 0 THEN row_count - o ELSE row_count
             to == IF limit = NoCount THEN row_count ELSE Least(o + l0, row_count)
             from == IF offset = NoCount THEN 0 ELSE Least(offset, Len(meant))
             upto == IF limit = NoCount THEN Len(meant) ELSE Least(from + limit, Len(meant))
  <1>1. /\ capacity \in Nat \ {0} /\ row_count \in 0 .. capacity /\ added \in 0 .. MaxRows
        /\ row_count <= added /\ steps \in 0 .. MaxSteps /\ MaxSteps \in Nat /\ MaxRows \in 0 .. INT_MAX
        /\ INT_MAX \in Nat /\ meant \in Seq(Row) /\ Len(meant) = row_count
        /\ rows \in [0 .. capacity - 1 -> RowOrUnset]
    BY ResultSetAssumption, Zenon DEF ResultSetInv, Holds
  <1>2. /\ steps < MaxSteps /\ row_count > 0 /\ steps' = steps + 1 /\ UNCHANGED <<capacity, added>>
        /\ meant' = SubSeq(meant, from + 1, upto)
        /\ IF o >= row_count THEN row_count' = 0 /\ UNCHANGED rows
           ELSE /\ rows' = IF o > 0 THEN Moved(o) ELSE rows
                /\ row_count' = IF l < left THEN l ELSE left
    BY Zenon DEF select_apply_limit, Slice
  <1>3. row_count \in 0 .. INT_MAX /\ row_count \in Nat
    BY <1>1
  <1>4. o \in 0 .. INT_MAX /\ (offset # NoCount => o = offset)
    BY <1>1, CountsAreInts
  <1>5. l0 \in 0 .. INT_MAX /\ (limit # NoCount => l0 = limit)
    BY <1>1, <1>3, CountsAreInts, Zenon
  <1>6. o + l0 \in 0 .. 2 * INT_MAX
    <2> HIDE DEF o, l0
    <2> QED
      BY <1>1, <1>4, <1>5
  <1>7. sum = IF o + l0 <= INT_MAX THEN o + l0 ELSE (o + l0) - (2 * INT_MAX + 2)
    <2> HIDE DEF o, l0
    <2> QED
      BY <1>6, ToIntIs, Zenon
  <1>8. steps' \in 0 .. MaxSteps /\ added' \in 0 .. MaxRows
    <2>1. steps < MaxSteps /\ steps' = steps + 1 /\ added' = added
      BY <1>2, Zenon
    <2>2. steps \in 0 .. MaxSteps /\ MaxSteps \in Nat /\ added \in 0 .. MaxRows
      BY <1>1, Zenon
    <2> QED
      BY <2>1, <2>2
  <1>9. CASE o >= row_count
    <2>1. from = row_count /\ upto = row_count
      <3>1. offset # NoCount
        BY <1>1, <1>2, <1>9
      <3>2. from = row_count
        BY <1>1, <1>3, <1>4, <1>9, <3>1 DEF Least
      <3>3. limit # NoCount => from + limit >= row_count
        <4> HIDE DEF from, o, l0
        <4> QED
          BY <1>3, <1>5, <3>2, SMTT(30)
      <3> HIDE DEF from
      <3> QED
        BY <1>1, <1>3, <1>5, <3>2, <3>3, SMTT(30) DEF Least
    <2> HIDE DEF from, upto
    <2>2. meant' = SubSeq(meant, row_count + 1, row_count)
      BY <1>2, <2>1, Zenon
    <2>3. meant' \in Seq(Row) /\ Len(meant') = 0
      <3>1. row_count \in 0 .. Len(meant) /\ row_count <= row_count /\ row_count - row_count = 0
        BY <1>1, <1>3, SMTT(30)
      <3> QED
        BY <1>1, <1>3, <2>2, <3>1, SubSeqIs
    <2>4. row_count' = 0 /\ rows' = rows
      BY <1>2, <1>9, Zenon
    <2>5. Holds(rows, row_count, meant)'
      BY <2>3, <2>4, SMTT(30) DEF Holds
    <2>6. row_count' \in 0 .. capacity' /\ row_count' <= added'
      BY <1>1, <1>2, <2>4, SMTT(30)
    <2> QED
      BY <1>1, <1>2, <1>8, <2>3, <2>4, <2>5, <2>6, Zenon DEF ResultSetInv
  <1>10. CASE ~(o >= row_count)
    <2>1. from = o /\ upto = to
      <3>1. from = o
        BY <1>1, <1>3, <1>4, <1>10, SMTT(30) DEF Least
      <3> HIDE DEF from, o
      <3> QED
        BY <1>1, <1>5, <3>1, Zenon
    <2> HIDE DEF from, upto
    <2>2. o \in 0 .. row_count /\ to \in o .. row_count /\ row_count' = to - o
      <3>1. row_count' = IF l < left THEN l ELSE left
        BY <1>2, <1>10, Zenon
      <3>2. left = row_count - o
        <4> HIDE DEF o
        <4> QED
          BY <1>3, <1>4, <1>10
      <3>3. limit = NoCount => l0 = row_count
        BY Zenon
      <3>4. limit # NoCount => to = Least(o + l0, row_count)
        BY Zenon
      <3>5. limit = NoCount => to = row_count
        BY Zenon
      <3> HIDE DEF o, l0, sum, left, to
      <3>6. to = IF o + l0 <= row_count THEN o + l0 ELSE row_count
        BY <1>3, <1>4, <1>5, <3>3, <3>4, <3>5, SMTT(30) DEF Least
      <3> QED
        BY <1>1, <1>3, <1>4, <1>5, <1>7, <1>10, <3>1, <3>2, <3>6, SMTT(30)
    <2>3. meant' = SubSeq(meant, o + 1, to) /\ rows' = IF o > 0 THEN Moved(o) ELSE rows
      BY <1>2, <1>10, <2>1, Zenon
    <2> HIDE DEF o, l0, sum, l, left, to
    <2>4. Holds(rows', row_count', meant')
      BY <2>2, <2>3, MovedHolds, Zenon
    <2>5. to \in 0 .. Len(meant) /\ o \in Nat
      BY <1>1, <1>4, <2>2, SMTT(30)
    <2>6. meant' \in Seq(Row)
      BY <1>1, <2>3, <2>5, SubSeqIs, Zenon
    <2>7. rows' \in [0 .. capacity - 1 -> RowOrUnset]
      <3>1. Moved(o) \in [0 .. capacity - 1 -> RowOrUnset]
        <4>1. ASSUME NEW i \in 0 .. capacity - 1
              PROVE  (IF i + o < row_count THEN rows[i + o] ELSE rows[i]) \in RowOrUnset
          <5>1. i + o < row_count => i + o \in 0 .. capacity - 1
            BY <1>1, <2>5
          <5> QED
            BY <1>1, <5>1, Zenon
        <4> QED
          BY <1>1, <4>1, Zenon DEF Moved
      <3> QED
        BY <1>1, <2>3, <3>1, Zenon
    <2>8. row_count' \in 0 .. capacity' /\ row_count' <= added'
      BY <1>1, <1>2, <1>3, <2>2
    <2>9. Holds(rows, row_count, meant)'
      BY <2>4
    <2> QED
      BY <1>1, <1>2, <1>8, <2>6, <2>7, <2>8, <2>9, Zenon DEF ResultSetInv
  <1> QED
    BY <1>9, <1>10, Zenon

\* RowsAsMeant for every set of values, width of rows, capacity and sequence of
\* clauses: the array grows with its rows, DISTINCT in place keeps the first of equal
\* rows and LIMIT with OFFSET the rows between two places.  The hypotheses are what
\* select_apply_distinct and select_apply_limit need: a column count that is the width
\* of the rows, and numbers that fit in an int.
THEOREM ResultSetRowsAsMeant ==
    WholeRows /\ CountsFit => (ResultSetSpec => []RowsAsMeant)
  <1> SUFFICES ASSUME WholeRows, CountsFit PROVE ResultSetSpec => []RowsAsMeant
    BY Zenon
  <1>1. result_set_create => ResultSetInv
    <2> SUFFICES ASSUME result_set_create PROVE ResultSetInv
      BY Zenon
    <2>1. capacity \in Nat \ {0} /\ MaxRows \in Nat /\ MaxSteps \in Nat
      BY ResultSetAssumption DEF result_set_create
    <2>2. rows \in [0 .. capacity - 1 -> RowOrUnset]
      BY DEF result_set_create, RowOrUnset
    <2>3. row_count = 0 /\ meant = <<>> /\ added = 0 /\ steps = 0
      BY DEF result_set_create
    <2>4. meant \in Seq(Row) /\ Holds(rows, row_count, meant)
      BY <2>3 DEF Holds
    <2> QED
      BY <2>1, <2>2, <2>3, <2>4 DEF ResultSetInv
  <1>2. ResultSetInv /\ [ResultSetNext]_resultSetVars => ResultSetInv'
    <2> SUFFICES ASSUME ResultSetInv, [ResultSetNext]_resultSetVars PROVE ResultSetInv'
      BY Zenon
    <2>1. CASE UNCHANGED resultSetVars
      BY <2>1 DEF resultSetVars, ResultSetInv, Holds
    <2>2. ASSUME NEW row \in Row, result_set_add_row(row) PROVE ResultSetInv'
      BY <2>2, AddRowInv
    <2>3. CASE select_apply_distinct
      BY <2>3, ApplyDistinctInv
    <2>4. ASSUME NEW limit \in Count \cup {NoCount}, NEW offset \in Count \cup {NoCount},
                 select_apply_limit(limit, offset)
          PROVE  ResultSetInv'
      BY <2>4, ApplyLimitInv, Zenon
    <2> QED
      BY <2>1, <2>2, <2>3, <2>4 DEF ResultSetNext
  <1>3. ResultSetInv => RowsAsMeant
    BY DEF ResultSetInv, RowsAsMeant, ResultSetTypeOK, RowOrUnset, Holds
  <1> QED
    BY <1>1, <1>2, <1>3, PTL DEF ResultSetSpec
=============================================================================
