---------------------------- MODULE CatalogTree ----------------------------
(***************************************************************************)
(* What src/sql/catalog.c computes from the tree of the catalog.  A tree   *)
(* is the sequence of its cells, in the order they were inserted (BTree).  *)
(* Of an entry its type, its names and its root page count.                *)
(***************************************************************************)
EXTENDS Integers, Sequences, FiniteSets

CONSTANTS
    Name,               \* names of tables and indexes
    Cut,                \* what is left of a name in a field of 64 bytes
    strlen,             \* the length of a name
    IndexKey,           \* where the keys of indexes begin: 0x80000000
    MasterName          \* CATALOG_TABLE_NAME

ASSUME CatalogAssumption ==
    /\ Cut \in [Name -> Name]
    /\ \A n \in Name : Cut[Cut[n]] = Cut[n]
    /\ strlen \in [Name -> Nat]
    /\ \A n \in Name : strlen[Cut[n]] <= 63
    /\ IndexKey \in Nat /\ IndexKey > 64
    /\ MasterName \in Name /\ Cut[MasterName] = MasterName

Entry == [type : {"table", "index"}, name : Name, tbl_name : Name, root_page : Nat]

NoEntry == [type |-> "none"]

\* The fields of 64 bytes hold 63 characters and the terminator.
serialize_entry(entry) ==
    [entry EXCEPT !.name = Cut[@], !.tbl_name = Cut[@]]

\* The key that an entry is put under.
EntryKey(entry) ==
    IF entry.type = "table" THEN 1 + strlen[entry.name]
                            ELSE IndexKey + strlen[entry.name]

\* btree_insert: a key that is there already keeps its cell and the call
\* succeeds; a page without room refuses the cell.
btree_insert(cells, key, value, capacity) ==
    IF \E i \in 1 .. Len(cells) : cells[i].key = key
    THEN [ret |-> "SUCCESS", cells |-> cells]
    ELSE IF Len(cells) >= capacity
         THEN [ret |-> "ERROR", cells |-> cells]
         ELSE [ret |-> "SUCCESS",
               cells |-> Append(cells, [key |-> key, value |-> value])]

insert_entry(cells, entry, capacity) ==
    btree_insert(cells, EntryKey(entry), serialize_entry(entry), capacity)

\* The places where a scan of the catalog stops.
Matches(cells, type, name) ==
    {i \in 1 .. Len(cells) :
        cells[i].value.type = type /\ cells[i].value.name = name}

\* Mutant: only the type is compared.
lookup_by_type(cells, type, name) ==
    LET found == {i \in 1 .. Len(cells) : cells[i].value.type = type}
    IN  IF found = {} THEN NoEntry
        ELSE cells[CHOOSE i \in found : \A j \in found : i <= j].value

\* A linear scan: the first entry with this type and this whole name.
lookup(cells, type, name) ==
    LET found == Matches(cells, type, name)
    IN  IF found = {} THEN NoEntry
        ELSE cells[CHOOSE i \in found : \A j \in found : i <= j].value

\* The loop of a listing: the cursor goes over the catalog and copies the cells
\* at the wanted places.
Listed(cells, wanted) ==
    LET list[n \in 0 .. Len(cells)] ==
          IF n = 0 THEN <<>>
          ELSE IF n \in wanted THEN Append(list[n - 1], cells[n]) ELSE list[n - 1]
    IN  list[Len(cells)]

get_tables(cells) ==
    Listed(cells, {i \in 1 .. Len(cells) : cells[i].value.type = "table"})

get_indexes(cells, table_name) ==
    Listed(cells, {i \in 1 .. Len(cells) : /\ cells[i].value.type = "index"
                                           /\ cells[i].value.tbl_name = table_name})
============================================================================
