------------------------------ MODULE Catalog ------------------------------
(***************************************************************************)
(* The system catalog of src/sql/catalog.c: opening, initialising,         *)
(* inserting, looking up, listing and scanning with a cursor while entries *)
(* are being added.                                                        *)
(***************************************************************************)
EXTENDS CatalogTree

CONSTANTS
    Given,          \* the entries that callers insert; their names fit
    EntryCapacity   \* entries of 652 bytes that fit on a page: 6

ASSUME GivenAssumption ==
    /\ EntryCapacity \in Nat
    /\ \A entry \in Given : entry \in Entry /\ serialize_entry(entry) = entry

VARIABLES
    catalog_is_open,    \* a Catalog exists
    cells,              \* the tree of the catalog
    cursor,             \* a CatalogCursor: the cell it is at, and is_end
    seen,               \* history: the keys the cursor has been at, in order
    start,              \* history: the number of entries when the cursor was made
    answer              \* history: the last call and what it answered

catalogVars == <<catalog_is_open, cells, cursor, seen, start, answer>>

NoCursor == [live |-> FALSE, cell |-> 1, is_end |-> TRUE]
Silent == answer' = [op |-> "none"]

CatalogInit ==
    /\ catalog_is_open = FALSE
    /\ cells = <<>>
    /\ cursor = NoCursor
    /\ seen = <<>> /\ start = 0
    /\ answer = [op |-> "none"]

\* The catalog always starts as a new tree.
catalog_open ==
    /\ ~catalog_is_open
    /\ catalog_is_open' = TRUE
    /\ cells' = <<>>
    /\ Silent
    /\ UNCHANGED <<cursor, seen, start>>

catalog_close ==
    /\ catalog_is_open /\ ~cursor.live
    /\ catalog_is_open' = FALSE
    /\ Silent
    /\ UNCHANGED <<cells, cursor, seen, start>>

MasterEntry == [type |-> "table", name |-> MasterName, tbl_name |-> MasterName,
                root_page |-> 0]

catalog_init ==
    /\ catalog_is_open
    /\ LET r == btree_insert(cells, 0, serialize_entry(MasterEntry), EntryCapacity)
       IN  /\ cells' = r.cells
           /\ answer' = [op |-> "init", ret |-> r.ret]
    /\ UNCHANGED <<catalog_is_open, cursor, seen, start>>

catalog_insert(entry) ==
    /\ catalog_is_open
    /\ LET r == insert_entry(cells, entry, EntryCapacity)
       IN  /\ cells' = r.cells
           /\ answer' = [op |-> "insert", entry |-> entry, ret |-> r.ret]
    /\ UNCHANGED <<catalog_is_open, cursor, seen, start>>

\* catalog_delete is a stub.
catalog_delete(type, name) ==
    /\ catalog_is_open
    /\ answer' = [op |-> "delete", ret |-> "ERR_INTERNAL"]
    /\ UNCHANGED <<catalog_is_open, cells, cursor, seen, start>>

----------------------------------------------------------------------------
(* The cursor.                                                             *)

\* On an empty tree the cursor is at its end from the start, and stays there.
catalog_cursor_create ==
    /\ catalog_is_open /\ ~cursor.live
    /\ cursor' = [live |-> TRUE, cell |-> 1, is_end |-> cells = <<>>]
    /\ seen' = IF cells = <<>> THEN <<>> ELSE <<cells[1].key>>
    /\ start' = Len(cells)
    /\ Silent
    /\ UNCHANGED <<catalog_is_open, cells>>

catalog_cursor_valid == ~cursor.is_end

catalog_cursor_get ==
    /\ cursor.live
    /\ answer' = IF catalog_cursor_valid
                THEN [op |-> "get", entry |-> cells[cursor.cell].value]
                ELSE [op |-> "get", entry |-> NoEntry]
    /\ UNCHANGED <<catalog_is_open, cells, cursor, seen, start>>

\* is_end is set once and stays, whatever is inserted later.
catalog_cursor_next ==
    /\ cursor.live
    /\ catalog_cursor_valid
    /\ LET at_end == cursor.cell = Len(cells)
       IN  /\ cursor' = [cursor EXCEPT !.cell = @ + 1, !.is_end = at_end]
           /\ seen' = IF at_end THEN seen ELSE Append(seen, cells[cursor.cell + 1].key)
    /\ Silent
    /\ UNCHANGED <<catalog_is_open, cells, start>>

catalog_cursor_free ==
    /\ cursor.live
    /\ cursor' = NoCursor
    /\ seen' = <<>> /\ start' = 0
    /\ Silent
    /\ UNCHANGED <<catalog_is_open, cells>>

CatalogNext ==
    \/ catalog_open
    \/ catalog_close
    \/ catalog_init
    \/ \E entry \in Given : catalog_insert(entry)
    \/ \E type \in {"table", "index"}, name \in Name : catalog_delete(type, name)
    \/ catalog_cursor_create
    \/ catalog_cursor_get
    \/ catalog_cursor_next
    \/ catalog_cursor_free

CatalogSpec == CatalogInit /\ [][CatalogNext]_catalogVars
----------------------------------------------------------------------------
(* Properties.                                                             *)

\* The catalog is a page of cells, the cursor a position in or just behind it.
CatalogTypeOK ==
    /\ catalog_is_open \in BOOLEAN
    /\ \A i \in 1 .. Len(cells) :
          cells[i].key \in Nat /\ cells[i].value \in Entry
    /\ Len(cells) <= EntryCapacity
    /\ cursor.live => cursor.cell \in 1 .. Len(cells) + 1
    /\ start \in 0 .. Len(cells)

\* No key is used twice, and the key tells the type: a table and an index of
\* one name never collide, nor does either with the entry of the catalog
\* itself under key 0.
KeysSound ==
    /\ \A i, j \in 1 .. Len(cells) : cells[i].key = cells[j].key => i = j
    /\ \A i \in 1 .. Len(cells) :
          /\ cells[i].key >= IndexKey <=> cells[i].value.type = "index"
          /\ cells[i].key = 0 => cells[i].value = MasterEntry

\* The listings and the lookup agree: every table that catalog_get_tables
\* lists is found by catalog_lookup_type_name under the listed name, with the
\* listed root page, and every index appears in the list of its table.
ListedIsFound ==
    /\ \A i \in 1 .. Len(get_tables(cells)) :
          LET entry == get_tables(cells)[i].value
          IN  entry.name # MasterName => lookup(cells, "table", entry.name) = entry
    /\ \A i \in 1 .. Len(cells) :
          cells[i].value.type = "index" =>
             \E j \in 1 .. Len(get_indexes(cells, cells[i].value.tbl_name)) :
                get_indexes(cells, cells[i].value.tbl_name)[j] = cells[i]

\* A cursor shows the entries in the order of the tree, none twice, and has
\* shown every entry that was there when it was made once it is at its end,
\* whatever is inserted meanwhile.
ScanComplete ==
    cursor.live =>
       /\ Len(seen) <= Len(cells)
       /\ \A i \in 1 .. Len(seen) : seen[i] = cells[i].key
       /\ cursor.is_end => Len(seen) >= start

\* The ways to an entry of the catalog agree: no key is used twice and each
\* tells the type of its entry, the listings have what the lookup finds, and a
\* cursor shows every entry that was there when it was made, in order and none
\* twice, whatever is inserted meanwhile.
CatalogSound == CatalogTypeOK /\ KeysSound /\ ListedIsFound /\ ScanComplete
============================================================================
