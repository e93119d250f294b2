------------------------------- MODULE BTree -------------------------------
(***************************************************************************)
(* The B+tree of src/storage/btree.c.  Nothing in the code creates an      *)
(* internal node: a tree is one leaf page, its root.  Cell pointers grow   *)
(* upwards behind the leaf header, cells are put below content_start.      *)
(* Offsets are bytes; of a cell the key, the value and the offset count.   *)
(*                                                                         *)
(* The leaf lives in the page cache, which keeps what was written last     *)
(* (PageStore), and in the file, to which it is copied when the cache is   *)
(* flushed or evicts it.  The tree and its cursors are used by one thread. *)
(***************************************************************************)
EXTENDS Integers, Sequences, FiniteSets

CONSTANTS
    Key, Value,
    Length,         \* the number of bytes of a value
    Cursor,         \* the cursors that clients hold
    PAGE_SIZE

\* cell_size, cell_offset and content_start are 16 bits wide.  The callers
\* insert catalog entries (652 bytes) and rows (from a buffer of 1024 bytes),
\* so nothing is cut off.
ASSUME BTreeAssumption ==
    /\ PAGE_SIZE \in Nat /\ PAGE_SIZE >= 10 /\ PAGE_SIZE < 65536
    /\ Key \subseteq Nat
    /\ Length \in [Value -> Nat]
    /\ \A v \in Value : 2 + 8 + Length[v] + 8 < 65536

HeaderSize == 10        \* BTREE_LEAF_HEADER_SIZE
PointerSize == 2        \* BTREE_CELL_POINTER_SIZE

VARIABLES
    is_open,    \* a BTree exists
    leaf,       \* the root page in the cache
    stored,     \* the root page in the file
    is_dirty,   \* the cached page is dirty
    cursor,     \* the position of every cursor
    seen,       \* history: the keys a scan from the first key has passed
    event       \* history: what the last step did

vars == <<is_open, leaf, stored, is_dirty, cursor, seen, event>>

\* A page of zeros is of no known type.
ZeroPage == [page_type |-> 0, cells |-> <<>>, content_start |-> 0]
EmptyLeaf == [page_type |-> 13, cells |-> <<>>, content_start |-> PAGE_SIZE]

IsLeaf == leaf.page_type = 13
cell_count == Len(leaf.cells)

\* A cursor; "scan" (history): it came from btree_first and only moved forward.
NoCursor == [open |-> FALSE, cell |-> 0, is_end |-> FALSE, scan |-> FALSE]

Init ==
    /\ is_open = FALSE
    /\ leaf = ZeroPage
    /\ stored = ZeroPage
    /\ is_dirty = FALSE
    /\ cursor = [c \in Cursor |-> NoCursor]
    /\ seen = [c \in Cursor |-> {}]
    /\ event = [op |-> "quiet"]

----------------------------------------------------------------------------
(* Lifecycle.                                                              *)

Quiet == event' = [op |-> "quiet"]

NoCursorOpen == \A c \in Cursor : ~cursor[c].open

\* The page was just allocated and is zero.
btree_create ==
    /\ ~is_open
    /\ leaf.page_type = 0
    /\ is_open' = TRUE
    /\ leaf' = EmptyLeaf
    /\ is_dirty' = TRUE
    /\ Quiet
    /\ UNCHANGED <<stored, cursor, seen>>

btree_open ==
    /\ ~is_open
    /\ is_open' = TRUE
    /\ Quiet
    /\ UNCHANGED <<leaf, stored, is_dirty, cursor, seen>>

\* Mutant: a page whose write failed counts as clean.
FlushIgnoresFailure(ok) ==
    /\ stored' = IF is_dirty /\ ok THEN leaf ELSE stored
    /\ is_dirty' = FALSE

\* The cache is flushed: the page is written unless the write fails.
Flush(ok) ==
    /\ stored' = IF is_dirty /\ ok THEN leaf ELSE stored
    /\ is_dirty' = (is_dirty /\ ~ok)

\* btree_close ignores the result of the flush.  Clients free their cursors
\* before, as these point to the tree.
btree_close(ok) ==
    /\ is_open
    /\ NoCursorOpen
    /\ Flush(ok)
    /\ is_open' = FALSE
    /\ event' = [op |-> IF ok THEN "closed" ELSE "quiet"]
    /\ UNCHANGED <<leaf, cursor, seen>>

\* Another tree on the same cache is closed, or the page is evicted.
CacheFlush ==
    /\ is_dirty
    /\ Flush(TRUE)
    /\ Quiet
    /\ UNCHANGED <<is_open, leaf, cursor, seen>>

Crash ==
    /\ event' = [op |-> "crash"]
    /\ is_open' = FALSE
    /\ leaf' = stored
    /\ is_dirty' = FALSE
    /\ cursor' = [c \in Cursor |-> NoCursor]
    /\ seen' = [c \in Cursor |-> {}]
    /\ UNCHANGED stored


----------------------------------------------------------------------------
(* Cursors.  Cell i of the page is leaf.cells[i + 1].                      *)

Found(k) == {i \in 0 .. cell_count - 1 : leaf.cells[i + 1].key = k}

\* The first cell with the key, or the number of cells.
FindIndex(k) ==
    IF Found(k) = {} THEN cell_count
    ELSE CHOOSE i \in Found(k) : \A j \in Found(k) : i <= j

At(i, scan) ==
    [open |-> TRUE, cell |-> i, is_end |-> i = cell_count, scan |-> scan]

\* The key of cell i, if there is one.
KeyAt(i) == {leaf.cells[j].key : j \in {i + 1} \cap 1 .. cell_count}

\* The key btree_get returns at a position.
KeyShown(position) == IF position.is_end THEN {} ELSE KeyAt(position.cell)

OpenCursor(c, position) ==
    /\ is_open /\ IsLeaf
    /\ ~cursor[c].open
    /\ cursor' = [cursor EXCEPT ![c] = position]
    /\ seen' = [seen EXCEPT ![c] = IF position.scan THEN KeyShown(position) ELSE {}]
    /\ Quiet
    /\ UNCHANGED <<is_open, leaf, stored, is_dirty>>

btree_find(c, k) == OpenCursor(c, At(FindIndex(k), FALSE))

btree_first(c) == OpenCursor(c, At(0, TRUE))

btree_last(c) ==
    OpenCursor(c, At(IF cell_count > 0 THEN cell_count - 1 ELSE 0, FALSE))

btree_range_new(c, d, start_key, end_key) ==
    /\ is_open /\ IsLeaf
    /\ c # d /\ ~cursor[c].open /\ ~cursor[d].open
    /\ cursor' = [cursor EXCEPT ![c] = At(FindIndex(start_key), FALSE),
                                ![d] = At(FindIndex(end_key), FALSE)]
    /\ Quiet
    /\ UNCHANGED <<is_open, leaf, stored, is_dirty, seen>>

\* Mutant: the last cell counts as the end.
NextEndsEarly(c) ==
    [cursor[c] EXCEPT !.cell = @ + 1, !.is_end = cursor[c].cell + 2 >= cell_count]

\* The position one cell further, at the end if there is none.
NextPosition(c) ==
    [cursor[c] EXCEPT !.cell = IF cursor[c].cell + 1 >= cell_count
                               THEN cell_count ELSE cursor[c].cell + 1,
                      !.is_end = cursor[c].cell + 1 >= cell_count]

btree_cursor_next(c) ==
    /\ cursor[c].open /\ ~cursor[c].is_end
    /\ cursor' = [cursor EXCEPT ![c] = NextPosition(c)]
    /\ seen' = [seen EXCEPT ![c] =
                   IF cursor[c].scan THEN @ \cup KeyShown(NextPosition(c)) ELSE {}]
    /\ Quiet
    /\ UNCHANGED <<is_open, leaf, stored, is_dirty>>

\* The cursor stays on the first cell and never becomes invalid.
btree_cursor_prev(c) ==
    /\ cursor[c].open /\ ~cursor[c].is_end
    /\ cursor' = [cursor EXCEPT ![c].cell = IF @ > 0 THEN @ - 1 ELSE 0,
                                ![c].scan = FALSE]
    /\ seen' = [seen EXCEPT ![c] = {}]
    /\ Quiet
    /\ UNCHANGED <<is_open, leaf, stored, is_dirty>>

btree_cursor_free(c) ==
    /\ cursor[c].open
    /\ cursor' = [cursor EXCEPT ![c] = NoCursor]
    /\ seen' = [seen EXCEPT ![c] = {}]
    /\ Quiet
    /\ UNCHANGED <<is_open, leaf, stored, is_dirty>>

\* What btree_get returns.
btree_get(c) == leaf.cells[cursor[c].cell + 1]
CanGet(c) == cursor[c].open /\ ~cursor[c].is_end /\ cursor[c].cell < cell_count

----------------------------------------------------------------------------
(* Insertion.                                                              *)

\* key, value and the two sizes in front of them
TotalPayload(v) == 8 + Length[v] + 8

available_space == leaf.content_start - (HeaderSize + cell_count * PointerSize)

\* Mutant: the cell pointer is not counted.
FitsPayload(v) == TotalPayload(v) <= available_space

Fits(v) == PointerSize + TotalPayload(v) <= available_space

\* Mutant: cell pointers are kept in the order of the keys.
InsertSorted(i, cell) ==
    LET at == Cardinality({j \in 1 .. cell_count : leaf.cells[j].key < cell.key})
    IN  [j \in 1 .. cell_count + 1 |->
            IF j <= at THEN leaf.cells[j]
            ELSE IF j = at + 1 THEN cell
            ELSE leaf.cells[j - 1]]

\* Cell pointers from index i on move up by one.
InsertAt(i, cell) ==
    [j \in 1 .. cell_count + 1 |->
        IF j <= i THEN leaf.cells[j]
        ELSE IF j = i + 1 THEN cell
        ELSE leaf.cells[j - 1]]

WithCell(k, v) ==
    LET offset == leaf.content_start - TotalPayload(v)
    IN  [leaf EXCEPT !.cells = InsertAt(FindIndex(k),
                                   [key |-> k, value |-> v, offset |-> offset]),
                     !.content_start = offset]

\* A key that is present keeps its value, and 0 is returned.
InsertExisting(k) ==
    /\ Found(k) # {}
    /\ UNCHANGED <<leaf, is_dirty>>

\* Mutant: the page is not marked dirty.
InsertNotDirty(k, v) ==
    /\ Found(k) = {}
    /\ Fits(v)
    /\ leaf' = WithCell(k, v)
    /\ is_dirty' = is_dirty

InsertCell(k, v) ==
    /\ Found(k) = {}
    /\ Fits(v)
    /\ leaf' = WithCell(k, v)
    /\ is_dirty' = TRUE

\* The calls that return 0.  One that returns -1 (a full leaf, a page that
\* cannot be pinned, an unknown page type) changes nothing.
Insert(k, v, op) ==
    /\ is_open /\ IsLeaf
    /\ InsertExisting(k) \/ InsertCell(k, v)
    /\ event' = [op |-> op, key |-> k, value |-> v]
    /\ UNCHANGED <<is_open, stored, cursor, seen>>

btree_insert(k, v) == Insert(k, v, "insert")

btree_update(k, v) == Insert(k, v, "update")

----------------------------------------------------------------------------

Next ==
    \/ btree_create
    \/ btree_open
    \/ \E ok \in BOOLEAN : btree_close(ok)
    \/ CacheFlush
    \/ Crash
    \/ \E c \in Cursor :
          \/ \E k \in Key : btree_find(c, k)
          \/ btree_first(c)
          \/ btree_last(c)
          \/ btree_cursor_next(c)
          \/ btree_cursor_prev(c)
          \/ btree_cursor_free(c)
    \/ \E c, d \in Cursor, j, k \in Key : btree_range_new(c, d, j, k)
    \/ \E k \in Key, v \in Value : btree_insert(k, v) \/ btree_update(k, v)

Spec == Init /\ [][Next]_vars


----------------------------------------------------------------------------
(* Properties.                                                             *)

Cell == [key : Key, value : Value, offset : 0 .. PAGE_SIZE]

Leaf == [page_type : {0, 13}, cells : Seq(Cell), content_start : 0 .. PAGE_SIZE]

Position == [open : BOOLEAN, cell : Nat, is_end : BOOLEAN, scan : BOOLEAN]

\* Pages, cursors and history variables have their types; no cursor stands
\* beyond the end of the leaf (btree_cursor_next sets it back to cell_count).
TypeOK ==
    /\ is_open \in BOOLEAN /\ is_dirty \in BOOLEAN
    /\ leaf \in Leaf /\ stored \in Leaf
    /\ cursor \in [Cursor -> Position]
    /\ seen \in [Cursor -> SUBSET Key]
    /\ event.op \in {"quiet", "closed", "crash", "insert", "update"}
    /\ \A c \in Cursor : cursor[c].cell <= cell_count

CellEnd(page, i) == IF i = 1 THEN PAGE_SIZE ELSE page.cells[i - 1].offset

Packed(page) ==
    /\ \A i \in 1 .. Len(page.cells) :
          page.cells[i].offset + TotalPayload(page.cells[i].value) = CellEnd(page, i)
    /\ page.content_start = CellEnd(page, Len(page.cells) + 1)
    /\ HeaderSize + PointerSize * Len(page.cells) <= page.content_start

UniqueKeys(page) ==
    \A i, j \in 1 .. Len(page.cells) :
        page.cells[i].key = page.cells[j].key => i = j

\* The cells of a leaf fill the page downwards from its end without gap or
\* overlap, the cell pointers never run into them, and no key occurs twice.
\* btree_insert keeps this by its space check and its search.
LeafSound ==
    \A page \in {leaf, stored} :
        IF page.page_type = 13 THEN Packed(page) /\ UniqueKeys(page)
        ELSE page.cells = <<>>

\* Inserting while a cursor is open never makes it return another cell: the
\* executor and the catalog read with btree_get between other calls.
CursorStable ==
    [][\A c \in Cursor :
          CanGet(c) /\ cursor'[c] = cursor[c] => btree_get(c)' = btree_get(c)]_vars

\* When a scan (btree_first, then btree_cursor_next) meets the end, it has
\* passed every key of the tree, those inserted while it ran included.
ScanComplete ==
    [][\A c \in Cursor :
          cursor[c].scan /\ ~cursor[c].is_end /\ cursor'[c].is_end
              => seen'[c] = {leaf'.cells[i].key : i \in 1 .. Len(leaf'.cells)}]_vars

\* What a crash leaves is the tree as it was at an earlier moment, and all of
\* it when the page is not dirty: no later key is stored without an earlier.
StoredIsPrefix ==
    /\ Len(stored.cells) <= cell_count
    /\ stored.cells = SubSeq(leaf.cells, 1, Len(stored.cells))
    /\ ~is_dirty => stored = leaf

Contents(page) ==
    [k \in {page.cells[i].key : i \in 1 .. Len(page.cells)} |->
        page.cells[CHOOSE i \in 1 .. Len(page.cells) : page.cells[i].key = k].value]

Dict == INSTANCE Dictionary
    WITH dict <- Contents(leaf), saved <- Contents(stored),
         event <- IF event.op \in {"closed", "crash"} THEN event.op ELSE "quiet"

\* The tree is a dictionary whose keys are written once; a close without I/O
\* failure saves all of it and a crash falls back to what was saved.
DictSpec == Dict!Spec
============================================================================
