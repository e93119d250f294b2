--------------------------- MODULE StorageProofs ---------------------------
(***************************************************************************)
(* Proofs about what is stored in pages and in the log.                    *)
(*                                                                         *)
(* The tree, for every page size, every set of keys, values and cursors,   *)
(* and values of any length.                                               *)
(*                                                                         *)
(* The write-ahead log keeps what it acknowledged, for any page numbers,   *)
(* words, frame size and bounds.                                           *)
(***************************************************************************)
EXTENDS BTree, WAL, Rounds, TLAPS

----------------------------------------------------------------------------
(* The B-tree.                                                             *)

\* A key that is not in the leaf is looked for up to the end, so its cell
\* pointer is appended: btree_insert moves none.
LEMMA AppendsCell ==
    ASSUME leaf \in Leaf, NEW k, Found(k) = {}, NEW cell \in Cell,
           NEW cells, cells = InsertAt(FindIndex(k), cell)
    PROVE  /\ cells \in Seq(Cell)
           /\ Len(cells) = cell_count + 1
           /\ \A j \in 1 .. cell_count : cells[j] = leaf.cells[j]
           /\ cells[cell_count + 1] = cell
  <1>1. leaf.cells \in Seq(Cell)
    BY DEF Leaf
  <1> DEFINE n == Len(leaf.cells)
  <1>2. n \in Nat /\ n = cell_count /\ FindIndex(k) = n
    BY <1>1 DEF cell_count, FindIndex
  <1>3. cells = [j \in 1 .. n + 1 |-> IF j <= n THEN leaf.cells[j]
                                      ELSE IF j = n + 1 THEN cell
                                      ELSE leaf.cells[j - 1]]
    BY <1>2 DEF InsertAt
  <1>4. \A j \in 1 .. n : leaf.cells[j] \in Cell
    BY <1>1
  <1>5. \A j \in 1 .. n + 1 : cells[j] \in Cell
    BY <1>2, <1>3, <1>4
  <1>6. cells \in Seq(Cell) /\ Len(cells) = n + 1
    BY <1>2, <1>3, <1>5
  <1> QED
    BY <1>2, <1>3, <1>6

\* The space check of btree_insert leaves room for the cell and its pointer.
LEMMA CellFits ==
    ASSUME leaf \in Leaf, leaf.page_type = 13, Packed(leaf),
           NEW k \in Key, NEW v \in Value, Fits(v),
           NEW offset, offset = leaf.content_start - TotalPayload(v)
    PROVE  /\ offset \in 0 .. PAGE_SIZE
           /\ HeaderSize + PointerSize * (cell_count + 1) <= offset
           /\ [key |-> k, value |-> v, offset |-> offset] \in Cell
  <1>1. leaf.content_start \in 0 .. PAGE_SIZE /\ cell_count \in Nat
    BY DEF Leaf, cell_count
  <1>2. TotalPayload(v) \in Nat /\ PAGE_SIZE \in Nat
    BY BTreeAssumption DEF TotalPayload
  <1>3. HeaderSize + PointerSize * (cell_count + 1) <= offset
    BY <1>1, <1>2 DEF Fits, available_space, HeaderSize, PointerSize
  <1>4. offset \in 0 .. PAGE_SIZE
    BY <1>1, <1>2, <1>3 DEF HeaderSize, PointerSize
  <1> QED
    BY <1>3, <1>4 DEF Cell

Sound(page) ==
    IF page.page_type = 13 THEN Packed(page) /\ UniqueKeys(page)
    ELSE page.cells = <<>>

\* Inserting a new key that fits keeps the leaf sound and only adds to it.
LEMMA InsertSound ==
    ASSUME leaf \in Leaf, leaf.page_type = 13, Sound(leaf),
           NEW k \in Key, NEW v \in Value, Found(k) = {}, Fits(v),
           NEW page, page = WithCell(k, v)
    PROVE  /\ page \in Leaf
           /\ page.page_type = 13
           /\ Sound(page)
           /\ Len(page.cells) = cell_count + 1
           /\ \A j \in 1 .. cell_count : page.cells[j] = leaf.cells[j]
           /\ page.cells[cell_count + 1].key = k
           /\ page.cells[cell_count + 1].value = v
  <1> DEFINE offset == leaf.content_start - TotalPayload(v)
             cell == [key |-> k, value |-> v, offset |-> offset]
             cells == InsertAt(FindIndex(k), cell)
             n == cell_count
  <1>1. n \in Nat /\ n = Len(leaf.cells)
    BY DEF Leaf, cell_count
  <1>2. /\ offset \in 0 .. PAGE_SIZE
        /\ HeaderSize + PointerSize * (n + 1) <= offset
        /\ cell \in Cell
    BY CellFits DEF Sound
  <1>3. /\ cells \in Seq(Cell)
        /\ Len(cells) = n + 1
        /\ \A j \in 1 .. n : cells[j] = leaf.cells[j]
        /\ cells[n + 1] = cell
    BY <1>2, AppendsCell
  <1>4. page = [leaf EXCEPT !.cells = cells, !.content_start = offset]
    BY DEF WithCell
  <1> HIDE DEF cells, offset
  <1>5. page.page_type = 13 /\ page.cells = cells /\ page.content_start = offset
    BY <1>4 DEF Leaf
  <1>6. page \in Leaf
    BY <1>2, <1>3, <1>4, Zenon DEF Leaf
  <1>7. TotalPayload(v) \in Nat /\ leaf.content_start \in Nat
    BY BTreeAssumption DEF TotalPayload, Leaf
  <1>8. Packed(page)
    <2>1. ASSUME NEW i \in 1 .. n + 1
          PROVE  page.cells[i].offset + TotalPayload(page.cells[i].value) = CellEnd(page, i)
      <3>1. CASE i <= n
        <4>1. /\ leaf.cells[i].offset + TotalPayload(leaf.cells[i].value) = CellEnd(leaf, i)
          BY <1>1, <3>1 DEF Sound, Packed
        <4>2. CellEnd(page, i) = CellEnd(leaf, i)
          BY <1>1, <1>3, <1>5, <3>1 DEF CellEnd
        <4> QED
          BY <1>1, <1>3, <1>5, <3>1, <4>1, <4>2
      <3>2. CASE i = n + 1
        <4>1. CellEnd(page, i) = CellEnd(leaf, n + 1)
          BY <1>1, <1>3, <1>5, <3>2 DEF CellEnd
        <4>2. leaf.content_start = CellEnd(leaf, n + 1)
          BY <1>1 DEF Sound, Packed
        <4>3. page.cells[i] = cell /\ cell.offset = offset /\ cell.value = v
          BY <1>3, <1>5, <3>2
        <4>4. offset + TotalPayload(v) = leaf.content_start
          BY <1>7 DEF offset
        <4> HIDE DEF cell
        <4> QED
          BY <4>1, <4>2, <4>3, <4>4
      <3> QED
        BY <1>1, <3>1, <3>2
    <2>2. page.content_start = CellEnd(page, Len(page.cells) + 1)
      BY <1>1, <1>3, <1>5 DEF CellEnd
    <2> QED
      BY <1>2, <1>3, <1>5, <2>1, <2>2 DEF Packed
  <1>9. UniqueKeys(page)
    <2>1. \A i \in 1 .. n : leaf.cells[i].key # k
      <3>1. SUFFICES ASSUME NEW i \in 1 .. n, leaf.cells[i].key = k
                     PROVE  FALSE
        OBVIOUS
      <3>2. i - 1 \in Found(k)
        BY <1>1, <3>1 DEF Found
      <3> QED
        BY <3>2
    <2>2. page.cells[n + 1].key = k
      BY <1>3, <1>5
    <2>3. UniqueKeys(leaf)
      BY DEF Sound
    <2> QED
      BY <1>1, <1>3, <1>5, <2>1, <2>2, <2>3, SMTT(30) DEF UniqueKeys
  <1> QED
    BY <1>3, <1>5, <1>6, <1>8, <1>9 DEF Sound

----------------------------------------------------------------------------
(* The inductive invariant: what is claimed of the pages, and what ties a  *)
(* cursor and the keys it has seen to the leaf.                            *)

Keys(page, n) == {page.cells[i].key : i \in 1 .. n}

CursorSound(c) ==
    /\ cursor[c].scan => cursor[c].open
    /\ cursor[c].open /\ ~cursor[c].is_end => cursor[c].cell < cell_count
    /\ cursor[c].scan /\ ~cursor[c].is_end
           => seen[c] = Keys(leaf, cursor[c].cell + 1)

PagesInv ==
    /\ leaf \in Leaf /\ stored \in Leaf /\ is_dirty \in BOOLEAN
    /\ Sound(leaf) /\ Sound(stored)
    /\ Len(stored.cells) <= Len(leaf.cells)
    /\ \A j \in 1 .. Len(stored.cells) : stored.cells[j] = leaf.cells[j]
    /\ ~is_dirty => stored = leaf

CursorsInv ==
    /\ cursor \in [Cursor -> Position]
    /\ seen \in [Cursor -> SUBSET Key]
    /\ \A c \in Cursor : cursor[c].cell <= cell_count /\ CursorSound(c)

IInv ==
    /\ is_open \in BOOLEAN
    /\ event.op \in {"quiet", "closed", "crash", "insert", "update"}
    /\ PagesInv
    /\ CursorsInv

\* The invariant says what the properties say, with the prefix cell by cell.
LEMMA IInvImplies ==
    ASSUME IInv
    PROVE  TypeOK /\ LeafSound /\ StoredIsPrefix
  <1>1. TypeOK
    BY DEF IInv, PagesInv, CursorsInv, TypeOK
  <1>2. LeafSound
    BY DEF IInv, PagesInv, Sound, LeafSound
  <1>3. StoredIsPrefix
    <2>1. leaf.cells \in Seq(Cell) /\ stored.cells \in Seq(Cell)
      BY DEF IInv, PagesInv, Leaf
    <2> DEFINE m == Len(stored.cells)
    <2>2. m \in Nat /\ m <= Len(leaf.cells) /\ Len(leaf.cells) \in Nat
      BY <2>1 DEF IInv, PagesInv
    <2>3. \A j \in 1 .. m : stored.cells[j] = leaf.cells[j]
      BY DEF IInv, PagesInv
    <2>4. stored.cells = SubSeq(leaf.cells, 1, m)
      <3>1. stored.cells = [j \in 1 .. m |-> stored.cells[j]]
        BY <2>1
      <3>2. SubSeq(leaf.cells, 1, m) = [j \in 1 .. m |-> leaf.cells[j]]
        BY <2>1, <2>2
      <3> QED
        BY <2>3, <3>1, <3>2
    <2> QED
      BY <2>2, <2>4 DEF IInv, PagesInv, StoredIsPrefix, cell_count
  <1> QED
    BY <1>1, <1>2, <1>3

\* The initial state: no tree, a page of zeros, no cursor.
LEMMA InitIInv == Init => IInv
  <1> SUFFICES ASSUME Init PROVE IInv
    OBVIOUS
  <1>1. ZeroPage \in Leaf /\ ZeroPage.cells = <<>> /\ ZeroPage.page_type = 0
    BY BTreeAssumption DEF ZeroPage, Leaf
  <1>2. PagesInv
    <2>1. Sound(ZeroPage) /\ Len(ZeroPage.cells) = 0
      BY <1>1 DEF Sound
    <2>2. leaf = ZeroPage /\ stored = ZeroPage /\ is_dirty = FALSE
      BY DEF Init
    <2>3. Len(stored.cells) <= Len(leaf.cells)
      BY <2>1, <2>2
    <2> QED
      BY <1>1, <2>1, <2>2, <2>3, Zenon DEF PagesInv
  <1>3. CursorsInv
    BY <1>1 DEF Init, CursorsInv, CursorSound, NoCursor, Position, cell_count
  <1> QED
    BY <1>2, <1>3, Zenon DEF Init, IInv

\* A flush of the cache, whether or not its write fails.
LEMMA FlushPages ==
    ASSUME PagesInv, NEW ok \in BOOLEAN, Flush(ok), UNCHANGED leaf
    PROVE  PagesInv'
  <1>1. is_dirty' \in BOOLEAN
    BY Zenon DEF PagesInv, Flush
  <1>2. CASE is_dirty /\ ok
    BY <1>1, <1>2 DEF PagesInv, Flush, Sound, Packed, UniqueKeys, CellEnd, Leaf
  <1>3. CASE ~(is_dirty /\ ok)
    <2>1. stored' = stored /\ (~is_dirty' => ~is_dirty)
      BY <1>3 DEF Flush, PagesInv
    <2> QED
      BY <1>1, <2>1 DEF PagesInv, Sound, Packed, UniqueKeys, CellEnd
  <1> QED
    BY <1>2, <1>3

\* Steps that leave the cells of the leaf alone leave a cursor's claim alone.
LEMMA CursorsKept ==
    ASSUME CursorsInv, UNCHANGED <<leaf, cursor, seen>>
    PROVE  CursorsInv'
  BY DEF CursorsInv, CursorSound, Keys, cell_count

\* A cursor that is opened, moved or freed, with what it has then seen.
LEMMA CursorMoved ==
    ASSUME CursorsInv, leaf \in Leaf, NEW c \in Cursor, NEW p \in Position,
           NEW s \in SUBSET Key,
           p.cell <= cell_count,
           p.scan => p.open,
           p.open /\ ~p.is_end => p.cell < cell_count,
           p.scan /\ ~p.is_end => s = Keys(leaf, p.cell + 1),
           cursor' = [cursor EXCEPT ![c] = p],
           seen' = [seen EXCEPT ![c] = s],
           UNCHANGED leaf
    PROVE  CursorsInv'
  <1>1. /\ cursor' \in [Cursor -> Position]
        /\ seen' \in [Cursor -> SUBSET Key]
        /\ cell_count' = cell_count
    BY DEF CursorsInv, cell_count
  <1>2. ASSUME NEW d \in Cursor
        PROVE  (cursor[d].cell <= cell_count /\ CursorSound(d))'
    <2>1. CASE d = c
      <3>1. cursor'[d] = p /\ seen'[d] = s
        BY <2>1 DEF CursorsInv
      <3> QED
        BY <1>1, <3>1 DEF CursorSound, Keys
    <2>2. CASE d # c
      <3>1. cursor'[d] = cursor[d] /\ seen'[d] = seen[d]
        BY <2>2 DEF CursorsInv
      <3> QED
        BY <1>1, <3>1 DEF CursorsInv, CursorSound, Keys
    <2> QED
      BY <2>1, <2>2
  <1> QED
    BY <1>1, <1>2 DEF CursorsInv

\* A search ends inside the leaf or at its end.
LEMMA FindIndexRange ==
    ASSUME leaf \in Leaf, leaf.page_type = 13, Sound(leaf), NEW k
    PROVE  FindIndex(k) \in 0 .. cell_count
  <1>1. cell_count \in Nat
    BY DEF Leaf, cell_count
  <1>2. CASE Found(k) = {}
    BY <1>1, <1>2 DEF FindIndex
  <1>3. CASE Found(k) # {}
    <2>1. PICK i \in Found(k) : TRUE
      BY <1>3
    <2>2. \A j \in Found(k) : i <= j
      <3>1. SUFFICES ASSUME NEW j \in Found(k) PROVE i <= j
        OBVIOUS
      <3>2. /\ i + 1 \in 1 .. Len(leaf.cells) /\ i \in Nat
            /\ j + 1 \in 1 .. Len(leaf.cells) /\ j \in Nat
            /\ leaf.cells[i + 1].key = leaf.cells[j + 1].key
        BY <1>1 DEF Found, cell_count
      <3>3. i + 1 = j + 1
        BY <3>2 DEF Sound, UniqueKeys
      <3> QED
        BY <3>2, <3>3
    <2>3. FindIndex(k) \in Found(k)
      BY <1>3, <2>1, <2>2 DEF FindIndex
    <2> QED
      BY <1>1, <2>3 DEF Found
  <1> QED
    BY <1>2, <1>3

----------------------------------------------------------------------------
(* One lemma for each group of actions.                                    *)

\* btree_create writes an empty leaf over a page of zeros.
LEMMA CreateIInv == ASSUME IInv, btree_create PROVE IInv'
  <1>1. leaf.cells = <<>> /\ Len(stored.cells) = 0
    <2>1. leaf.cells = <<>> /\ Len(leaf.cells) = 0
      BY DEF btree_create, IInv, PagesInv, Sound
    <2> QED
      BY <2>1 DEF IInv, PagesInv, Leaf
  <1>2. /\ EmptyLeaf \in Leaf /\ EmptyLeaf.cells = <<>> /\ EmptyLeaf.page_type = 13
        /\ EmptyLeaf.content_start = PAGE_SIZE
    BY BTreeAssumption DEF EmptyLeaf, Leaf
  <1>3. Sound(EmptyLeaf)
    BY <1>2, BTreeAssumption
    DEF Sound, Packed, UniqueKeys, CellEnd, HeaderSize, PointerSize
  <1>4. Sound(stored')
    BY DEF btree_create, IInv, PagesInv, Sound, Packed, UniqueKeys, CellEnd
  <1>5. PagesInv'
    BY <1>1, <1>2, <1>3, <1>4 DEF btree_create, IInv, PagesInv
  <1>6. CursorsInv'
    BY <1>1, <1>2 DEF btree_create, IInv, CursorsInv, CursorSound, Keys, cell_count
  <1> QED
    BY <1>5, <1>6 DEF btree_create, Quiet, IInv

\* Opening a tree touches neither pages nor cursors.
LEMMA OpenIInv == ASSUME IInv, btree_open PROVE IInv'
  <1>1. PagesInv'
    BY DEF btree_open, IInv, PagesInv, Sound, Packed, UniqueKeys, CellEnd
  <1>2. CursorsInv'
    BY CursorsKept DEF btree_open, IInv
  <1> QED
    BY <1>1, <1>2, Zenon DEF btree_open, Quiet, IInv

\* A close flushes the cache.
LEMMA CloseIInv == ASSUME IInv, NEW ok \in BOOLEAN, btree_close(ok) PROVE IInv'
  <1>1. PagesInv'
    BY FlushPages DEF btree_close, IInv
  <1>2. CursorsInv'
    BY CursorsKept DEF btree_close, IInv
  <1> QED
    BY <1>1, <1>2, Zenon DEF btree_close, IInv

\* So does the close of another tree, or an eviction.
LEMMA CacheFlushIInv == ASSUME IInv, CacheFlush PROVE IInv'
  <1>1. PagesInv'
    BY FlushPages, Zenon DEF CacheFlush, IInv
  <1>2. CursorsInv'
    BY CursorsKept DEF CacheFlush, IInv
  <1> QED
    BY <1>1, <1>2 DEF CacheFlush, Quiet, IInv

\* After a crash the leaf is the stored page and no cursor is left.
LEMMA CrashIInv == ASSUME IInv, Crash PROVE IInv'
  <1>1. PagesInv'
    <2>1. leaf' = stored /\ stored' = stored /\ is_dirty' = FALSE
      BY DEF Crash
    <2>2. Sound(leaf') /\ Sound(stored')
      BY <2>1 DEF IInv, PagesInv
    <2>3. stored \in Leaf
      BY DEF IInv, PagesInv
    <2>4. Len(stored.cells) <= Len(stored.cells)
      BY <2>3 DEF Leaf
    <2> QED
      BY <2>1, <2>2, <2>3, <2>4, Zenon DEF PagesInv
  <1>2. cell_count' \in Nat
    BY <1>1 DEF PagesInv, Leaf, cell_count
  <1>3. CursorsInv'
    BY <1>2 DEF Crash, CursorsInv, CursorSound, NoCursor, Position
  <1> QED
    BY <1>1, <1>3, Zenon DEF Crash, IInv

\* Steps of cursors leave the pages alone.
LEMMA PagesKept ==
    ASSUME PagesInv, UNCHANGED <<leaf, stored, is_dirty>>
    PROVE  PagesInv'
  BY DEF PagesInv, Sound, Packed, UniqueKeys, CellEnd

\* The key of a cell, as a set: what a scan adds when it moves there.
LEMMA KeyAtFacts ==
    ASSUME leaf \in Leaf, NEW i \in Nat
    PROVE  /\ KeyAt(i) \in SUBSET Key
           /\ i < cell_count => KeyAt(i) = {leaf.cells[i + 1].key}
           /\ i < cell_count => Keys(leaf, i + 1) = Keys(leaf, i) \cup KeyAt(i)
  <1>1. leaf.cells \in Seq(Cell) /\ cell_count = Len(leaf.cells) /\ cell_count \in Nat
    BY DEF Leaf, cell_count
  <1>2. \A j \in 1 .. cell_count : leaf.cells[j].key \in Key
    <2>1. \A j \in 1 .. cell_count : leaf.cells[j] \in Cell
      BY <1>1
    <2>2. \A x \in Cell : x.key \in Key
      BY DEF Cell
    <2> QED
      BY <2>1, <2>2
  <1>3. KeyAt(i) \in SUBSET Key
    BY <1>2 DEF KeyAt
  <1>4. ASSUME i < cell_count
        PROVE  KeyAt(i) = {leaf.cells[i + 1].key}
    <2>1. {i + 1} \cap 1 .. cell_count = {i + 1}
      BY <1>1, <1>4
    <2> QED
      BY <2>1 DEF KeyAt
  <1>5. ASSUME i < cell_count
        PROVE  Keys(leaf, i + 1) = Keys(leaf, i) \cup KeyAt(i)
    <2>1. 1 .. i + 1 = (1 .. i) \cup {i + 1}
      OBVIOUS
    <2> QED
      BY <1>4, <1>5, <2>1 DEF Keys
  <1> QED
    BY <1>3, <1>4, <1>5

\* A position that btree_find, btree_first or btree_last returns.
LEMMA AtFacts ==
    ASSUME NEW i \in 0 .. cell_count, NEW scan \in BOOLEAN, cell_count \in Nat
    PROVE  /\ At(i, scan) \in Position
           /\ At(i, scan).cell = i /\ At(i, scan).scan = scan /\ At(i, scan).open
           /\ ~At(i, scan).is_end => i < cell_count
  <1>1. (i = cell_count) \in BOOLEAN
    OBVIOUS
  <1>2. i \in Nat /\ (i # cell_count => i < cell_count)
    OBVIOUS
  <1>3. At(i, scan) \in Position
    BY <1>1, <1>2, Zenon DEF At, Position
  <1> QED
    BY <1>2, <1>3, Zenon DEF At

\* Opening a cursor at a cell of the leaf or at its end.
LEMMA OpenCursorIInv ==
    ASSUME IInv, NEW c \in Cursor, NEW i \in 0 .. cell_count,
           NEW scan \in BOOLEAN, scan => i = 0,
           OpenCursor(c, At(i, scan))
    PROVE  IInv'
  <1>1. leaf \in Leaf /\ cell_count \in Nat
    BY DEF IInv, PagesInv, Leaf, cell_count
  <1> DEFINE p == At(i, scan)
             s == IF p.scan THEN KeyShown(p) ELSE {}
  <1>2. /\ p \in Position
        /\ p.cell = i /\ p.scan = scan /\ p.open
        /\ ~p.is_end => i < cell_count
    BY <1>1, AtFacts, Zenon
  <1>3. /\ cursor' = [cursor EXCEPT ![c] = p]
        /\ seen' = [seen EXCEPT ![c] = s]
        /\ UNCHANGED <<is_open, leaf, stored, is_dirty>>
        /\ event' = [op |-> "quiet"]
    BY Zenon DEF OpenCursor, Quiet
  <1> HIDE DEF p
  <1>4. s \in SUBSET Key
    BY <1>1, <1>2, KeyAtFacts DEF KeyShown
  <1>5. p.scan /\ ~p.is_end => s = Keys(leaf, p.cell + 1)
    <2>1. SUFFICES ASSUME p.scan, ~p.is_end PROVE s = Keys(leaf, 0 + 1)
      BY <1>2
    <2>2. 0 < cell_count
      BY <1>2, <2>1
    <2>3. Keys(leaf, 0 + 1) = Keys(leaf, 0) \cup KeyAt(0)
      BY <1>1, <2>2, KeyAtFacts
    <2>4. Keys(leaf, 0) = {}
      BY DEF Keys
    <2>5. s = KeyAt(0)
      BY <1>2, <2>1 DEF KeyShown
    <2> QED
      BY <2>3, <2>4, <2>5
  <1> HIDE DEF s
  <1>6. CursorsInv
    BY DEF IInv
  <1>7. p.cell <= cell_count /\ (p.open /\ ~p.is_end => p.cell < cell_count)
    BY <1>1, <1>2
  <1>8. CursorsInv'
    BY <1>1, <1>2, <1>3, <1>4, <1>5, <1>6, <1>7, CursorMoved, Zenon
  <1>9. PagesInv'
    BY <1>3, PagesKept DEF IInv
  <1> QED
    BY <1>3, <1>8, <1>9 DEF IInv

\* btree_find returns a cell of the leaf, or its end.
LEMMA FindIInv == ASSUME IInv, NEW c \in Cursor, NEW k \in Key, btree_find(c, k) PROVE IInv'
  <1>1. FindIndex(k) \in 0 .. cell_count
    BY FindIndexRange DEF IInv, PagesInv, btree_find, OpenCursor, IsLeaf
  <1> QED
    BY <1>1, OpenCursorIInv, Zenon DEF btree_find

\* btree_first returns the first cell, or the end of an empty leaf.
LEMMA FirstIInv == ASSUME IInv, NEW c \in Cursor, btree_first(c) PROVE IInv'
  <1>1. cell_count \in Nat
    BY DEF IInv, PagesInv, Leaf, cell_count
  <1>2. 0 \in 0 .. cell_count
    BY <1>1
  <1> QED
    BY <1>2, OpenCursorIInv, Zenon DEF btree_first

\* btree_last returns the last cell, or the end of an empty leaf.
LEMMA LastIInv == ASSUME IInv, NEW c \in Cursor, btree_last(c) PROVE IInv'
  <1> DEFINE i == IF cell_count > 0 THEN cell_count - 1 ELSE 0
  <1>1. cell_count \in Nat
    BY DEF IInv, PagesInv, Leaf, cell_count
  <1>2. i \in 0 .. cell_count
    BY <1>1
  <1>3. OpenCursor(c, At(i, FALSE))
    BY Zenon DEF btree_last
  <1> HIDE DEF i
  <1> QED
    BY <1>2, <1>3, OpenCursorIInv, Zenon

\* The same for a cursor that is not a scan.
LEMMA AtFound ==
    ASSUME leaf \in Leaf, NEW i \in 0 .. cell_count,
           NEW p, p = At(i, FALSE)
    PROVE  /\ p \in Position /\ p.cell <= cell_count /\ p.scan = FALSE
           /\ ~p.is_end => p.cell < cell_count
  <1>1. cell_count \in Nat
    BY DEF Leaf, cell_count
  <1>2. /\ p \in Position
        /\ p.cell = i /\ p.scan = FALSE
        /\ ~p.is_end => i < cell_count
    BY <1>1, AtFacts, Zenon
  <1>3. i <= cell_count
    BY <1>1
  <1> QED
    BY <1>2, <1>3, Zenon

\* A range holds two cursors, neither of which is a scan.
LEMMA RangeIInv ==
    ASSUME IInv, NEW c \in Cursor, NEW d \in Cursor, NEW j \in Key, NEW k \in Key,
           btree_range_new(c, d, j, k)
    PROVE  IInv'
  <1> DEFINE p == At(FindIndex(j), FALSE)
             q == At(FindIndex(k), FALSE)
  <1>1. leaf \in Leaf /\ cell_count \in Nat
    BY DEF IInv, PagesInv, Leaf, cell_count
  <1>2. FindIndex(j) \in 0 .. cell_count /\ FindIndex(k) \in 0 .. cell_count
    BY FindIndexRange DEF IInv, PagesInv, btree_range_new, IsLeaf
  <1>3. /\ p \in Position /\ p.cell <= cell_count /\ p.scan = FALSE
        /\ ~p.is_end => p.cell < cell_count
    BY <1>1, <1>2, AtFound, Zenon
  <1>4. /\ q \in Position /\ q.cell <= cell_count /\ q.scan = FALSE
        /\ ~q.is_end => q.cell < cell_count
    BY <1>1, <1>2, AtFound, Zenon
  <1>5. /\ cursor' = [cursor EXCEPT ![c] = p, ![d] = q]
        /\ c # d
        /\ UNCHANGED <<is_open, leaf, stored, is_dirty, seen>>
        /\ event' = [op |-> "quiet"]
    BY DEF btree_range_new, Quiet
  <1> HIDE DEF p, q
  <1>6. cursor \in [Cursor -> Position] /\ seen \in [Cursor -> SUBSET Key]
    BY DEF IInv, CursorsInv
  <1>7. /\ cursor' \in [Cursor -> Position]
        /\ \A e \in Cursor : cursor'[e] \in {cursor[e], p, q}
    BY <1>3, <1>4, <1>5, <1>6, Zenon
  <1>8. ASSUME NEW e \in Cursor
        PROVE  (cursor[e].cell <= cell_count /\ CursorSound(e))'
    <2>1. cell_count' = cell_count /\ seen'[e] = seen[e] /\ leaf' = leaf
      BY <1>5 DEF cell_count
    <2>2. cursor[e].cell <= cell_count /\ CursorSound(e)
      BY DEF IInv, CursorsInv
    <2> QED
      BY <1>3, <1>4, <1>7, <2>1, <2>2 DEF CursorSound, Keys
  <1>9. CursorsInv'
    BY <1>5, <1>6, <1>7, <1>8 DEF CursorsInv
  <1>10. PagesInv'
    BY <1>5, PagesKept DEF IInv
  <1> QED
    BY <1>5, <1>9, <1>10, Zenon DEF IInv

\* A scan that moves to a further cell has seen that cell's key as well.
LEMMA NextCursorIInv ==
    ASSUME IInv, NEW c \in Cursor, btree_cursor_next(c)
    PROVE  IInv'
  <1> DEFINE i == cursor[c].cell
             p == NextPosition(c)
             s == IF cursor[c].scan THEN seen[c] \cup KeyShown(p) ELSE {}
  <1>1. leaf \in Leaf /\ cell_count \in Nat
    BY DEF IInv, PagesInv, Leaf, cell_count
  <1>2. cursor[c] \in Position /\ seen[c] \in SUBSET Key /\ CursorsInv
    BY DEF IInv, CursorsInv
  <1>3. i \in Nat /\ i < cell_count /\ cursor[c].open /\ ~cursor[c].is_end
    BY <1>2 DEF CursorsInv, CursorSound, Position, btree_cursor_next
  <1>4. /\ p \in Position
        /\ p.cell \in Nat /\ p.cell <= cell_count
        /\ ~p.is_end => p.cell = i + 1 /\ p.cell < cell_count
        /\ p.scan = cursor[c].scan /\ p.open = cursor[c].open
    <2> DEFINE n == IF i + 1 >= cell_count THEN cell_count ELSE i + 1
               b == i + 1 >= cell_count
    <2>1. b \in BOOLEAN
      OBVIOUS
    <2>2. n \in Nat
      BY <1>1, <1>3
    <2>3. p = [cursor[c] EXCEPT !.cell = n, !.is_end = b]
      BY DEF NextPosition
    <2> HIDE DEF n, b, p
    <2>4. /\ p \in Position
          /\ p.cell = n /\ p.is_end = b
          /\ p.scan = cursor[c].scan /\ p.open = cursor[c].open
      <3>1. PICK r \in Position : r = cursor[c]
        BY <1>2
      <3>2. p = [r EXCEPT !.cell = n, !.is_end = b]
        BY <2>3, <3>1
      <3>3. /\ p \in Position
            /\ p.cell = n /\ p.is_end = b
            /\ p.scan = r.scan /\ p.open = r.open
        BY <2>1, <2>2, <3>2, Zenon DEF Position
      <3> QED
        BY <3>1, <3>3
    <2>5. /\ n \in Nat /\ n <= cell_count
          /\ ~b => n = i + 1 /\ n < cell_count
      BY <1>1, <1>3 DEF n, b
    <2> QED
      BY <2>4, <2>5, Zenon
  <1>5. p \in Position
    BY <1>4, Zenon
  <1>6. /\ cursor' = [cursor EXCEPT ![c] = p]
        /\ seen' = [seen EXCEPT ![c] = s]
        /\ UNCHANGED <<is_open, leaf, stored, is_dirty>>
        /\ event' = [op |-> "quiet"]
    BY <1>2 DEF btree_cursor_next, Quiet, CursorsInv
  <1> HIDE DEF p
  <1>7. p.cell \in Nat /\ p.cell <= cell_count /\ (~p.is_end => p.cell < cell_count)
    BY <1>4, Zenon
  <1>8. s \in SUBSET Key
    BY <1>1, <1>2, <1>7, KeyAtFacts, Zenon DEF KeyShown
  <1>9. p.scan /\ ~p.is_end => s = Keys(leaf, p.cell + 1)
    <2>1. SUFFICES ASSUME p.scan, ~p.is_end PROVE s = Keys(leaf, p.cell + 1)
      OBVIOUS
    <2>2. p.cell = i + 1
      BY <1>4, <2>1, Zenon
    <2>3. seen[c] = Keys(leaf, i + 1)
      BY <1>2, <1>3, <1>4, <2>1, Zenon DEF CursorsInv, CursorSound
    <2>4. Keys(leaf, p.cell + 1) = Keys(leaf, p.cell) \cup KeyAt(p.cell)
      BY <1>1, <1>7, <2>1, KeyAtFacts
    <2>5. KeyShown(p) = KeyAt(p.cell)
      BY <2>1, Zenon DEF KeyShown
    <2> QED
      BY <1>4, <2>1, <2>2, <2>3, <2>4, <2>5, Zenon
  <1>10. p.scan => p.open
    BY <1>3, <1>4
  <1> HIDE DEF s
  <1>11. CursorsInv'
    BY <1>1, <1>2, <1>5, <1>6, <1>7, <1>8, <1>9, <1>10, CursorMoved, Zenon
  <1>12. PagesInv'
    BY <1>6, PagesKept DEF IInv
  <1> QED
    BY <1>6, <1>11, <1>12, Zenon DEF IInv

\* A cursor that moves back is no scan any more.
LEMMA PrevIInv == ASSUME IInv, NEW c \in Cursor, btree_cursor_prev(c) PROVE IInv'
  <1> DEFINE i == cursor[c].cell
             j == IF i > 0 THEN i - 1 ELSE 0
             p == [cursor[c] EXCEPT !.cell = j, !.scan = FALSE]
  <1>1. leaf \in Leaf /\ cell_count \in Nat
    BY DEF IInv, PagesInv, Leaf, cell_count
  <1>2. cursor[c] \in Position /\ CursorsInv
    BY DEF IInv, CursorsInv
  <1>3. i \in Nat /\ i < cell_count
    BY <1>2, Zenon DEF CursorsInv, CursorSound, Position, btree_cursor_prev
  <1>4. j \in Nat /\ j < cell_count
    BY <1>1, <1>3
  <1>5. /\ cursor' = [cursor EXCEPT ![c] = p]
        /\ seen' = [seen EXCEPT ![c] = {}]
        /\ UNCHANGED <<is_open, leaf, stored, is_dirty>>
        /\ event' = [op |-> "quiet"]
    BY <1>2, Zenon DEF btree_cursor_prev, Quiet, CursorsInv, Position
  <1> HIDE DEF j
  <1>6. p \in Position /\ p.cell = j /\ p.scan = FALSE
    BY <1>2, <1>4, Zenon DEF Position
  <1> HIDE DEF p
  <1>7. p.cell <= cell_count /\ p.cell < cell_count
    BY <1>1, <1>4, <1>6
  <1>8. CursorsInv'
    <2>1. {} \in SUBSET Key
      OBVIOUS
    <2>2. ~p.scan
      BY <1>6
    <2> QED
      BY <1>1, <1>2, <1>5, <1>6, <1>7, <2>1, <2>2, CursorMoved, Zenon
  <1>9. PagesInv'
    BY <1>5, PagesKept DEF IInv
  <1> QED
    BY <1>5, <1>8, <1>9 DEF IInv

\* A freed cursor claims nothing.
LEMMA FreeIInv == ASSUME IInv, NEW c \in Cursor, btree_cursor_free(c) PROVE IInv'
  <1>1. leaf \in Leaf /\ 0 <= cell_count /\ CursorsInv
    BY DEF IInv, PagesInv, Leaf, cell_count
  <1>2. /\ NoCursor \in Position /\ NoCursor.cell = 0
        /\ ~NoCursor.scan /\ ~NoCursor.open
    BY DEF NoCursor, Position
  <1>3. /\ cursor' = [cursor EXCEPT ![c] = NoCursor]
        /\ seen' = [seen EXCEPT ![c] = {}]
        /\ UNCHANGED <<is_open, leaf, stored, is_dirty>>
        /\ event' = [op |-> "quiet"]
    BY DEF btree_cursor_free, Quiet
  <1>4. NoCursor.cell <= cell_count /\ {} \in SUBSET Key
    BY <1>1, <1>2
  <1>5. CursorsInv'
    BY <1>1, <1>2, <1>3, <1>4, CursorMoved, Zenon
  <1>6. PagesInv'
    BY <1>3, PagesKept DEF IInv
  <1> QED
    BY <1>3, <1>5, <1>6 DEF IInv

\* btree_insert and btree_update: an existing key changes nothing, a new one
\* adds a cell behind all that cursors and the stored page know.
LEMMA InsertIInv ==
    ASSUME IInv, NEW k \in Key, NEW v \in Value, NEW op \in {"insert", "update"},
           Insert(k, v, op)
    PROVE  IInv'
  <1>1. /\ leaf \in Leaf /\ leaf.page_type = 13 /\ Sound(leaf)
        /\ UNCHANGED <<is_open, stored, cursor, seen>>
        /\ event'.op = op
    BY DEF IInv, PagesInv, Insert, IsLeaf
  <1>2. CASE InsertExisting(k)
    <2>1. UNCHANGED <<leaf, is_dirty>>
      BY <1>2 DEF InsertExisting
    <2>2. PagesInv' /\ CursorsInv'
      BY <1>1, <2>1, PagesKept, CursorsKept DEF IInv
    <2> QED
      BY <1>1, <2>2 DEF IInv
  <1>3. CASE InsertCell(k, v)
    <2> DEFINE n == cell_count
    <2>1. /\ leaf' \in Leaf
          /\ Sound(leaf')
          /\ Len(leaf'.cells) = n + 1
          /\ \A j \in 1 .. n : leaf'.cells[j] = leaf.cells[j]
      BY <1>1, <1>3, InsertSound DEF InsertCell
    <2>2. /\ n \in Nat /\ n = Len(leaf.cells) /\ cell_count' = n + 1
      BY <1>1, <2>1 DEF Leaf, cell_count
    <2>3. PagesInv'
      <3>1. stored \in Leaf /\ Len(stored.cells) \in Nat /\ Len(stored.cells) <= n
        BY <2>2 DEF IInv, PagesInv, Leaf
      <3>2. \A j \in 1 .. Len(stored.cells) : stored.cells[j] = leaf'.cells[j]
        BY <2>1, <2>2, <3>1 DEF IInv, PagesInv
      <3>3. Sound(stored)
        BY DEF IInv, PagesInv
      <3>4. Sound(stored')
        BY <1>1, <3>3, Zenon
      <3>5. Len(stored.cells) <= Len(leaf'.cells)
        BY <2>1, <2>2, <3>1
      <3> QED
        BY <1>1, <1>3, <2>1, <3>1, <3>2, <3>4, <3>5, Zenon DEF InsertCell, PagesInv
    <2>4. CursorsInv'
      <3>1. ASSUME NEW c \in Cursor
            PROVE  (cursor[c].cell <= cell_count /\ CursorSound(c))'
        <4>1. cursor'[c] = cursor[c] /\ seen'[c] = seen[c]
          BY <1>1
        <4>2. cursor[c].cell \in Nat /\ cursor[c].cell <= n /\ CursorSound(c)
          BY DEF IInv, CursorsInv, Position
        <4>3. ASSUME cursor[c].cell < n
              PROVE  Keys(leaf', cursor[c].cell + 1) = Keys(leaf, cursor[c].cell + 1)
          <5>1. \A j \in 1 .. cursor[c].cell + 1 : leaf'.cells[j] = leaf.cells[j]
            BY <2>1, <2>2, <4>2, <4>3
          <5> QED
            BY <5>1, Zenon DEF Keys
        <4>4. cursor[c].cell <= n + 1 /\ (cursor[c].cell < n => cursor[c].cell < n + 1)
          BY <2>2, <4>2
        <4> QED
          BY <2>2, <4>1, <4>2, <4>3, <4>4, Zenon DEF CursorSound
      <3> QED
        BY <1>1, <3>1, Zenon DEF IInv, CursorsInv
    <2> QED
      BY <1>1, <2>3, <2>4, Zenon DEF IInv
  <1> QED
    BY <1>2, <1>3, Zenon DEF Insert

----------------------------------------------------------------------------
(* The theorems.                                                           *)

\* Every step keeps the invariant.
LEMMA NextIInv == ASSUME IInv, [Next]_vars PROVE IInv'
  <1>1. CASE btree_create
    BY <1>1, CreateIInv
  <1>2. CASE btree_open
    BY <1>2, OpenIInv
  <1>3. CASE \E ok \in BOOLEAN : btree_close(ok)
    BY <1>3, CloseIInv, Zenon
  <1>4. CASE CacheFlush
    BY <1>4, CacheFlushIInv
  <1>5. CASE Crash
    BY <1>5, CrashIInv
  <1>6. ASSUME NEW c \in Cursor, \E k \in Key : btree_find(c, k)
        PROVE  IInv'
    BY <1>6, FindIInv
  <1>7. ASSUME NEW c \in Cursor, btree_first(c) PROVE IInv'
    BY <1>7, FirstIInv
  <1>8. ASSUME NEW c \in Cursor, btree_last(c) PROVE IInv'
    BY <1>8, LastIInv, Zenon
  <1>9. ASSUME NEW c \in Cursor, btree_cursor_next(c) PROVE IInv'
    BY <1>9, NextCursorIInv
  <1>10. ASSUME NEW c \in Cursor, btree_cursor_prev(c) PROVE IInv'
    BY <1>10, PrevIInv
  <1>11. ASSUME NEW c \in Cursor, btree_cursor_free(c) PROVE IInv'
    BY <1>11, FreeIInv
  <1>12. ASSUME NEW c \in Cursor, NEW d \in Cursor, NEW j \in Key, NEW k \in Key,
                btree_range_new(c, d, j, k)
         PROVE  IInv'
    BY <1>12, RangeIInv
  <1>13. ASSUME NEW k \in Key, NEW v \in Value, btree_insert(k, v) \/ btree_update(k, v)
         PROVE  IInv'
    BY <1>13, InsertIInv DEF btree_insert, btree_update
  <1>14. CASE UNCHANGED vars
    <2>1. PagesInv' /\ CursorsInv'
      BY <1>14, PagesKept, CursorsKept DEF IInv, vars
    <2> QED
      BY <1>14, <2>1 DEF IInv, vars
  <1> QED
    BY <1>1, <1>2, <1>3, <1>4, <1>5, <1>6, <1>7, <1>8, <1>9, <1>10, <1>11,
       <1>12, <1>13, <1>14, Zenon DEF Next

\* The inductive invariant holds of btree.c in every reachable state.
THEOREM BTreeInvariant == Spec => []IInv
  BY InitIInv, NextIInv, PTL DEF Spec

\* Pages and cursors have their types; no cursor is beyond the end.
THEOREM BTreeType == Spec => []TypeOK
  <1>1. IInv => TypeOK
    BY IInvImplies
  <1> QED
    BY <1>1, BTreeInvariant, PTL

\* btree_insert never lets cells, cell pointers and header overlap and never
\* stores a key twice, in the cache or in the file.
THEOREM BTreeLeafSound == Spec => []LeafSound
  <1>1. IInv => LeafSound
    BY IInvImplies
  <1> QED
    BY <1>1, BTreeInvariant, PTL

\* The page in the file is the leaf at an earlier moment.
THEOREM BTreeStoredIsPrefix == Spec => []StoredIsPrefix
  <1>1. IInv => StoredIsPrefix
    BY IInvImplies
  <1> QED
    BY <1>1, BTreeInvariant, PTL

\* Only btree_create, btree_insert and a crash change the leaf, and the first
\* two keep its cells.
LEMMA LeafGrows ==
    ASSUME IInv, [Next]_vars, ~Crash
    PROVE  \A j \in 1 .. cell_count : leaf'.cells[j] = leaf.cells[j]
  <1>1. CASE btree_create
    <2>1. leaf.cells = <<>>
      BY <1>1 DEF btree_create, IInv, PagesInv, Sound
    <2> QED
      BY <2>1 DEF cell_count
  <1>2. ASSUME NEW k \in Key, NEW v \in Value, NEW op, Insert(k, v, op)
        PROVE  \A j \in 1 .. cell_count : leaf'.cells[j] = leaf.cells[j]
    <2>1. CASE InsertExisting(k)
      BY <2>1, Zenon DEF InsertExisting
    <2>2. CASE InsertCell(k, v)
      BY <1>2, <2>2, InsertSound DEF InsertCell, Insert, IsLeaf, IInv, PagesInv
    <2> QED
      BY <1>2, <2>1, <2>2, Zenon DEF Insert
  <1>3. CASE UNCHANGED leaf
    BY <1>3
  <1> QED
    BY <1>1, <1>2, <1>3, Zenon
    DEF Next, vars, btree_open, btree_close, CacheFlush, btree_find, btree_first,
        btree_last, OpenCursor, btree_cursor_next, btree_cursor_prev,
        btree_cursor_free, btree_range_new, btree_insert, btree_update

\* A cursor that does not move keeps returning the cell it stands on,
\* whatever is inserted meanwhile.
THEOREM BTreeCursorStable == Spec => CursorStable
  <1>1. ASSUME IInv, [Next]_vars, NEW c \in Cursor, CanGet(c), cursor'[c] = cursor[c]
        PROVE  btree_get(c)' = btree_get(c)
    <2>1. ~Crash
      <3>1. SUFFICES ASSUME Crash PROVE FALSE
        BY Zenon
      <3>2. cursor'[c].open = FALSE
        BY <3>1, Zenon DEF Crash, NoCursor
      <3> QED
        BY <1>1, <3>2 DEF CanGet
    <2>2. cursor[c].cell + 1 \in 1 .. cell_count
      <3>1. cursor[c].cell \in Nat /\ cell_count \in Nat
        BY <1>1 DEF IInv, PagesInv, CursorsInv, Position, Leaf, cell_count
      <3> QED
        BY <1>1, <3>1 DEF CanGet
    <2>3. leaf'.cells[cursor[c].cell + 1] = leaf.cells[cursor[c].cell + 1]
      BY <1>1, <2>1, <2>2, LeafGrows, Zenon
    <2> QED
      BY <1>1, <2>3, Zenon DEF btree_get
  <1>2. IInv /\ [Next]_vars =>
           [\A c \in Cursor : CanGet(c) /\ cursor'[c] = cursor[c]
                                  => btree_get(c)' = btree_get(c)]_vars
    BY <1>1, SMTT(30)
  <1> QED
    BY <1>2, BTreeInvariant, PTL DEF Spec, CursorStable

\* Only btree_cursor_next takes an open cursor to the end.
LEMMA EndByNext ==
    ASSUME IInv, [Next]_vars, NEW c \in Cursor,
           cursor[c].open, ~cursor[c].is_end, cursor'[c].is_end
    PROVE  btree_cursor_next(c)
  <1>1. cursor \in [Cursor -> Position]
    BY Zenon DEF IInv, CursorsInv
  <1>2. CASE cursor'[c] = cursor[c]
    BY <1>2, Zenon
  <1>3. CASE Crash
    BY <1>3 DEF Crash, NoCursor
  <1>4. ASSUME NEW d \in Cursor, NEW p, OpenCursor(d, p)
        PROVE  cursor'[c] = cursor[c]
    BY <1>1, <1>4 DEF OpenCursor
  <1>5. ASSUME NEW d \in Cursor, NEW e \in Cursor, NEW j \in Key, NEW k \in Key,
               btree_range_new(d, e, j, k)
        PROVE  cursor'[c] = cursor[c]
    <2>1. d # c /\ e # c
      BY <1>5 DEF btree_range_new
    <2> QED
      BY <1>1, <1>5, <2>1, Zenon DEF btree_range_new
  <1>6. ASSUME NEW d \in Cursor, btree_cursor_next(d), d # c
        PROVE  cursor'[c] = cursor[c]
    BY <1>1, <1>6 DEF btree_cursor_next
  <1>7. ASSUME NEW d \in Cursor, btree_cursor_prev(d)
        PROVE  cursor'[c].is_end = cursor[c].is_end
    BY <1>1, <1>7 DEF btree_cursor_prev, Position
  <1>8. ASSUME NEW d \in Cursor, btree_cursor_free(d)
        PROVE  cursor'[c] = cursor[c] \/ cursor'[c] = NoCursor
    BY <1>1, <1>8, Zenon DEF btree_cursor_free
  <1>9. cursor'[c] # NoCursor
    BY DEF NoCursor
  <1>10. CASE UNCHANGED cursor
    BY <1>2, <1>10
  <1> QED
    BY <1>2, <1>3, <1>4, <1>5, <1>6, <1>7, <1>8, <1>9, <1>10, Zenon
    DEF Next, vars, btree_create, btree_open, btree_close, CacheFlush, btree_find,
        btree_first, btree_last, btree_insert, btree_update, Insert

\* A forward scan misses no key, however inserts interleave with it.
THEOREM BTreeScanComplete == Spec => ScanComplete
  <1> DEFINE AllKeys(page) == {page.cells[i].key : i \in 1 .. Len(page.cells)}
  <1>1. ASSUME IInv, [Next]_vars, NEW c \in Cursor,
               cursor[c].scan, ~cursor[c].is_end, cursor'[c].is_end
        PROVE  seen'[c] = AllKeys(leaf')
    <2> DEFINE i == cursor[c].cell
               p == NextPosition(c)
    <2>1. /\ cursor[c].open /\ cursor[c] \in Position
          /\ i < cell_count /\ seen[c] = Keys(leaf, i + 1)
      BY <1>1, Zenon DEF IInv, CursorsInv, CursorSound
    <2>2. btree_cursor_next(c)
      BY <1>1, <2>1, EndByNext, Zenon
    <2>3. i \in Nat /\ cell_count \in Nat /\ cell_count = Len(leaf.cells)
      BY <1>1, <2>1 DEF Position, IInv, PagesInv, Leaf, cell_count
    <2>4. cursor'[c] = p /\ seen'[c] = seen[c] \cup KeyShown(p) /\ leaf' = leaf
      BY <1>1, <2>2 DEF btree_cursor_next, IInv, CursorsInv
    <2>5. i + 1 >= cell_count
      BY <1>1, <2>1, <2>4, Zenon DEF NextPosition, Position
    <2>6. p.is_end
      BY <1>1, <2>4
    <2>7. KeyShown(p) = {}
      BY <2>6 DEF KeyShown
    <2>8. i + 1 = cell_count
      BY <2>1, <2>3, <2>5
    <2> QED
      BY <2>1, <2>3, <2>4, <2>7, <2>8, Zenon DEF Keys
  <1>2. IInv /\ [Next]_vars =>
           [\A c \in Cursor :
               cursor[c].scan /\ ~cursor[c].is_end /\ cursor'[c].is_end
                   => seen'[c] = AllKeys(leaf')]_vars
    BY <1>1, Zenon
  <1> QED
    BY <1>2, BTreeInvariant, PTL DEF Spec, ScanComplete

----------------------------------------------------------------------------
(* The tree implements the dictionary.                                     *)

\* The value found under a key is that of the one cell with the key.
LEMMA ContentsFacts ==
    ASSUME NEW page \in Leaf, Sound(page)
    PROVE  /\ DOMAIN Contents(page) = Keys(page, Len(page.cells))
           /\ \A i \in 1 .. Len(page.cells) :
                 Contents(page)[page.cells[i].key] = page.cells[i].value
  <1>1. UniqueKeys(page)
    <2>1. CASE page.page_type = 13
      BY <2>1, Zenon DEF Sound
    <2>2. CASE page.page_type # 13
      BY <2>2 DEF Sound, UniqueKeys
    <2> QED
      BY <2>1, <2>2
  <1>2. DOMAIN Contents(page) = Keys(page, Len(page.cells))
    BY DEF Contents, Keys
  <1>3. ASSUME NEW i \in 1 .. Len(page.cells)
        PROVE  Contents(page)[page.cells[i].key] = page.cells[i].value
    <2> DEFINE k == page.cells[i].key
               h == CHOOSE j \in 1 .. Len(page.cells) : page.cells[j].key = k
    <2>1. h \in 1 .. Len(page.cells) /\ page.cells[h].key = k
      BY Zenon
    <2>2. h = i
      BY <1>1, <2>1 DEF UniqueKeys
    <2>3. Contents(page)[k] = page.cells[h].value
      BY Zenon DEF Contents
    <2> QED
      BY <2>2, <2>3, Zenon
  <1> QED
    BY <1>2, <1>3

\* The contents are a function of the keys.
LEMMA ContentsIsFunction ==
    ASSUME NEW page
    PROVE  Contents(page) = [j \in DOMAIN Contents(page) |-> Contents(page)[j]]
  BY DEF Contents

\* Inserting a new key extends the contents by it.
LEMMA InsertPuts ==
    ASSUME IInv, NEW k \in Key, NEW v \in Value, IsLeaf, InsertCell(k, v),
           NEW dict, dict = Contents(leaf)
    PROVE  /\ k \notin DOMAIN dict
           /\ Contents(leaf') = [j \in DOMAIN dict \cup {k} |->
                                    IF j = k THEN v ELSE dict[j]]
  <1> DEFINE n == cell_count
             new == [j \in DOMAIN dict \cup {k} |-> IF j = k THEN v ELSE dict[j]]
  <1>1. /\ leaf \in Leaf /\ Sound(leaf) /\ n \in Nat /\ n = Len(leaf.cells)
    BY DEF IInv, PagesInv, Leaf, cell_count
  <1>2. /\ leaf' \in Leaf /\ Sound(leaf')
        /\ Len(leaf'.cells) = n + 1
        /\ \A j \in 1 .. n : leaf'.cells[j] = leaf.cells[j]
        /\ leaf'.cells[n + 1].key = k
        /\ leaf'.cells[n + 1].value = v
    BY <1>1, InsertSound DEF InsertCell, IsLeaf
  <1>3. /\ DOMAIN dict = Keys(leaf, n)
        /\ \A i \in 1 .. n : dict[leaf.cells[i].key] = leaf.cells[i].value
    BY <1>1, ContentsFacts, Zenon
  <1>4. /\ DOMAIN Contents(leaf') = Keys(leaf', n + 1)
        /\ \A i \in 1 .. n + 1 :
              Contents(leaf')[leaf'.cells[i].key] = leaf'.cells[i].value
    BY <1>2, ContentsFacts
  <1>5. k \notin DOMAIN dict
    <2>1. SUFFICES ASSUME NEW i \in 1 .. n, leaf.cells[i].key = k PROVE FALSE
      BY <1>3, Zenon DEF Keys
    <2>2. i - 1 \in Found(k)
      BY <1>1, <2>1 DEF Found
    <2> QED
      BY <2>2, Zenon DEF InsertCell
  <1>6. Keys(leaf', n + 1) = DOMAIN dict \cup {k}
    <2>1. 1 .. n + 1 = (1 .. n) \cup {n + 1}
      BY <1>1
    <2> QED
      BY <1>2, <1>3, <2>1 DEF Keys
  <1>7. ASSUME NEW j \in DOMAIN dict \cup {k}
        PROVE  Contents(leaf')[j] = new[j]
    <2>1. CASE j = k
      <3>1. n + 1 \in 1 .. n + 1
        BY <1>1, SMTT(30)
      <3> QED
        BY <1>2, <1>4, <2>1, <3>1, Zenon
    <2>2. CASE j # k
      <3>1. PICK i \in 1 .. n : j = leaf.cells[i].key
        BY <1>3, <2>2 DEF Keys
      <3>2. i \in 1 .. n + 1
        BY <1>1
      <3>3. new[j] = dict[j]
        BY <2>2, Zenon
      <3> QED
        <4>1. leaf'.cells[i] = leaf.cells[i]
          BY <1>2, Zenon
        <4>2. Contents(leaf')[leaf'.cells[i].key] = leaf'.cells[i].value
          BY <1>4, <3>2, Zenon
        <4>3. dict[leaf.cells[i].key] = leaf.cells[i].value
          BY <1>3, Zenon
        <4> QED
          BY <3>1, <3>3, <4>1, <4>2, <4>3, Zenon
    <2> QED
      BY <2>1, <2>2, Zenon
  <1>8. Contents(leaf') = [j \in DOMAIN Contents(leaf') |-> Contents(leaf')[j]]
    BY ContentsIsFunction, Zenon
  <1>9. Contents(leaf') = new
    BY <1>4, <1>6, <1>7, <1>8, Zenon
  <1> QED
    BY <1>5, <1>9, Zenon

\* An empty page holds nothing, of whatever type it is.
LEMMA EmptyContents ==
    ASSUME NEW page, page.cells = <<>>
    PROVE  Contents(page) = [k \in {} |-> 0]
  <1>1. {page.cells[i].key : i \in 1 .. Len(page.cells)} = {}
    OBVIOUS
  <1> QED
    BY <1>1 DEF Contents

\* Every step is a step of the dictionary.
LEMMA DictStep ==
    ASSUME IInv, [Next]_vars
    PROVE  [Dict!Next]_Dict!vars
  <1> DEFINE Shown == IF event.op \in {"closed", "crash"} THEN event.op ELSE "quiet"
  <1>1. ASSUME event'.op \in {"quiet", "insert", "update"}
        PROVE  Shown' = "quiet"
    BY <1>1
  <1>2. ASSUME Contents(leaf') = Contents(leaf), stored' = stored, Shown' = "quiet"
        PROVE  Dict!Next
    BY <1>2, Zenon DEF Dict!Next, Dict!Other
  <1>3. CASE btree_create
    <2>1. Contents(leaf') = Contents(leaf)
      BY <1>3, EmptyContents
      DEF btree_create, EmptyLeaf, IInv, PagesInv, Sound
    <2> QED
      BY <1>1, <1>2, <1>3, <2>1, Zenon DEF btree_create, Quiet
  <1>4. ASSUME UNCHANGED <<leaf, stored>>, Quiet
        PROVE  Dict!Next
    BY <1>1, <1>2, <1>4 DEF Quiet
  <1>5. ASSUME UNCHANGED leaf, Flush(TRUE), Shown' \in {"quiet", "closed"}
        PROVE  Dict!Next
    <2>1. stored' = leaf
      BY <1>5 DEF Flush, IInv, PagesInv
    <2> QED
      BY <1>5, <2>1, Zenon DEF Dict!Next, Dict!Save
  <1>6. ASSUME NEW ok \in BOOLEAN, btree_close(ok)
        PROVE  Dict!Next
    <2>1. CASE ok = TRUE
      <3>1. Shown' = "closed"
        BY <1>6, <2>1 DEF btree_close
      <3> QED
        BY <1>5, <1>6, <2>1, <3>1, Zenon DEF btree_close
    <2>2. CASE ok = FALSE
      BY <1>4, <1>6, <2>2, Zenon DEF btree_close, Flush, Quiet
    <2> QED
      BY <2>1, <2>2, Zenon
  <1>7. CASE CacheFlush
    BY <1>1, <1>5, <1>7, Zenon DEF CacheFlush, Quiet
  <1>8. CASE Crash
    BY <1>8, Zenon DEF Crash, Dict!Next, Dict!Crash
  <1>9. ASSUME NEW k \in Key, NEW v \in Value, NEW op \in {"insert", "update"},
               Insert(k, v, op)
        PROVE  Dict!Next
    <2>1. stored' = stored /\ Shown' = "quiet"
      BY <1>1, <1>9 DEF Insert
    <2>2. CASE InsertExisting(k)
      BY <1>2, <2>1, <2>2, Zenon DEF InsertExisting
    <2>3. CASE InsertCell(k, v)
      <3>1. /\ k \notin DOMAIN Contents(leaf)
            /\ Contents(leaf') =
                  [j \in DOMAIN Contents(leaf) \cup {k} |->
                      IF j = k THEN v ELSE Contents(leaf)[j]]
        BY <1>9, <2>3, InsertPuts DEF Insert
      <3> QED
        BY <2>1, <3>1, Zenon DEF Dict!Next, Dict!Put
    <2> QED
      BY <1>9, <2>2, <2>3, Zenon DEF Insert
  <1>10. CASE UNCHANGED vars
    BY <1>10 DEF vars, Dict!vars
  <1> HIDE DEF Shown
  <1> QED
    BY <1>3, <1>4, <1>6, <1>7, <1>8, <1>9, <1>10, Zenon
    DEF Next, btree_open, btree_find, btree_first, btree_last, OpenCursor,
        btree_cursor_next, btree_cursor_prev, btree_cursor_free,
        btree_range_new, btree_insert, btree_update

\* btree.c implements the dictionary: keys are never lost or changed while
\* the process lives, and a close without I/O failure saves all of them.
THEOREM BTreeImplementsDictionary == Spec => DictSpec
  <1>1. Init => Dict!Init
    <2> SUFFICES ASSUME Init PROVE Dict!Init
      OBVIOUS
    <2>1. Contents(ZeroPage) = [k \in {} |-> 0]
      BY EmptyContents DEF ZeroPage
    <2> QED
      BY <2>1 DEF Init, Dict!Init, Dict!NoKeys
  <1> QED
    BY <1>1, DictStep, BTreeInvariant, PTL DEF Spec, DictSpec, Dict!Spec

----------------------------------------------------------------------------
(* The write-ahead log.                                                    *)

\* The words that the code writes, and the zeros of a gap.
LogWord ==
    DataWord
    \cup {Number(n) : n \in Nat}
    \cup {EntryWord(type, tx_id) : type \in Nat, tx_id \in Nat}
    \cup {Frame(page, data)[1] : page \in PageNum, data \in [1 .. FrameData -> DataWord]}
    \cup {Frame(page, data)[2] : page \in PageNum, data \in [1 .. FrameData -> DataWord]}
    \cup {WALHeader(0, 0)[1]}

Acknowledged == [at : Nat, words : Seq(LogWord)]

LogTypes ==
    /\ exists \in BOOLEAN /\ log_is_open \in BOOLEAN /\ moved \in BOOLEAN
    /\ log_file \in Seq(LogWord) /\ Len(log_file) <= MaxLength
    /\ fd \in Nat /\ log_offset \in Nat /\ log_file_size \in Nat /\ frame_count \in Nat
    /\ current_tx_id \in 0 .. MaxTx
    /\ acked \in Seq(Acknowledged)

\* A descriptor never points into the first four words, which therefore stay a
\* header whatever is written, once the log exists.
HeaderKept ==
    /\ log_is_open => exists /\ fd >= WAL_HEADER_SIZE /\ log_offset >= WAL_HEADER_SIZE
    /\ exists => /\ Len(log_file) >= WAL_HEADER_SIZE
                 /\ log_file[1] = WALHeader(0, 0)[1]
                 /\ log_file[3].type >= WAL_HEADER_SIZE

\* What was acknowledged lies before the descriptor, and the running total of
\* its words is what log_offset has moved.
InPlace(words, end, entry) ==
    /\ entry.at >= WALHeaderSize /\ entry.at + Len(entry.words) <= end
    /\ \A i \in 1 .. Len(entry.words) : words[entry.at + i] = entry.words[i]

IsTotal(entries, total) ==
    /\ total[0] = 0
    /\ \A k \in 1 .. Len(entries) : total[k] = total[k - 1] + Len(entries[k].words)

AckedKept ==
    log_is_open /\ ~moved =>
       /\ fd >= WALHeaderSize /\ fd <= Len(log_file)
       /\ \A k \in 1 .. Len(acked) : InPlace(log_file, fd, acked[k])
       /\ \A k \in 1 .. Len(acked) - 1 :
             acked[k].at + Len(acked[k].words) <= acked[k + 1].at
       /\ \E total \in [0 .. Len(acked) -> Nat] :
             IsTotal(acked, total) /\ log_offset = log_file[3].type + total[Len(acked)]

WALInv == LogTypes /\ HeaderKept /\ AckedKept

----------------------------------------------------------------------------
(* Words and files.                                                        *)

\* Words, taken as members of a larger set.
LEMMA WordsAmongMore ==
    ASSUME NEW S, NEW T, S \subseteq T, NEW words \in Seq(S)
    PROVE  words \in Seq(T)
  OBVIOUS

\* Two files, one behind the other.
LEMMA JoinedWords ==
    ASSUME NEW S, NEW words \in Seq(S), NEW more \in Seq(S)
    PROVE  /\ words \o more \in Seq(S)
           /\ Len(words \o more) = Len(words) + Len(more)
           /\ \A i \in 1 .. Len(words) + Len(more) :
                 (words \o more)[i] = IF i <= Len(words) THEN words[i] ELSE more[i - Len(words)]
  OBVIOUS

\* The words of a frame (wal.c:291).
LEMMA FrameHead ==
    ASSUME NEW page \in PageNum, NEW data \in [1 .. FrameData -> DataWord]
    PROVE  /\ Frame(page, data)[1] = [type |-> page, size |-> 0, rest |-> <<"page">>]
           /\ Frame(page, data)[2] = [type |-> 0, size |-> 0, rest |-> <<"sum", page, data>>]
           /\ Len(Frame(page, data)) = FrameData + 2
           /\ \A i \in 1 .. FrameData : Frame(page, data)[i + 2] = data[i]
<1> DEFINE a == [type |-> page, size |-> 0, rest |-> <<"page">>]
           b == [type |-> 0, size |-> 0, rest |-> <<"sum", page, data>>]
<1>1. Frame(page, data) = <<a, b>> \o data
  BY DEF Frame
<1> HIDE DEF a, b
<1>2. Len(data) = FrameData /\ data \in Seq(DataWord)
  <2>1. FrameData \in Nat
    BY WALAssumption, Zenon
  <2> QED
    BY <2>1
<1> QED
  BY <1>1, <1>2 DEF a, b

\* Every word can be read as the head of an entry.
LEMMA WordType ==
    ASSUME NEW w \in LogWord
    PROVE  w.type \in Nat /\ w.size \in Nat
<1>1. CASE w \in DataWord
  BY <1>1, WALAssumption
<1>2. CASE \E n \in Nat : w = Number(n)
  BY <1>2 DEF Number
<1>3. CASE \E type, tx_id \in Nat : w = EntryWord(type, tx_id)
  BY <1>3 DEF EntryWord
<1>4. ASSUME NEW page \in PageNum, NEW data \in [1 .. FrameData -> DataWord],
             w = Frame(page, data)[1] \/ w = Frame(page, data)[2]
      PROVE  w.type \in Nat /\ w.size \in Nat
  <2>1. page \in Nat
    BY WALAssumption
  <2>2. CASE w = Frame(page, data)[1]
    <3>1. w = [type |-> page, size |-> 0, rest |-> <<"page">>]
      BY <2>2, FrameHead, Zenon
    <3> QED
      BY <2>1, <3>1
  <2>3. CASE w = Frame(page, data)[2]
    <3>1. w = [type |-> 0, size |-> 0, rest |-> <<"sum", page, data>>]
      BY <2>3, FrameHead, Zenon
    <3> QED
      BY <3>1
  <2> QED
    BY <1>4, <2>2, <2>3, Zenon
<1>5. CASE w = WALHeader(0, 0)[1]
  BY <1>5 DEF WALHeader
<1> QED
  BY <1>1, <1>2, <1>3, <1>4, <1>5 DEF LogWord

\* The words of an entry.
LEMMA EntryWords ==
    ASSUME NEW type \in Nat, NEW tx_id \in Nat
    PROVE  Entry(type, tx_id) \in Seq(LogWord) /\ Len(Entry(type, tx_id)) = 2
<1>1. EntryWord(type, tx_id) \in LogWord /\ Number(tx_id) \in LogWord
  BY DEF LogWord
<1> QED
  BY <1>1 DEF Entry

\* A frame is made of words.
LEMMA FrameWords ==
    ASSUME NEW page \in PageNum, NEW data \in [1 .. FrameData -> DataWord]
    PROVE  Frame(page, data) \in Seq(LogWord)
<1> DEFINE a == Frame(page, data)[1]
           b == Frame(page, data)[2]
<1>1. a \in LogWord /\ b \in LogWord /\ DataWord \subseteq LogWord
  BY SMTT(30) DEF LogWord
<1>2. Frame(page, data) = <<a, b>> \o data
  BY FrameHead DEF Frame
<1>3. data \in Seq(LogWord)
  <2>1. data \in Seq(DataWord)
    BY WALAssumption, SMTT(30)
  <2> QED
    BY <1>1, <2>1, WordsAmongMore
<1> HIDE DEF a, b
<1> QED
  BY <1>1, <1>2, <1>3, SMTT(30)

\* The header begins with its magic word and has the end of the log in its
\* third.
LEMMA HeaderWords ==
    ASSUME NEW end_offset \in Nat, NEW frames \in Nat
    PROVE  /\ WALHeader(end_offset, frames) \in Seq(LogWord)
           /\ Len(WALHeader(end_offset, frames)) = 5
           /\ WALHeader(end_offset, frames)[1] = WALHeader(0, 0)[1]
           /\ WALHeader(end_offset, frames)[3].type = end_offset
           /\ WALHeader(end_offset, frames)[4].type = frames
<1> DEFINE h == WALHeader(end_offset, frames)
           magic == [type |-> 66, size |-> 0, rest |-> <<"magic">>]
<1>1. h = <<magic, Number(4), Number(end_offset), Number(frames), Number(0)>>
  BY DEF WALHeader, Zero, WAL_HEADER_SIZE
<1>2. WALHeader(0, 0)[1] = magic
  BY Zenon DEF WALHeader
<1> HIDE DEF h, magic
<1>3. magic \in LogWord /\ \A n \in Nat : Number(n) \in LogWord
  BY <1>2 DEF LogWord
<1>4. h \in Seq(LogWord) /\ Len(h) = 5 /\ h[1] = magic /\ h[3] = Number(end_offset)
      /\ h[4] = Number(frames)
  BY <1>1, <1>3
<1>5. \A n \in Nat : Number(n).type = n
  BY Zenon DEF Number
<1> QED
  BY <1>2, <1>4, <1>5 DEF h

\* A file that is cut or extended keeps its words as far as it reaches.
LEMMA ResizeWords ==
    ASSUME NEW words \in Seq(LogWord), NEW n \in Nat
    PROVE  /\ Resize(words, n) \in Seq(LogWord) /\ Len(Resize(words, n)) = n
           /\ \A i \in 1 .. n : i <= Len(words) => Resize(words, n)[i] = words[i]
<1>1. CASE n <= Len(words)
  BY <1>1 DEF Resize
<1>2. CASE ~(n <= Len(words))
  <2> DEFINE zeros == [i \in 1 .. n - Len(words) |-> Zero]
  <2>1. Zero \in LogWord
    BY DEF Zero, LogWord
  <2>2. n - Len(words) \in Nat
    BY <1>2
  <2>3. zeros \in Seq(LogWord) /\ Len(zeros) = n - Len(words)
    BY <2>1, <2>2
  <2>4. Resize(words, n) = words \o zeros
    BY <1>2 DEF Resize
  <2> HIDE DEF zeros
  <2>5. /\ words \o zeros \in Seq(LogWord)
        /\ Len(words \o zeros) = Len(words) + Len(zeros)
        /\ \A i \in 1 .. Len(words) + Len(zeros) :
              i <= Len(words) => (words \o zeros)[i] = words[i]
    BY <2>3, JoinedWords, Zenon
  <2> QED
    BY <1>2, <2>3, <2>4, <2>5
<1> QED
  BY <1>1, <1>2

\* The file is w after a write: what was before the offset stays.
IsWritten(w, words, offset, new) ==
    /\ w \in Seq(LogWord)
    /\ Len(w) >= offset + Len(new) /\ Len(w) >= Len(words)
    /\ Len(w) = offset + Len(new) \/ Len(w) = Len(words)
    /\ \A i \in 1 .. offset : i <= Len(words) => w[i] = words[i]
    /\ \A i \in 1 .. Len(new) : w[offset + i] = new[i]

\* What a write leaves in the file: the words written, in their place, and all
\* others as they were.
LEMMA WriteAtWords ==
    ASSUME NEW words \in Seq(LogWord), NEW offset \in Nat, NEW new \in Seq(LogWord)
    PROVE  IsWritten(WriteAt(words, offset, new), words, offset, new)
<1> DEFINE head == Resize(words, offset)
           from == offset + Len(new) + 1
           tail == SubSeq(words, from, Len(words))
           w == WriteAt(words, offset, new)
<1>1. /\ head \in Seq(LogWord) /\ Len(head) = offset
      /\ \A i \in 1 .. offset : i <= Len(words) => head[i] = words[i]
  BY ResizeWords, Zenon
<1>2. /\ tail \in Seq(LogWord)
      /\ Len(tail) = IF from <= Len(words) THEN Len(words) - offset - Len(new) ELSE 0
  <2>1. \A i \in from .. Len(words) : words[i] \in LogWord
    OBVIOUS
  <2>2. from \in Int /\ Len(words) \in Int
    OBVIOUS
  <2> QED
    BY <2>1, <2>2
<1>3. w = head \o new \o tail
  BY Zenon DEF WriteAt
<1> HIDE DEF head, tail, w
<1> DEFINE front == head \o new
<1>4. /\ front \in Seq(LogWord) /\ Len(front) = offset + Len(new)
      /\ \A i \in 1 .. offset : front[i] = head[i]
      /\ \A i \in 1 .. Len(new) : front[offset + i] = new[i]
  <2>1. /\ front \in Seq(LogWord) /\ Len(front) = Len(head) + Len(new)
        /\ \A i \in 1 .. Len(head) + Len(new) :
              front[i] = IF i <= Len(head) THEN head[i] ELSE new[i - Len(head)]
    BY <1>1, JoinedWords, Zenon
  <2>2. Len(head) = offset /\ Len(new) \in Nat
    BY <1>1
  <2> HIDE DEF front
  <2>3. \A i \in 1 .. offset : front[i] = head[i]
    BY <2>1, <2>2
  <2>4. ASSUME NEW i \in 1 .. Len(new) PROVE front[offset + i] = new[i]
    <3>1. /\ offset + i \in 1 .. offset + Len(new) /\ ~ (offset + i <= offset)
          /\ offset + i - offset = i
      BY <2>2
    <3> QED
      BY <2>1, <2>2, <3>1
  <2> QED
    BY <2>1, <2>2, <2>3, <2>4
<1>5. w = front \o tail
  BY <1>3
<1> HIDE DEF front
<1>6. /\ w \in Seq(LogWord) /\ Len(w) = offset + Len(new) + Len(tail)
      /\ \A i \in 1 .. offset + Len(new) : w[i] = front[i]
  <2> DEFINE all == front \o tail
  <2>1. /\ all \in Seq(LogWord) /\ Len(all) = Len(front) + Len(tail)
        /\ \A i \in 1 .. Len(front) + Len(tail) : i <= Len(front) => all[i] = front[i]
    BY <1>2, <1>4, JoinedWords, Zenon
  <2>2. Len(front) \in Nat /\ Len(tail) \in Nat
    BY <1>2, <1>4
  <2>3. w = all
    BY <1>5, Zenon
  <2> HIDE DEF all
  <2>4. Len(w) = offset + Len(new) + Len(tail) /\ w \in Seq(LogWord)
    BY <1>4, <2>1, <2>2, <2>3, Zenon
  <2>5. ASSUME NEW i \in 1 .. offset + Len(new) PROVE w[i] = front[i]
    <3>1. i \in 1 .. Len(front) + Len(tail) /\ i <= Len(front)
      BY <1>4, <2>2
    <3> QED
      BY <2>1, <2>3, <3>1, Zenon
  <2> QED
    BY <2>4, <2>5
<1>7. \A i \in 1 .. offset : i <= Len(words) => w[i] = words[i]
  BY <1>1, <1>4, <1>6
<1>8. ASSUME NEW i \in 1 .. Len(new) PROVE w[offset + i] = new[i]
  <2>1. offset + i \in 1 .. offset + Len(new)
    OBVIOUS
  <2> QED
    BY <1>4, <1>6, <2>1
<1>9. /\ Len(w) >= offset + Len(new) /\ Len(w) >= Len(words)
      /\ Len(w) = offset + Len(new) \/ Len(w) = Len(words)
  <2>1. Len(words) \in Nat /\ Len(new) \in Nat
    OBVIOUS
  <2>2. CASE from <= Len(words)
    <3>1. Len(tail) = Len(words) - offset - Len(new)
      BY <1>2, <2>2, Zenon
    <3>2. Len(w) = offset + Len(new) + (Len(words) - offset - Len(new))
      BY <1>6, <3>1
    <3>3. Len(w) = Len(words)
      BY <2>1, <3>2
    <3> QED
      BY <2>1, <2>2, <3>3
  <2>3. CASE ~(from <= Len(words))
    BY <1>2, <1>6, <2>1, <2>3
  <2> QED
    BY <2>2, <2>3
<1> QED
  BY <1>6, <1>7, <1>8, <1>9 DEF w, IsWritten
----------------------------------------------------------------------------
(* The invariant.                                                          *)

\* The bounds are numbers.
LEMMA Bounds ==
    MaxTx \in Nat /\ 0 \in 0 .. MaxTx /\ MaxLength \in Nat /\ MaxLength >= 5 /\ FrameData \in Nat
<1>1. MaxTx \in 1 .. 255
  BY WALAssumption, Zenon
<1> QED
  BY <1>1, WALAssumption

\* The invariant holds before there is a log.
LEMMA WALInitInv == WALInit => WALInv
<1> SUFFICES ASSUME WALInit PROVE WALInv
  OBVIOUS
<1>1. LogTypes
  <2>1. log_file \in Seq(LogWord) /\ Len(log_file) = 0 /\ acked \in Seq(Acknowledged)
    BY DEF WALInit
  <2>2. Len(log_file) <= MaxLength /\ current_tx_id \in 0 .. MaxTx
    BY <2>1, Bounds DEF WALInit
  <2> QED
    BY <2>1, <2>2, Zenon DEF WALInit, LogTypes
<1> QED
  BY <1>1 DEF WALInit, WALInv, HeaderKept, AckedKept

\* A session that was just opened has acknowledged nothing.
LEMMA SessionInv ==
    ASSUME Session, log_file' \in Seq(LogWord), Len(log_file') >= WALHeaderSize,
           Len(log_file') <= MaxLength, log_file'[1] = WALHeader(0, 0)[1],
           log_file'[3].type >= WAL_HEADER_SIZE, log_offset' = log_file'[3].type,
           frame_count' \in Nat, exists' = TRUE
    PROVE  WALInv'
<1>1. /\ log_is_open' = TRUE /\ fd' = 5 /\ log_file_size' = Len(log_file')
      /\ current_tx_id' = 0 /\ acked' = <<>> /\ moved' = FALSE
  BY Zenon DEF Session, WALHeaderSize
<1>2. Len(log_file') \in Nat /\ log_file'[3].type \in Nat
  <2>1. Len(log_file') \in Nat /\ log_file'[3] \in LogWord
    BY DEF WALHeaderSize
  <2> QED
    BY <2>1, WordType, Zenon
<1>3. LogTypes'
  <2>1. acked' \in Seq(Acknowledged) /\ current_tx_id' \in 0 .. MaxTx
    BY <1>1, Bounds
  <2>2. fd' \in Nat /\ log_offset' \in Nat /\ log_file_size' \in Nat
    BY <1>1, <1>2, Zenon
  <2> QED
    BY <1>1, <2>1, <2>2, Zenon DEF LogTypes
<1>4. HeaderKept'
  BY <1>1, <1>2 DEF HeaderKept, WALHeaderSize, WAL_HEADER_SIZE
<1>5. AckedKept'
  <2> DEFINE none == [k \in 0 .. 0 |-> 0]
  <2>1. none \in [0 .. 0 -> Nat] /\ none[0] = 0
    OBVIOUS
  <2> HIDE DEF none
  <2>2. Len(acked') = 0
    BY <1>1, Zenon
  <2>3. none \in [0 .. Len(acked') -> Nat] /\ IsTotal(acked', none)
        /\ log_offset' = log_file'[3].type + none[Len(acked')]
    BY <1>2, <2>1, <2>2 DEF IsTotal
  <2>4. \E total \in [0 .. Len(acked') -> Nat] :
           IsTotal(acked', total) /\ log_offset' = log_file'[3].type + total[Len(acked')]
    BY <2>3, Zenon
  <2>5. fd' >= WALHeaderSize /\ fd' <= Len(log_file')
    BY <1>1 DEF WALHeaderSize
  <2>6. /\ \A k \in 1 .. Len(acked') : InPlace(log_file', fd', acked'[k])
        /\ \A k \in 1 .. Len(acked') - 1 :
              acked'[k].at + Len(acked'[k].words) <= acked'[k + 1].at
    BY <2>2
  <2> QED
    BY <2>4, <2>5, <2>6, Zenon DEF AckedKept
<1> QED
  BY <1>3, <1>4, <1>5, Zenon DEF WALInv

\* A new log has a header and nothing else.
LEMMA OpenNewInv == WALInv /\ wal_open_new => WALInv'
<1> SUFFICES ASSUME WALInv, wal_open_new PROVE WALInv'
  OBVIOUS
<1>1. /\ exists' = TRUE /\ log_file' = WALHeader(4, 0) /\ log_offset' = 4 /\ frame_count' = 0
      /\ Session
  BY Zenon DEF wal_open_new, WAL_HEADER_SIZE
<1>2. /\ log_file' \in Seq(LogWord) /\ Len(log_file') = 5
      /\ log_file'[1] = WALHeader(0, 0)[1] /\ log_file'[3].type = 4
  BY <1>1, HeaderWords
<1> QED
  <2>1. /\ Len(log_file') >= WALHeaderSize /\ Len(log_file') <= MaxLength /\ frame_count' \in Nat
        /\ log_file'[3].type >= WAL_HEADER_SIZE /\ log_offset' = log_file'[3].type
    <3>1. Len(log_file') <= MaxLength
      BY <1>2, Bounds
    <3>2. log_offset' = 4 /\ frame_count' = 0
      BY <1>1
    <3> QED
      BY <1>2, <3>1, <3>2 DEF WALHeaderSize, WAL_HEADER_SIZE
  <2> QED
    BY <1>1, <1>2, <2>1, SessionInv, Zenon

\* A log that is opened again has a header.
LEMMA OpenExistingInv == WALInv /\ wal_open_existing => WALInv'
<1> SUFFICES ASSUME WALInv, wal_open_existing PROVE WALInv'
  OBVIOUS
<1>1. /\ exists' = TRUE /\ log_file' = log_file /\ log_offset' = log_file[3].type
      /\ frame_count' = log_file[4].type /\ Session /\ exists
      /\ Len(log_file) >= WALHeaderSize /\ log_file[1] = WALHeader(0, 0)[1]
  BY DEF wal_open_existing, WALInv, LogTypes
<1>2. log_file \in Seq(LogWord) /\ Len(log_file) <= MaxLength
  BY DEF WALInv, LogTypes
<1>3. log_file[4] \in LogWord
  BY <1>1, <1>2 DEF WALHeaderSize
<1>4. frame_count' \in Nat
  BY <1>1, <1>3, WordType, Zenon
<1>5. log_file[3].type >= WAL_HEADER_SIZE
  BY <1>1, Zenon DEF WALInv, HeaderKept
<1> QED
  BY <1>1, <1>2, <1>4, <1>5, SessionInv, Zenon

\* wal_close leaves the file as it is.
LEMMA CloseInv == WALInv /\ wal_close => WALInv'
<1> SUFFICES ASSUME WALInv, wal_close PROVE WALInv'
  OBVIOUS
<1>1. acked' \in Seq(Acknowledged) /\ current_tx_id' \in 0 .. MaxTx
  BY Bounds DEF wal_close
<1>2. LogTypes'
  BY <1>1, Zenon DEF wal_close, WALInv, LogTypes
<1> QED
  BY <1>2 DEF wal_close, WALInv, HeaderKept, AckedKept

\* What a write, whole or not, does to the file.
LEMMA WriteFile ==
    ASSUME WALInv, NEW new \in Seq(LogWord), NEW written \in 0 .. Len(new), Write(new, written),
           log_is_open
    PROVE  /\ log_file' \in Seq(LogWord) /\ Len(log_file') <= MaxLength
           /\ fd' = fd + written /\ fd' \in Nat /\ fd' <= Len(log_file')
           /\ Len(log_file') >= Len(log_file)
           /\ \A i \in 1 .. fd : i <= Len(log_file) => log_file'[i] = log_file[i]
           /\ \A i \in 1 .. written : log_file'[fd + i] = new[i]
<1> DEFINE part == SubSeq(new, 1, written)
<1>1. /\ log_file \in Seq(LogWord) /\ Len(log_file) <= MaxLength /\ fd \in Nat
      /\ Len(log_file) \in Nat /\ Len(new) \in Nat /\ written \in Nat /\ written <= Len(new)
  BY DEF WALInv, LogTypes
<1>2. /\ log_file' = WriteAt(log_file, fd, part) /\ fd' = fd + written
      /\ fd + Len(new) <= MaxLength
  BY DEF Write
<1>3. part \in Seq(LogWord) /\ Len(part) = written /\ \A i \in 1 .. written : part[i] = new[i]
  BY <1>1
<1> HIDE DEF part
<1>4. /\ log_file' \in Seq(LogWord)
      /\ Len(log_file') >= fd + written /\ Len(log_file') >= Len(log_file)
      /\ Len(log_file') = fd + written \/ Len(log_file') = Len(log_file)
      /\ \A i \in 1 .. fd : i <= Len(log_file) => log_file'[i] = log_file[i]
      /\ \A i \in 1 .. written : log_file'[fd + i] = part[i]
  <2>1. IsWritten(log_file', log_file, fd, part)
    BY <1>1, <1>2, <1>3, WriteAtWords, Zenon
  <2> QED
    BY <1>3, <2>1, Zenon DEF IsWritten
<1>5. Len(log_file') <= MaxLength /\ fd' \in Nat /\ fd' <= Len(log_file')
  BY <1>1, <1>2, <1>4, Bounds, SMTT(30)
<1>6. \A i \in 1 .. written : log_file'[fd + i] = new[i]
  BY <1>3, <1>4, Zenon
<1> QED
  BY <1>2, <1>4, <1>5, <1>6, Zenon

\* A record that is written, whole or in part, lies behind those before it.
LEMMA LogInv ==
    ASSUME WALInv, NEW new \in Seq(LogWord), NEW written \in 0 .. Len(new), Log(new, written),
           frame_count' \in Nat, current_tx_id' \in 0 .. MaxTx
    PROVE  WALInv'
<1> DEFINE entry == [at |-> fd, words |-> new]
<1>1. /\ log_is_open /\ Write(new, written)
      /\ UNCHANGED <<exists, log_is_open, moved>>
      /\ \/ /\ written = Len(new) /\ log_offset' = log_offset + Len(new)
            /\ log_file_size' = Len(log_file') /\ acked' = Append(acked, entry)
         \/ UNCHANGED <<log_offset, log_file_size, acked>>
  BY Zenon DEF Log
<1>2. /\ log_file' \in Seq(LogWord) /\ Len(log_file') <= MaxLength
      /\ fd' = fd + written /\ fd' \in Nat /\ fd' <= Len(log_file')
      /\ Len(log_file') >= Len(log_file)
      /\ \A i \in 1 .. fd : i <= Len(log_file) => log_file'[i] = log_file[i]
      /\ \A i \in 1 .. written : log_file'[fd + i] = new[i]
  BY <1>1, WriteFile, Zenon
<1>3. /\ log_file \in Seq(LogWord) /\ Len(log_file) \in Nat /\ fd \in Nat /\ Len(new) \in Nat
      /\ log_offset \in Nat /\ log_file_size \in Nat /\ Len(log_file') \in Nat
      /\ acked \in Seq(Acknowledged) /\ written \in Nat
  BY <1>2 DEF WALInv, LogTypes
<1>4. entry \in Acknowledged /\ entry.at = fd /\ entry.words = new
  BY <1>3, Zenon DEF Acknowledged
<1> HIDE DEF entry
<1>5. LogTypes'
  <2>1. acked' \in Seq(Acknowledged) /\ log_offset' \in Nat /\ log_file_size' \in Nat
    <3>1. CASE UNCHANGED <<log_offset, log_file_size, acked>>
      BY <1>3, <3>1, Zenon
    <3>2. CASE /\ log_offset' = log_offset + Len(new) /\ log_file_size' = Len(log_file')
               /\ acked' = Append(acked, entry)
      BY <1>3, <1>4, <3>2, SMTT(30)
    <3> QED
      BY <1>1, <3>1, <3>2, Zenon
  <2> QED
    BY <1>1, <1>2, <2>1, Zenon DEF WALInv, LogTypes
<1>6. /\ exists /\ fd >= 4 /\ log_offset >= 4 /\ Len(log_file) >= 4
      /\ log_file[1] = WALHeader(0, 0)[1] /\ log_file[3].type >= 4
  BY <1>1, Zenon DEF WALInv, HeaderKept, WAL_HEADER_SIZE
<1>7. log_file'[1] = log_file[1] /\ log_file'[3] = log_file[3]
  <2>1. 1 \in 1 .. fd /\ 3 \in 1 .. fd /\ 1 <= Len(log_file) /\ 3 <= Len(log_file)
    BY <1>3, <1>6
  <2> QED
    BY <1>2, <2>1, Zenon
<1>8. HeaderKept'
  <2>1. fd' >= 4 /\ Len(log_file') >= 4 /\ log_offset' >= 4
    BY <1>1, <1>2, <1>3, <1>6
  <2> QED
    BY <1>1, <1>6, <1>7, <2>1, Zenon DEF HeaderKept, WAL_HEADER_SIZE
<1>9. AckedKept'
  <2> SUFFICES ASSUME ~moved PROVE AckedKept'
    BY <1>1, Zenon DEF AckedKept
  <2>1. /\ fd >= 5 /\ fd <= Len(log_file)
        /\ \A k \in 1 .. Len(acked) : InPlace(log_file, fd, acked[k])
        /\ \A k \in 1 .. Len(acked) - 1 :
              acked[k].at + Len(acked[k].words) <= acked[k + 1].at
    BY <1>1, Zenon DEF WALInv, AckedKept, WALHeaderSize
  <2>2. PICK total \in [0 .. Len(acked) -> Nat] :
           IsTotal(acked, total) /\ log_offset = log_file[3].type + total[Len(acked)]
    BY <1>1 DEF WALInv, AckedKept
  <2>3. ASSUME NEW k \in 1 .. Len(acked)
        PROVE  /\ acked[k].at \in Nat /\ Len(acked[k].words) \in Nat
               /\ acked[k].at >= 5 /\ acked[k].at + Len(acked[k].words) <= fd
               /\ \A i \in 1 .. Len(acked[k].words) : log_file'[acked[k].at + i] = acked[k].words[i]
    <3>1. acked[k] \in Acknowledged
      BY <1>3
    <3>2. acked[k].at \in Nat /\ acked[k].words \in Seq(LogWord) /\ Len(acked[k].words) \in Nat
      BY <3>1 DEF Acknowledged
    <3>3. /\ acked[k].at >= 5 /\ acked[k].at + Len(acked[k].words) <= fd
          /\ \A i \in 1 .. Len(acked[k].words) : log_file[acked[k].at + i] = acked[k].words[i]
      BY <2>1, Zenon DEF InPlace, WALHeaderSize
    <3>4. ASSUME NEW i \in 1 .. Len(acked[k].words)
          PROVE  acked[k].at + i \in 1 .. fd /\ acked[k].at + i <= Len(log_file)
      <4> DEFINE a == acked[k].at
                 l == Len(acked[k].words)
                 m == Len(log_file)
      <4>1. a \in Nat /\ l \in Nat /\ a + l <= fd /\ fd \in Nat /\ m \in Nat /\ fd <= m
        BY <1>3, <2>1, <3>2, <3>3, Zenon
      <4>2. i \in 1 .. l
        OBVIOUS
      <4> HIDE DEF a, l, m
      <4>3. a + i \in 1 .. fd /\ a + i <= m
        BY <4>1, <4>2
      <4> QED
        BY <4>3, Zenon DEF a, m
    <3> QED
      BY <1>2, <3>2, <3>3, <3>4, Zenon
  <2>4. fd' >= 5 /\ fd <= fd'
    BY <1>2, <1>3, <2>1
  <2>7. ASSUME NEW k \in 1 .. Len(acked) PROVE acked[k].at + Len(acked[k].words) <= fd'
    <3> DEFINE a == acked[k].at
               l == Len(acked[k].words)
    <3>1. a \in Nat /\ l \in Nat /\ a + l <= fd /\ fd \in Nat /\ fd' \in Nat /\ fd <= fd'
      BY <1>2, <1>3, <2>3, <2>4, Zenon
    <3> HIDE DEF a, l
    <3>2. a + l <= fd'
      BY <3>1, SMTT(30)
    <3> QED
      BY <3>2, Zenon DEF a, l
  <2>5. CASE UNCHANGED <<log_offset, log_file_size, acked>>
    <3>1. ASSUME NEW k \in 1 .. Len(acked') PROVE InPlace(log_file', fd', acked'[k])
      <4>1. k \in 1 .. Len(acked) /\ acked'[k] = acked[k]
        BY <2>5, Zenon
      <4>2. acked[k].at + Len(acked[k].words) <= fd'
        BY <2>7, <4>1, Zenon
      <4> QED
        BY <2>3, <4>1, <4>2, Zenon DEF InPlace, WALHeaderSize
    <3>2. IsTotal(acked', total) /\ log_offset' = log_file'[3].type + total[Len(acked')]
      BY <1>7, <2>2, <2>5, Zenon DEF IsTotal
    <3> QED
      BY <1>2, <2>1, <2>2, <2>4, <2>5, <3>1, <3>2, Zenon DEF AckedKept, WALHeaderSize
  <2>6. CASE /\ written = Len(new) /\ log_offset' = log_offset + Len(new)
             /\ acked' = Append(acked, entry)
    <3> DEFINE n == Len(acked)
               more == [k \in 0 .. n + 1 |-> IF k = n + 1 THEN total[n] + Len(new) ELSE total[k]]
    <3>1. /\ n \in Nat /\ Len(acked') = n + 1 /\ acked'[n + 1] = entry
          /\ \A k \in 1 .. n : acked'[k] = acked[k]
      BY <1>3, <1>4, <2>6
    <3> HIDE DEF n
    <3>2. ASSUME NEW k \in 1 .. Len(acked') PROVE InPlace(log_file', fd', acked'[k])
      <4>1. k \in 1 .. n \/ k = n + 1
        BY <3>1
      <4>2. CASE k \in 1 .. n
        <5>1. k \in 1 .. Len(acked) /\ acked'[k] = acked[k]
          BY <3>1, <4>2, Zenon DEF n
        <5>2. acked[k].at + Len(acked[k].words) <= fd'
          BY <2>7, <5>1
        <5> QED
          BY <2>3, <5>1, <5>2 DEF InPlace, WALHeaderSize
      <4>3. CASE k = n + 1
        <5>1. acked'[k] = entry
          BY <3>1, <4>3, Zenon
        <5>2. /\ entry.at >= 5 /\ entry.at + Len(entry.words) <= fd'
              /\ \A i \in 1 .. Len(entry.words) : log_file'[entry.at + i] = entry.words[i]
          BY <1>2, <1>3, <1>4, <2>1, <2>6, SMTT(30)
        <5> QED
          BY <5>1, <5>2, Zenon DEF InPlace, WALHeaderSize
      <4> QED
        BY <4>1, <4>2, <4>3, Zenon
    <3>3. ASSUME NEW k \in 1 .. Len(acked') - 1
          PROVE  acked'[k].at + Len(acked'[k].words) <= acked'[k + 1].at
      <4>1. k \in 1 .. n /\ acked'[k] = acked[k] /\ (k \in 1 .. n - 1 \/ k = n)
        BY <3>1, SMTT(30)
      <4>2. CASE k \in 1 .. n - 1
        <5>1. k + 1 \in 1 .. n
          BY <3>1, <4>2
        <5>2. acked'[k + 1] = acked[k + 1]
          BY <3>1, <5>1, Zenon
        <5>3. acked[k].at + Len(acked[k].words) <= acked[k + 1].at
          BY <2>1, <4>2, Zenon DEF n
        <5> QED
          BY <4>1, <5>2, <5>3, Zenon
      <4>3. CASE k = n
        BY <1>4, <2>3, <3>1, <4>1, <4>3, Zenon DEF n
      <4> QED
        BY <4>1, <4>2, <4>3, Zenon
    <3>4. total \in [0 .. n -> Nat] /\ total[n] \in Nat
      BY <2>2, <3>1 DEF n
    <3>5. more \in [0 .. n + 1 -> Nat]
      BY <1>3, <3>1, <3>4
    <3>6. more[n + 1] = total[n] + Len(new) /\ \A k \in 0 .. n : more[k] = total[k]
      BY <3>1, <3>4
    <3> HIDE DEF more
    <3>7. more[0] = 0
      <4>1. total[0] = 0
        BY <2>2, Zenon DEF IsTotal
      <4>2. 0 \in 0 .. n
        BY <3>1
      <4>3. more[0] = total[0]
        BY <3>6, <4>2, Zenon
      <4> QED
        BY <4>1, <4>3, Zenon
    <3>8. ASSUME NEW k \in 1 .. n + 1
          PROVE  more[k] = more[k - 1] + Len(acked'[k].words)
      <4>1. (k \in 1 .. n \/ k = n + 1) /\ k - 1 \in 0 .. n
        BY <3>1
      <4>2. CASE k \in 1 .. n
        <5>1. total[k] = total[k - 1] + Len(acked[k].words)
          BY <2>2, <4>2, Zenon DEF IsTotal, n
        <5>2. more[k] = total[k] /\ more[k - 1] = total[k - 1] /\ acked'[k] = acked[k]
          BY <3>1, <3>6, <4>1, <4>2
        <5> QED
          BY <5>1, <5>2, Zenon
      <4>3. CASE k = n + 1
        <5>1. k - 1 = n /\ acked'[k].words = new
          BY <1>4, <3>1, <4>3
        <5> QED
          BY <3>1, <3>6, <4>3, <5>1, SMTT(30)
      <4> QED
        BY <4>1, <4>2, <4>3, Zenon
    <3>9. IsTotal(acked', more)
      BY <3>1, <3>7, <3>8, Zenon DEF IsTotal
    <3>10. log_offset' = log_file'[3].type + more[Len(acked')]
      <4>1. log_file[3] \in LogWord
        BY <1>3, <1>6
      <4>2. log_file[3].type \in Nat
        BY <4>1, WordType, Zenon
      <4>3. log_offset = log_file[3].type + total[n]
        BY <2>2, Zenon DEF n
      <4>4. log_file'[3].type = log_file[3].type /\ log_offset' = log_offset + Len(new)
            /\ more[Len(acked')] = total[n] + Len(new)
        BY <1>7, <2>6, <3>1, <3>6, Zenon
      <4> DEFINE a == log_file[3].type
                 b == total[n]
                 c == Len(new)
      <4>5. a \in Nat /\ b \in Nat /\ c \in Nat
        BY <1>3, <3>4, <4>2, Zenon
      <4> HIDE DEF a, b, c
      <4>6. (a + b) + c = a + (b + c)
        BY <4>5
      <4> QED
        BY <4>3, <4>4, <4>6, Zenon DEF a, b, c
    <3>11. \E t \in [0 .. Len(acked') -> Nat] :
              IsTotal(acked', t) /\ log_offset' = log_file'[3].type + t[Len(acked')]
      <4>1. more \in [0 .. Len(acked') -> Nat]
        BY <3>1, <3>5
      <4> QED
        BY <3>9, <3>10, <4>1, Zenon
    <3> QED
      BY <1>2, <2>4, <3>2, <3>3, <3>11, Zenon DEF AckedKept, WALHeaderSize
  <2> QED
    BY <1>1, <2>5, <2>6, SMTT(30)
<1> QED
  BY <1>5, <1>8, <1>9, Zenon DEF WALInv
----------------------------------------------------------------------------
(* The scan.                                                               *)

Place == {n \in Nat : n >= 4}
ScanState == [offset : Place, tx_id : LogWord, in_tx : BOOLEAN, last_tx_id : LogWord,
              has_checkpoint : BOOLEAN, fd : Place]

\* An entry that is scanned keeps the types.
LEMMA ScanEntryType ==
    ASSUME NEW s \in ScanState, NEW header, NEW tx_id \in LogWord
    PROVE  ScanEntry(s, header, tx_id) \in ScanState
BY Zenon DEF ScanEntry, ScanState

\* A round of the scan keeps the types.
LEMMA ScanRoundType ==
    ASSUME LogTypes, NEW s \in ScanState
    PROVE  ScanRound(s) \in ScanState
<1>1. /\ log_file \in Seq(LogWord) /\ log_file_size \in Nat /\ Len(log_file) \in Nat
      /\ s.offset \in Nat /\ s.offset >= 4
  BY DEF LogTypes, ScanState, Place
<1>2. CASE s.offset >= log_file_size
  BY <1>2 DEF ScanRound
<1>3. CASE ~(s.offset >= log_file_size) /\ s.offset + 2 > Len(log_file)
  <2> DEFINE end == IF s.offset > Len(log_file) THEN s.offset ELSE Len(log_file)
  <2>1. end \in Place
    <3>1. log_file_size \in Nat /\ end \in Nat /\ end >= s.offset
      BY <1>1
    <3> HIDE DEF end
    <3> QED
      BY <1>1, <3>1 DEF Place
  <2>2. ScanRound(s) = [s EXCEPT !.fd = end]
    BY <1>3 DEF ScanRound
  <2> HIDE DEF end
  <2> QED
    BY <2>1, <2>2, Zenon DEF ScanState
<1>4. CASE ~(s.offset >= log_file_size) /\ ~(s.offset + 2 > Len(log_file))
  <2> DEFINE header == log_file[s.offset + 1]
             tx_id == log_file[s.offset + 2]
             next == s.offset + 2 + header.size
             e == ScanEntry(s, header, tx_id)
  <2>1. header \in LogWord /\ tx_id \in LogWord
    BY <1>1, <1>4
  <2>2. header.size \in Nat
    BY <2>1, WordType
  <2>3. ScanRound(s) = [e EXCEPT !.offset = next, !.fd = s.offset + 2]
    BY <1>4, Zenon DEF ScanRound
  <2>4. next \in Place /\ s.offset + 2 \in Place
    BY <1>1, <2>2, SMTT(30) DEF Place
  <2>5. e \in ScanState
    BY <2>1, ScanEntryType
  <2> HIDE DEF e, next, header, tx_id
  <2> QED
    BY <2>3, <2>4, <2>5, Zenon DEF ScanState
<1> QED
  BY <1>2, <1>3, <1>4, Zenon

\* The scan ends in a state of its type.
LEMMA ScanRounds ==
    ASSUME LogTypes, fd \in Place
    PROVE  Scan[Len(log_file)] \in ScanState
<1> DEFINE N == Len(log_file)
           body == [n \in 1 .. N |-> [s \in ScanState |-> ScanRound(s)]]
           Unrolled(f) == [n \in 0 .. N |-> IF n = 0 THEN ScanStart ELSE ScanRound(f[n - 1])]
<1>1. N \in Nat
  BY DEF LogTypes
<1>2. ScanStart \in ScanState
  <2>1. Zero \in LogWord
    BY DEF LogWord, Zero
  <2> QED
    BY <2>1 DEF ScanStart, ScanState, Place, WAL_HEADER_SIZE
<1>3. body \in [1 .. N -> [ScanState -> ScanState]]
  BY ScanRoundType, Zenon
<1> HIDE DEF N
<1>4. PICK g : AreRounds(g, ScanState, ScanStart, N, body)
  <2> HIDE DEF body
  <2> QED
    BY <1>1, <1>2, <1>3, RoundsExist, Zenon
<1>5. g \in [0 .. N -> ScanState] /\ g[0] = ScanStart
  BY <1>4, Zenon DEF AreRounds
<1>13. ASSUME NEW n \in 1 .. N PROVE g[n] = ScanRound(g[n - 1])
  <2>1. n - 1 \in 0 .. N
    BY <1>1
  <2>2. g[n - 1] \in ScanState
    BY <1>5, <2>1, Zenon
  <2>3. g[n] = body[n][g[n - 1]]
    BY <1>4, Zenon DEF AreRounds
  <2> QED
    BY <2>2, <2>3
<1>6. g = Unrolled(g)
  <2>1. \A n \in 0 .. N : n = 0 \/ n \in 1 .. N
    BY <1>1
  <2> QED
    BY <1>5, <1>13, <2>1, Zenon
<1>7. Scan = CHOOSE f : f = Unrolled(f)
  BY DEF Scan, N
<1>8. Scan = Unrolled(Scan)
  <2> HIDE DEF Unrolled
  <2> QED
    BY <1>6, <1>7, Zenon
<1>9. Scan[0] = g[0]
  <2>1. Scan[0] = Unrolled(Scan)[0] /\ 0 \in 0 .. N
    BY <1>1, <1>8
  <2> QED
    BY <1>5, <2>1, Zenon
<1>10. ASSUME NEW n \in 1 .. N, Scan[n - 1] = g[n - 1] PROVE Scan[n] = g[n]
  <2>1. n \in 0 .. N /\ n # 0
    BY <1>1
  <2>2. Scan[n] = Unrolled(Scan)[n]
    BY <1>8, Zenon
  <2>3. Scan[n] = ScanRound(Scan[n - 1])
    BY <2>1, <2>2, Zenon
  <2> QED
    BY <1>13, <1>10, <2>3, Zenon
<1>11. \A n \in 0 .. N : Scan[n] = g[n]
  <2>1. Agree(Scan, g, N)
    BY <1>9, <1>10, Zenon DEF Agree
  <2> QED
    BY <1>1, <2>1, SameRounds
<1>12. Scan[N] = g[N] /\ N \in 0 .. N
  BY <1>1, <1>11, SMTT(30)
<1> QED
  BY <1>5, <1>12 DEF N
----------------------------------------------------------------------------
(* The other steps.                                                        *)

\* wal_recovery_info moves the descriptor only.
LEMMA RecoveryInv == WALInv /\ wal_recovery_info => WALInv'
<1> SUFFICES ASSUME WALInv, wal_recovery_info PROVE WALInv'
  OBVIOUS
<1>1. /\ log_is_open /\ fd' = Scan[Len(log_file)].fd /\ moved' = TRUE
      /\ UNCHANGED <<exists, log_file, log_is_open, log_offset, log_file_size, frame_count,
                     current_tx_id, acked>>
  BY Zenon DEF wal_recovery_info
<1>2. fd \in Place
  BY <1>1 DEF WALInv, LogTypes, HeaderKept, Place, WAL_HEADER_SIZE
<1>3. Scan[Len(log_file)] \in ScanState
  BY <1>2, ScanRounds, Zenon DEF WALInv
<1>4. fd' \in Nat /\ fd' >= 4
  BY <1>1, <1>3, Zenon DEF ScanState, Place
<1>5. LogTypes'
  BY <1>1, <1>4, Zenon DEF WALInv, LogTypes
<1>6. HeaderKept'
  BY <1>1, <1>4, Zenon DEF WALInv, HeaderKept, WAL_HEADER_SIZE
<1> QED
  BY <1>1, <1>5, <1>6, Zenon DEF WALInv, AckedKept

\* wal_truncate keeps the first four words of the file: they are cut by
\* neither of its offsets.
LEMMA TruncateInv ==
    ASSUME WALInv, NEW offset \in {WAL_HEADER_SIZE, log_offset}, wal_truncate(offset)
    PROVE  WALInv'
<1> DEFINE cut == Resize(log_file, offset)
           header == WALHeader(offset, 0)
<1>1. /\ log_is_open /\ offset <= MaxLength /\ log_offset' = offset
      /\ acked' = <<>> /\ moved' = TRUE
      /\ UNCHANGED <<exists, log_is_open, log_file_size, frame_count, current_tx_id>>
      /\ \/ offset >= WALHeaderSize /\ log_file' = WriteAt(cut, 0, header) /\ fd' = WALHeaderSize
         \/ ~(offset >= WALHeaderSize) /\ log_file' = cut /\ fd' = offset
  BY Zenon DEF wal_truncate
<1>2. /\ log_file \in Seq(LogWord) /\ Len(log_file) \in Nat /\ exists /\ log_offset \in Nat
      /\ log_offset >= 4 /\ Len(log_file) >= 4
      /\ log_file[1] = WALHeader(0, 0)[1] /\ log_file[3].type >= 4
  BY <1>1 DEF WALInv, LogTypes, HeaderKept, WAL_HEADER_SIZE
<1>3. offset \in Nat /\ offset >= 4
  BY <1>2 DEF WAL_HEADER_SIZE
<1>4. /\ cut \in Seq(LogWord) /\ Len(cut) = offset
      /\ \A i \in 1 .. offset : i <= Len(log_file) => cut[i] = log_file[i]
  BY <1>2, <1>3, ResizeWords, Zenon
<1>5. /\ header \in Seq(LogWord) /\ Len(header) = 5 /\ header[1] = WALHeader(0, 0)[1]
      /\ header[3].type = offset
  BY <1>3, HeaderWords, SMTT(30)
<1> HIDE DEF cut, header
<1>6. /\ log_file' \in Seq(LogWord) /\ Len(log_file') = offset /\ fd' \in Nat /\ fd' >= 4
      /\ log_file'[1] = WALHeader(0, 0)[1] /\ log_file'[3].type >= 4
  <2>1. CASE offset >= WALHeaderSize /\ log_file' = WriteAt(cut, 0, header) /\ fd' = WALHeaderSize
    <3>1. IsWritten(log_file', cut, 0, header)
      BY <1>4, <1>5, <2>1, WriteAtWords, Zenon
    <3>2. /\ log_file' \in Seq(LogWord)
          /\ Len(log_file') >= 0 + 5 /\ Len(log_file') >= offset
          /\ Len(log_file') = 0 + 5 \/ Len(log_file') = offset
          /\ \A i \in 1 .. 5 : log_file'[0 + i] = header[i]
      BY <1>4, <1>5, <3>1, Zenon DEF IsWritten
    <3>3. Len(log_file') = offset
      <4> DEFINE l == Len(log_file')
      <4>1. l >= 5 /\ l >= offset /\ (l = 5 \/ l = offset) /\ offset >= 5 /\ offset \in Nat
        BY <1>3, <2>1, <3>2 DEF WALHeaderSize
      <4> HIDE DEF l
      <4>2. l = offset
        BY <4>1
      <4> QED
        BY <4>2, Zenon DEF l
    <3>4. log_file'[1] = header[1] /\ log_file'[3] = header[3]
      BY <3>2
    <3> QED
      BY <1>3, <1>5, <2>1, <3>2, <3>3, <3>4, SMTT(30) DEF WALHeaderSize
  <2>2. CASE ~(offset >= WALHeaderSize) /\ log_file' = cut /\ fd' = offset
    <3>1. 1 \in 1 .. offset /\ 3 \in 1 .. offset /\ 1 <= Len(log_file) /\ 3 <= Len(log_file)
      BY <1>2, <1>3
    <3>2. cut[1] = log_file[1] /\ cut[3] = log_file[3]
      BY <1>4, <3>1, Zenon
    <3> QED
      BY <1>2, <1>3, <1>4, <2>2, <3>2, Zenon
  <2> QED
    BY <1>1, <2>1, <2>2, Zenon
<1>7. LogTypes'
  <2>1. acked' \in Seq(Acknowledged)
    BY <1>1
  <2> QED
    BY <1>1, <1>3, <1>6, <2>1, Zenon DEF WALInv, LogTypes
<1>8. HeaderKept'
  BY <1>1, <1>2, <1>3, <1>6, Zenon DEF HeaderKept, WAL_HEADER_SIZE
<1> QED
  BY <1>1, <1>7, <1>8, Zenon DEF WALInv, AckedKept

\* wal_append writes one record.
LEMMA AppendInv ==
    ASSUME WALInv, NEW type \in Nat, NEW tx_id \in 0 .. MaxTx, NEW written \in 0 .. 2,
           wal_append(type, tx_id, written), current_tx_id' \in 0 .. MaxTx
    PROVE  WALInv'
<1>1. tx_id \in Nat
  BY Bounds
<1>2. Entry(type, tx_id) \in Seq(LogWord) /\ Len(Entry(type, tx_id)) = 2
  BY <1>1, EntryWords, Zenon
<1>3. Log(Entry(type, tx_id), written) /\ frame_count' \in Nat
  BY Zenon DEF wal_append, WALInv, LogTypes
<1> QED
  BY <1>2, <1>3, LogInv, Zenon

\* wal_write_page writes one frame.
LEMMA WritePageInv ==
    ASSUME WALInv, NEW page \in PageNum, NEW data \in [1 .. FrameData -> DataWord],
           NEW written \in 0 .. FrameData + 2, wal_write_page(page, data, written)
    PROVE  WALInv'
<1>1. Frame(page, data) \in Seq(LogWord) /\ Len(Frame(page, data)) = FrameData + 2
  BY FrameWords, FrameHead, Zenon
<1>2. Log(Frame(page, data), written) /\ current_tx_id' = current_tx_id
      /\ (frame_count' = frame_count + 1 \/ frame_count' = frame_count)
  BY Zenon DEF wal_write_page
<1>3. frame_count' \in Nat /\ current_tx_id' \in 0 .. MaxTx
  BY <1>2 DEF WALInv, LogTypes
<1> QED
  BY <1>1, <1>2, <1>3, LogInv

\* Every step of the log preserves the invariant.
LEMMA WALNextInv == WALInv /\ [WALNext]_walVars => WALInv'
<1> SUFFICES ASSUME WALInv, [WALNext]_walVars PROVE WALInv'
  OBVIOUS
<1>1. current_tx_id \in 0 .. MaxTx
  BY DEF WALInv, LogTypes
<1>2. CASE UNCHANGED walVars \/ wal_open_fails
  <2>1. UNCHANGED walVars
    BY <1>2, Zenon DEF wal_open_fails
  <2>2. LogTypes'
    BY <2>1, Zenon DEF walVars, WALInv, LogTypes
  <2>3. HeaderKept'
    BY <2>1, Zenon DEF walVars, WALInv, HeaderKept
  <2>4. AckedKept'
    BY <2>1, Zenon DEF walVars, WALInv, AckedKept
  <2> QED
    BY <2>2, <2>3, <2>4, Zenon DEF WALInv
<1>3. ASSUME NEW written \in 0 .. 2, wal_begin_tx(written) PROVE WALInv'
  <2>1. /\ current_tx_id + 1 \in 0 .. MaxTx /\ current_tx_id' = current_tx_id + 1
        /\ wal_append(1, current_tx_id + 1, written)
    BY <1>1, <1>3, Bounds DEF wal_begin_tx
  <2> QED
    BY <2>1, AppendInv, Zenon
<1>4. ASSUME NEW written \in 0 .. 2,
             wal_commit_tx(written) \/ wal_rollback_tx(written) \/ wal_checkpoint(written)
      PROVE  WALInv'
  <2>1. /\ current_tx_id' = current_tx_id
        /\ \E type \in Nat : wal_append(type, current_tx_id, written)
    BY <1>4 DEF wal_commit_tx, wal_rollback_tx, wal_checkpoint
  <2> QED
    BY <1>1, <2>1, AppendInv, Zenon
<1> QED
  BY <1>2, <1>3, <1>4, OpenNewInv, OpenExistingInv, CloseInv, WritePageInv, RecoveryInv,
     TruncateInv, Zenon DEF WALNext

\* Every reachable state of the log satisfies the inductive invariant.
THEOREM WALInvariant == WALSpec => []WALInv
BY WALInitInv, WALNextInv, PTL DEF WALSpec

----------------------------------------------------------------------------
(* What it implies.                                                        *)

\* The running total of the acknowledged words is AckedWords.
LEMMA TotalIsAckedWords ==
    ASSUME Len(acked) \in Nat, NEW total, total \in [0 .. Len(acked) -> Nat], IsTotal(acked, total)
    PROVE  AckedWords[Len(acked)] = total[Len(acked)]
<1> DEFINE N == Len(acked)
           Unrolled(f) == [k \in 0 .. N |-> IF k = 0 THEN 0 ELSE f[k - 1] + Len(acked[k].words)]
<1>1. total = Unrolled(total)
  <2>1. \A k \in 0 .. N : k = 0 \/ k \in 1 .. N
    OBVIOUS
  <2> QED
    BY <2>1 DEF IsTotal
<1>2. AckedWords = CHOOSE f : f = Unrolled(f)
  BY DEF AckedWords
<1>3. AckedWords = Unrolled(AckedWords)
  <2> HIDE DEF Unrolled
  <2> QED
    BY <1>1, <1>2
<1> HIDE DEF N
<1>4. N \in Nat
  BY Zenon DEF N
<1>5. AckedWords[0] = total[0]
  <2>1. AckedWords[0] = Unrolled(AckedWords)[0] /\ 0 \in 0 .. N
    BY <1>3, <1>4
  <2> QED
    BY <2>1, Zenon DEF IsTotal
<1>6. ASSUME NEW k \in 1 .. N, AckedWords[k - 1] = total[k - 1] PROVE AckedWords[k] = total[k]
  <2>1. k \in 0 .. N /\ k # 0
    BY <1>4
  <2>2. AckedWords[k] = Unrolled(AckedWords)[k]
    BY <1>3, Zenon
  <2>3. AckedWords[k] = AckedWords[k - 1] + Len(acked[k].words)
    BY <2>1, <2>2, Zenon
  <2> QED
    BY <1>6, <2>3, Zenon DEF IsTotal, N
<1>7. \A k \in 0 .. N : AckedWords[k] = total[k]
  <2>1. Agree(AckedWords, total, N)
    BY <1>5, <1>6, Zenon DEF Agree
  <2> QED
    BY <1>4, <2>1, SameRounds
<1> QED
  BY <1>4, <1>7 DEF N

\* What a session was told is in the log is in the log, whole and in the order
\* of the calls, and log_offset counts exactly that, for every sequence of
\* calls and of failed writes (wal_append, wal_write_page).
THEOREM WALLogIntact == WALSpec => []LogIntact
<1>1. WALInv => LogIntact
  <2> SUFFICES ASSUME WALInv PROVE LogIntact
    BY Zenon
  <2>1. LogTypeOK
    <3>1. \A i \in 1 .. Len(log_file) : log_file[i] \in LogWord
      BY DEF WALInv, LogTypes
    <3> QED
      BY <3>1, WordType, Zenon DEF WALInv, LogTypes, LogTypeOK
  <2>2. AckedIntact
    BY Zenon DEF WALInv, AckedKept, InPlace, AckedIntact
  <2>3. OffsetCounts
    <3> SUFFICES ASSUME log_is_open, ~moved PROVE OffsetCounts
      BY DEF OffsetCounts
    <3>1. Len(acked) \in Nat
      BY DEF WALInv, LogTypes
    <3>2. PICK total \in [0 .. Len(acked) -> Nat] :
             IsTotal(acked, total) /\ log_offset = log_file[3].type + total[Len(acked)]
      BY Zenon DEF WALInv, AckedKept
    <3> QED
      BY <3>1, <3>2, TotalIsAckedWords, Zenon DEF OffsetCounts
  <2> QED
    BY <2>1, <2>2, <2>3 DEF LogIntact
<1> QED
  BY <1>1, WALInvariant, PTL

\* No sequence of calls, failed writes, scans and truncations makes wal_open
\* refuse a log, unless the file was cut shorter than its header.
THEOREM WALReopens == WALSpec => []Reopens
<1>1. WALInv => Reopens
  BY DEF WALInv, HeaderKept, Reopens
<1> QED
  BY <1>1, WALInvariant, PTL
============================================================================
