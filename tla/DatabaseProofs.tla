--------------------------- MODULE DatabaseProofs ---------------------------
(***************************************************************************)
(* Proofs about the database: the session gives out pages and row keys     *)
(* that are not in use, the file holds an earlier state of every dirty     *)
(* page, and what the executors do implements the tables of module Tables. *)
(*                                                                         *)
(* The inductive invariant has one part for the pages and their copies in  *)
(* the file (Saved), and one for the session in the cache (Session): which *)
(* pages are the catalog's and the tables', and that the key of an entry   *)
(* is the length of its name, so that no two entries have one name.        *)
(***************************************************************************)
EXTENDS Database, TLAPS

Cells == Seq(RowCell) \cup Seq(EntryCell)
Page == [is_leaf : BOOLEAN, cells : Cells]

\* One sequence of cells is a beginning of another.
Begins(some, all) ==
    Len(some) <= Len(all) /\ \A i \in 1 .. Len(some) : some[i] = all[i]

\* The cache and the file agree but for the pages that are not saved.
Saved(cached, file, unsaved) ==
    /\ cached \in Seq(Page) /\ file \in Seq(Page)
    /\ Len(cached) = Len(file)
    /\ unsaved \subseteq 1 .. Len(cached)
    /\ \A p \in 1 .. Len(cached) :
          /\ p \notin unsaved => file[p] = cached[p]
          /\ Begins(file[p].cells, cached[p].cells)

\* The cells of a catalog on page root, of a file of so many pages.
GoodEntries(cs, root, last) ==
    /\ cs \in Seq(EntryCell)
    /\ \A i \in 1 .. Len(cs) :
          /\ cs[i].value.type = "table"
          /\ cs[i].key = 1 + strlen[cs[i].value.name]
          /\ cs[i].value.root_page \in root + 1 .. last
    /\ \A i, j \in 1 .. Len(cs) :
          /\ cs[i].key = cs[j].key => i = j
          /\ cs[i].value.root_page = cs[j].value.root_page => i = j

GoodRows(cs, counter) ==
    /\ cs \in Seq(RowCell)
    /\ \A i \in 1 .. Len(cs) : cs[i].key <= counter
    /\ \A i, j \in 1 .. Len(cs) : cs[i].key = cs[j].key => i = j

\* The pages of a session: its catalog, and behind it those of its tables.
Session(cached, root, counter) ==
    /\ root \in 1 .. Len(cached)
    /\ cached[root].is_leaf
    /\ GoodEntries(cached[root].cells, root, Len(cached))
    /\ \A p \in root + 1 .. Len(cached) :
          cached[p].is_leaf /\ GoodRows(cached[p].cells, counter)

ExecutorState ==
    [live : BOOLEAN, in_transaction : BOOLEAN,
     txn_state : {"NONE", "ACTIVE", "COMMITTED", "ROLLED_BACK"}]

ExecutorsOK ==
    /\ exec \in [Executor -> ExecutorState]
    /\ \A e \in Executor : exec[e].in_transaction <=> exec[e].txn_state = "ACTIVE"
    /\ \A e \in Executor : exec[e].live => is_open

FileOK ==
    /\ is_open \in BOOLEAN
    /\ stored \in Seq(Page) /\ Len(stored) <= MaxPages
    /\ rowid_counter \in 0 .. MaxRowid

\* The inductive invariant.
SessionOK ==
    IF is_open THEN Saved(pages, stored, dirty) /\ Session(pages, catalog, rowid_counter)
               ELSE pages = <<>> /\ dirty = {}

IInv == FileOK /\ ExecutorsOK /\ SessionOK

----------------------------------------------------------------------------
(* What the operators compute.                                             *)

\* An empty leaf and a page of zeros are pages.
LEMMA PagesType == EmptyLeaf \in Page /\ ZeroPage \in Page
BY DEF EmptyLeaf, ZeroPage, Page, Cells

\* A page of a sequence of pages, and its cells.
LEMMA PageAt ==
    ASSUME NEW ps \in Seq(Page), NEW p \in 1 .. Len(ps)
    PROVE  /\ ps[p] \in Page
           /\ ps[p].cells \in Cells /\ ps[p].is_leaf \in BOOLEAN
           /\ Len(ps[p].cells) \in Nat
<1>1. ps[p] \in Page
  OBVIOUS
<1>2. ps[p].cells \in Cells /\ ps[p].is_leaf \in BOOLEAN
  BY <1>1 DEF Page
<1>3. Len(ps[p].cells) \in Nat
  BY <1>2 DEF Cells
<1> QED
  BY <1>1, <1>2, <1>3

\* A page is known by its two fields.
LEMMA SamePage ==
    ASSUME NEW a \in Page, NEW b \in Page, a.cells = b.cells, a.is_leaf = b.is_leaf
    PROVE  a = b
BY DEF Page

\* Cells put on one page leave the other pages alone.
LEMMA PutCells ==
    ASSUME NEW ps \in Seq(Page), NEW p \in 1 .. Len(ps), NEW cs \in Cells
    PROVE  LET q == [ps EXCEPT ![p].cells = cs]
           IN  /\ q \in Seq(Page)
               /\ Len(q) = Len(ps)
               /\ q[p].cells = cs
               /\ q[p].is_leaf = ps[p].is_leaf
               /\ \A i \in 1 .. Len(ps) : i # p => q[i] = ps[i]
<1> DEFINE q == [ps EXCEPT ![p].cells = cs]
<1>1. ps \in [1 .. Len(ps) -> Page] /\ Len(ps) \in Nat
  OBVIOUS
<1>2. ps[p] \in Page
  BY <1>1
<1>3. [ps[p] EXCEPT !.cells = cs] \in Page
  BY <1>2 DEF Page
<1>4. q = [ps EXCEPT ![p] = [ps[p] EXCEPT !.cells = cs]]
  OBVIOUS
<1>5. q \in [1 .. Len(ps) -> Page]
  BY <1>1, <1>3, <1>4
<1>6. q \in Seq(Page) /\ Len(q) = Len(ps)
  BY <1>1, <1>5
<1>7. q[p] = [ps[p] EXCEPT !.cells = cs]
  BY <1>1, <1>4
<1>8. q[p].cells = cs /\ q[p].is_leaf = ps[p].is_leaf
  BY <1>2, <1>7 DEF Page
<1>9. \A i \in 1 .. Len(ps) : i # p => q[i] = ps[i]
  BY <1>1, <1>4
<1> QED
  BY <1>6, <1>8, <1>9

\* A write puts the cached copy of the pages in W into the file.
LEMMA WrittenType ==
    ASSUME NEW file \in Seq(Page), NEW cached \in Seq(Page), Len(file) = Len(cached),
           NEW W, W \subseteq 1 .. Len(cached)
    PROVE  /\ Written(file, cached, W) \in Seq(Page)
           /\ Len(Written(file, cached, W)) = Len(file)
           /\ \A p \in 1 .. Len(file) :
                 Written(file, cached, W)[p] = IF p \in W THEN cached[p] ELSE file[p]
<1>1. file \in [1 .. Len(file) -> Page] /\ cached \in [1 .. Len(cached) -> Page]
      /\ Len(file) \in Nat
  OBVIOUS
<1>2. Written(file, cached, W) \in [1 .. Len(file) -> Page]
  BY <1>1 DEF Written
<1>3. Written(file, cached, W) \in Seq(Page) /\ Len(Written(file, cached, W)) = Len(file)
  BY <1>1, <1>2
<1>4. \A p \in 1 .. Len(file) :
         Written(file, cached, W)[p] = IF p \in W THEN cached[p] ELSE file[p]
  BY DEF Written
<1> QED
  BY <1>3, <1>4

\* Whatever part of the dirty pages a flush writes, the rest stays dirty and
\* the file agrees with the cache again.
LEMMA WrittenSaved ==
    ASSUME NEW cached, NEW file, NEW unsaved, NEW W,
           Saved(cached, file, unsaved), W \subseteq unsaved
    PROVE  Saved(cached, Written(file, cached, W), unsaved \ W)
<1> DEFINE new == Written(file, cached, W)
<1>1. cached \in Seq(Page) /\ file \in Seq(Page) /\ Len(file) = Len(cached)
      /\ W \subseteq 1 .. Len(cached) /\ Len(cached) \in Nat
  BY DEF Saved
<1>2. new \in Seq(Page) /\ Len(new) = Len(file)
      /\ \A p \in 1 .. Len(file) : new[p] = IF p \in W THEN cached[p] ELSE file[p]
  BY <1>1, WrittenType
<1> HIDE DEF new
<1>3. ASSUME NEW p \in 1 .. Len(cached)
      PROVE  /\ p \notin unsaved \ W => new[p] = cached[p]
             /\ Begins(new[p].cells, cached[p].cells)
  <2>1. CASE p \in W
    <3>1. new[p] = cached[p]
      BY <1>1, <1>2, <2>1
    <3>2. Len(cached[p].cells) \in Nat
      BY <1>1, PageAt
    <3> QED
      BY <3>1, <3>2 DEF Begins
  <2>2. CASE p \notin W
    BY <1>1, <1>2, <2>2 DEF Saved
  <2> QED
    BY <2>1, <2>2
<1> QED
  BY <1>1, <1>2, <1>3 DEF Saved, new

\* A flush that writes any part of the dirty pages keeps cache and file
\* together.
LEMMA FlushSaved ==
    ASSUME NEW cached, NEW file, NEW unsaved,
           Saved(cached, file, unsaved), Flush(cached, file, unsaved)
    PROVE  pages' = cached /\ Saved(pages', stored', dirty')
<1>1. PICK W \in SUBSET unsaved :
         /\ pages' = cached
         /\ stored' = Written(file, cached, W)
         /\ dirty' = unsaved \ W
  BY DEF Flush
<1> QED
  BY <1>1, WrittenSaved

\* Cells added to a page leave the file as it was; the page becomes dirty.
LEMMA PutSaved ==
    ASSUME NEW cached, NEW file, NEW unsaved, Saved(cached, file, unsaved),
           NEW p \in 1 .. Len(cached), NEW cs \in Cells, Begins(cached[p].cells, cs),
           NEW S, S \subseteq 1 .. Len(cached), cs = cached[p].cells \/ p \in S
    PROVE  Saved([cached EXCEPT ![p].cells = cs], file, unsaved \cup S)
<1> DEFINE q == [cached EXCEPT ![p].cells = cs]
<1>1. cached \in Seq(Page) /\ file \in Seq(Page) /\ Len(file) = Len(cached)
      /\ unsaved \subseteq 1 .. Len(cached)
  BY DEF Saved
<1>2. /\ q \in Seq(Page)
      /\ Len(q) = Len(cached)
      /\ q[p].cells = cs
      /\ q[p].is_leaf = cached[p].is_leaf
      /\ \A i \in 1 .. Len(cached) : i # p => q[i] = cached[i]
  BY <1>1, PutCells
<1> HIDE DEF q
<1>3. ASSUME NEW i \in 1 .. Len(q)
      PROVE  /\ i \notin unsaved \cup S => file[i] = q[i]
             /\ Begins(file[i].cells, q[i].cells)
  <2>0. i \in 1 .. Len(cached) /\ i \in 1 .. Len(file)
    BY <1>1, <1>2
  <2>1. (i \notin unsaved => file[i] = cached[i]) /\ Begins(file[i].cells, cached[i].cells)
    BY <2>0 DEF Saved
  <2>2. CASE i # p
    BY <2>0, <2>1, <2>2, <1>2
  <2>3. CASE i = p
    <3>1. i \notin unsaved \cup S => file[i] = q[i]
      <4>1. SUFFICES ASSUME i \notin unsaved \cup S PROVE file[i] = q[i]
        OBVIOUS
      <4>2. cs = cached[p].cells /\ file[i] = cached[p]
        BY <4>1, <2>1, <2>3
      <4>3. q[p] \in Page /\ cached[p] \in Page
        BY <1>1, <1>2, PageAt
      <4>4. q[p] = cached[p]
        BY <4>2, <4>3, <1>2, SamePage
      <4> QED
        BY <4>2, <4>4, <2>3
    <3>2. Len(file[i].cells) \in Nat /\ Len(cached[p].cells) \in Nat
      BY <1>1, <2>0, PageAt
    <3>3. Len(cs) \in Nat
      BY DEF Cells
    <3>4. Begins(file[i].cells, cs)
      BY <2>1, <2>3, <3>2, <3>3, SMTT(30) DEF Begins
    <3> QED
      BY <3>1, <3>4, <1>2, <2>3
  <2> QED
    BY <2>2, <2>3
<1> QED
  BY <1>1, <1>2, <1>3 DEF Saved, q

\* A page added to the file is dirty.
LEMMA AppendSaved ==
    ASSUME NEW cached, NEW file, NEW unsaved, Saved(cached, file, unsaved)
    PROVE  Saved(Append(cached, EmptyLeaf), Append(file, ZeroPage),
                 unsaved \cup {Len(cached) + 1})
<1> DEFINE q == Append(cached, EmptyLeaf)
           f == Append(file, ZeroPage)
<1>1. cached \in Seq(Page) /\ file \in Seq(Page) /\ Len(file) = Len(cached)
      /\ unsaved \subseteq 1 .. Len(cached) /\ Len(cached) \in Nat
  BY DEF Saved
<1>2. /\ q \in Seq(Page) /\ f \in Seq(Page)
      /\ Len(q) = Len(cached) + 1 /\ Len(f) = Len(q)
      /\ q[Len(cached) + 1] = EmptyLeaf /\ f[Len(cached) + 1] = ZeroPage
      /\ \A i \in 1 .. Len(cached) : q[i] = cached[i] /\ f[i] = file[i]
  BY <1>1, PagesType
<1> HIDE DEF q, f
<1>3. ASSUME NEW i \in 1 .. Len(q)
      PROVE  /\ i \notin unsaved \cup {Len(cached) + 1} => f[i] = q[i]
             /\ Begins(f[i].cells, q[i].cells)
  <2>1. CASE i \in 1 .. Len(cached)
    BY <2>1, <1>2 DEF Saved
  <2>2. CASE i = Len(cached) + 1
    <3>1. f[i].cells = <<>> /\ q[i].cells = <<>>
      BY <2>2, <1>2 DEF EmptyLeaf, ZeroPage
    <3>2. Begins(f[i].cells, q[i].cells)
      BY <3>1 DEF Begins
    <3> QED
      BY <2>2, <3>2
  <2> QED
    BY <1>1, <1>2, <2>1, <2>2
<1>4. ASSUME NEW i \in unsaved \cup {Len(cached) + 1}
      PROVE  i \in 1 .. Len(q)
  <2>1. i \in 1 .. Len(cached) \/ i = Len(cached) + 1
    BY <1>1
  <2> QED
    BY <1>1, <1>2, <2>1
<1> QED
  BY <1>2, <1>3, <1>4, Zenon DEF Saved, q, f

\* The three outcomes of btree_insert.
LEMMA InsertOutcome ==
    ASSUME NEW cs, NEW key, NEW value, NEW capacity
    PROVE  LET r == btree_insert(cs, key, value, capacity)
               taken == \E i \in 1 .. Len(cs) : cs[i].key = key
           IN  \/ taken /\ r.ret = "SUCCESS" /\ r.cells = cs
               \/ ~taken /\ r.ret = "ERROR" /\ r.cells = cs
               \/ /\ ~taken /\ r.ret = "SUCCESS"
                  /\ r.cells = Append(cs, [key |-> key, value |-> value])
BY DEF btree_insert

\* A row of a page of rows.
LEMMA RowAt ==
    ASSUME NEW cs \in Seq(RowCell), NEW i \in 1 .. Len(cs)
    PROVE  cs[i] \in RowCell /\ cs[i].key \in Nat /\ cs[i].value \in Row
<1>1. cs[i] \in RowCell
  OBVIOUS
<1> QED
  BY <1>1 DEF RowCell

\* A counter that has grown is still a bound on the keys.
LEMMA RowsGrow ==
    ASSUME NEW cs, NEW n \in Nat, NEW m \in Nat, n <= m, GoodRows(cs, n)
    PROVE  GoodRows(cs, m)
<1>1. cs \in Seq(RowCell)
  BY DEF GoodRows
<1>2. \A i \in 1 .. Len(cs) : cs[i].key \in Nat
  BY <1>1, RowAt
<1> QED
  BY <1>2 DEF GoodRows

\* A row with the next key finds no row with its key.
LEMMA RowsInsert ==
    ASSUME NEW cs, NEW n \in Nat, GoodRows(cs, n), NEW row \in Row
    PROVE  LET r == btree_insert(cs, n + 1, row, RowCapacity)
           IN  /\ GoodRows(r.cells, n + 1)
               /\ \/ r.ret = "ERROR" /\ r.cells = cs
                  \/ r.ret = "SUCCESS" /\ r.cells = Append(cs, [key |-> n + 1, value |-> row])
<1> DEFINE cell == [key |-> n + 1, value |-> row]
           new == Append(cs, cell)
<1>1. cs \in Seq(RowCell) /\ \A i \in 1 .. Len(cs) : cs[i].key \in Nat /\ cs[i].key <= n
  BY RowAt DEF GoodRows
<1>2. ~ \E i \in 1 .. Len(cs) : cs[i].key = n + 1
  BY <1>1
<1>3. GoodRows(cs, n + 1)
  BY RowsGrow
<1>4. GoodRows(new, n + 1)
  <2>1. cell \in RowCell /\ cell.key = n + 1
    BY DEF RowCell
  <2> HIDE DEF cell
  <2>2. /\ new \in Seq(RowCell) /\ Len(new) = Len(cs) + 1 /\ new[Len(cs) + 1] = cell
        /\ \A i \in 1 .. Len(cs) : new[i] = cs[i]
    BY <1>1, <2>1
  <2> HIDE DEF new
  <2>3. \A i \in 1 .. Len(new) : i \in 1 .. Len(cs) \/ i = Len(cs) + 1
    BY <1>1, <2>2
  <2>4. \A i \in 1 .. Len(new) : new[i].key <= n + 1
    BY <1>1, <2>1, <2>2, <2>3
  <2>5. ASSUME NEW i \in 1 .. Len(new), NEW j \in 1 .. Len(new), new[i].key = new[j].key
        PROVE  i = j
    <3>1. CASE i \in 1 .. Len(cs) /\ j \in 1 .. Len(cs)
      BY <3>1, <2>2, <2>5 DEF GoodRows
    <3>2. CASE i = Len(cs) + 1 \/ j = Len(cs) + 1
      BY <3>2, <1>2, <2>1, <2>2, <2>3, <2>5
    <3> QED
      BY <2>3, <3>1, <3>2
  <2> QED
    BY <2>2, <2>4, <2>5 DEF GoodRows
<1> QED
  <2>1. LET r == btree_insert(cs, n + 1, row, RowCapacity)
        IN  \/ r.ret = "ERROR" /\ r.cells = cs
            \/ r.ret = "SUCCESS" /\ r.cells = new
    BY <1>2, InsertOutcome
  <2> QED
    BY <1>3, <1>4, <2>1, Zenon

\* An entry of a catalog.
LEMMA EntryAt ==
    ASSUME NEW cs \in Seq(EntryCell), NEW i \in 1 .. Len(cs)
    PROVE  /\ cs[i] \in EntryCell
           /\ cs[i].key \in Nat /\ cs[i].value \in Entry
           /\ cs[i].value.name \in Name /\ cs[i].value.root_page \in Nat
<1>1. cs[i] \in EntryCell
  OBVIOUS
<1>2. cs[i].key \in Nat /\ cs[i].value \in Entry
  BY <1>1 DEF EntryCell
<1>3. cs[i].value.name \in Name /\ cs[i].value.root_page \in Nat
  BY <1>2 DEF Entry
<1> QED
  BY <1>1, <1>2, <1>3

\* The entry of a table is stored as it is: its name is cut already.
LEMMA TableEntryType ==
    ASSUME NEW name \in Name, NEW root \in Nat
    PROVE  /\ TableEntry(name, root) \in Entry
           /\ serialize_entry(TableEntry(name, root)) = TableEntry(name, root)
           /\ TableEntry(name, root).type = "table"
           /\ TableEntry(name, root).name = Cut[name]
           /\ TableEntry(name, root).root_page = root
           /\ EntryKey(TableEntry(name, root)) = 1 + strlen[Cut[name]]
           /\ 1 + strlen[Cut[name]] \in Nat
<1>1. Cut[name] \in Name /\ Cut[Cut[name]] = Cut[name] /\ strlen[Cut[name]] \in Nat
  BY CatalogAssumption
<1>2. TableEntry(name, root) \in Entry
  BY <1>1 DEF TableEntry, Entry
<1>3. serialize_entry(TableEntry(name, root)) = TableEntry(name, root)
  <2> DEFINE e == TableEntry(name, root)
             s == serialize_entry(e)
  <2>1. /\ e.type = "table" /\ e.name = Cut[name] /\ e.tbl_name = Cut[name]
        /\ e.root_page = root
    BY DEF TableEntry
  <2>2. e \in Entry
    BY <1>2
  <2> HIDE DEF e
  <2>3. s \in Entry
    BY <1>1, <2>1, <2>2, Zenon DEF serialize_entry, Entry
  <2>4. /\ s.type = "table" /\ s.name = Cut[name] /\ s.tbl_name = Cut[name]
        /\ s.root_page = root
    BY <1>1, <2>1, <2>2 DEF serialize_entry, Entry
  <2> HIDE DEF s
  <2>5. s = e
    BY <2>1, <2>2, <2>3, <2>4 DEF Entry
  <2> QED
    BY <2>5 DEF s, e
<1>4. /\ TableEntry(name, root).type = "table"
      /\ TableEntry(name, root).name = Cut[name]
      /\ TableEntry(name, root).root_page = root
  BY DEF TableEntry
<1>5. EntryKey(TableEntry(name, root)) = 1 + strlen[Cut[name]]
  BY <1>4 DEF EntryKey
<1> QED
  BY <1>1, <1>2, <1>3, <1>4, <1>5

\* The entry of a table on a new page goes behind the others, or nowhere.
LEMMA EntriesInsert ==
    ASSUME NEW cs, NEW root \in Nat, NEW last \in Nat, root <= last,
           GoodEntries(cs, root, last), NEW name \in Name
    PROVE  LET entry == TableEntry(name, last + 1)
               r == insert_entry(cs, entry, CatalogCapacity)
           IN  /\ GoodEntries(r.cells, root, last + 1)
               /\ \/ r.cells = cs
                  \/ /\ r.ret = "SUCCESS"
                     /\ r.cells = Append(cs, [key |-> EntryKey(entry), value |-> entry])
<1> DEFINE entry == TableEntry(name, last + 1)
           cell == [key |-> EntryKey(entry), value |-> entry]
           r == insert_entry(cs, entry, CatalogCapacity)
           new == Append(cs, cell)
<1>1. /\ entry \in Entry /\ entry.type = "table" /\ entry.name \in Name
      /\ entry.root_page = last + 1
      /\ EntryKey(entry) = 1 + strlen[entry.name] /\ EntryKey(entry) \in Nat
      /\ serialize_entry(entry) = entry
  BY TableEntryType, CatalogAssumption
<1> HIDE DEF entry
<1>2. cs \in Seq(EntryCell)
  BY DEF GoodEntries
<1>3. \/ r.cells = cs
      \/ /\ r.ret = "SUCCESS" /\ r.cells = new
         /\ ~ \E i \in 1 .. Len(cs) : cs[i].key = EntryKey(entry)
  <2>1. r = btree_insert(cs, EntryKey(entry), entry, CatalogCapacity)
    BY <1>1 DEF insert_entry
  <2> HIDE DEF r
  <2> QED
    BY <2>1, InsertOutcome
<1> HIDE DEF r
<1>4. GoodEntries(cs, root, last + 1)
  BY EntryAt DEF GoodEntries
<1>5. ASSUME ~ \E i \in 1 .. Len(cs) : cs[i].key = EntryKey(entry)
      PROVE  GoodEntries(new, root, last + 1)
  <2>1. cell \in EntryCell /\ cell.key = EntryKey(entry) /\ cell.value = entry
    BY <1>1 DEF EntryCell
  <2> HIDE DEF cell
  <2>2. /\ new \in Seq(EntryCell) /\ Len(new) = Len(cs) + 1 /\ new[Len(cs) + 1] = cell
        /\ \A i \in 1 .. Len(cs) : new[i] = cs[i]
    BY <1>2, <2>1
  <2> HIDE DEF new
  <2>3. \A i \in 1 .. Len(new) : i \in 1 .. Len(cs) \/ i = Len(cs) + 1
    BY <1>2, <2>2
  <2>4. \A i \in 1 .. Len(cs) :
           cs[i].value.root_page \in Nat /\ cs[i].value.root_page <= last
    BY <1>2, EntryAt DEF GoodEntries
  <2>5. ASSUME NEW i \in 1 .. Len(new)
        PROVE  /\ new[i].value.type = "table"
               /\ new[i].key = 1 + strlen[new[i].value.name]
               /\ new[i].value.root_page \in root + 1 .. last + 1
    <3>1. CASE i \in 1 .. Len(cs)
      BY <3>1, <1>4, <2>2 DEF GoodEntries
    <3>2. CASE i = Len(cs) + 1
      BY <3>2, <1>1, <2>1, <2>2
    <3> QED
      BY <2>3, <3>1, <3>2
  <2>6. ASSUME NEW i \in 1 .. Len(new), NEW j \in 1 .. Len(new)
        PROVE  /\ new[i].key = new[j].key => i = j
               /\ new[i].value.root_page = new[j].value.root_page => i = j
    <3>1. CASE i \in 1 .. Len(cs) /\ j \in 1 .. Len(cs)
      BY <3>1, <2>2 DEF GoodEntries
    <3>2. CASE i = Len(cs) + 1 /\ j \in 1 .. Len(cs)
      BY <3>2, <1>1, <1>5, <2>1, <2>2, <2>4
    <3>3. CASE j = Len(cs) + 1 /\ i \in 1 .. Len(cs)
      BY <3>3, <1>1, <1>5, <2>1, <2>2, <2>4
    <3> QED
      BY <2>3, <3>1, <3>2, <3>3
  <2> QED
    BY <2>2, <2>5, <2>6 DEF GoodEntries
<1> QED
  BY <1>3, <1>4, <1>5, Zenon DEF entry, r

\* Two entries of a good catalog never have one name, so that the scan of
\* lookup has no choice.
LEMMA LookupFound ==
    ASSUME NEW cs, NEW root, NEW last, GoodEntries(cs, root, last),
           NEW i \in 1 .. Len(cs)
    PROVE  /\ lookup(cs, "table", cs[i].value.name) = cs[i].value
           /\ cs[i].value # NoEntry
<1> DEFINE found == Matches(cs, "table", cs[i].value.name)
<1>1. i \in found
  BY DEF Matches, GoodEntries
<1>2. \A j \in found : j = i
  BY DEF Matches, GoodEntries
<1>3. found = {i}
  BY <1>1, <1>2
<1>4. cs \in Seq(EntryCell) /\ i \in Nat
  BY DEF GoodEntries
<1>5. (CHOOSE k \in found : \A j \in found : k <= j) = i
  BY <1>3, <1>4
<1>6. lookup(cs, "table", cs[i].value.name) = cs[i].value
  BY <1>3, <1>5 DEF lookup
<1>7. cs[i].value # NoEntry
  BY DEF GoodEntries, NoEntry
<1> QED
  BY <1>6, <1>7

\* The lookup (catalog.c:179) finds nothing, or an entry of the catalog with
\* this type and name.
LEMMA LookupCases ==
    ASSUME NEW cs, NEW root, NEW last, GoodEntries(cs, root, last), NEW name
    PROVE  \/ /\ lookup(cs, "table", name) = NoEntry
              /\ \A i \in 1 .. Len(cs) : cs[i].value.name # name
           \/ \E i \in 1 .. Len(cs) :
                 cs[i].value.name = name /\ lookup(cs, "table", name) = cs[i].value
<1>1. CASE \E i \in 1 .. Len(cs) : cs[i].value.name = name
  BY <1>1, LookupFound
<1>2. CASE \A i \in 1 .. Len(cs) : cs[i].value.name # name
  <2>1. Matches(cs, "table", name) = {}
    BY <1>2 DEF Matches
  <2> QED
    BY <1>2, <2>1 DEF lookup
<1> QED
  BY <1>1, <1>2
----------------------------------------------------------------------------
(* How a session goes on.                                                  *)

\* A new catalog behind the pages of the file.
LEMMA SessionOpened ==
    ASSUME NEW file \in Seq(Page), NEW n \in Nat
    PROVE  LET root == Len(file) + 1
               cached == Append(file, EmptyLeaf)
           IN  /\ Saved(cached, Append(file, ZeroPage), {root})
               /\ Session(cached, root, n)
<1> DEFINE root == Len(file) + 1
           cached == Append(file, EmptyLeaf)
<1>1. Saved(file, file, {})
  BY PageAt DEF Saved, Begins
<1>2. Saved(cached, Append(file, ZeroPage), {} \cup {root})
  BY <1>1, AppendSaved
<1>3. Len(cached) = root /\ cached[root] = EmptyLeaf /\ root \in Nat /\ root \in 1 .. Len(cached)
  BY PagesType
<1> HIDE DEF cached
<1>4. GoodEntries(<<>>, root, Len(cached))
  BY DEF GoodEntries
<1>5. cached[root].is_leaf /\ cached[root].cells = <<>>
  BY <1>3 DEF EmptyLeaf
<1>6. \A p \in root + 1 .. Len(cached) : FALSE
  BY <1>3
<1>7. Session(cached, root, n)
  BY <1>3, <1>4, <1>5, <1>6 DEF Session
<1> QED
  BY <1>2, <1>7 DEF cached

\* A table on a new page, and its entry in the catalog.
LEMMA SessionCreated ==
    ASSUME NEW cached \in Seq(Page), NEW root, NEW n \in Nat,
           Session(cached, root, n), NEW name \in Name
    PROVE  LET created == Append(cached, EmptyLeaf)
               r == insert_entry(cached[root].cells, TableEntry(name, Len(cached) + 1),
                                 CatalogCapacity)
           IN  Session([created EXCEPT ![root].cells = r.cells], root, n)
<1> DEFINE last == Len(cached)
           created == Append(cached, EmptyLeaf)
           r == insert_entry(cached[root].cells, TableEntry(name, last + 1), CatalogCapacity)
           q == [created EXCEPT ![root].cells = r.cells]
<1>1. last \in Nat /\ root \in 1 .. last /\ root \in Nat /\ root <= last
  BY DEF Session
<1>2. /\ created \in Seq(Page) /\ Len(created) = last + 1
      /\ created[last + 1] = EmptyLeaf
      /\ \A i \in 1 .. last : created[i] = cached[i]
      /\ root \in 1 .. Len(created)
  BY <1>1, PagesType
<1> HIDE DEF created
<1>3. GoodEntries(r.cells, root, last + 1)
  BY <1>1, EntriesInsert, Zenon DEF Session
<1>4. r.cells \in Cells
  BY <1>3, Zenon DEF GoodEntries, Cells
<1> HIDE DEF r
<1>5. /\ q \in Seq(Page) /\ Len(q) = Len(created) /\ q[root].cells = r.cells
      /\ q[root].is_leaf = created[root].is_leaf
      /\ \A i \in 1 .. Len(created) : i # root => q[i] = created[i]
  BY <1>2, <1>4, PutCells
<1> HIDE DEF q
<1>6. q[root].is_leaf
  BY <1>1, <1>2, <1>5 DEF Session
<1>7. ASSUME NEW p \in root + 1 .. Len(q)
      PROVE  q[p].is_leaf /\ GoodRows(q[p].cells, n)
  <2>1. p \in 1 .. Len(created) /\ p # root /\ q[p] = created[p]
    BY <1>1, <1>2, <1>5
  <2>2. CASE p \in root + 1 .. last
    BY <2>1, <2>2, <1>1, <1>2 DEF Session
  <2>3. CASE p = last + 1
    <3>1. q[p].is_leaf /\ q[p].cells = <<>>
      BY <2>1, <2>3, <1>2 DEF EmptyLeaf
    <3>2. GoodRows(<<>>, n)
      BY DEF GoodRows
    <3> QED
      BY <3>1, <3>2
  <2> QED
    <3>1. p \in root + 1 .. last \/ p = last + 1
      BY <1>1, <1>2, <1>5
    <3> QED
      BY <2>2, <2>3, <3>1
<1>8. root \in 1 .. Len(q) /\ Len(q) = last + 1
  BY <1>2, <1>5
<1>9. GoodEntries(q[root].cells, root, Len(q))
  BY <1>3, <1>5, <1>8
<1> QED
  BY <1>6, <1>7, <1>8, <1>9, Zenon DEF Session, q, r, created

\* A row, under the next key, in one of the tables.
LEMMA SessionInserted ==
    ASSUME NEW cached \in Seq(Page), NEW root, NEW n \in Nat,
           Session(cached, root, n), NEW p \in root + 1 .. Len(cached), NEW row \in Row
    PROVE  LET r == btree_insert(cached[p].cells, n + 1, row, RowCapacity)
           IN  Session([cached EXCEPT ![p].cells = r.cells], root, n + 1)
<1> DEFINE r == btree_insert(cached[p].cells, n + 1, row, RowCapacity)
           q == [cached EXCEPT ![p].cells = r.cells]
<1>1. Len(cached) \in Nat /\ root \in 1 .. Len(cached) /\ p \in 1 .. Len(cached) /\ p # root
  BY DEF Session
<1>2. GoodRows(r.cells, n + 1)
  BY RowsInsert, Zenon DEF Session
<1>3. r.cells \in Cells
  BY <1>2 DEF GoodRows, Cells
<1> HIDE DEF r
<1>4. /\ q \in Seq(Page) /\ Len(q) = Len(cached) /\ q[p].cells = r.cells
      /\ q[p].is_leaf = cached[p].is_leaf
      /\ \A i \in 1 .. Len(cached) : i # p => q[i] = cached[i]
  BY <1>1, <1>3, PutCells
<1> HIDE DEF q
<1>5. q[root] = cached[root]
  BY <1>1, <1>4
<1>6. ASSUME NEW i \in root + 1 .. Len(q)
      PROVE  q[i].is_leaf /\ GoodRows(q[i].cells, n + 1)
  <2>1. CASE i = p
    BY <1>2, <1>4, <2>1 DEF Session
  <2>2. CASE i # p
    <3>1. i \in 1 .. Len(cached) /\ i \in root + 1 .. Len(cached)
      BY <1>1, <1>4
    <3>2. q[i] = cached[i]
      BY <3>1, <2>2, <1>4
    <3>3. cached[i].is_leaf /\ GoodRows(cached[i].cells, n)
      BY <3>1 DEF Session
    <3> QED
      BY <3>2, <3>3, RowsGrow
  <2> QED
    BY <2>1, <2>2
<1> QED
  BY <1>1, <1>4, <1>5, <1>6 DEF Session, q, r
----------------------------------------------------------------------------
(* The invariant is inductive.                                             *)

\* The invariant holds before the first session.
LEMMA InitInv == Init => IInv
<1> SUFFICES ASSUME Init PROVE IInv
  OBVIOUS
<1>1. FileOK
  <2>1. is_open \in BOOLEAN
    BY Zenon DEF Init
  <2>2. stored \in Seq(Page) /\ Len(stored) = 0 /\ rowid_counter = 0
    BY DEF Init
  <2> QED
    BY <2>1, <2>2, DatabaseAssumption DEF FileOK
<1>2. ExecutorsOK
  BY DEF Init, ExecutorsOK, ExecutorState, NoExecutor
<1>3. SessionOK
  BY DEF Init, SessionOK
<1> QED
  BY <1>1, <1>2, <1>3 DEF IInv

\* What tinydb_open makes of the file it finds is a file.
LEMMA StartFileType ==
    ASSUME IInv, NEW readable \in BOOLEAN
    PROVE  /\ StartFile(readable) \in Seq(Page)
           /\ Len(StartFile(readable)) \in Nat /\ Len(StartFile(readable)) <= MaxPages
BY DatabaseAssumption DEF IInv, FileOK, StartFile

\* tinydb_open starts a session with an empty catalog behind the pages of the
\* file.
LEMMA OpenInv ==
    ASSUME IInv, NEW readable \in BOOLEAN, tinydb_open(readable)
    PROVE  IInv'
<1> DEFINE file == StartFile(readable)
           root == Len(file) + 1
<1>1. file \in Seq(Page) /\ Len(file) \in Nat
  BY StartFileType
<1>2. /\ root <= MaxPages
      /\ pages' = Append(file, EmptyLeaf)
      /\ stored' = Append(file, ZeroPage)
      /\ dirty' = {root} /\ catalog' = root
      /\ is_open' = TRUE /\ exec' = exec /\ rowid_counter' = rowid_counter
  BY DEF tinydb_open
<1>3. rowid_counter \in Nat
  BY DatabaseAssumption DEF IInv, FileOK
<1> HIDE DEF file
<1>4. FileOK'
  BY <1>1, <1>2, PagesType DEF IInv, FileOK
<1>5. ExecutorsOK'
  BY <1>2 DEF IInv, ExecutorsOK
<1>6. SessionOK'
  BY <1>1, <1>2, <1>3, SessionOpened, Zenon DEF SessionOK
<1> QED
  BY <1>4, <1>5, <1>6 DEF IInv

\* An open that fails leaves no session.
LEMMA OpenFailsInv ==
    ASSUME IInv, NEW readable \in BOOLEAN, NEW grown \in BOOLEAN,
           tinydb_open_fails(readable, grown)
    PROVE  IInv'
<1> DEFINE file == StartFile(readable)
<1>1. file \in Seq(Page) /\ Len(file) \in Nat /\ Len(file) <= MaxPages
  BY StartFileType
<1>2. /\ ~is_open
      /\ grown => Len(file) < MaxPages
      /\ stored' = IF grown THEN Append(file, ZeroPage) ELSE file
      /\ UNCHANGED <<is_open, pages, dirty, catalog, exec, rowid_counter>>
  BY DEF tinydb_open_fails
<1> HIDE DEF file
<1>3. FileOK'
  <2>1. CASE grown
    <3>1. stored' = Append(file, ZeroPage)
      BY <1>2, <2>1
    <3>2. stored' \in Seq(Page) /\ Len(stored') = Len(file) + 1
      BY <3>1, <1>1, PagesType
    <3> QED
      BY <3>2, <1>1, <1>2, <2>1, DatabaseAssumption DEF IInv, FileOK
  <2>2. CASE ~grown
    BY <1>1, <1>2, <2>2 DEF IInv, FileOK
  <2> QED
    BY <2>1, <2>2
<1>4. ExecutorsOK'
  BY <1>2 DEF IInv, ExecutorsOK
<1>5. SessionOK'
  BY <1>2 DEF IInv, SessionOK
<1> QED
  BY <1>3, <1>4, <1>5 DEF IInv

\* The end of a session leaves the file and no executor.
LEMMA ForgetInv ==
    ASSUME Forget, stored' \in Seq(Page), Len(stored') <= MaxPages,
           rowid_counter' \in 0 .. MaxRowid
    PROVE  IInv'
<1>1. FileOK'
  BY Zenon DEF Forget, FileOK
<1>2. ExecutorsOK'
  BY DEF Forget, ExecutorsOK, ExecutorState, NoExecutor
<1>3. SessionOK'
  BY DEF Forget, SessionOK
<1> QED
  BY <1>1, <1>2, <1>3 DEF IInv

\* What a flush leaves of a session.
LEMMA FlushInv ==
    ASSUME IInv, is_open, is_open' = is_open, catalog' = catalog, exec' = exec,
           rowid_counter' \in 0 .. MaxRowid,
           NEW cached, NEW file, NEW unsaved,
           Saved(cached, file, unsaved), Len(cached) <= MaxPages,
           Session(cached, catalog, rowid_counter'),
           Flush(cached, file, unsaved)
    PROVE  IInv'
<1>1. pages' = cached /\ Saved(pages', stored', dirty')
  BY FlushSaved
<1>2. FileOK'
  BY <1>1 DEF IInv, FileOK, Saved
<1>3. ExecutorsOK'
  BY DEF IInv, ExecutorsOK
<1>4. SessionOK'
  BY <1>1 DEF SessionOK
<1> QED
  BY <1>2, <1>3, <1>4 DEF IInv

\* tinydb_close saves a part of the dirty pages and ends the session.
LEMMA CloseInv ==
    ASSUME IInv, NEW W \in SUBSET dirty, tinydb_close(W)
    PROVE  IInv'
<1>1. Saved(pages, stored, dirty)
  BY DEF IInv, SessionOK, tinydb_close
<1>2. Saved(pages, Written(stored, pages, W), dirty \ W)
  BY <1>1, WrittenSaved
<1>3. stored' = Written(stored, pages, W) /\ rowid_counter' = rowid_counter /\ Forget
  BY DEF tinydb_close
<1>4. stored' \in Seq(Page) /\ Len(stored') <= MaxPages
  BY <1>1, <1>2, <1>3 DEF Saved, IInv, FileOK
<1> QED
  BY <1>3, <1>4, ForgetInv DEF IInv, FileOK

\* A kill ends the session and leaves the file as it is.
LEMMA KilledInv == IInv /\ Killed => IInv'
BY ForgetInv, DatabaseAssumption DEF IInv, FileOK, Killed

\* Executors come and go, and no statement or transaction of theirs that is
\* quiet touches a page.
LEMMA QuietInv ==
    ASSUME IInv, Quiet, ExecutorsOK'
    PROVE  IInv'
<1>1. FileOK' /\ SessionOK'
  BY DEF IInv, Quiet, FileOK, SessionOK
<1> QED
  BY <1>1 DEF IInv

\* The calls that change executors only, or fail, keep the pages.
LEMMA ExecutorInv ==
    ASSUME IInv, NEW e \in Executor,
           \/ executor_create(e) \/ executor_destroy(e)
           \/ executor_exec_begin(e) \/ executor_exec_commit(e) \/ executor_exec_rollback(e)
           \/ executor_exec_stub(e) \/ create_table_fails(e)
    PROVE  IInv'
<1>1. ExecutorsOK /\ exec \in [Executor -> ExecutorState] /\ exec[e] \in ExecutorState
  BY DEF IInv, ExecutorsOK
<1>2. Quiet /\ is_open' = is_open
  BY Zenon DEF executor_create, executor_destroy, executor_exec_begin, executor_exec_commit,
         executor_exec_rollback, EndTransaction, executor_exec_stub, create_table_fails, Quiet
<1>3. \A x \in ExecutorState :
         /\ (x.in_transaction <=> x.txn_state = "ACTIVE")
         /\ x.live => is_open
         /\ exec' = [exec EXCEPT ![e] = x]
         => ExecutorsOK'
  BY <1>1, <1>2 DEF ExecutorsOK
<1>4. exec' = exec => ExecutorsOK'
  BY <1>1, <1>2 DEF ExecutorsOK
<1>5. CASE executor_create(e)
  <2> DEFINE x == [NoExecutor EXCEPT !.live = TRUE]
  <2>1. x \in ExecutorState /\ x.in_transaction = FALSE /\ x.txn_state = "NONE"
    BY Zenon DEF NoExecutor, ExecutorState
  <2>2. is_open /\ exec' = [exec EXCEPT ![e] = x]
    BY <1>5 DEF executor_create
  <2> QED
    BY <2>1, <2>2, <1>2, <1>3, QuietInv, Zenon
<1>6. CASE executor_destroy(e)
  <2>1. NoExecutor \in ExecutorState /\ NoExecutor.in_transaction = FALSE
        /\ NoExecutor.txn_state = "NONE" /\ NoExecutor.live = FALSE
    BY DEF NoExecutor, ExecutorState
  <2>2. exec' = [exec EXCEPT ![e] = NoExecutor]
    BY <1>6 DEF executor_destroy
  <2> QED
    BY <2>1, <2>2, <1>2, <1>3, QuietInv, Zenon
<1>7. ASSUME NEW b \in BOOLEAN, NEW t \in {"ACTIVE", "COMMITTED", "ROLLED_BACK"},
             b <=> t = "ACTIVE", exec[e].live, SetTransaction(e, b, t)
      PROVE  IInv'
  <2> DEFINE x == [exec[e] EXCEPT !.in_transaction = b, !.txn_state = t]
  <2>1. x \in ExecutorState /\ x.in_transaction = b /\ x.txn_state = t /\ x.live = exec[e].live
    BY <1>1, Zenon DEF ExecutorState
  <2>2. exec' = [exec EXCEPT ![e] = x]
    BY <1>1, <1>7, Zenon DEF SetTransaction
  <2>3. is_open
    BY <1>1, <1>7 DEF ExecutorsOK
  <2> HIDE DEF x
  <2> QED
    BY <2>1, <2>2, <2>3, <1>2, <1>3, <1>7, QuietInv, Zenon
<1>8. CASE executor_exec_begin(e)
  BY <1>2, <1>4, <1>7, <1>8, QuietInv, Zenon DEF executor_exec_begin
<1>9. CASE executor_exec_commit(e)
  BY <1>2, <1>4, <1>7, <1>9, QuietInv, Zenon DEF executor_exec_commit, EndTransaction
<1>10. CASE executor_exec_rollback(e)
  BY <1>2, <1>4, <1>7, <1>10, QuietInv, Zenon DEF executor_exec_rollback, EndTransaction
<1>11. CASE executor_exec_stub(e) \/ create_table_fails(e)
  BY <1>2, <1>4, <1>11, QuietInv DEF executor_exec_stub, create_table_fails
<1> QED
  BY <1>5, <1>6, <1>8, <1>9, <1>10, <1>11

\* A live executor has an open session.
LEMMA LiveOpen ==
    ASSUME IInv, NEW e \in Executor, exec[e].live
    PROVE  /\ is_open
           /\ Saved(pages, stored, dirty) /\ Session(pages, catalog, rowid_counter)
           /\ pages \in Seq(Page) /\ Len(pages) \in Nat /\ Len(pages) <= MaxPages
           /\ catalog \in 1 .. Len(pages) /\ rowid_counter \in Nat
<1>1. is_open
  BY DEF IInv, ExecutorsOK
<1>2. Saved(pages, stored, dirty) /\ Session(pages, catalog, rowid_counter)
  BY <1>1 DEF IInv, SessionOK
<1> QED
  BY <1>1, <1>2, DatabaseAssumption DEF IInv, FileOK, Saved, Session

\* CREATE TABLE takes a new page and a new entry, or fails halfway.
LEMMA CreateTableInv ==
    ASSUME IInv, NEW e \in Executor, NEW name \in Name, NEW survives \in BOOLEAN,
           executor_exec_create_table(e, name, survives)
    PROVE  IInv'
<1> DEFINE root == Len(pages) + 1
           created == Append(pages, EmptyLeaf)
           r == insert_entry(CatalogCells, TableEntry(name, root), CatalogCapacity)
           q == [created EXCEPT ![catalog].cells = r.cells]
<1>1. exec[e].live /\ Len(pages) < MaxPages
  BY DEF executor_exec_create_table
<1>2. /\ is_open
      /\ Saved(pages, stored, dirty) /\ Session(pages, catalog, rowid_counter)
      /\ pages \in Seq(Page) /\ Len(pages) \in Nat
      /\ catalog \in 1 .. Len(pages) /\ rowid_counter \in Nat
  BY <1>1, LiveOpen
<1>3. PICK W \in SUBSET (dirty \cup {root}) :
         LET file == Written(Append(stored, ZeroPage), created, W)
         IN  IF survives
             THEN /\ Flush(q, file, ((dirty \cup {root}) \ W) \cup Changed(catalog, r.cells))
                  /\ UNCHANGED <<is_open, catalog, exec, rowid_counter>>
             ELSE /\ stored' = file /\ Forget /\ rowid_counter' = 0
  BY Zenon DEF executor_exec_create_table
<1> DEFINE file == Written(Append(stored, ZeroPage), created, W)
<1>4. Saved(created, Append(stored, ZeroPage), dirty \cup {root})
  BY <1>2, AppendSaved
<1>5. Saved(created, file, (dirty \cup {root}) \ W)
  BY <1>4, WrittenSaved
<1>6. Len(created) = root /\ created[catalog] = pages[catalog] /\ catalog \in 1 .. Len(created)
  BY <1>2, PagesType
<1>7. CASE ~survives
  <2>1. stored' = file /\ Forget /\ rowid_counter' = 0
    BY <1>3, <1>7
  <2>2. stored' \in Seq(Page) /\ Len(stored') = root
    BY <2>1, <1>5, <1>6 DEF Saved
  <2>3. Len(stored') <= MaxPages
    BY <2>2, <1>1, <1>2, DatabaseAssumption
  <2> QED
    BY <2>1, <2>2, <2>3, ForgetInv, DatabaseAssumption
<1>8. CASE survives
  <2>1. /\ Flush(q, file, ((dirty \cup {root}) \ W) \cup Changed(catalog, r.cells))
        /\ UNCHANGED <<is_open, catalog, exec, rowid_counter>>
    BY <1>3, <1>8
  <2>2. Session(q, catalog, rowid_counter)
    BY <1>2, SessionCreated, SMTT(30) DEF CatalogCells
  <2>3. /\ r.cells \in Seq(EntryCell)
        /\ r.cells = pages[catalog].cells
           \/ \E cell : r.cells = Append(pages[catalog].cells, cell)
    <3>1. GoodEntries(pages[catalog].cells, catalog, Len(pages)) /\ catalog \in Nat
          /\ catalog <= Len(pages)
      BY <1>2 DEF Session
    <3> DEFINE entry == TableEntry(name, root)
    <3>2. r = insert_entry(pages[catalog].cells, entry, CatalogCapacity)
      BY DEF CatalogCells
    <3> HIDE DEF r
    <3>3. /\ GoodEntries(r.cells, catalog, root)
          /\ \/ r.cells = pages[catalog].cells
             \/ r.cells = Append(pages[catalog].cells, [key |-> EntryKey(entry), value |-> entry])
      BY <3>1, <3>2, <1>2, EntriesInsert, Zenon
    <3> HIDE DEF entry
    <3> QED
      BY <3>3, Zenon DEF GoodEntries
  <2> HIDE DEF r, q, created, file
  <2>4. pages[catalog].cells \in Seq(EntryCell)
    BY <1>2 DEF Session, GoodEntries
  <2>5. Begins(pages[catalog].cells, r.cells)
    BY <2>3, <2>4 DEF Begins
  <2>6. r.cells = created[catalog].cells \/ catalog \in Changed(catalog, r.cells)
    BY <1>6 DEF Changed
  <2>7. Changed(catalog, r.cells) \subseteq 1 .. Len(created) /\ r.cells \in Cells
    BY <1>6, <2>3 DEF Changed, Cells
  <2>8. Saved(q, file, ((dirty \cup {root}) \ W) \cup Changed(catalog, r.cells))
    BY <1>5, <1>6, <2>5, <2>6, <2>7, PutSaved, Zenon DEF q
  <2>9. Len(q) <= MaxPages
    <3>1. Len(q) = Len(created)
      BY <1>5, <1>6, <2>7, PutCells DEF q, Saved
    <3> QED
      BY <3>1, <1>1, <1>2, <1>6, DatabaseAssumption
  <2>10. rowid_counter' \in 0 .. MaxRowid
    BY <2>1 DEF IInv, FileOK
  <2> QED
    BY <1>2, <2>1, <2>2, <2>8, <2>9, <2>10, FlushInv
<1> QED
  BY <1>7, <1>8

\* The page of a table that lookup finds, by its place in the catalog.
LEMMA FoundRoot ==
    ASSUME IInv, NEW e \in Executor, exec[e].live, NEW name,
           lookup(CatalogCells, "table", name) # NoEntry
    PROVE  \E i \in 1 .. Len(CatalogCells) :
              /\ CatalogCells[i].value.name = name
              /\ lookup(CatalogCells, "table", name) = CatalogCells[i].value
              /\ CatalogCells[i].value.root_page \in catalog + 1 .. Len(pages)
<1>1. GoodEntries(CatalogCells, catalog, Len(pages))
  BY LiveOpen DEF Session, CatalogCells
<1>2. PICK i \in 1 .. Len(CatalogCells) :
         CatalogCells[i].value.name = name
         /\ lookup(CatalogCells, "table", name) = CatalogCells[i].value
  BY <1>1, LookupCases
<1>3. CatalogCells[i].value.root_page \in catalog + 1 .. Len(pages)
  BY <1>1, SMTT(30) DEF GoodEntries
<1> QED
  BY <1>2, <1>3

\* What an INSERT into a table that exists does to the pages.
LEMMA InsertSteps ==
    ASSUME IInv, NEW e \in Executor, NEW name \in Name, NEW row \in Row,
           executor_exec_insert(e, name, row), lookup(CatalogCells, "table", name) # NoEntry
    PROVE  LET root == lookup(CatalogCells, "table", name).root_page
               r == btree_insert(pages[root].cells, rowid_counter + 1, row, RowCapacity)
           IN  /\ root \in catalog + 1 .. Len(pages)
               /\ r.cells \in Cells
               /\ \/ r.ret = "ERROR" /\ r.cells = pages[root].cells
                  \/ /\ r.ret = "SUCCESS"
                     /\ r.cells = Append(pages[root].cells,
                                         [key |-> rowid_counter + 1, value |-> row])
               /\ pages' = [pages EXCEPT ![root].cells = r.cells]
               /\ Saved(pages', stored', dirty')
               /\ Session(pages', catalog, rowid_counter')
               /\ rowid_counter' \in 0 .. MaxRowid
               /\ UNCHANGED <<is_open, catalog, exec>>
               /\ reply' = [op |-> "insert", by |-> e, name |-> name, row |-> row,
                            rowid |-> rowid_counter + 1, ret |-> r.ret]
<1> DEFINE root == lookup(CatalogCells, "table", name).root_page
           rowid == rowid_counter + 1
           r == btree_insert(pages[root].cells, rowid, row, RowCapacity)
           q == [pages EXCEPT ![root].cells = r.cells]
           S == Changed(root, r.cells)
<1>1. exec[e].live
  BY DEF executor_exec_insert
<1>2. /\ Saved(pages, stored, dirty) /\ Session(pages, catalog, rowid_counter)
      /\ pages \in Seq(Page) /\ Len(pages) \in Nat /\ Len(pages) <= MaxPages
      /\ catalog \in 1 .. Len(pages) /\ rowid_counter \in Nat
  BY <1>1, LiveOpen
<1>3. root \in catalog + 1 .. Len(pages)
  BY <1>1, FoundRoot
<1>4. root \in 1 .. Len(pages)
  BY <1>2, <1>3
<1>5. /\ rowid <= MaxRowid /\ rowid_counter' = rowid
      /\ Flush(q, stored, dirty \cup S)
      /\ reply' = [op |-> "insert", by |-> e, name |-> name, row |-> row,
                   rowid |-> rowid, ret |-> r.ret]
      /\ UNCHANGED <<is_open, catalog, exec>>
  BY SMTT(30) DEF executor_exec_insert
<1> HIDE DEF root
<1>6. /\ GoodRows(r.cells, rowid)
      /\ \/ r.ret = "ERROR" /\ r.cells = pages[root].cells
         \/ r.ret = "SUCCESS" /\ r.cells = Append(pages[root].cells, [key |-> rowid, value |-> row])
  BY <1>2, <1>3, RowsInsert, Zenon DEF Session
<1>7. Session(q, catalog, rowid)
  BY <1>2, <1>3, SessionInserted
<1> HIDE DEF r
<1>8. r.cells \in Cells
  BY <1>6 DEF GoodRows, Cells
<1>9. Begins(pages[root].cells, r.cells)
  <2>1. pages[root].cells \in Seq(RowCell)
    BY <1>2, <1>3 DEF Session, GoodRows
  <2>2. r.cells \in Seq(RowCell)
    BY <1>6 DEF GoodRows
  <2> QED
    BY <1>6, <2>1, <2>2, SMTT(30) DEF Begins
<1>10. S \subseteq 1 .. Len(pages) /\ (r.cells = pages[root].cells \/ root \in S)
  BY <1>4 DEF Changed
<1> HIDE DEF S
<1>11. Saved(q, stored, dirty \cup S)
  BY <1>2, <1>4, <1>8, <1>9, <1>10, PutSaved, Zenon
<1>12. pages' = q /\ Saved(pages', stored', dirty')
  BY <1>5, <1>11, FlushSaved
<1>13. rowid_counter' \in 0 .. MaxRowid
  BY <1>2, <1>5, DatabaseAssumption
<1> HIDE DEF q
<1>14. Session(pages', catalog, rowid_counter')
  BY <1>5, <1>7, <1>12
<1> QED
  BY <1>3, <1>5, <1>6, <1>8, <1>12, <1>13, <1>14, Zenon DEF q, r, root

\* INSERT adds a row with the next key, or none.
LEMMA InsertInv ==
    ASSUME IInv, NEW e \in Executor, NEW name \in Name, NEW row \in Row,
           executor_exec_insert(e, name, row)
    PROVE  IInv'
<1>1. CASE lookup(CatalogCells, "table", name) = NoEntry
  <2>1. UNCHANGED <<is_open, catalog, exec, pages, stored, dirty, rowid_counter>>
    BY <1>1 DEF executor_exec_insert
  <2> QED
    BY <2>1 DEF IInv, FileOK, ExecutorsOK, SessionOK
<1>2. CASE lookup(CatalogCells, "table", name) # NoEntry
  <2>1. /\ Saved(pages', stored', dirty') /\ Session(pages', catalog, rowid_counter')
        /\ rowid_counter' \in 0 .. MaxRowid
        /\ UNCHANGED <<is_open, catalog, exec>>
        /\ \E root, cs : root \in catalog + 1 .. Len(pages) /\ cs \in Cells
                         /\ pages' = [pages EXCEPT ![root].cells = cs]
    BY <1>2, InsertSteps, Zenon
  <2>2. is_open /\ pages \in Seq(Page) /\ Len(pages) <= MaxPages /\ catalog \in 1 .. Len(pages)
    BY LiveOpen DEF executor_exec_insert
  <2>3. PICK root, cs : root \in catalog + 1 .. Len(pages) /\ cs \in Cells
                        /\ pages' = [pages EXCEPT ![root].cells = cs]
    BY <2>1, Zenon
  <2>4. root \in 1 .. Len(pages)
    BY <2>2, <2>3
  <2>5. Len(pages') = Len(pages)
    BY <2>2, <2>3, <2>4, PutCells
  <2>6. FileOK'
    BY <2>1, <2>2, <2>5 DEF Saved, IInv, FileOK
  <2>7. ExecutorsOK'
    BY <2>1 DEF IInv, ExecutorsOK
  <2>8. SessionOK'
    BY <2>1, <2>2 DEF SessionOK
  <2> QED
    BY <2>6, <2>7, <2>8, SMTT(30) DEF IInv
<1> QED
  BY <1>1, <1>2

\* SELECT keeps the pages, or ends with a flush.
LEMMA SelectInv ==
    ASSUME IInv, NEW e \in Executor, NEW name \in Name, executor_exec_select(e, name)
    PROVE  IInv'
<1>1. CASE lookup(CatalogCells, "table", name) = NoEntry
  <2>1. UNCHANGED <<is_open, catalog, exec, pages, stored, dirty, rowid_counter>>
    BY <1>1 DEF executor_exec_select
  <2> QED
    BY <2>1 DEF IInv, FileOK, ExecutorsOK, SessionOK
<1>2. CASE lookup(CatalogCells, "table", name) # NoEntry
  <2>1. Flush(pages, stored, dirty) /\ UNCHANGED <<is_open, catalog, exec, rowid_counter>>
    BY <1>2, SMTT(30) DEF executor_exec_select
  <2>2. /\ is_open /\ Saved(pages, stored, dirty) /\ Len(pages) <= MaxPages
        /\ Session(pages, catalog, rowid_counter)
    BY LiveOpen DEF executor_exec_select
  <2>3. rowid_counter' \in 0 .. MaxRowid
    BY <2>1 DEF IInv, FileOK
  <2> QED
    BY <2>1, <2>2, <2>3, FlushInv
<1> QED
  BY <1>1, <1>2

\* Every step preserves the invariant.
LEMMA NextInv == IInv /\ [Next]_vars => IInv'
<1> SUFFICES ASSUME IInv, [Next]_vars PROVE IInv'
  OBVIOUS
<1>1. ASSUME NEW e \in Executor, NEW name \in TableName, Statement(e, name)
      PROVE  IInv'
  <2>1. name \in Name
    BY DatabaseAssumption
  <2> QED
    BY <1>1, <2>1, CreateTableInv, InsertInv, SelectInv DEF Statement
<1>2. CASE UNCHANGED vars
  BY <1>2 DEF vars, IInv, FileOK, ExecutorsOK, SessionOK
<1>3. CASE \E readable \in BOOLEAN : tinydb_open(readable)
  BY <1>3, OpenInv
<1>4. CASE \E readable, grown \in BOOLEAN : tinydb_open_fails(readable, grown)
  BY <1>4, OpenFailsInv
<1>5. CASE \E W \in SUBSET dirty : tinydb_close(W)
  BY <1>5, CloseInv
<1>6. CASE Killed
  BY <1>6, KilledInv
<1> QED
  BY <1>1, <1>2, <1>3, <1>4, <1>5, <1>6, ExecutorInv DEF Next

\* Every reachable state satisfies the inductive invariant: the catalog of a
\* session and the pages of its tables, and their copies in the file.
THEOREM DatabaseInvariant == Spec => []IInv
BY InitInv, NextInv, PTL DEF Spec

----------------------------------------------------------------------------
(* What it implies.                                                        *)

\* A session gives out nothing that is in use: the page of a new table and the
\* key of a new row are new (tinydb_open, executor_exec_create_table and
\* executor_exec_insert), for any number of tables, rows, executors and
\* restarts.
THEOREM DatabaseFreshIds == Spec => []FreshIds
<1>1. IInv => FreshIds
  <2> SUFFICES ASSUME IInv PROVE FreshIds
    OBVIOUS
  <2>1. TypeOK
    <3>1. CASE is_open
      <4>1. /\ Saved(pages, stored, dirty) /\ pages \in Seq(Page) /\ Len(pages) = Len(stored)
            /\ dirty \subseteq 1 .. Len(pages) /\ catalog \in 1 .. Len(pages)
        BY <3>1 DEF IInv, SessionOK, Saved, Session
      <4>2. \A p \in 1 .. Len(pages) :
               pages[p].cells \in Seq(RowCell) \/ pages[p].cells \in Seq(EntryCell)
        BY <4>1, PageAt DEF Cells
      <4> QED
        BY <3>1, <4>1, <4>2 DEF TypeOK, IInv, FileOK, ExecutorsOK
    <3>2. CASE ~is_open
      <4>1. pages = <<>> /\ dirty = {}
        BY <3>2 DEF IInv, SessionOK
      <4>2. \A p \in 1 .. Len(pages) :
               pages[p].cells \in Seq(RowCell) \/ pages[p].cells \in Seq(EntryCell)
        BY <4>1, SMTT(30)
      <4> QED
        BY <3>2, <4>1, <4>2 DEF TypeOK, IInv, FileOK, ExecutorsOK
    <3> QED
      BY <3>1, <3>2
  <2>2. RootsSound
    <3> SUFFICES ASSUME is_open PROVE RootsSound
      BY DEF RootsSound
    <3>1. Session(pages, catalog, rowid_counter)
      BY DEF IInv, SessionOK
    <3> QED
      BY <3>1 DEF Session, GoodEntries, RootsSound, CatalogCells
  <2>3. RowidsFresh
    <3> SUFFICES ASSUME is_open PROVE RowidsFresh
      BY SMTT(30) DEF RowidsFresh
    <3>1. Session(pages, catalog, rowid_counter)
      BY DEF IInv, SessionOK
    <3> QED
      BY <3>1 DEF Session, GoodRows, RowidsFresh
  <2> QED
    BY <2>1, <2>2, <2>3 DEF FreshIds
<1> QED
  BY <1>1, DatabaseInvariant, PTL

\* A page of the file is the cached page or, while that is dirty, an earlier
\* state of it, whatever part of the dirty pages the flushes of btree_close and
\* tinydb_close fail to write.
THEOREM DatabaseStoredIsPrefix == Spec => []StoredIsPrefix
<1>1. IInv => StoredIsPrefix
  <2> SUFFICES ASSUME IInv PROVE StoredIsPrefix
    OBVIOUS
  <2>1. CASE is_open
    BY <2>1 DEF IInv, SessionOK, Saved, Begins, StoredIsPrefix
  <2>2. CASE ~is_open
    BY <2>2, SMTT(30) DEF IInv, SessionOK, StoredIsPrefix
  <2> QED
    BY <2>1, <2>2
<1> QED
  BY <1>1, DatabaseInvariant, PTL
----------------------------------------------------------------------------
(* The executors implement the tables.                                     *)

\* The tables as a function of the pages and of the catalog's page.
NamesIn(cs) == {n \in Name : lookup(cs, "table", n) # NoEntry}
RowsIn(cs) == [i \in 1 .. Len(cs) |-> cs[i].value]
RootOf(cs, n) == lookup(cs, "table", n).root_page
TablesIn(cached, root) ==
    [n \in NamesIn(cached[root].cells) |-> RowsIn(cached[RootOf(cached[root].cells, n)].cells)]

\* The tables of some pages are a function on the names in the catalog.
LEMMA TablesInIs ==
    ASSUME NEW cached, NEW root
    PROVE  /\ DOMAIN TablesIn(cached, root) = NamesIn(cached[root].cells)
           /\ \A n \in NamesIn(cached[root].cells) :
                 TablesIn(cached, root)[n] = RowsIn(cached[RootOf(cached[root].cells, n)].cells)
           /\ TablesIn(cached, root)
                 = [n \in DOMAIN TablesIn(cached, root) |-> TablesIn(cached, root)[n]]
BY DEF TablesIn

\* The abstract tables, from the pages of a session.
LEMMA ContentsIs ==
    Contents = IF is_open THEN TablesIn(pages, catalog) ELSE T!NoTables
BY ZenonT(30) DEF Contents, TableNames, RowsOf, TablesIn, NamesIn, RowsIn, RootOf, CatalogCells, T!NoTables

\* The same after a step.
LEMMA ContentsIsNext ==
    Contents' = IF is_open' THEN TablesIn(pages', catalog') ELSE T!NoTables
BY Zenon DEF Contents, TableNames, RowsOf, TablesIn, NamesIn, RowsIn, RootOf, CatalogCells, T!NoTables

\* The names of a good catalog are those of its entries, each with a page of
\* the session.
LEMMA NamesInEntries ==
    ASSUME NEW cs, NEW root, NEW last, GoodEntries(cs, root, last), NEW n
    PROVE  /\ n \in NamesIn(cs) => \E i \in 1 .. Len(cs) :
                 cs[i].value.name = n /\ RootOf(cs, n) = cs[i].value.root_page
           /\ n \in NamesIn(cs) => RootOf(cs, n) \in root + 1 .. last
           /\ \A i \in 1 .. Len(cs) :
                 cs[i].value.name = n => n \in NamesIn(cs) /\ RootOf(cs, n) = cs[i].value.root_page
<1>1. ASSUME n \in NamesIn(cs)
      PROVE  \E i \in 1 .. Len(cs) :
                 cs[i].value.name = n /\ RootOf(cs, n) = cs[i].value.root_page
  <2>1. lookup(cs, "table", n) # NoEntry
    BY <1>1 DEF NamesIn
  <2>2. PICK i \in 1 .. Len(cs) : cs[i].value.name = n /\ lookup(cs, "table", n) = cs[i].value
    BY <2>1, LookupCases
  <2> QED
    BY <2>2 DEF RootOf
<1>2. ASSUME n \in NamesIn(cs) PROVE RootOf(cs, n) \in root + 1 .. last
  BY <1>1, <1>2 DEF GoodEntries
<1>3. ASSUME NEW i \in 1 .. Len(cs), cs[i].value.name = n
      PROVE  n \in NamesIn(cs) /\ RootOf(cs, n) = cs[i].value.root_page
  <2>1. lookup(cs, "table", n) = cs[i].value /\ cs[i].value # NoEntry
    BY <1>3, LookupFound
  <2>2. n \in Name
    BY <1>3, EntryAt, SMTT(30) DEF GoodEntries
  <2> QED
    BY <2>1, <2>2 DEF NamesIn, RootOf
<1> QED
  BY <1>1, <1>2, <1>3

\* Two names of a good catalog have two pages.
LEMMA RootsDiffer ==
    ASSUME NEW cs, NEW root, NEW last, GoodEntries(cs, root, last),
           NEW n, n \in NamesIn(cs), NEW k, k \in NamesIn(cs), n # k
    PROVE  RootOf(cs, n) # RootOf(cs, k)
<1>1. PICK i \in 1 .. Len(cs) :
         cs[i].value.name = n /\ RootOf(cs, n) = cs[i].value.root_page
  BY NamesInEntries
<1>2. PICK j \in 1 .. Len(cs) :
         cs[j].value.name = k /\ RootOf(cs, k) = cs[j].value.root_page
  BY NamesInEntries
<1>3. cs[i].value.root_page = cs[j].value.root_page => i = j
  BY DEF GoodEntries
<1> QED
  BY <1>1, <1>2, <1>3

\* Pages with the same catalog and the same tables.
LEMMA SameTables ==
    ASSUME NEW a, NEW b, NEW root, NEW last, GoodEntries(a[root].cells, root, last),
           b[root].cells = a[root].cells,
           \A p \in root + 1 .. last : b[p].cells = a[p].cells
    PROVE  TablesIn(b, root) = TablesIn(a, root)
<1>1. \A n \in NamesIn(a[root].cells) : RootOf(a[root].cells, n) \in root + 1 .. last
  BY NamesInEntries, SMTT(30)
<1>2. \A n \in NamesIn(a[root].cells) :
         RowsIn(b[RootOf(a[root].cells, n)].cells) = RowsIn(a[RootOf(a[root].cells, n)].cells)
  BY <1>1
<1> QED
  BY <1>2 DEF TablesIn

\* A new session has no tables.
LEMMA TablesOpened ==
    ASSUME NEW file \in Seq(Page)
    PROVE  TablesIn(Append(file, EmptyLeaf), Len(file) + 1) = T!NoTables
<1> DEFINE cached == Append(file, EmptyLeaf)
           root == Len(file) + 1
<1>1. cached[root] = EmptyLeaf
  BY PagesType
<1>2. cached[root].cells = <<>>
  BY <1>1 DEF EmptyLeaf
<1>3. \A n : lookup(<<>>, "table", n) = NoEntry
  BY DEF lookup, Matches
<1>4. NamesIn(cached[root].cells) = {}
  BY <1>2, <1>3 DEF NamesIn
<1> HIDE DEF cached, root
<1>5. TablesIn(cached, root) = T!NoTables
  BY <1>4, SMTT(30) DEF TablesIn, T!NoTables
<1> QED
  BY <1>5 DEF cached, root

\* CREATE TABLE adds an empty table under a new name, or nothing.
LEMMA TablesCreated ==
    ASSUME NEW cached \in Seq(Page), NEW root, NEW n \in Nat,
           Session(cached, root, n), NEW name \in Name
    PROVE  LET created == Append(cached, EmptyLeaf)
               r == insert_entry(cached[root].cells, TableEntry(name, Len(cached) + 1),
                                 CatalogCapacity)
               old == TablesIn(cached, root)
               new == TablesIn([created EXCEPT ![root].cells = r.cells], root)
           IN  \/ new = old
               \/ /\ r.ret = "SUCCESS"
                  /\ \E m \in Name \ DOMAIN old :
                        new = [k \in DOMAIN old \cup {m} |-> IF k = m THEN <<>> ELSE old[k]]
<1> DEFINE last == Len(cached)
           created == Append(cached, EmptyLeaf)
           entry == TableEntry(name, last + 1)
           cs == cached[root].cells
           r == insert_entry(cs, entry, CatalogCapacity)
           q == [created EXCEPT ![root].cells = r.cells]
           old == TablesIn(cached, root)
           new == TablesIn(q, root)
           cell == [key |-> EntryKey(entry), value |-> entry]
           m == Cut[name]
<1>1. /\ last \in Nat /\ root \in 1 .. last /\ root \in Nat /\ root <= last
      /\ GoodEntries(cs, root, last)
  BY DEF Session
<1>2. /\ created \in Seq(Page) /\ Len(created) = last + 1
      /\ created[last + 1] = EmptyLeaf
      /\ \A i \in 1 .. last : created[i] = cached[i]
      /\ root \in 1 .. Len(created)
  BY <1>1, PagesType
<1>3. /\ GoodEntries(r.cells, root, last + 1)
      /\ \/ r.cells = cs
         \/ r.ret = "SUCCESS" /\ r.cells = Append(cs, cell)
  BY <1>1, EntriesInsert, ZenonT(30)
<1>4. r.cells \in Cells
  BY <1>3, Zenon DEF GoodEntries, Cells
<1>5. /\ entry.name = m /\ m \in Name /\ entry.root_page = last + 1
      /\ EntryKey(entry) = 1 + strlen[m] /\ entry \in Entry /\ EntryKey(entry) \in Nat
  <2>1. last + 1 \in Nat /\ m \in Name
    BY <1>1, CatalogAssumption
  <2> HIDE DEF last
  <2> QED
    BY <2>1, TableEntryType
<1> HIDE DEF r, created
<1>6. /\ Len(q) = last + 1 /\ q[root].cells = r.cells
      /\ \A i \in 1 .. last + 1 : i # root => q[i] = created[i]
  BY <1>2, <1>4, PutCells
<1>7. \A p \in root + 1 .. last : q[p].cells = cached[p].cells
  BY <1>1, <1>2, <1>6
<1>8. q[last + 1].cells = <<>>
  BY <1>1, <1>2, <1>6 DEF EmptyLeaf
<1> HIDE DEF q, entry, m
<1>9. ASSUME r.cells = cs PROVE new = old
  <2>1. q[root].cells = cached[root].cells
    BY <1>6, <1>9
  <2>2. GoodEntries(cached[root].cells, root, last)
    BY <1>1
  <2> HIDE DEF last, cell
  <2> QED
    BY <1>7, <2>1, <2>2, SameTables
<1>10. ASSUME r.ret = "SUCCESS" /\ r.cells = Append(cs, cell)
       PROVE  \E k \in Name \ DOMAIN old :
                 new = [j \in DOMAIN old \cup {k} |-> IF j = k THEN <<>> ELSE old[j]]
  <2>1. cs \in Seq(EntryCell)
    BY <1>1 DEF GoodEntries
  <2>2. cell \in EntryCell /\ cell.value = entry /\ cell.key = 1 + strlen[m]
    BY <1>5 DEF EntryCell
  <2> HIDE DEF cell, cs
  <2>3. /\ Len(r.cells) = Len(cs) + 1 /\ r.cells[Len(cs) + 1] = cell
        /\ \A i \in 1 .. Len(cs) : r.cells[i] = cs[i]
        /\ Len(cs) \in Nat
    BY <1>10, <2>1, <2>2, SMTT(30)
  <2>4. m \notin NamesIn(cs)
    <3> SUFFICES ASSUME m \in NamesIn(cs) PROVE FALSE
      OBVIOUS
    <3>1. PICK i \in 1 .. Len(cs) : cs[i].value.name = m
      BY <1>1, NamesInEntries, SMTT(30)
    <3>2. cs[i].key = 1 + strlen[m]
      BY <1>1, <3>1, SMTT(30) DEF GoodEntries
    <3>3. r.cells[i].key = r.cells[Len(cs) + 1].key /\ i \in 1 .. Len(r.cells)
          /\ Len(cs) + 1 \in 1 .. Len(r.cells) /\ i # Len(cs) + 1
      BY <2>2, <2>3, <3>2, SMTT(30)
    <3> QED
      BY <1>3, <3>3 DEF GoodEntries
  <2>5. ASSUME NEW k \in NamesIn(cs)
        PROVE  k \in NamesIn(r.cells) /\ RootOf(r.cells, k) = RootOf(cs, k)
               /\ RootOf(cs, k) \in root + 1 .. last
    <3>1. PICK i \in 1 .. Len(cs) :
             cs[i].value.name = k /\ RootOf(cs, k) = cs[i].value.root_page
      BY <1>1, NamesInEntries
    <3>2. i \in 1 .. Len(r.cells) /\ r.cells[i] = cs[i]
      BY <2>3, SMTT(30)
    <3>3. k \in NamesIn(r.cells) /\ RootOf(r.cells, k) = cs[i].value.root_page
      BY <3>1, <3>2, <1>3, NamesInEntries, SMTT(30)
    <3> QED
      BY <3>1, <3>3, <1>1, NamesInEntries, SMTT(30)
  <2>6. m \in NamesIn(r.cells) /\ RootOf(r.cells, m) = last + 1
    <3>1. Len(cs) + 1 \in 1 .. Len(r.cells) /\ r.cells[Len(cs) + 1].value.name = m
          /\ r.cells[Len(cs) + 1].value.root_page = last + 1
      BY <2>2, <2>3, <1>5, SMTT(30)
    <3> QED
      BY <3>1, <1>3, NamesInEntries, SMTT(30)
  <2>7. ASSUME NEW k \in NamesIn(r.cells) PROVE k \in NamesIn(cs) \cup {m}
    <3>1. PICK i \in 1 .. Len(r.cells) : r.cells[i].value.name = k
      BY <1>3, NamesInEntries, SMTT(30)
    <3>2. CASE i \in 1 .. Len(cs)
      BY <3>1, <3>2, <2>3, <1>1, NamesInEntries, SMTT(30)
    <3>3. CASE i = Len(cs) + 1
      BY <3>1, <3>3, <2>2, <2>3, <1>5, SMTT(30)
    <3> QED
      BY <2>3, <3>2, <3>3, SMTT(30)
  <2>8. NamesIn(r.cells) = NamesIn(cs) \cup {m}
    BY <2>5, <2>6, <2>7, SMTT(30)
  <2>9. DOMAIN old = NamesIn(cs)
    BY SMTT(30) DEF TablesIn, cs
  <2>10. \A k \in NamesIn(cs) :
            RowsIn(q[RootOf(r.cells, k)].cells) = old[k]
    BY <2>5, <1>7 DEF TablesIn, cs
  <2>11. RowsIn(q[RootOf(r.cells, m)].cells) = <<>>
    BY <2>6, <1>8, SMTT(30) DEF RowsIn
  <2>12. new = [k \in NamesIn(cs) \cup {m} |-> IF k = m THEN <<>> ELSE old[k]]
    BY <1>6, <2>4, <2>8, <2>10, <2>11, SMTT(30) DEF TablesIn
  <2> HIDE DEF old, new
  <2>13. m \in Name \ DOMAIN old
    BY <1>5, <2>4, <2>9
  <2>14. new = [k \in DOMAIN old \cup {m} |-> IF k = m THEN <<>> ELSE old[k]]
    BY <2>9, <2>12
  <2> QED
    BY <2>13, <2>14 DEF old, new
<1> QED
  BY <1>3, <1>9, <1>10, Zenon DEF q, r, created, entry

\* A row at the end of a page is a row at the end of its table.
LEMMA RowsInAppend ==
    ASSUME NEW cs \in Seq(RowCell), NEW cell \in RowCell
    PROVE  RowsIn(Append(cs, cell)) = Append(RowsIn(cs), cell.value)
<1> DEFINE new == Append(cs, cell)
           rows == RowsIn(cs)
<1>1. /\ Len(new) = Len(cs) + 1 /\ Len(cs) \in Nat /\ new[Len(cs) + 1] = cell
      /\ \A i \in 1 .. Len(cs) : new[i] = cs[i]
  OBVIOUS
<1>2. rows \in Seq(Row) /\ Len(rows) = Len(cs) /\ \A i \in 1 .. Len(cs) : rows[i] = cs[i].value
  <2>1. \A i \in 1 .. Len(cs) : cs[i].value \in Row
    BY RowAt, Zenon DEF RowCell
  <2> QED
    BY <2>1, <1>1 DEF RowsIn
<1>3. cell.value \in Row
  BY DEF RowCell
<1> HIDE DEF rows, new
<1> DEFINE more == Append(rows, cell.value)
<1>4. /\ more = [i \in 1 .. Len(cs) + 1 |-> more[i]]
      /\ more[Len(cs) + 1] = cell.value
      /\ \A i \in 1 .. Len(cs) : more[i] = rows[i]
  BY <1>1, <1>2, <1>3
<1> HIDE DEF more
<1>5. ASSUME NEW i \in 1 .. Len(cs) + 1 PROVE new[i].value = more[i]
  <2>1. i \in 1 .. Len(cs) \/ i = Len(cs) + 1
    BY <1>1
  <2> QED
    BY <1>1, <1>2, <1>4, <2>1, Zenon
<1>6. RowsIn(new) = more
  BY <1>1, <1>4, <1>5 DEF RowsIn
<1> QED
  BY <1>6 DEF new, more, rows

\* An INSERT changes the table that it names and no other: no two entries share
\* a page.
LEMMA TablesInserted ==
    ASSUME NEW cached \in Seq(Page), NEW root, NEW n \in Nat, Session(cached, root, n),
           NEW name, name \in NamesIn(cached[root].cells), NEW p, NEW q,
           p = RootOf(cached[root].cells, name),
           \A i \in 1 .. Len(cached) : i # p => q[i] = cached[i]
    PROVE  TablesIn(q, root) = [TablesIn(cached, root) EXCEPT ![name] = RowsIn(q[p].cells)]
<1> DEFINE entries == cached[root].cells
<1>1. /\ Len(cached) \in Nat /\ root \in 1 .. Len(cached)
      /\ GoodEntries(entries, root, Len(cached))
  BY DEF Session
<1>2. p \in root + 1 .. Len(cached)
  BY <1>1, NamesInEntries
<1>3. p # root
  BY <1>1, <1>2
<1>4. q[root] = cached[root]
  BY <1>1, <1>3, SMTT(30)
<1>5. ASSUME NEW k \in NamesIn(entries), k # name
      PROVE  RootOf(entries, k) \in 1 .. Len(cached) /\ RootOf(entries, k) # p
  <2>3. RootOf(entries, k) # p
    BY <1>1, <1>5, RootsDiffer, Zenon
  <2>4. RootOf(entries, k) \in root + 1 .. Len(cached)
    BY <1>1, NamesInEntries
  <2> QED
    BY <1>1, <2>3, <2>4, SMTT(30)
<1>6. \A k \in NamesIn(entries) :
         RowsIn(q[RootOf(entries, k)].cells)
            = IF k = name THEN RowsIn(q[p].cells) ELSE RowsIn(cached[RootOf(entries, k)].cells)
  BY <1>5
<1>7. TablesIn(q, root)
         = [k \in NamesIn(entries) |->
               IF k = name THEN RowsIn(q[p].cells)
                           ELSE RowsIn(cached[RootOf(entries, k)].cells)]
  BY <1>4, <1>6 DEF TablesIn
<1> QED
  BY <1>7, Zenon DEF TablesIn

\* Only a call that ends a session, a CREATE TABLE and an INSERT change tables.
LEMMA OtherStep ==
    ASSUME Contents' = Contents, reply'.op \in {"other", "open", "select"}
    PROVE  T!Other
BY DEF T!Other, T!Succeeds

\* The end of a session is the abstract end.
LEMMA EndStep ==
    ASSUME is_open' = FALSE, reply'.op \in {"close", "killed"}
    PROVE  T!End
BY ContentsIsNext DEF T!End

\* A step that keeps the pages of a session keeps its tables.
LEMMA SameContents ==
    ASSUME UNCHANGED <<is_open, pages, catalog>>
    PROVE  Contents' = Contents
BY ContentsIs, ContentsIsNext

\* An open starts with no tables.
LEMMA OpenStep ==
    ASSUME IInv, NEW readable \in BOOLEAN, tinydb_open(readable)
    PROVE  T!Next
<1> DEFINE file == StartFile(readable)
<1>1. file \in Seq(Page)
  BY StartFileType
<1>2. /\ ~is_open /\ is_open' = TRUE /\ pages' = Append(file, EmptyLeaf)
      /\ catalog' = Len(file) + 1 /\ reply'.op = "open"
  BY DEF tinydb_open
<1> HIDE DEF file
<1>3. Contents' = T!NoTables
  BY <1>1, <1>2, ContentsIsNext, TablesOpened
<1>4. Contents = T!NoTables
  BY <1>2, ContentsIs
<1> QED
  BY <1>2, <1>3, <1>4, OtherStep DEF T!Next

\* CREATE TABLE adds an empty table or changes nothing.
LEMMA CreateStep ==
    ASSUME IInv, NEW e \in Executor, NEW name \in Name, NEW survives \in BOOLEAN,
           executor_exec_create_table(e, name, survives)
    PROVE  T!Next
<1> DEFINE root == Len(pages) + 1
           created == Append(pages, EmptyLeaf)
           r == insert_entry(CatalogCells, TableEntry(name, root), CatalogCapacity)
           q == [created EXCEPT ![catalog].cells = r.cells]
<1>1. CASE ~survives
  <2>1. Forget /\ reply' = [op |-> "killed"]
    BY <1>1 DEF executor_exec_create_table
  <2>2. is_open' = FALSE /\ reply'.op = "killed"
    BY <2>1 DEF Forget
  <2> QED
    BY <2>2, EndStep, Zenon DEF T!Next
<1>2. CASE survives
  <2>1. /\ pages' = q /\ reply' = [op |-> "create", name |-> name, ret |-> r.ret]
        /\ UNCHANGED <<is_open, catalog>> /\ exec[e].live
    BY <1>2 DEF executor_exec_create_table, Flush
  <2>2. /\ is_open /\ Session(pages, catalog, rowid_counter)
        /\ pages \in Seq(Page) /\ rowid_counter \in Nat
    BY <2>1, LiveOpen
  <2> DEFINE old == TablesIn(pages, catalog)
             new == TablesIn(q, catalog)
             Added(m) == new = [k \in DOMAIN old \cup {m} |-> IF k = m THEN <<>> ELSE old[k]]
  <2>3. \/ new = old
        \/ r.ret = "SUCCESS" /\ \E m \in Name \ DOMAIN old : Added(m)
    BY <2>2, TablesCreated, Zenon DEF CatalogCells
  <2> HIDE DEF r, q
  <2>4. Contents = old /\ Contents' = new
    BY <2>1, <2>2, ContentsIs, ContentsIsNext
  <2>5. reply'.op = "create" /\ reply'.ret = r.ret
    BY <2>1
  <2> HIDE DEF old, new
  <2>6. CASE r.ret = "SUCCESS" /\ \E m \in Name \ DOMAIN old : Added(m)
    <3>1. T!Create
      BY <2>4, <2>5, <2>6 DEF T!Create, T!Succeeds
    <3> QED
      BY <3>1 DEF T!Next
  <2>7. CASE new = old /\ r.ret = "SUCCESS"
    <3>1. T!Create
      BY <2>4, <2>5, <2>7 DEF T!Create, T!Succeeds
    <3> QED
      BY <3>1 DEF T!Next
  <2>8. CASE new = old /\ r.ret # "SUCCESS"
    <3>1. T!Other
      BY <2>4, <2>5, <2>8 DEF T!Other, T!Succeeds
    <3> QED
      BY <3>1 DEF T!Next
  <2> QED
    BY <2>3, <2>6, <2>7, <2>8, Zenon
<1> QED
  BY <1>1, <1>2

\* An acknowledged INSERT adds its row to its table, a refused one changes
\* nothing.
LEMMA InsertStep ==
    ASSUME IInv, NEW e \in Executor, NEW name \in Name, NEW row \in Row,
           executor_exec_insert(e, name, row)
    PROVE  T!Next
<1>1. CASE lookup(CatalogCells, "table", name) = NoEntry
  <2>1. UNCHANGED <<is_open, pages, catalog>> /\ reply' = [op |-> "other"]
    BY <1>1, SMTT(30) DEF executor_exec_insert
  <2> QED
    BY <2>1, SameContents, OtherStep DEF T!Next
<1>2. CASE lookup(CatalogCells, "table", name) # NoEntry
  <2> DEFINE root == lookup(CatalogCells, "table", name).root_page
             r == btree_insert(pages[root].cells, rowid_counter + 1, row, RowCapacity)
             q == [pages EXCEPT ![root].cells = r.cells]
             cell == [key |-> rowid_counter + 1, value |-> row]
             old == TablesIn(pages, catalog)
  <2>1. /\ root \in catalog + 1 .. Len(pages) /\ r.cells \in Cells
        /\ \/ r.ret = "ERROR" /\ r.cells = pages[root].cells
           \/ r.ret = "SUCCESS" /\ r.cells = Append(pages[root].cells, cell)
        /\ pages' = q /\ UNCHANGED <<is_open, catalog>>
        /\ reply' = [op |-> "insert", by |-> e, name |-> name, row |-> row,
                     rowid |-> rowid_counter + 1, ret |-> r.ret]
    BY <1>2, InsertSteps, ZenonT(30)
  <2>2. /\ is_open /\ Session(pages, catalog, rowid_counter)
        /\ pages \in Seq(Page) /\ rowid_counter \in Nat
    BY LiveOpen DEF executor_exec_insert
  <2> HIDE DEF r
  <2>3. name \in NamesIn(pages[catalog].cells) /\ root = RootOf(pages[catalog].cells, name)
    BY <1>2, SMTT(30) DEF NamesIn, RootOf, CatalogCells
  <2>4. TablesIn(q, catalog) = [old EXCEPT ![name] = RowsIn(r.cells)]
    <3> HIDE DEF root
    <3>1. root \in 1 .. Len(pages)
      BY <2>1, <2>2 DEF Session
    <3>2. q[root].cells = r.cells /\ \A i \in 1 .. Len(pages) : i # root => q[i] = pages[i]
      BY <2>1, <2>2, <3>1, PutCells, SMTT(30)
    <3> HIDE DEF q
    <3>3. TablesIn(q, catalog) = [TablesIn(pages, catalog) EXCEPT ![name] = RowsIn(q[root].cells)]
      <4> HIDE DEF old, cell
      <4> QED
        BY <2>2, <2>3, <3>2, TablesInserted
    <3> QED
      BY <3>2, <3>3, Zenon
  <2>5. DOMAIN old = NamesIn(pages[catalog].cells) /\ old[name] = RowsIn(pages[root].cells)
        /\ old = [n \in DOMAIN old |-> old[n]]
    <3> HIDE DEF root, q
    <3>1. DOMAIN old = NamesIn(pages[catalog].cells) /\ old = [n \in DOMAIN old |-> old[n]]
      BY TablesInIs
    <3>2. old[name] = RowsIn(pages[RootOf(pages[catalog].cells, name)].cells)
      BY <2>3, TablesInIs
    <3> HIDE DEF old
    <3> QED
      BY <2>3, <3>1, <3>2
  <2> HIDE DEF q, root
  <2>6. Contents = old /\ Contents' = [old EXCEPT ![name] = RowsIn(r.cells)]
    BY <2>1, <2>2, <2>4, ContentsIs, ContentsIsNext, ZenonT(30)
  <2>7. reply'.op = "insert" /\ reply'.name = name /\ reply'.row = row /\ reply'.ret = r.ret
    BY <2>1
  <2> HIDE DEF old
  <2>8. CASE r.ret = "ERROR" /\ r.cells = pages[root].cells
    <3>1. Contents' = Contents
      BY <2>5, <2>6, <2>8
    <3> QED
      BY <2>7, <2>8, <3>1 DEF T!Next, T!Other, T!Succeeds
  <2>9. CASE r.ret = "SUCCESS" /\ r.cells = Append(pages[root].cells, cell)
    <3>1. pages[root].cells \in Seq(RowCell)
      BY <2>1, <2>2 DEF Session, GoodRows
    <3>2. cell \in RowCell /\ cell.value = row
      BY <2>2 DEF RowCell
    <3>3. RowsIn(r.cells) = Append(old[name], row)
      BY <2>5, <2>9, <3>1, <3>2, RowsInAppend, SMTT(30)
    <3>4. Contents' = [Contents EXCEPT ![name] = Append(@, row)]
      BY <2>5, <2>6, <3>3, Zenon
    <3>5. T!Insert
      BY <2>3, <2>5, <2>6, <2>7, <2>9, <3>4, Zenon DEF T!Insert, T!Succeeds
    <3> QED
      BY <3>5, SMTT(30) DEF T!Next
  <2> QED
    BY <2>1, <2>8, <2>9, ZenonT(30)
<1> QED
  BY <1>1, <1>2

\* SELECT changes no table.
LEMMA SelectStep ==
    ASSUME NEW e, NEW name, executor_exec_select(e, name)
    PROVE  T!Next
<1>1. UNCHANGED <<is_open, pages, catalog>> /\ reply'.op \in {"other", "select"}
  BY DEF executor_exec_select, Flush
<1> QED
  BY <1>1, SameContents, OtherStep, SMTT(30) DEF T!Next

\* The calls that change executors only change no table.
LEMMA QuietStep ==
    ASSUME Quiet
    PROVE  T!Next
<1>1. UNCHANGED <<is_open, pages, catalog>> /\ reply'.op = "other"
  BY DEF Quiet
<1> QED
  BY <1>1, SameContents, OtherStep DEF T!Next

\* Every step is a step of Tables.
LEMMA TablesStep == IInv /\ [Next]_vars => [T!Next]_T!vars
<1> SUFFICES ASSUME IInv, [Next]_vars PROVE [T!Next]_T!vars
  OBVIOUS
<1>1. ASSUME NEW e \in Executor, NEW name \in TableName, Statement(e, name)
      PROVE  T!Next
  <2>1. name \in Name
    BY DatabaseAssumption
  <2> QED
    BY <1>1, <2>1, CreateStep, InsertStep, SelectStep DEF Statement
<1>2. CASE UNCHANGED vars
  BY <1>2, SameContents DEF vars, T!vars
<1>3. CASE \E readable \in BOOLEAN : tinydb_open(readable)
  BY <1>3, OpenStep
<1>4. CASE \E readable, grown \in BOOLEAN : tinydb_open_fails(readable, grown)
  <2>1. UNCHANGED <<is_open, pages, catalog>> /\ reply' = [op |-> "other"]
    BY <1>4 DEF tinydb_open_fails
  <2> QED
    BY <2>1, SameContents, OtherStep DEF T!Next
<1>5. CASE \E W \in SUBSET dirty : tinydb_close(W)
  <2>1. is_open' = FALSE /\ reply' = [op |-> "close"]
    BY <1>5 DEF tinydb_close, Forget
  <2> QED
    BY <2>1, EndStep, Zenon DEF T!Next
<1>6. CASE Killed
  <2>1. is_open' = FALSE /\ reply' = [op |-> "killed"]
    BY <1>6 DEF Killed, Forget
  <2> QED
    BY <2>1, EndStep, Zenon DEF T!Next
<1>7. CASE \E e \in Executor :
              \/ executor_create(e) \/ executor_destroy(e) \/ executor_exec_begin(e)
              \/ executor_exec_commit(e) \/ executor_exec_rollback(e)
              \/ executor_exec_stub(e) \/ create_table_fails(e)
  <2>1. Quiet
    BY <1>7, Zenon DEF executor_create, executor_destroy, executor_exec_begin, executor_exec_commit,
                executor_exec_rollback, executor_exec_stub, create_table_fails, EndTransaction
  <2> QED
    BY <2>1, QuietStep
<1> QED
  BY <1>1, <1>2, <1>3, <1>4, <1>5, <1>6, <1>7, SMTT(30) DEF Next

\* A session keeps its tables, whatever the names, the rows, the executors and
\* the capacities: every acknowledged INSERT adds its row to the end of its
\* table, CREATE TABLE touches no table, and only the end of the session takes
\* a row away (executor_exec_create_table, executor_exec_insert, tinydb_close).
THEOREM DatabaseImplementsTables == Spec => TablesSpec
<1>1. Init => T!Init
  <2> SUFFICES ASSUME Init PROVE T!Init
    OBVIOUS
  <2>1. Contents = T!NoTables
    BY ContentsIs DEF Init
  <2> QED
    BY <2>1 DEF T!Init, Init
<1> QED
  BY <1>1, TablesStep, DatabaseInvariant, PTL DEF Spec, TablesSpec, T!Spec
============================================================================
