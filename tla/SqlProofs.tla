------------------------------ MODULE SqlProofs -----------------------------
(***************************************************************************)
(* Proofs about the lexer, its table of keywords, and the catalog.         *)
(*                                                                         *)
(* Of the lexer: the tokens tile every text.  Of the keyword lookup: what  *)
(* it promises for a table of any length, in order or not, and what order  *)
(* adds.  Of the catalog: no two entries have one key, the two ways to     *)
(* find an entry agree, and a cursor meets every entry that was there when *)
(* it was made.                                                            *)
(***************************************************************************)
EXTENDS Keywords, Lexer, Catalog, Rounds

----------------------------------------------------------------------------
(* The keywords.                                                           *)

\* The search is still running, and a keyword equal to the word is in its range.
InRange ==
    result = Searching => \A k \in Index : keywords[k] = word => k \in low .. high

\* The inductive invariant of a search in a sorted table.
IInv == TypeOK /\ InRange /\ EveryKeywordFound

\* The range of the search never leaves the table, whatever the order of its
\* entries, so lookup_keyword reads no entry that does not exist.
THEOREM KeywordsType == Spec => []TypeOK
<1>1. Init => TypeOK
  BY KeywordsAssumption DEF Init, TypeOK, Index
<1>2. TypeOK /\ [lookup_keyword]_vars => TypeOK'
  <2> SUFFICES ASSUME TypeOK, [lookup_keyword]_vars PROVE TypeOK'
    OBVIOUS
  <2>1. CASE lookup_keyword
    <3> DEFINE mid == (low + high) \div 2
    <3>1. low <= high => mid \in Index /\ low <= mid /\ mid <= high
      BY KeywordsAssumption DEF TypeOK, Index
    <3> HIDE DEF mid
    <3>2. QED
      BY <2>1, <3>1, KeywordsAssumption DEF lookup_keyword, TypeOK, Index, Identifier, Searching, mid
  <2>2. CASE UNCHANGED vars
    BY <2>2 DEF TypeOK, vars
  <2>3. QED
    BY <2>1, <2>2
<1>3. QED
  BY <1>1, <1>2, PTL DEF Spec

\* A search in a table of which every entry is in order finds each of its words,
\* and returns an entry only for the word of that entry.
THEOREM KeywordsSorted ==
  ASSUME sorted_count = keyword_count
  PROVE  Spec => []SortedFound
<1> DEFINE Inv == IInv /\ (result \in Index => keywords[result] = word)
<1>1. Init => Inv
  BY KeywordsAssumption DEF Init, IInv, TypeOK, InRange, EveryKeywordFound, Index, Identifier, Searching
<1>2. Inv /\ [lookup_keyword]_vars => Inv'
  <2> SUFFICES ASSUME Inv, [lookup_keyword]_vars PROVE Inv'
    OBVIOUS
  <2> USE KeywordsAssumption
  <2>1. CASE lookup_keyword
    <3> DEFINE mid == (low + high) \div 2
    <3>0. TypeOK /\ word' = word /\ result = Searching
      BY <2>1 DEF lookup_keyword, IInv
    <3>1. low <= high => mid \in Index /\ low <= mid /\ mid <= high
      BY <3>0 DEF TypeOK, Index
    <3>2. \A k, l \in Index : k < l => keywords[k] < keywords[l]
      BY DEF Index
    <3>3. \A k \in Index : keywords[k] \in Int
      BY Zenon DEF Index
    <3>4. \A k \in Index : keywords[k] = word => k \in low .. high
      BY <3>0 DEF IInv, InRange
    <3>5. word \in Int /\ low \in Int /\ high \in Int /\ mid \in Int
      BY <3>0 DEF TypeOK
    <3>6. CASE low > high /\ result' = Identifier /\ UNCHANGED <<low, high>>
      BY <3>0, <3>4, <3>5, <3>6 DEF IInv, TypeOK, InRange, EveryKeywordFound, Index, Identifier, Searching
    <3>7. CASE low <= high /\ word = keywords[mid] /\ result' = mid /\ UNCHANGED <<low, high>>
      <4>1. result' \in Index /\ keywords[result'] = word' /\ result' # Searching /\ result' # Identifier
        BY <3>0, <3>1, <3>7 DEF Index, Searching, Identifier
      <4>2. QED
        BY <3>0, <3>7, <4>1 DEF IInv, TypeOK, InRange, EveryKeywordFound
    <3>8. CASE low <= high /\ word < keywords[mid] /\ high' = mid - 1 /\ UNCHANGED <<low, result>>
      <4>1. \A k \in Index : keywords[k] = word => k < mid
        BY <3>1, <3>2, <3>3, <3>5, <3>8 DEF Index
      <4>2. \A k \in Index : keywords[k] = word => k \in low' .. high'
        BY <3>4, <3>5, <3>8, <4>1 DEF Index
      <4>3. high' \in -1 .. keyword_count - 1
        BY <3>1, <3>5, <3>8 DEF Index
      <4>4. QED
        BY <3>0, <3>8, <4>2, <4>3 DEF IInv, TypeOK, InRange, EveryKeywordFound, Index, Identifier, Searching
    <3>9. CASE low <= high /\ word > keywords[mid] /\ low' = mid + 1 /\ UNCHANGED <<high, result>>
      <4>1. \A k \in Index : keywords[k] = word => k > mid
        BY <3>1, <3>2, <3>3, <3>5, <3>9 DEF Index
      <4>2. \A k \in Index : keywords[k] = word => k \in low' .. high'
        BY <3>4, <3>5, <3>9, <4>1 DEF Index
      <4>3. low' \in 0 .. keyword_count
        BY <3>0, <3>1, <3>5, <3>9 DEF Index, TypeOK
      <4>4. QED
        BY <3>0, <3>9, <4>2, <4>3 DEF IInv, TypeOK, InRange, EveryKeywordFound, Index, Identifier, Searching
    <3>10. QED
      BY <2>1, <3>6, <3>7, <3>8, <3>9 DEF lookup_keyword
  <2>2. CASE UNCHANGED vars
    BY <2>2 DEF vars, IInv, TypeOK, InRange, EveryKeywordFound
  <2>3. QED
    BY <2>1, <2>2
<1>3. Inv => SortedFound
  BY DEF IInv, EveryKeywordFound, SortedFound, Index
<1>4. QED
  BY <1>1, <1>2, <1>3, PTL DEF Spec

\* Where a search in the table of lexer.c can be: it never compares its word with
\* one of the two entries out of order while the word may be in the ordered part.
TableInv ==
    /\ TypeOK
    /\ result \in Index => keywords[result] = word
    /\ result = Searching =>
          /\ high = 44 => low \in {0, 23, 34, 40, 43, 44, 45}
          /\ low <= 42 => high <= 41 \/ high = 44
          /\ \A k \in 0 .. 42 : keywords[k] = word => k \in low .. high
    /\ result = Identifier => \A k \in 0 .. 42 : keywords[k] # word

\* The table of lexer.c has 45 entries of which the last two are out of order.
\* Whatever its words are, each of the other 43 is found, and no word becomes a
\* keyword that it is not.
THEOREM KeywordsTable ==
  ASSUME keyword_count = 45, sorted_count = 43
  PROVE  Spec => []SortedFound
<1>1. Init => TableInv
  BY KeywordsAssumption DEF Init, TableInv, TypeOK, Index, Identifier, Searching
<1>2. TableInv /\ [lookup_keyword]_vars => TableInv'
  <2> SUFFICES ASSUME TableInv, [lookup_keyword]_vars PROVE TableInv'
    OBVIOUS
  <2>1. CASE lookup_keyword
    <3> DEFINE mid == (low + high) \div 2
    <3>0. TypeOK /\ word' = word /\ result = Searching
      BY <2>1, Zenon DEF lookup_keyword, TableInv
    <3>1. low <= high => mid \in Index /\ low <= mid /\ mid <= high
      BY <3>0, KeywordsAssumption DEF TypeOK, Index
    <3>2. \A k, l \in 0 .. 42 : k < l => keywords[k] < keywords[l]
      BY KeywordsAssumption
    <3>3. \A k \in 0 .. 44 : keywords[k] \in Int
      <4>1. 0 .. keyword_count - 1 = 0 .. 44
        OBVIOUS
      <4>2. keywords \in [0 .. 44 -> Word]
        BY <4>1, KeywordsAssumption
      <4>3. QED
        BY <4>2, KeywordsAssumption, Zenon
    <3>4. /\ high = 44 => low \in {0, 23, 34, 40, 43, 44, 45}
          /\ low <= 42 => high <= 41 \/ high = 44
          /\ \A k \in 0 .. 42 : keywords[k] = word => k \in low .. high
      BY <3>0, Zenon DEF TableInv
    <3>5. word \in Int /\ low \in 0 .. 45 /\ high \in -1 .. 44 /\ mid \in Int
      BY <3>0, KeywordsAssumption DEF TypeOK
    <3>6. low <= high /\ low <= 42 => mid <= 42
      BY <3>4, <3>5
    <3>7. high = 44 /\ low <= high => mid + 1 \in {23, 34, 40, 43, 44, 45}
      BY <3>4, <3>5, SMTT(30)
    <3>8. CASE low > high /\ result' = Identifier /\ UNCHANGED <<low, high>>
      BY <3>0, <3>4, <3>5, <3>8, SMTT(30) DEF TableInv, TypeOK, Index, Identifier, Searching
    <3>9. CASE low <= high /\ word = keywords[mid] /\ result' = mid /\ UNCHANGED <<low, high>>
      <4>1. result' \in Index /\ keywords[result'] = word' /\ result' # Searching /\ result' # Identifier
        BY <3>0, <3>1, <3>9, SMTT(30) DEF Index, Searching, Identifier
      <4>2. QED
        BY <3>0, <3>9, <4>1, SMTT(30) DEF TableInv, TypeOK
    <3>10. CASE low <= high /\ word < keywords[mid] /\ high' = mid - 1 /\ UNCHANGED <<low, result>>
      <4>1. ASSUME NEW k \in 0 .. 42, keywords[k] = word PROVE k \in low' .. high'
        <5>1. k \in low .. high /\ mid \in 0 .. 42
          BY <3>1, <3>4, <3>5, <3>6, <3>10, <4>1, SMTT(30) DEF Index
        <5> HIDE DEF mid
        <5>2. mid < k => keywords[mid] < keywords[k]
          BY <3>2, <5>1, Zenon
        <5>3. keywords[k] \in Int /\ keywords[mid] \in Int
          BY <3>3, <5>1
        <5>4. ~(mid < k) /\ k # mid
          BY <3>10, <4>1, <5>1, <5>2, <5>3, SMTT(30)
        <5>5. QED
          BY <3>5, <3>10, <5>1, <5>4, SMTT(30)
      <4>2. high' \in -1 .. 43 /\ (low' <= 42 => high' <= 41)
        BY <3>1, <3>5, <3>6, <3>10, SMTT(30) DEF Index
      <4>3. QED
        BY <3>0, <3>10, <4>1, <4>2, SMTT(30) DEF TableInv, TypeOK, Index, Identifier, Searching
    <3>11. CASE low <= high /\ word > keywords[mid] /\ low' = mid + 1 /\ UNCHANGED <<high, result>>
      <4>1. ASSUME NEW k \in 0 .. 42, keywords[k] = word PROVE k \in low' .. high'
        <5>1. k \in low .. high /\ mid \in 0 .. 42
          BY <3>1, <3>4, <3>5, <3>6, <3>11, <4>1, SMTT(30) DEF Index
        <5> HIDE DEF mid
        <5>2. k < mid => keywords[k] < keywords[mid]
          BY <3>2, <5>1, Zenon
        <5>3. keywords[k] \in Int /\ keywords[mid] \in Int
          BY <3>3, <5>1
        <5>4. ~(k < mid) /\ k # mid
          BY <3>11, <4>1, <5>1, <5>2, <5>3
        <5>5. QED
          BY <3>5, <3>11, <5>1, <5>4, SMTT(30)
      <4>2. low' \in 0 .. 45 /\ low <= low'
        BY <3>1, <3>5, <3>11 DEF Index
      <4>3. /\ high' = 44 => low' \in {0, 23, 34, 40, 43, 44, 45}
            /\ low' <= 42 => high' <= 41 \/ high' = 44
        BY <3>4, <3>5, <3>7, <3>11, <4>2, SMTT(30)
      <4>4. QED
        BY <3>0, <3>11, <4>1, <4>2, <4>3, SMTT(30) DEF TableInv, TypeOK, Index, Identifier, Searching
    <3>12. QED
      BY <2>1, <3>8, <3>9, <3>10, <3>11 DEF lookup_keyword
  <2>2. CASE UNCHANGED vars
    BY <2>2 DEF vars, TableInv, TypeOK
  <2>3. QED
    BY <2>1, <2>2
<1>3. TableInv => SortedFound
  BY DEF TableInv, SortedFound
<1>4. QED
  BY <1>1, <1>2, <1>3, PTL DEF Spec

----------------------------------------------------------------------------
(* Listing the entries of the catalog.                                     *)

Cell == [key : Nat, value : Entry]

\* A listing has the cells at the wanted places and no other.
IsListed(list, sheet, wanted) ==
    /\ list \in Seq(Cell)
    /\ \A i \in 1 .. Len(list) : \E k \in wanted : list[i] = sheet[k]
    /\ \A k \in wanted : \E i \in 1 .. Len(list) : list[i] = sheet[k]

\* The loop of a listing copies the cells at the wanted places and no other.
LEMMA ListedCells ==
    ASSUME NEW sheet \in Seq(Cell), NEW wanted \in SUBSET (1 .. Len(sheet))
    PROVE  IsListed(Listed(sheet, wanted), sheet, wanted)
<1> DEFINE N == Len(sheet)
           Round(n, l) == IF n \in wanted THEN Append(l, sheet[n]) ELSE l
           Turns(f) == [n \in 0 .. N |-> IF n = 0 THEN <<>> ELSE Round(n, f[n - 1])]
           body == [n \in 1 .. N |-> [l \in Seq(Cell) |-> Round(n, l)]]
           list == CHOOSE f : f = Turns(f)
<1>1. N \in Nat /\ <<>> \in Seq(Cell)
  OBVIOUS
<1>2. body \in [1 .. N -> [Seq(Cell) -> Seq(Cell)]]
  <2>1. ASSUME NEW n \in 1 .. N, NEW l \in Seq(Cell) PROVE Round(n, l) \in Seq(Cell)
    <3>1. sheet[n] \in Cell
      OBVIOUS
    <3> QED
      BY <3>1
  <2> HIDE DEF Round
  <2> QED
    BY <2>1
<1>3. Listed(sheet, wanted) = list[N]
  BY DEF Listed
<1>4. PICK g : AreRounds(g, Seq(Cell), <<>>, N, body)
  <2> HIDE DEF body, N
  <2> QED
    BY <1>1, <1>2, RoundsExist, Zenon
<1> HIDE DEF N
<1>5. g \in [0 .. N -> Seq(Cell)] /\ g[0] = <<>>
  BY <1>4 DEF AreRounds
<1>6. ASSUME NEW n \in 1 .. N PROVE g[n] = Round(n, g[n - 1])
  <2>1. n - 1 \in 0 .. N
    BY <1>1
  <2>2. g[n - 1] \in Seq(Cell)
    BY <1>5, <2>1
  <2>3. g[n] = body[n][g[n - 1]]
    BY <1>4 DEF AreRounds
  <2> QED
    BY <2>2, <2>3
<1>7. g = Turns(g)
  <2>1. \A n \in 0 .. N : n = 0 \/ n \in 1 .. N
    BY <1>1
  <2> HIDE DEF Round
  <2> QED
    BY <1>5, <1>6, <2>1
<1>8. list = Turns(list)
  <2> HIDE DEF Turns
  <2> QED
    BY <1>7
<1> HIDE DEF list
<1>9. list[0] = <<>>
  <2>1. list[0] = Turns(list)[0] /\ 0 \in 0 .. N
    BY <1>1, <1>8, SMTT(30)
  <2> QED
    BY <2>1
<1>10. ASSUME NEW n \in 1 .. N PROVE list[n] = Round(n, list[n - 1])
  <2>1. n \in 0 .. N /\ n # 0
    BY <1>1
  <2>2. list[n] = Turns(list)[n]
    BY <1>8, Zenon
  <2> HIDE DEF Round
  <2> QED
    BY <2>1, <2>2
<1> DEFINE Good == {n \in 0 .. N : IsListed(list[n], sheet, wanted \cap 1 .. n)}
<1>11. 0 \in Good
  <2>1. wanted \cap 1 .. 0 = {} /\ 0 \in 0 .. N /\ Len(<<>>) = 0
    BY <1>1
  <2>2. 1 .. 0 = {}
    OBVIOUS
  <2>3. IsListed(<<>>, sheet, {})
    BY <1>1, <2>1, <2>2 DEF IsListed
  <2> QED
    BY <1>9, <2>1, <2>3
<1>12. ASSUME NEW n \in 1 .. N, n - 1 \in Good PROVE n \in Good
  <2> DEFINE l == list[n - 1]
             old == wanted \cap 1 .. n - 1
  <2>1. n \in 0 .. N /\ IsListed(l, sheet, old) /\ list[n] = Round(n, l)
    BY <1>1, <1>10, <1>12, SMTT(30)
  <2>2. l \in Seq(Cell) /\ sheet[n] \in Cell
    BY <2>1 DEF IsListed, N
  <2> SUFFICES IsListed(list[n], sheet, wanted \cap 1 .. n)
    BY <2>1
  <2>3. CASE n \notin wanted
    <3>1. wanted \cap 1 .. n = old
      BY <1>1, <2>3
    <3> QED
      BY <2>1, <2>3, <3>1, Zenon
  <2>4. CASE n \in wanted
    <3> DEFINE new == wanted \cap 1 .. n
    <3>1. new = old \cup {n}
      BY <1>1, <2>4
    <3>2. list[n] = Append(l, sheet[n])
      BY <2>1, <2>4
    <3> HIDE DEF l, old, new
    <3> DEFINE m == Append(l, sheet[n])
    <3>3. /\ m \in Seq(Cell) /\ Len(m) = Len(l) + 1 /\ Len(l) \in Nat
          /\ m[Len(l) + 1] = sheet[n]
          /\ \A i \in 1 .. Len(l) : m[i] = l[i]
      BY <2>2
    <3>4. \A i \in 1 .. Len(m) : i \in 1 .. Len(l) \/ i = Len(l) + 1
      BY <3>3
    <3>5. \A i \in 1 .. Len(l) : i \in 1 .. Len(m)
      BY <3>3
    <3>6. Len(l) + 1 \in 1 .. Len(m)
      BY <3>3
    <3> HIDE DEF m
    <3>7. \A i \in 1 .. Len(m) : \E k \in new : m[i] = sheet[k]
      <4>1. \A i \in 1 .. Len(l) : \E k \in old : l[i] = sheet[k]
        BY <2>1 DEF IsListed
      <4>2. ASSUME NEW i \in 1 .. Len(m) PROVE \E k \in new : m[i] = sheet[k]
        <5>1. CASE i \in 1 .. Len(l)
          BY <3>1, <3>3, <4>1, <5>1
        <5>2. CASE i = Len(l) + 1
          BY <3>1, <3>3, <5>2
        <5> QED
          BY <3>4, <5>1, <5>2
      <4> QED
        BY <4>2
    <3>8. \A k \in new : \E i \in 1 .. Len(m) : m[i] = sheet[k]
      BY <2>1, <3>1, <3>3, <3>5, <3>6, SMTT(30) DEF IsListed
    <3>9. IsListed(m, sheet, new)
      BY <3>3, <3>7, <3>8 DEF IsListed
    <3> QED
      BY <3>2, <3>9 DEF new, m
  <2> QED
    BY <2>3, <2>4
<1> HIDE DEF Good
<1>13. \A n \in 0 .. N : n \in Good
  BY <1>1, <1>11, <1>12, EveryRound
<1>14. N \in Good
  BY <1>1, <1>13
<1>15. wanted \cap 1 .. N = wanted
  BY Zenon DEF N
<1> QED
  BY <1>3, <1>14, <1>15, Zenon DEF Good
----------------------------------------------------------------------------
(* The catalog.                                                            *)

\* The key of a cell is that of its entry, or 0 for the catalog's own entry.
GoodCell(cell) ==
    /\ cell.value.name = Cut[cell.value.name]
    /\ \/ cell.key = EntryKey(cell.value)
       \/ cell.key = 0 /\ cell.value = MasterEntry

CellsSound ==
    /\ cells \in Seq(Cell) /\ Len(cells) <= EntryCapacity
    /\ \A i \in 1 .. Len(cells) : GoodCell(cells[i])
    /\ \A i, j \in 1 .. Len(cells) : cells[i].key = cells[j].key => i = j

\* A cursor that is not at its end has just shown the cell it is at.
CursorSound ==
    /\ cursor \in [live : BOOLEAN, cell : Nat, is_end : BOOLEAN]
    /\ seen \in Seq(Nat) /\ start \in 0 .. Len(cells)
    /\ Len(seen) <= Len(cells)
    /\ \A i \in 1 .. Len(seen) : seen[i] = cells[i].key
    /\ cursor.live => /\ catalog_is_open
                      /\ cursor.cell \in 1 .. Len(cells) + 1
                      /\ ~cursor.is_end => Len(seen) = cursor.cell
                      /\ cursor.is_end => Len(seen) >= start
    /\ ~cursor.live => seen = <<>> /\ start = 0

\* The inductive invariant.
CatalogInv == catalog_is_open \in BOOLEAN /\ CellsSound /\ CursorSound

\* The key of an entry tells its type, and no entry has the key 0.
LEMMA KeyOfEntry ==
    ASSUME NEW entry \in Entry, entry.name = Cut[entry.name]
    PROVE  /\ EntryKey(entry) \in Nat /\ EntryKey(entry) > 0
           /\ EntryKey(entry) >= IndexKey <=> entry.type = "index"
<1>1. /\ entry.name \in Name /\ entry.type \in {"table", "index"}
      /\ strlen[entry.name] \in Nat /\ strlen[entry.name] <= 63
  BY CatalogAssumption DEF Entry
<1> QED
  BY <1>1, CatalogAssumption DEF EntryKey

\* The entry of the catalog itself (catalog.c:129) is an entry with a name
\* that fits.
LEMMA MasterIsEntry ==
    /\ MasterEntry \in Entry /\ MasterEntry.name = Cut[MasterEntry.name]
    /\ serialize_entry(MasterEntry) = MasterEntry
<1>1. MasterEntry \in Entry
  BY CatalogAssumption DEF MasterEntry, Entry
<1>2. MasterEntry.name = MasterName /\ MasterEntry.tbl_name = MasterName
  BY DEF MasterEntry
<1>3. serialize_entry(MasterEntry) = [MasterEntry EXCEPT !.name = MasterName, !.tbl_name = MasterName]
  BY <1>2, CatalogAssumption DEF serialize_entry
<1>4. serialize_entry(MasterEntry) = MasterEntry
  BY <1>3, Zenon DEF MasterEntry
<1> QED
  BY <1>1, <1>2, <1>4, CatalogAssumption

\* A cell put into the tree goes behind the others, under a key that is new.
LEMMA PutSound ==
    ASSUME CellsSound, NEW key \in Nat, NEW value \in Entry,
           GoodCell([key |-> key, value |-> value]),
           NEW new, new = btree_insert(cells, key, value, EntryCapacity).cells
    PROVE  /\ new \in Seq(Cell) /\ Len(new) <= EntryCapacity /\ Len(cells) <= Len(new)
           /\ \A i \in 1 .. Len(new) : GoodCell(new[i])
           /\ \A i, j \in 1 .. Len(new) : new[i].key = new[j].key => i = j
           /\ \A i \in 1 .. Len(cells) : new[i] = cells[i]
<1> DEFINE cell == [key |-> key, value |-> value]
<1>1. cells \in Seq(Cell) /\ Len(cells) \in Nat /\ cell \in Cell /\ EntryCapacity \in Nat
  BY GivenAssumption DEF CellsSound, Cell
<1>2. CASE new = cells
  BY <1>1, <1>2, SMTT(30) DEF CellsSound
<1>3. CASE /\ \A i \in 1 .. Len(cells) : cells[i].key # key
           /\ ~(Len(cells) >= EntryCapacity) /\ new = Append(cells, cell)
  <2>1. cell.key = key /\ GoodCell(cell)
    OBVIOUS
  <2> HIDE DEF cell
  <2>2. /\ new \in Seq(Cell) /\ Len(new) = Len(cells) + 1
        /\ new[Len(cells) + 1] = cell
        /\ \A i \in 1 .. Len(cells) : new[i] = cells[i]
    BY <1>1, <1>3
  <2>3. \A i \in 1 .. Len(new) : i \in 1 .. Len(cells) \/ i = Len(cells) + 1
    BY <1>1, <2>2
  <2>4. Len(new) <= EntryCapacity /\ Len(cells) <= Len(new)
    BY <1>1, <1>3, <2>2, SMTT(30)
  <2>5. \A i \in 1 .. Len(new) : GoodCell(new[i])
    BY <2>1, <2>2, <2>3 DEF CellsSound
  <2>6. ASSUME NEW i \in 1 .. Len(new), NEW j \in 1 .. Len(new), new[i].key = new[j].key
        PROVE  i = j
    <3>1. CASE i \in 1 .. Len(cells) /\ j \in 1 .. Len(cells)
      BY <2>2, <2>6, <3>1, Zenon DEF CellsSound
    <3>2. CASE i \in 1 .. Len(cells) /\ j = Len(cells) + 1
      BY <1>3, <2>1, <2>2, <2>6, <3>2, SMTT(30)
    <3>3. CASE j \in 1 .. Len(cells) /\ i = Len(cells) + 1
      BY <1>3, <2>1, <2>2, <2>6, <3>3, SMTT(30)
    <3> QED
      BY <2>3, <3>1, <3>2, <3>3, SMTT(30)
  <2> QED
    BY <2>2, <2>4, <2>5, <2>6
<1> QED
  BY <1>2, <1>3, Zenon DEF btree_insert

\* A step that only puts an entry into the tree keeps the invariant.
LEMMA PutInv ==
    ASSUME CatalogInv, NEW key \in Nat, NEW value \in Entry,
           GoodCell([key |-> key, value |-> value]),
           cells' = btree_insert(cells, key, value, EntryCapacity).cells,
           UNCHANGED <<catalog_is_open, cursor, seen, start>>
    PROVE  CatalogInv'
<1>1. CellsSound
  BY SMTT(30) DEF CatalogInv
<1>2. /\ cells' \in Seq(Cell) /\ Len(cells') <= EntryCapacity /\ Len(cells) <= Len(cells')
      /\ \A i \in 1 .. Len(cells') : GoodCell(cells'[i])
      /\ \A i, j \in 1 .. Len(cells') : cells'[i].key = cells'[j].key => i = j
      /\ \A i \in 1 .. Len(cells) : cells'[i] = cells[i]
  BY <1>1, PutSound, SMTT(30)
<1>3. CellsSound'
  BY <1>2, SMTT(30) DEF CellsSound
<1>4. Len(cells) \in Nat /\ Len(cells') \in Nat
  BY <1>1, <1>2, SMTT(30) DEF CellsSound
<1>5. CursorSound'
  <2>1. CursorSound
    BY Zenon DEF CatalogInv
  <2>2. \A i \in 1 .. Len(seen) : seen[i] = cells'[i].key
    <3>1. \A i \in 1 .. Len(seen) : i \in 1 .. Len(cells)
      BY <1>4, <2>1, SMTT(30) DEF CursorSound
    <3> QED
      BY <1>2, <2>1, <3>1, Zenon DEF CursorSound
  <2>3. start \in 0 .. Len(cells') /\ Len(seen) <= Len(cells')
    BY <1>2, <1>4, <2>1, SMTT(30) DEF CursorSound
  <2>4. cursor.cell \in 1 .. Len(cells) + 1 => cursor.cell \in 1 .. Len(cells') + 1
    BY <1>2, <1>4
  <2> QED
    BY <2>1, <2>2, <2>3, <2>4, SMTT(30) DEF CursorSound
<1> QED
  BY <1>3, <1>5 DEF CatalogInv

\* The invariant holds of the catalog before it is opened.
LEMMA CatalogInitInv == CatalogInit => CatalogInv
<1> SUFFICES ASSUME CatalogInit PROVE CatalogInv
  OBVIOUS
<1>1. cells = <<>> /\ seen = <<>> /\ Len(<<>>) = 0 /\ 1 .. 0 = {}
  BY DEF CatalogInit
<1>2. CellsSound
  BY <1>1, GivenAssumption DEF CellsSound
<1>3. CursorSound
  BY <1>1 DEF CatalogInit, CursorSound, NoCursor
<1> QED
  BY <1>2, <1>3, Zenon DEF CatalogInit, CatalogInv

\* catalog_insert adds a cell with the key of its entry, or changes nothing.
LEMMA EntryInv ==
    ASSUME CatalogInv, NEW entry \in Given, catalog_insert(entry)
    PROVE  CatalogInv'
<1>1. entry \in Entry /\ serialize_entry(entry) = entry
  BY GivenAssumption
<1>2. entry.name = Cut[entry.name]
  <2>1. serialize_entry(entry).name = Cut[entry.name]
    BY <1>1 DEF serialize_entry, Entry
  <2> QED
    BY <1>1, <2>1
<1> DEFINE key == EntryKey(entry)
<1>3. key \in Nat
  BY <1>1, <1>2, KeyOfEntry, SMTT(30)
<1>4. GoodCell([key |-> key, value |-> entry])
  BY <1>2, SMTT(30) DEF GoodCell
<1>5. /\ cells' = btree_insert(cells, key, entry, EntryCapacity).cells
      /\ UNCHANGED <<catalog_is_open, cursor, seen, start>>
  BY <1>1, SMTT(30) DEF catalog_insert, insert_entry
<1> HIDE DEF key
<1> QED
  BY <1>1, <1>3, <1>4, <1>5, PutInv, SMTT(30)

\* catalog_init adds the cell of the catalog itself, or finds it.
LEMMA MasterInv == CatalogInv /\ catalog_init => CatalogInv'
<1> SUFFICES ASSUME CatalogInv, catalog_init PROVE CatalogInv'
  OBVIOUS
<1>1. GoodCell([key |-> 0, value |-> MasterEntry])
  BY MasterIsEntry, SMTT(30) DEF GoodCell
<1>2. /\ cells' = btree_insert(cells, 0, MasterEntry, EntryCapacity).cells
      /\ UNCHANGED <<catalog_is_open, cursor, seen, start>>
  BY MasterIsEntry DEF catalog_init
<1> QED
  BY <1>1, <1>2, MasterIsEntry, PutInv, SMTT(30)

\* An open catalog starts empty: no cursor is alive then.
LEMMA CatalogOpenInv == CatalogInv /\ catalog_open => CatalogInv'
<1> SUFFICES ASSUME CatalogInv, catalog_open PROVE CatalogInv'
  OBVIOUS
<1>1. ~cursor.live /\ seen = <<>> /\ start = 0
  BY DEF CatalogInv, CursorSound, catalog_open
<1>2. cells' = <<>> /\ Len(<<>>) = 0 /\ 1 .. 0 = {}
  BY DEF catalog_open
<1>3. CellsSound'
  BY <1>2, GivenAssumption DEF CellsSound
<1>4. CursorSound'
  BY <1>1, <1>2 DEF CatalogInv, CursorSound, catalog_open
<1> QED
  BY <1>3, <1>4 DEF CatalogInv, catalog_open

\* A new cursor shows the first cell, or is at its end.
LEMMA CursorCreateInv == CatalogInv /\ catalog_cursor_create => CatalogInv'
<1> SUFFICES ASSUME CatalogInv, catalog_cursor_create PROVE CatalogInv'
  OBVIOUS
<1>1. cells' = cells /\ cells \in Seq(Cell) /\ CellsSound
  BY DEF CatalogInv, CellsSound, catalog_cursor_create
<1>2. CellsSound'
  BY <1>1 DEF CellsSound
<1>3. Len(cells) \in Nat /\ start' = Len(cells)
  BY <1>1, SMTT(30) DEF catalog_cursor_create
<1>4. cursor' \in [live : BOOLEAN, cell : Nat, is_end : BOOLEAN]
  BY DEF catalog_cursor_create
<1>5. CASE cells = <<>>
  <2>1. Len(<<>>) = 0 /\ 1 .. 0 = {} /\ seen' = <<>> /\ Len(cells) = 0
    BY <1>5 DEF catalog_cursor_create
  <2>2. cursor'.live /\ cursor'.cell = 1 /\ cursor'.is_end
    BY <1>5, Zenon DEF catalog_cursor_create
  <2>3. CursorSound'
    BY <1>1, <1>3, <1>4, <1>5, <2>1, <2>2 DEF CursorSound, CatalogInv, catalog_cursor_create
  <2> QED
    BY <1>2, <2>3 DEF CatalogInv, catalog_cursor_create
<1>6. CASE cells # <<>>
  <2>1. Len(cells) >= 1 /\ cells[1] \in Cell
    BY <1>1, <1>6, SMTT(30)
  <2>2. seen' = <<cells[1].key>> /\ cells[1].key \in Nat
    BY <1>6, <2>1 DEF catalog_cursor_create, Cell
  <2>3. /\ seen' \in Seq(Nat) /\ Len(seen') = 1
        /\ \A i \in 1 .. Len(seen') : seen'[i] = cells[i].key
    BY <2>2
  <2>4. cursor'.live /\ cursor'.cell = 1 /\ ~cursor'.is_end
    BY <1>6, Zenon DEF catalog_cursor_create
  <2>5. CursorSound'
    BY <1>1, <1>3, <1>4, <2>1, <2>3, <2>4 DEF CursorSound, CatalogInv, catalog_cursor_create
  <2> QED
    BY <1>2, <2>5 DEF CatalogInv, catalog_cursor_create
<1> QED
  BY <1>5, <1>6

\* A cursor shows the next cell or comes to its end.
LEMMA CursorNextInv == CatalogInv /\ catalog_cursor_next => CatalogInv'
<1> SUFFICES ASSUME CatalogInv, catalog_cursor_next PROVE CatalogInv'
  OBVIOUS
<1>1. cells' = cells /\ cells \in Seq(Cell) /\ CellsSound /\ Len(cells) \in Nat
  BY DEF CatalogInv, CellsSound, catalog_cursor_next
<1>2. CellsSound'
  BY <1>1 DEF CellsSound
<1>3. /\ cursor \in [live : BOOLEAN, cell : Nat, is_end : BOOLEAN]
      /\ cursor.live /\ ~cursor.is_end /\ start' = start /\ start \in 0 .. Len(cells)
      /\ seen \in Seq(Nat) /\ Len(seen) = cursor.cell /\ Len(seen) <= Len(cells)
      /\ \A i \in 1 .. Len(seen) : seen[i] = cells[i].key
      /\ catalog_is_open /\ catalog_is_open' = catalog_is_open
  BY DEF CatalogInv, CursorSound, catalog_cursor_next, catalog_cursor_valid
<1> DEFINE at_end == cursor.cell = Len(cells)
<1>4. cursor' = [cursor EXCEPT !.cell = cursor.cell + 1, !.is_end = at_end]
  BY DEF catalog_cursor_next
<1>5. /\ cursor' \in [live : BOOLEAN, cell : Nat, is_end : BOOLEAN]
      /\ cursor'.live = cursor.live /\ cursor'.cell = cursor.cell + 1
      /\ cursor'.is_end = at_end
  <2> DEFINE c == cursor.cell + 1
  <2>1. c \in Nat /\ at_end \in BOOLEAN
    BY <1>3
  <2>2. cursor' = [cursor EXCEPT !.cell = c, !.is_end = at_end]
    BY <1>4
  <2> HIDE DEF c, at_end
  <2>3. /\ cursor'.live = cursor.live /\ cursor'.cell = c /\ cursor'.is_end = at_end
    BY <1>3, <2>2, Zenon
  <2>4. cursor' \in [live : BOOLEAN, cell : Nat, is_end : BOOLEAN]
    BY <1>3, <2>1, <2>2, Zenon
  <2> QED
    BY <2>3, <2>4 DEF c
<1>6. cursor'.live /\ cursor'.cell \in 1 .. Len(cells) + 1 /\ Len(seen) \in Nat
  BY <1>1, <1>3, <1>5
<1>7. CASE at_end
  <2>1. seen' = seen /\ cursor'.is_end
    BY <1>5, <1>7, Zenon DEF catalog_cursor_next
  <2>2. Len(seen) >= start
    BY <1>1, <1>3, <1>7
  <2>3. CursorSound'
    BY <1>1, <1>3, <1>5, <1>6, <2>1, <2>2, Zenon DEF CursorSound
  <2> QED
    BY <1>2, <1>3, <2>3 DEF CatalogInv
<1>8. CASE ~at_end
  <2>1. cursor.cell + 1 \in 1 .. Len(cells)
    BY <1>1, <1>3, <1>6, <1>8
  <2> DEFINE new == cells[cursor.cell + 1].key
  <2>2. seen' = Append(seen, new) /\ ~cursor'.is_end
    BY <1>5, <1>8, Zenon DEF catalog_cursor_next
  <2>3. new \in Nat
    <3>1. cells[cursor.cell + 1] \in Cell
      BY <1>1, <2>1
    <3> QED
      BY <3>1 DEF Cell
  <2>4. /\ seen' \in Seq(Nat) /\ Len(seen') = Len(seen) + 1
        /\ seen'[Len(seen) + 1] = new
        /\ \A i \in 1 .. Len(seen) : seen'[i] = seen[i]
    <3> HIDE DEF new
    <3> QED
      BY <1>3, <2>2, <2>3
  <2>5. \A i \in 1 .. Len(seen') : i \in 1 .. Len(seen) \/ i = Len(seen) + 1
    BY <1>6, <2>4
  <2>6. \A i \in 1 .. Len(seen') : seen'[i] = cells[i].key
    BY <1>3, <2>4, <2>5, Zenon
  <2>7. Len(seen') = cursor'.cell /\ Len(seen') <= Len(cells)
    BY <1>1, <1>3, <1>5, <2>1, <2>4, SMTT(30)
  <2>8. CursorSound'
    BY <1>1, <1>3, <1>6, <1>5, <2>2, <2>4, <2>6, <2>7, Zenon DEF CursorSound
  <2> QED
    BY <1>2, <1>3, <2>8 DEF CatalogInv
<1> QED
  BY <1>7, <1>8

\* Every call preserves the invariant.
LEMMA CatalogNextInv == CatalogInv /\ [CatalogNext]_catalogVars => CatalogInv'
<1> SUFFICES ASSUME CatalogInv, [CatalogNext]_catalogVars PROVE CatalogInv'
  OBVIOUS
<1>1. CASE catalog_open
  BY <1>1, CatalogOpenInv
<1>2. CASE catalog_close
  BY <1>2, Zenon DEF CatalogInv, CellsSound, CursorSound, catalog_close
<1>3. CASE catalog_init
  BY <1>3, MasterInv
<1>4. CASE \E entry \in Given : catalog_insert(entry)
  BY <1>4, EntryInv, Zenon
<1>5. CASE \E type \in {"table", "index"}, name \in Name : catalog_delete(type, name)
  BY <1>5 DEF CatalogInv, CellsSound, CursorSound, catalog_delete
<1>6. CASE catalog_cursor_create
  BY <1>6, CursorCreateInv
<1>7. CASE catalog_cursor_get
  BY <1>7 DEF CatalogInv, CellsSound, CursorSound, catalog_cursor_get
<1>8. CASE catalog_cursor_next
  BY <1>8, CursorNextInv
<1>9. CASE catalog_cursor_free
  <2>1. seen' = <<>> /\ start' = 0 /\ Len(<<>>) = 0 /\ 1 .. 0 = {} /\ cursor' = NoCursor
    BY <1>9 DEF catalog_cursor_free
  <2>2. cells' = cells /\ catalog_is_open' = catalog_is_open /\ Len(cells) \in Nat
    BY <1>9 DEF catalog_cursor_free, CatalogInv, CellsSound
  <2>3. CellsSound'
    BY <2>2 DEF CatalogInv, CellsSound
  <2>4. CursorSound'
    BY <2>1, <2>2 DEF CursorSound, NoCursor
  <2> QED
    BY <2>2, <2>3, <2>4 DEF CatalogInv
<1>10. CASE UNCHANGED catalogVars
  BY <1>10, Zenon DEF CatalogInv, CellsSound, CursorSound, catalogVars
<1> QED
  BY <1>1, <1>2, <1>3, <1>4, <1>5, <1>6, <1>7, <1>8, <1>9, <1>10, SMTT(30) DEF CatalogNext

\* Keys are told apart and tell the type, by the key of every cell.
LEMMA KeysAreSound == ASSUME CellsSound PROVE KeysSound
<1> SUFFICES ASSUME NEW i \in 1 .. Len(cells)
             PROVE  /\ cells[i].key >= IndexKey <=> cells[i].value.type = "index"
                    /\ cells[i].key = 0 => cells[i].value = MasterEntry
  BY DEF CellsSound, KeysSound
<1>1. cells[i] \in Cell /\ GoodCell(cells[i])
  BY DEF CellsSound
<1>2. cells[i].value \in Entry
  BY <1>1 DEF Cell
<1>3. CASE cells[i].key = EntryKey(cells[i].value)
  BY <1>1, <1>2, <1>3, KeyOfEntry, SMTT(30) DEF GoodCell
<1>4. CASE cells[i].key = 0 /\ cells[i].value = MasterEntry
  BY <1>4, CatalogAssumption, SMTT(30) DEF MasterEntry
<1> QED
  BY <1>1, <1>3, <1>4, Zenon DEF GoodCell

\* Two tables of one name that is not the catalog's own are one cell: the key
\* is made from the name.
LEMMA TableNamesUnique ==
    ASSUME CellsSound, NEW i \in 1 .. Len(cells), NEW j \in 1 .. Len(cells),
           cells[i].value.type = "table", cells[j].value.type = "table",
           cells[i].value.name = cells[j].value.name, cells[i].value.name # MasterName
    PROVE  i = j
<1>1. GoodCell(cells[i]) /\ GoodCell(cells[j])
  BY DEF CellsSound
<1>2. cells[i].value # MasterEntry /\ cells[j].value # MasterEntry
  BY SMTT(30) DEF MasterEntry
<1>3. cells[i].key = 1 + strlen[cells[i].value.name] /\ cells[j].key = 1 + strlen[cells[j].value.name]
  BY <1>1, <1>2, Zenon DEF GoodCell, EntryKey
<1> QED
  BY <1>3 DEF CellsSound

\* What the listings have is what the lookup finds.
LEMMA ListedAreFound == ASSUME CellsSound PROVE ListedIsFound
<1>1. cells \in Seq(Cell) /\ Len(cells) \in Nat
  BY DEF CellsSound
<1> DEFINE tables == {i \in 1 .. Len(cells) : cells[i].value.type = "table"}
<1>2. IsListed(get_tables(cells), cells, tables)
  BY <1>1, ListedCells DEF get_tables
<1>3. ASSUME NEW i \in 1 .. Len(get_tables(cells)), get_tables(cells)[i].value.name # MasterName
      PROVE  lookup(cells, "table", get_tables(cells)[i].value.name) = get_tables(cells)[i].value
  <2>1. PICK k \in tables : get_tables(cells)[i] = cells[k]
    <3> HIDE DEF tables
    <3> QED
      BY <1>2, Zenon DEF IsListed
  <2> DEFINE n == cells[k].value.name
             found == Matches(cells, "table", n)
  <2>2. k \in 1 .. Len(cells) /\ cells[k].value.type = "table" /\ n # MasterName
    BY <1>3, <2>1
  <2>3. k \in found
    BY <2>2 DEF Matches
  <2>4. \A j \in found : j = k
    <3> SUFFICES ASSUME NEW j \in found PROVE j = k
      OBVIOUS
    <3>1. j \in 1 .. Len(cells) /\ cells[j].value.type = "table" /\ cells[j].value.name = n
      BY DEF Matches
    <3> QED
      BY <2>2, <3>1, TableNamesUnique
  <2> HIDE DEF found
  <2>5. found = {k} /\ k <= k
    BY <2>2, <2>3, <2>4, SMTT(30)
  <2>6. (CHOOSE j \in found : \A m \in found : j <= m) = k
    BY <2>5
  <2>7. lookup(cells, "table", n) = cells[k].value
    BY <2>5, <2>6, Zenon DEF lookup, found
  <2> QED
    BY <2>1, <2>7, SMTT(30)
<1>4. ASSUME NEW i \in 1 .. Len(cells), cells[i].value.type = "index"
      PROVE  \E j \in 1 .. Len(get_indexes(cells, cells[i].value.tbl_name)) :
                get_indexes(cells, cells[i].value.tbl_name)[j] = cells[i]
  <2> DEFINE t == cells[i].value.tbl_name
             wanted == {m \in 1 .. Len(cells) : /\ cells[m].value.type = "index"
                                                /\ cells[m].value.tbl_name = t}
  <2>1. i \in wanted
    BY <1>4, SMTT(30)
  <2>2. IsListed(get_indexes(cells, t), cells, wanted)
    BY <1>1, ListedCells DEF get_indexes
  <2> HIDE DEF wanted
  <2> QED
    BY <2>1, <2>2, SMTT(30) DEF IsListed
<1> QED
  BY <1>3, <1>4, Zenon DEF ListedIsFound

\* The cells of the catalog have keys of their own, made from their entries,
\* and its cursor has shown the cells up to where it is.
THEOREM CatalogInvariant == CatalogSpec => []CatalogInv
<1>1. CatalogInit => CatalogInv
  BY CatalogInitInv
<1>2. CatalogInv /\ [CatalogNext]_catalogVars => CatalogInv'
  BY CatalogNextInv
<1> QED
  BY <1>1, <1>2, PTL DEF CatalogSpec

\* The ways to an entry of the catalog agree, whatever the page holds and
\* whichever entries are inserted while a cursor is open.
THEOREM CatalogIsSound == CatalogSpec => []CatalogSound
<1>1. CatalogInv => CatalogSound
  <2> SUFFICES ASSUME CatalogInv PROVE CatalogSound
    OBVIOUS
  <2>1. CellsSound /\ CursorSound
    BY DEF CatalogInv
  <2>2. KeysSound /\ ListedIsFound
    BY <2>1, KeysAreSound, ListedAreFound, Zenon
  <2>3. CatalogTypeOK
    <3>1. ASSUME NEW i \in 1 .. Len(cells) PROVE cells[i].key \in Nat /\ cells[i].value \in Entry
      <4>1. cells[i] \in Cell
        BY <2>1 DEF CellsSound
      <4> QED
        BY <4>1 DEF Cell
    <3> QED
      BY <2>1, <3>1 DEF CatalogInv, CellsSound, CursorSound, CatalogTypeOK
  <2>4. ScanComplete
    BY <2>1 DEF CursorSound, ScanComplete
  <2> QED
    BY <2>2, <2>3, <2>4 DEF CatalogSound
<1> QED
  BY <1>1, CatalogInvariant, PTL

----------------------------------------------------------------------------
(* The lexer: the scanners.                                                *)

\* The end of a text belongs to no class of characters.
LEMMA NoCharacter ==
    /\ "NUL" \notin Space /\ "NUL" \notin Digit /\ "NUL" \notin HexDigit
    /\ "NUL" \notin Alpha \cup Digit /\ "NUL" # Quote
    /\ "EOF" \notin Single /\ "STRING" \notin Single
  BY Zenon DEF Space, Digit, HexDigit, Alpha, Quote, Single

\* Where there is a character, the text has not ended.
LEMMA AtInside ==
    ASSUME NEW s \in Seq(SqlChar), NEW i \in Nat \ {0}, At(s, i) # "NUL"
    PROVE  i \in 1 .. Len(s) /\ At(s, i) = s[i]
  BY DEF At

\* A run of characters of one class ends at the first one that is not of it, or
\* at the end of the text.
LEMMA EndOfRun ==
    ASSUME NEW s \in Seq(SqlChar), NEW i \in 1 .. Len(s) + 1, NEW S, "NUL" \notin S
    PROVE  /\ EndOf(s, i, S) \in i .. Len(s) + 1
           /\ At(s, EndOf(s, i, S)) \notin S
           /\ \A k \in i .. EndOf(s, i, S) - 1 : s[k] \in S
  <1> DEFINE Ends == {j \in i .. Len(s) + 1 : At(s, j) \notin S}
  <1>1. Len(s) + 1 \in Ends /\ Ends \subseteq Nat
    BY DEF At
  <1>2. PICK j \in Ends : \A k \in Ends : j <= k
    <2> HIDE DEF Ends
    <2> QED
      BY <1>1, LeastNumber, Zenon
  <1>3. ASSUME NEW k \in i .. j - 1 PROVE s[k] \in S
    <2>1. k \in i .. Len(s) + 1 /\ k <= Len(s) /\ ~(j <= k)
      BY <1>2
    <2>2. k \notin Ends
      BY <1>2, <2>1
    <2> QED
      BY <2>1, <2>2 DEF At
  <1>4. \E x \in i .. Len(s) + 1 : At(s, x) \notin S /\ \A k \in i .. x - 1 : s[k] \in S
    BY <1>2, <1>3
  <1> QED
    BY <1>4, Zenon DEF EndOf

\* What a scanner returns that begins at i: a token that begins there and ends
\* within the text.
Scanned(s, i, t) ==
    /\ t.type \in TokenType \ {"EOF"} /\ t.first = i /\ t.last \in i .. Len(s)
    /\ t = [type |-> t.type, first |-> t.first, last |-> t.last, content |-> t.content]
    /\ t.content \in Seq(SqlChar \cup {Quote})
    /\ StringRead(s, t)

\* The tokens without content.
LEMMA TokenScanned ==
    ASSUME NEW s \in Seq(SqlChar), NEW i \in 1 .. Len(s), NEW next \in i + 1 .. Len(s) + 1,
           NEW type \in TokenType \ {"EOF", "STRING"}
    PROVE  Scanned(s, i, Token(type, i, next))
  <1> DEFINE t == Token(type, i, next)
  <1>1. t.type = type /\ t.first = i /\ t.last = next - 1 /\ t.content = <<>>
        /\ t = [type |-> t.type, first |-> t.first, last |-> t.last, content |-> t.content]
    BY DEF Token
  <1>2. next - 1 \in i .. Len(s) /\ <<>> \in Seq(SqlChar \cup {Quote})
    OBVIOUS
  <1> HIDE DEF t
  <1>3. StringRead(s, t)
    BY <1>1, Zenon DEF StringRead
  <1>4. t.type \in TokenType \ {"EOF"} /\ t.first = i /\ t.last \in i .. Len(s)
        /\ t.content \in Seq(SqlChar \cup {Quote})
    BY <1>1, <1>2
  <1> QED
    BY <1>1, <1>3, <1>4, Zenon DEF Scanned, t

\* The types that are not an operator's.
LEMMA TypesOfTokens ==
    /\ {"WORD", "INTEGER", "REAL", "ERROR", "PLACEHOLDER", "!=", "<=", ">=", "<", ">"}
         \subseteq TokenType \ {"EOF", "STRING"}
    /\ Single \subseteq TokenType \ {"EOF", "STRING"}
    /\ "EOF" \in TokenType /\ "STRING" \in TokenType
  BY NoCharacter, Zenon DEF TokenType

\* scan_identifier (lexer.c:261).
LEMMA IdentifierScanned ==
    ASSUME NEW s \in Seq(SqlChar), NEW i \in 1 .. Len(s)
    PROVE  Scanned(s, i, scan_identifier(s, i))
  <1>1. EndOf(s, i + 1, Alpha \cup Digit) \in i + 1 .. Len(s) + 1
    <2>1. i + 1 \in 1 .. Len(s) + 1
      OBVIOUS
    <2> QED
      BY <2>1, EndOfRun, NoCharacter, Zenon
  <1> QED
    BY <1>1, TokenScanned, TypesOfTokens, Zenon DEF scan_identifier
\* Where a fraction and an exponent end.
LEMMA NumberEnds ==
    ASSUME NEW s \in Seq(SqlChar), NEW d \in 1 .. Len(s) + 1
    PROVE  FractionEnd(s, d) \in d .. Len(s) + 1 /\ ExponentEnd(s, d) \in d .. Len(s) + 1
  <1>1. FractionEnd(s, d) \in d .. Len(s) + 1
    <2>1. CASE At(s, d) = "." /\ At(s, d + 1) \in Digit
      <3>1. d + 1 \in 1 .. Len(s)
        BY <2>1, NoCharacter, AtInside
      <3>2. d + 1 \in 1 .. Len(s) + 1
        BY <3>1
      <3>3. EndOf(s, d + 1, Digit) \in d + 1 .. Len(s) + 1
        BY <3>2, EndOfRun, NoCharacter, Zenon
      <3> QED
        BY <2>1, <3>1, <3>3 DEF FractionEnd
    <2> QED
      BY <2>1 DEF FractionEnd
  <1>2. ExponentEnd(s, d) \in d .. Len(s) + 1
    <2>1. CASE At(s, d) # "e"
      BY <2>1 DEF ExponentEnd
    <2>2. CASE At(s, d) = "e"
      <3> DEFINE b == IF At(s, d + 1) \in {"+", "-"} THEN d + 2 ELSE d + 1
      <3>1. d \in 1 .. Len(s)
        BY <2>2, AtInside
      <3>2. At(s, d + 1) \in {"+", "-"} => At(s, d + 1) # "NUL"
        BY Zenon
      <3>3. At(s, d + 1) \in {"+", "-"} => d + 1 \in 1 .. Len(s)
        <4> DEFINE sign == At(s, d + 1) \in {"+", "-"}
        <4> HIDE DEF sign
        <4>1. sign => At(s, d + 1) # "NUL"
          BY <3>2 DEF sign
        <4>2. sign => d + 1 \in 1 .. Len(s)
          BY <3>1, <4>1, AtInside
        <4> QED
          BY <4>2 DEF sign
      <3>4. b \in d + 1 .. Len(s) + 1
        <4> DEFINE sign == At(s, d + 1) \in {"+", "-"}
        <4>1. (sign => b = d + 2) /\ (~sign => b = d + 1) /\ (sign => d + 1 \in 1 .. Len(s))
          BY <3>3, Zenon
        <4> HIDE DEF sign, b
        <4> QED
          BY <3>1, <4>1
      <3>5. ExponentEnd(s, d) = EndOf(s, b, Digit)
        BY <2>2, Zenon DEF ExponentEnd
      <3> HIDE DEF b
      <3>6. EndOf(s, b, Digit) \in b .. Len(s) + 1
        <4>1. b \in 1 .. Len(s) + 1
          BY <3>1, <3>4
        <4> QED
          BY <4>1, EndOfRun, NoCharacter, Zenon
      <3> QED
        BY <3>1, <3>4, <3>5, <3>6
    <2> QED
      BY <2>1, <2>2
  <1> QED
    BY <1>1, <1>2

\* scan_number (lexer.c:296).
LEMMA NumberScanned ==
    ASSUME NEW s \in Seq(SqlChar), NEW i \in 1 .. Len(s), s[i] \in Digit
    PROVE  Scanned(s, i, scan_number(s, i))
  <1>1. CASE At(s, i) = "0" /\ At(s, i + 1) = "x"
    <2>1. i + 2 \in 1 .. Len(s) + 1
      BY <1>1, AtInside
    <2>2. EndOf(s, i + 2, HexDigit) \in i + 1 .. Len(s) + 1
      BY <2>1, EndOfRun, NoCharacter
    <2>3. Scanned(s, i, Token("INTEGER", i, EndOf(s, i + 2, HexDigit)))
      BY <2>2, TokenScanned, TypesOfTokens, Zenon
    <2> QED
      BY <1>1, <2>3 DEF scan_number
  <1>2. CASE ~(At(s, i) = "0" /\ At(s, i + 1) = "x")
    <2> DEFINE d == EndOf(s, i, Digit)
               f == FractionEnd(s, d)
               e == ExponentEnd(s, f)
               type == IF e > d THEN "REAL" ELSE "INTEGER"
    <2>1. d \in i .. Len(s) + 1 /\ At(s, d) \notin Digit
      BY EndOfRun, NoCharacter
    <2>2. d \in i + 1 .. Len(s) + 1
      BY <2>1 DEF At
    <2>3. scan_number(s, i) = Token(type, i, e)
      BY <1>2, Zenon DEF scan_number
    <2> HIDE DEF d
    <2>4. f \in d .. Len(s) + 1
      BY <2>2, NumberEnds
    <2> HIDE DEF f
    <2>5. e \in f .. Len(s) + 1
      BY <2>2, <2>4, NumberEnds
    <2> HIDE DEF e
    <2>6. e \in i + 1 .. Len(s) + 1
      BY <2>2, <2>4, <2>5
    <2>7. type \in TokenType \ {"EOF", "STRING"}
      BY TypesOfTokens, Zenon
    <2> HIDE DEF type
    <2> QED
      BY <2>3, <2>6, <2>7, TokenScanned, Zenon
  <1> QED
    BY <1>1, <1>2

\* A placeholder (lexer.c:532).
LEMMA PlaceholderScanned ==
    ASSUME NEW s \in Seq(SqlChar), NEW i \in 1 .. Len(s)
    PROVE  Scanned(s, i, scan_placeholder(s, i))
  <1>1. CASE At(s, i + 1) \in Digit
    <2>1. EndOf(s, i + 1, Digit) \in i + 1 .. Len(s) + 1
      <3>1. i + 1 \in 1 .. Len(s) + 1
        OBVIOUS
      <3> QED
        BY <3>1, EndOfRun, NoCharacter, Zenon
    <2> QED
      BY <1>1, <2>1, TokenScanned, TypesOfTokens, Zenon DEF scan_placeholder
  <1>2. CASE At(s, i + 1) \notin Digit
    <2>1. i + 1 \in i + 1 .. Len(s) + 1
      OBVIOUS
    <2> QED
      BY <1>2, <2>1, TokenScanned, TypesOfTokens, Zenon DEF scan_placeholder
  <1> QED
    BY <1>1, <1>2

\* scan_operator (lexer.c:453): each case takes one or two characters.
LEMMA OperatorScanned ==
    ASSUME NEW s \in Seq(SqlChar), NEW i \in 1 .. Len(s)
    PROVE  Scanned(s, i, scan_operator(s, i))
  <1>1. i + 1 \in i + 1 .. Len(s) + 1
    OBVIOUS
  <1>2. At(s, i + 1) # "NUL" => i + 2 \in i + 1 .. Len(s) + 1
    BY AtInside
  <1>3. At(s, i + 1) \in {"=", ">"} => i + 2 \in i + 1 .. Len(s) + 1
    BY <1>2, Zenon
  <1>4. ASSUME NEW type \in {"!=", "<=", ">=", "<", ">", "ERROR"} \cup Single
        PROVE  type \in TokenType \ {"EOF", "STRING"}
    BY TypesOfTokens, Zenon
  <1> QED
    BY <1>1, <1>3, <1>4, TokenScanned, Zenon DEF scan_operator
----------------------------------------------------------------------------
(* The lexer: strings.                                                     *)

Letters == SqlChar \cup {Quote}

\* What writing one character adds.
WithLetter(q, c) == IF c = Quote THEN Append(Append(q, Quote), Quote) ELSE Append(q, c)

\* The states of the loop of Quoted.
IsQuoting(f, content) ==
    /\ f \in [0 .. Len(content) -> Seq(Letters)]
    /\ f[0] = <<Quote>>
    /\ \A n \in 1 .. Len(content) : f[n] = WithLetter(f[n - 1], content[n])
    /\ Quoted(content) = f[Len(content)]

\* Quoted is the end of a loop over the content.
LEMMA QuotedRuns ==
    ASSUME NEW content \in Seq(Letters)
    PROVE  \E f : IsQuoting(f, content)
  <1> DEFINE N == Len(content)
             S == Seq(Letters)
             opening == <<Quote>>
             body == [n \in 1 .. N |-> [q \in S |-> WithLetter(q, content[n])]]
             Turns(f) == [n \in 0 .. N |-> IF n = 0 THEN opening ELSE WithLetter(f[n - 1], content[n])]
             written == CHOOSE f : f = Turns(f)
  <1>1. N \in Nat /\ opening \in S
    BY DEF Letters
  <1>2. body \in [1 .. N -> [S -> S]]
    <2>1. ASSUME NEW q \in S, NEW n \in 1 .. N PROVE WithLetter(q, content[n]) \in S
      BY DEF WithLetter, Letters
    <2> QED
      BY <2>1
  <1>3. Quoted(content) = written[N]
    BY Zenon DEF Quoted, WithLetter
  <1>4. PICK g : AreRounds(g, S, opening, N, body)
    <2> HIDE DEF body, N, S, opening
    <2> QED
      BY <1>1, <1>2, RoundsExist, Zenon
  <1> HIDE DEF N, S, opening
  <1>5. g \in [0 .. N -> S] /\ g[0] = opening
    BY <1>4 DEF AreRounds
  <1>6. ASSUME NEW n \in 1 .. N PROVE g[n] = WithLetter(g[n - 1], content[n])
    <2>1. g[n - 1] \in S
      BY <1>1, <1>5
    <2>2. g[n] = body[n][g[n - 1]]
      BY <1>4 DEF AreRounds
    <2> QED
      BY <2>1, <2>2
  <1>7. g = Turns(g)
    <2>1. \A n \in 0 .. N : n = 0 \/ n \in 1 .. N
      BY <1>1
    <2> QED
      BY <1>5, <1>6, <2>1
  <1>8. written = Turns(written)
    <2> HIDE DEF Turns
    <2> QED
      BY <1>7
  <1> HIDE DEF written
  <1>9. written[0] = g[0]
    <2>1. written[0] = Turns(written)[0] /\ 0 \in 0 .. N
      BY <1>1, <1>8
    <2> QED
      BY <1>5, <2>1
  <1>10. ASSUME NEW n \in 1 .. N, written[n - 1] = g[n - 1] PROVE written[n] = g[n]
    <2>1. n \in 0 .. N /\ n # 0
      BY <1>1
    <2>2. written[n] = Turns(written)[n]
      BY <1>8, Zenon
    <2>3. written[n] = WithLetter(written[n - 1], content[n])
      BY <2>1, <2>2
    <2> QED
      BY <1>6, <1>10, <2>3
  <1>11. written[N] = g[N]
    <2>1. Agree(written, g, N) /\ N \in 0 .. N
      BY <1>1, <1>9, <1>10 DEF Agree
    <2> QED
      BY <1>1, <2>1, SameRounds
  <1> QED
    BY <1>3, <1>5, <1>6, <1>11 DEF IsQuoting, N, S, opening

\* Writing no character, and one character more.
LEMMA QuotedStep ==
    ASSUME NEW content \in Seq(Letters), NEW c \in Letters
    PROVE  /\ Quoted(<<>>) = <<Quote>>
           /\ Quoted(content) \in Seq(Letters)
           /\ Quoted(Append(content, c)) = WithLetter(Quoted(content), c)
  <1> DEFINE N == Len(content)
             more == Append(content, c)
  <1>1. more \in Seq(Letters) /\ Len(more) = N + 1 /\ more[N + 1] = c /\ N \in Nat
        /\ \A n \in 1 .. N : more[n] = content[n]
    OBVIOUS
  <1>2. Quoted(<<>>) = <<Quote>>
    <2>1. <<>> \in Seq(Letters) /\ Len(<<>>) = 0
      OBVIOUS
    <2>2. PICK e : IsQuoting(e, <<>>)
      BY <2>1, QuotedRuns, Zenon
    <2> QED
      BY <2>1, <2>2, Zenon DEF IsQuoting
  <1>3. PICK f : IsQuoting(f, content)
    BY QuotedRuns
  <1> HIDE DEF more
  <1>4. PICK g : IsQuoting(g, more)
    BY <1>1, QuotedRuns
  <1>5. Agree(g, f, N)
    BY <1>1, <1>3, <1>4 DEF IsQuoting, Agree
  <1>6. g[N] = f[N] /\ Quoted(content) = f[N] /\ f[N] \in Seq(Letters)
    <2>1. \A n \in 0 .. N : g[n] = f[n]
      BY <1>1, <1>5, SameRounds
    <2> QED
      BY <1>1, <1>3, <2>1 DEF IsQuoting
  <1>7. Quoted(more) = WithLetter(g[N], c)
    BY <1>1, <1>4 DEF IsQuoting
  <1> QED
    BY <1>2, <1>6, <1>7 DEF more
\* One character more of a text.
LEMMA SubSeqMore ==
    ASSUME NEW C, NEW s \in Seq(C), NEW i \in 1 .. Len(s), NEW j \in i .. Len(s)
    PROVE  /\ SubSeq(s, i, j) = Append(SubSeq(s, i, j - 1), s[j])
           /\ SubSeq(s, i, i) = <<s[i]>>
  <1> DEFINE a == SubSeq(s, i, j)
             b == SubSeq(s, i, j - 1)
             n == j - i
  <1>1. a \in Seq(C) /\ Len(a) = n + 1 /\ \A k \in 1 .. n + 1 : a[k] = s[i + k - 1]
    OBVIOUS
  <1>2. b \in Seq(C) /\ Len(b) = n /\ \A k \in 1 .. n : b[k] = s[i + k - 1]
    OBVIOUS
  <1>3. s[j] \in C /\ n \in Nat /\ i + (n + 1) - 1 = j
    OBVIOUS
  <1>4. SubSeq(s, i, i) = <<s[i]>>
    <2> DEFINE x == SubSeq(s, i, i)
               y == <<s[i]>>
    <2>1. x \in Seq(C) /\ Len(x) = 1 /\ x[1] = s[i]
      OBVIOUS
    <2>2. y \in Seq(C) /\ Len(y) = 1 /\ y[1] = s[i]
      OBVIOUS
    <2> HIDE DEF x, y
    <2>3. x = y
      BY <2>1, <2>2
    <2> QED
      BY <2>3 DEF x, y
  <1> HIDE DEF a, b, n
  <1>5. a = Append(b, s[j])
    <2> DEFINE d == Append(b, s[j])
    <2>1. d \in Seq(C) /\ Len(d) = n + 1 /\ d[n + 1] = s[j] /\ \A k \in 1 .. n : d[k] = b[k]
      BY <1>2, <1>3
    <2> HIDE DEF d
    <2>2. ASSUME NEW k \in 1 .. n + 1 PROVE a[k] = d[k]
      <3>1. a[n + 1] = s[j]
        <4>1. n + 1 \in 1 .. n + 1
          BY <1>3
        <4> QED
          BY <1>1, <1>3, <4>1, Zenon
      <3>2. k = n + 1 \/ k \in 1 .. n
        BY <1>3
      <3> QED
        BY <1>1, <1>2, <2>1, <3>1, <3>2, Zenon
    <2>3. a = d
      BY <1>1, <2>1, <2>2, SMTT(30)
    <2> QED
      BY <2>3 DEF d
  <1> QED
    BY <1>4, <1>5 DEF a, b

\* A string read so far is what its content is written as.
AsWritten(s, i, r) ==
    /\ s[i] = Quote /\ r.state = "open" => Quoted(r.content) = SubSeq(s, i, r.next - 1)
    /\ s[i] = Quote /\ r.state = "closed" =>
          Append(Quoted(r.content), Quote) = SubSeq(s, i, r.next - 1)

\* After n rounds the string has ended or n characters have been read.
Reading(s, i, n, r) ==
    /\ r \in StringState
    /\ r.next \in i + 1 .. Len(s) + 1
    /\ r.state = "open" => r.next >= i + 1 + n
    /\ AsWritten(s, i, r)

\* One round reads on.
LEMMA RoundReads ==
    ASSUME NEW s \in Seq(SqlChar), NEW i \in 1 .. Len(s), NEW n \in Nat \ {0},
           NEW r, Reading(s, i, n - 1, r)
    PROVE  Reading(s, i, n, StringRound(s, s[i])[r])
  <1> DEFINE c == At(s, r.next)
             q == StringRound(s, s[i])[r]
             read(k, x) == [next |-> r.next + k, state |-> "open", content |-> Append(r.content, x)]
  <1>1. r \in StringState /\ r.next \in i + 1 .. Len(s) + 1 /\ r.content \in Seq(Letters)
        /\ r.state \in {"open", "closed", "unterminated"}
    BY DEF Reading, StringState, Letters
  <1>2. q = IF r.state # "open" THEN r
            ELSE IF c = "NUL" THEN [next |-> r.next, state |-> "unterminated", content |-> <<>>]
            ELSE IF c # s[i] THEN read(1, c)
            ELSE IF At(s, r.next + 1) = s[i] THEN read(2, Quote)
            ELSE [next |-> r.next + 1, state |-> "closed", content |-> r.content]
    BY <1>1, Zenon DEF StringRound
  <1> SUFFICES Reading(s, i, n, q)
    OBVIOUS
  <1> HIDE DEF q
  <1>3. CASE r.state # "open"
    <2>1. q = r
      BY <1>2, <1>3, Zenon
    <2> QED
      BY <1>3, <2>1, Zenon DEF Reading
  <1>4. ASSUME r.state = "open"
        PROVE  r.next >= i + n /\ (s[i] = Quote => Quoted(r.content) = SubSeq(s, i, r.next - 1))
    <2>1. AsWritten(s, i, r) /\ r.next >= i + 1 + (n - 1)
      BY <1>4 DEF Reading
    <2>2. r.next >= i + n
      BY <1>1, <2>1
    <2> QED
      BY <1>4, <2>1, <2>2, Zenon DEF AsWritten
  <1>5. CASE r.state = "open" /\ c = "NUL"
    <2>1. q = [next |-> r.next, state |-> "unterminated", content |-> <<>>]
      BY <1>2, <1>5, Zenon
    <2>2. q.next = r.next /\ q.state = "unterminated" /\ q \in StringState
      BY <1>1, <2>1 DEF StringState
    <2>3. AsWritten(s, i, q)
      BY <2>2, Zenon DEF AsWritten
    <2> QED
      BY <1>1, <2>2, <2>3 DEF Reading
  <1>6. ASSUME r.state = "open", c # "NUL"
        PROVE  /\ r.next \in i + 1 .. Len(s) /\ c = s[r.next] /\ c \in Letters /\ Quote \in Letters
               /\ SubSeq(s, i, r.next) = Append(SubSeq(s, i, r.next - 1), c)
    <2>1. r.next \in i + 1 .. Len(s) /\ c = s[r.next]
      BY <1>1, <1>6, AtInside
    <2> HIDE DEF c
    <2>2. SubSeq(s, i, r.next) = Append(SubSeq(s, i, r.next - 1), c)
      <3>1. r.next \in i .. Len(s)
        BY <2>1
      <3> QED
        BY <2>1, <3>1, SubSeqMore, Zenon
    <2> QED
      BY <2>1, <2>2 DEF Letters
  <1>7. CASE r.state = "open" /\ c # "NUL" /\ c # s[i]
    <2>1. q = read(1, c)
      BY <1>2, <1>7, Zenon
    <2>2. c \in Letters /\ r.next \in i + 1 .. Len(s)
      BY <1>6, <1>7, Zenon
    <2> HIDE DEF c
    <2>3. q.next = r.next + 1 /\ q.state = "open" /\ q.content = Append(r.content, c)
          /\ q \in StringState
      BY <1>1, <2>1, <2>2 DEF StringState, Letters
    <2>4. s[i] = Quote => Quoted(q.content) = SubSeq(s, i, q.next - 1)
      <3> HAVE s[i] = Quote
      <3>1. Quoted(q.content) = Append(Quoted(r.content), c)
        BY <1>1, <1>7, <2>2, <2>3, QuotedStep, Zenon DEF WithLetter
      <3>2. q.next - 1 = r.next
        BY <2>2, <2>3
      <3> QED
        BY <1>4, <1>6, <1>7, <3>1, <3>2, Zenon
    <2>5. AsWritten(s, i, q)
      BY <2>3, <2>4, Zenon DEF AsWritten
    <2>6. r.next >= i + n
      BY <1>4, <1>7
    <2> QED
      BY <2>2, <2>3, <2>5, <2>6 DEF Reading
  <1>8. CASE r.state = "open" /\ c # "NUL" /\ c = s[i] /\ At(s, r.next + 1) = s[i]
    <2>1. q = read(2, Quote)
      BY <1>2, <1>8, Zenon
    <2>2. c \in Letters /\ r.next \in i + 1 .. Len(s) /\ c = s[r.next] /\ Quote \in Letters
      BY <1>6, <1>8
    <2>3. r.next + 1 \in i + 1 .. Len(s) /\ s[r.next + 1] = s[i]
      BY <1>8, <2>2, AtInside
    <2> HIDE DEF c
    <2>4. q.next = r.next + 2 /\ q.state = "open" /\ q.content = Append(r.content, Quote)
          /\ q \in StringState
      BY <1>1, <2>1, <2>2 DEF StringState, Letters
    <2>5. s[i] = Quote => Quoted(q.content) = SubSeq(s, i, q.next - 1)
      <3> HAVE s[i] = Quote
      <3>1. Quoted(q.content) = Append(Append(Quoted(r.content), Quote), Quote)
        BY <1>1, <2>2, <2>4, QuotedStep, Zenon DEF WithLetter
      <3>2. q.next - 1 = r.next + 1 /\ (r.next + 1) - 1 = r.next
        BY <2>2, <2>4
      <3>3. SubSeq(s, i, r.next + 1) = Append(SubSeq(s, i, (r.next + 1) - 1), s[r.next + 1])
        <4>1. r.next + 1 \in i .. Len(s)
          BY <2>3
        <4> QED
          BY <4>1, SubSeqMore, Zenon
      <3> QED
        BY <1>4, <1>6, <1>8, <2>3, <3>1, <3>2, <3>3, Zenon
    <2>6. AsWritten(s, i, q)
      BY <2>4, <2>5, Zenon DEF AsWritten
    <2>7. r.next >= i + n
      BY <1>4, <1>8
    <2> QED
      BY <2>2, <2>3, <2>4, <2>6, <2>7, SMTT(30) DEF Reading
  <1>9. CASE r.state = "open" /\ c # "NUL" /\ c = s[i] /\ At(s, r.next + 1) # s[i]
    <2>1. q = [next |-> r.next + 1, state |-> "closed", content |-> r.content]
      BY <1>2, <1>9, Zenon
    <2>2. r.next \in i + 1 .. Len(s)
      BY <1>6, <1>9, Zenon
    <2> HIDE DEF c
    <2>3. q.next = r.next + 1 /\ q.state = "closed" /\ q.content = r.content /\ q \in StringState
      BY <1>1, <2>1, <2>2 DEF StringState, Letters
    <2>4. s[i] = Quote => Append(Quoted(q.content), Quote) = SubSeq(s, i, q.next - 1)
      <3> HAVE s[i] = Quote
      <3>1. q.next - 1 = r.next
        BY <2>2, <2>3
      <3> QED
        BY <1>4, <1>6, <1>9, <2>3, <3>1, Zenon
    <2>5. AsWritten(s, i, q)
      BY <2>3, <2>4, Zenon DEF AsWritten
    <2> QED
      BY <2>2, <2>3, <2>5 DEF Reading
  <1> QED
    BY <1>3, <1>5, <1>7, <1>8, <1>9, Zenon
\* The loop of scan_string (lexer.c:398) ends, within the text.
LEMMA StringReads ==
    ASSUME NEW s \in Seq(SqlChar), NEW i \in 1 .. Len(s)
    PROVE  /\ Reading(s, i, Len(s), StringFrom(s, i))
           /\ StringFrom(s, i).state # "open"
  <1> DEFINE N == Len(s)
             opening == [next |-> i + 1, state |-> "open", content |-> <<>>]
             Turns(f) == [n \in 0 .. N |->
                            IF n = 0 THEN opening ELSE StringRound(s, s[i])[f[n - 1]]]
             round == CHOOSE f : f = Turns(f)
             S == {r \in StringState : \E n \in Nat : Reading(s, i, n, r)}
             body == [n \in 1 .. N |-> [r \in S |-> StringRound(s, s[i])[r]]]
  <1>1. N \in Nat /\ StringFrom(s, i) = round[N]
    BY DEF StringFrom
  <1>2. Reading(s, i, 0, opening)
    <2>1. opening \in StringState /\ opening.next = i + 1 /\ opening.state = "open" /\ opening.content = <<>>
      BY DEF StringState
    <2> HIDE DEF opening
    <2>2. s[i] = Quote => Quoted(opening.content) = SubSeq(s, i, opening.next - 1)
      <3> HAVE s[i] = Quote
      <3>1. Quoted(<<>>) = <<Quote>>
        <4>1. <<>> \in Seq(Letters) /\ Quote \in Letters
          BY DEF Letters
        <4> QED
          BY <4>1, QuotedStep, Zenon
      <3>2. i \in i .. Len(s) /\ opening.next - 1 = i
        BY <2>1
      <3>3. SubSeq(s, i, i) = <<s[i]>>
        BY <3>2, SubSeqMore, Zenon
      <3> QED
        BY <2>1, <3>1, <3>2, <3>3, Zenon
    <2>3. AsWritten(s, i, opening)
      BY <2>1, <2>2, Zenon DEF AsWritten
    <2> QED
      BY <2>1, <2>3 DEF Reading
  <1>3. opening \in S
    <2> HIDE DEF opening
    <2>1. opening \in StringState
      BY <1>2 DEF Reading
    <2> QED
      BY <1>2, <2>1
  <1>4. body \in [1 .. N -> [S -> S]]
    <2>1. ASSUME NEW r \in S PROVE StringRound(s, s[i])[r] \in S
      <3>1. PICK n \in Nat : Reading(s, i, n, r)
        BY Zenon
      <3>2. Reading(s, i, n + 1, StringRound(s, s[i])[r])
        <4>1. n + 1 \in Nat \ {0} /\ (n + 1) - 1 = n
          OBVIOUS
        <4>2. Reading(s, i, (n + 1) - 1, r)
          BY <3>1, <4>1, Zenon
        <4> QED
          BY <4>1, <4>2, RoundReads
      <3> DEFINE x == StringRound(s, s[i])[r]
      <3> HIDE DEF x
      <3>3. Reading(s, i, n + 1, x)
        BY <3>2 DEF x
      <3>4. x \in StringState /\ n + 1 \in Nat
        BY <3>3 DEF Reading
      <3> QED
        BY <3>3, <3>4, Zenon DEF x
    <2> HIDE DEF S
    <2> QED
      BY <2>1
  <1>5. PICK g : AreRounds(g, S, opening, N, body)
    <2> HIDE DEF body, N, S, opening
    <2> QED
      BY <1>1, <1>3, <1>4, RoundsExist, Zenon
  <1> HIDE DEF N, S, opening
  <1>6. g \in [0 .. N -> S] /\ g[0] = opening
    BY <1>5, Zenon DEF AreRounds
  <1>7. ASSUME NEW n \in 1 .. N PROVE g[n] = StringRound(s, s[i])[g[n - 1]]
    <2>1. g[n - 1] \in S
      BY <1>1, <1>6
    <2>2. g[n] = body[n][g[n - 1]]
      BY <1>5 DEF AreRounds
    <2> QED
      BY <2>1, <2>2
  <1>8. g = Turns(g)
    <2>1. \A n \in 0 .. N : n = 0 \/ n \in 1 .. N
      BY <1>1
    <2> QED
      BY <1>6, <1>7, <2>1
  <1>9. round = Turns(round)
    <2> HIDE DEF Turns
    <2> QED
      BY <1>8
  <1> HIDE DEF round
  <1>10. round[0] = g[0]
    <2>1. round[0] = Turns(round)[0] /\ 0 \in 0 .. N
      BY <1>1, <1>9
    <2> QED
      BY <1>6, <2>1
  <1>11. ASSUME NEW n \in 1 .. N, round[n - 1] = g[n - 1] PROVE round[n] = g[n]
    <2>1. n \in 0 .. N /\ n # 0
      BY <1>1
    <2>2. round[n] = Turns(round)[n]
      BY <1>9, Zenon
    <2>3. round[n] = StringRound(s, s[i])[round[n - 1]]
      BY <2>1, <2>2
    <2> QED
      BY <1>7, <1>11, <2>3
  <1>12. round[N] = g[N]
    <2>1. Agree(round, g, N) /\ N \in 0 .. N
      BY <1>1, <1>10, <1>11 DEF Agree
    <2> QED
      BY <1>1, <2>1, SameRounds
  <1>13. Reading(s, i, N, g[N])
    <2> DEFINE T == {n \in 0 .. N : Reading(s, i, n, g[n])}
    <2>1. 0 \in T
      BY <1>1, <1>2, <1>6
    <2>2. ASSUME NEW n \in 1 .. N, n - 1 \in T PROVE n \in T
      <3>1. n \in Nat \ {0} /\ n \in 0 .. N
        BY <1>1
      <3>2. Reading(s, i, n - 1, g[n - 1])
        BY <2>2, Zenon
      <3>3. Reading(s, i, n, StringRound(s, s[i])[g[n - 1]])
        BY <3>1, <3>2, RoundReads
      <3> QED
        BY <1>7, <3>1, <3>3, Zenon
    <2> HIDE DEF T
    <2>3. N \in T
      <3>1. N \in 0 .. N
        BY <1>1
      <3> QED
        BY <1>1, <2>1, <2>2, <3>1, EveryRound, Zenon
    <2> QED
      BY <2>3 DEF T
  <1>14. g[N].state # "open"
    <2>1. g[N].next \in i + 1 .. N + 1 /\ (g[N].state = "open" => g[N].next >= i + 1 + N)
      BY <1>13 DEF Reading, N
    <2> QED
      BY <1>1, <2>1
  <1> QED
    BY <1>1, <1>12, <1>13, <1>14, Zenon DEF N
\* scan_string (lexer.c:384).
LEMMA StringScanned ==
    ASSUME NEW s \in Seq(SqlChar), NEW i \in 1 .. Len(s)
    PROVE  Scanned(s, i, scan_string(s, i))
  <1> DEFINE r == StringFrom(s, i)
             type == IF r.state = "closed" THEN "STRING" ELSE "ERROR"
             t == scan_string(s, i)
  <1>1. r \in StringState /\ r.next \in i + 1 .. Len(s) + 1 /\ AsWritten(s, i, r)
    BY StringReads DEF Reading
  <1>2. t = [Token(type, i, r.next) EXCEPT !.content = r.content]
    BY DEF scan_string
  <1>3. type \in TokenType \ {"EOF"} /\ (type = "STRING" => r.state = "closed")
    BY TypesOfTokens, Zenon
  <1> SUFFICES Scanned(s, i, t)
    OBVIOUS
  <1> HIDE DEF r, type, t
  <1>4. t.type = type /\ t.first = i /\ t.last = r.next - 1 /\ t.content = r.content
        /\ t = [type |-> t.type, first |-> t.first, last |-> t.last, content |-> t.content]
    BY <1>2 DEF Token
  <1>5. StringRead(s, t)
    BY <1>1, <1>3, <1>4, Zenon DEF StringRead, AsWritten
  <1>6. t.last \in i .. Len(s)
    BY <1>1, <1>4
  <1>7. t.content \in Seq(SqlChar \cup {Quote})
    BY <1>1, <1>4 DEF StringState
  <1> QED
    BY <1>3, <1>4, <1>5, <1>6, <1>7, Zenon DEF Scanned

----------------------------------------------------------------------------
(* The lexer: the tokens.                                                  *)

\* A token that may come after the one that ends at before.
GoodToken(s, before, t) == t \in TokenOf(s) /\ Follows(s, before, t) /\ StringRead(s, t)

\* next_token_internal (lexer.c:510): behind the blanks is a token, or the end.
LEMMA NextToken ==
    ASSUME NEW s \in Seq(SqlChar) \ {<<>>}, NEW from \in 1 .. Len(s) + 1
    PROVE  GoodToken(s, from - 1, next_token_internal(s, from))
  <1> DEFINE i == EndOf(s, from, Space)
             c == At(s, i)
             t == next_token_internal(s, from)
  <1>1. i \in from .. Len(s) + 1 /\ c \notin Space /\ \A k \in from .. i - 1 : s[k] \in Space
    BY EndOfRun, NoCharacter, Zenon
  <1>2. t = IF i > Len(s) THEN Token("EOF", i, i)
            ELSE IF c \in Alpha THEN scan_identifier(s, i)
            ELSE IF c \in Digit THEN scan_number(s, i)
            ELSE IF c \in {Quote, DoubleQuote} THEN scan_string(s, i)
            ELSE IF c = "$" THEN scan_placeholder(s, i)
            ELSE scan_operator(s, i)
    BY Zenon DEF next_token_internal
  <1> SUFFICES GoodToken(s, from - 1, t)
    OBVIOUS
  <1> HIDE DEF i, t
  <1>3. \A j \in (from - 1) + 1 .. i - 1 : s[j] \in Space
    BY <1>1
  <1>4. Len(s) \in Nat \ {0}
    OBVIOUS
  <1>5. CASE i > Len(s)
    <2>1. t = Token("EOF", i, i)
      BY <1>2, <1>5, Zenon
    <2>2. i = Len(s) + 1
      BY <1>1, <1>4, <1>5
    <2>3. t.type = "EOF" /\ t.first = i /\ t.last = Len(s) /\ t.content = <<>>
          /\ t = [type |-> t.type, first |-> t.first, last |-> t.last, content |-> t.content]
      BY <1>4, <2>1, <2>2 DEF Token
    <2>4. t \in TokenOf(s)
      <3>1. t.first \in 1 .. Len(s) + 1 /\ t.last \in 1 .. Len(s)
            /\ t.content \in Seq(SqlChar \cup {Quote})
        BY <1>4, <2>2, <2>3
      <3> QED
        BY <2>3, <3>1, TypesOfTokens, Zenon DEF TokenOf
    <2>5. Follows(s, from - 1, t)
      <3>1. from - 1 < t.first
        BY <1>1, <1>4, <2>3
      <3> QED
        BY <1>3, <2>2, <2>3, <3>1, Zenon DEF Follows
    <2>6. StringRead(s, t)
      BY <2>3, Zenon DEF StringRead
    <2> QED
      BY <2>4, <2>5, <2>6 DEF GoodToken
  <1>6. CASE ~(i > Len(s))
    <2>1. i \in 1 .. Len(s) /\ c = s[i]
      BY <1>1, <1>4, <1>6 DEF At
    <2>2. Scanned(s, i, t)
      <3>1. CASE c \in Alpha
        BY <1>2, <1>6, <2>1, <3>1, IdentifierScanned, Zenon
      <3>2. CASE c \notin Alpha /\ c \in Digit
        BY <1>2, <1>6, <2>1, <3>2, NumberScanned, Zenon
      <3>3. Scanned(s, i, scan_string(s, i)) /\ Scanned(s, i, scan_placeholder(s, i))
            /\ Scanned(s, i, scan_operator(s, i))
        BY <2>1, StringScanned, PlaceholderScanned, OperatorScanned, Zenon
      <3>4. CASE c \notin Alpha /\ c \notin Digit
        BY <1>2, <1>6, <3>3, <3>4, Zenon
      <3> QED
        BY <3>1, <3>2, <3>4, Zenon
    <2>3. t.type \in TokenType /\ t.type # "EOF" /\ t.first = i /\ t.last \in i .. Len(s)
          /\ t = [type |-> t.type, first |-> t.first, last |-> t.last, content |-> t.content]
          /\ t.content \in Seq(SqlChar \cup {Quote}) /\ StringRead(s, t)
      BY <2>2, Zenon DEF Scanned
    <2>4. t.first \in 1 .. Len(s) + 1 /\ t.last \in 1 .. Len(s) /\ t.first <= t.last
          /\ from - 1 < t.first
      BY <1>1, <1>4, <2>1, <2>3
    <2>5. t \in TokenOf(s)
      BY <2>3, <2>4, Zenon DEF TokenOf
    <2>6. Follows(s, from - 1, t)
      BY <1>1, <1>3, <2>1, <2>3, <2>4, Zenon DEF Follows
    <2> QED
      BY <2>3, <2>5, <2>6, Zenon DEF GoodToken
  <1> QED
    BY <1>5, <1>6
\* Where the tokens returned end.
ReturnedEnd == IF returned = <<>> THEN 0 ELSE returned[Len(returned)].last

\* The tokens returned, and the token looked at ahead, come after each other up to
\* the place where the lexer stands.
LexerInv ==
    /\ sql \in Seq(SqlChar) \ {<<>>}
    /\ peeks \in 0 .. MaxPeeks
    /\ returned \in Seq(TokenOf(sql))
    /\ \A k \in 1 .. Len(returned) :
          GoodToken(sql, IF k = 1 THEN 0 ELSE returned[k - 1].last, returned[k])
    /\ \/ peeked = <<>> /\ pos = ReturnedEnd + 1
       \/ /\ \E t \in TokenOf(sql) : peeked = <<t>>
          /\ GoodToken(sql, ReturnedEnd, peeked[1])
          /\ pos = peeked[1].last + 1

\* A token more is returned.
LEMMA ReturnToken ==
    ASSUME NEW s, NEW list \in Seq(TokenOf(s)), NEW t,
           GoodToken(s, IF list = <<>> THEN 0 ELSE list[Len(list)].last, t),
           \A k \in 1 .. Len(list) : GoodToken(s, IF k = 1 THEN 0 ELSE list[k - 1].last, list[k])
    PROVE  /\ Append(list, t) \in Seq(TokenOf(s))
           /\ Append(list, t) # <<>>
           /\ Append(list, t)[Len(Append(list, t))] = t
           /\ \A k \in 1 .. Len(Append(list, t)) :
                 GoodToken(s, IF k = 1 THEN 0 ELSE Append(list, t)[k - 1].last, Append(list, t)[k])
  <1> DEFINE more == Append(list, t)
             T == TokenOf(s)
             n == Len(list)
  <1>1. t \in T
    BY DEF GoodToken
  <1> HIDE DEF T
  <1>2. more \in Seq(T) /\ Len(more) = n + 1 /\ more[n + 1] = t /\ n \in Nat
        /\ \A k \in 1 .. n : more[k] = list[k]
    BY <1>1 DEF T
  <1>3. more # <<>>
    BY <1>2
  <1>4. n = 0 <=> list = <<>>
    BY DEF T
  <1> HIDE DEF more, n
  <1>5. ASSUME NEW k \in 1 .. n + 1
        PROVE  GoodToken(s, IF k = 1 THEN 0 ELSE more[k - 1].last, more[k])
    <2>1. CASE k = n + 1
      <3>1. CASE n = 0
        <4>1. k = 1 /\ list = <<>> /\ more[k] = t
          BY <1>2, <1>4, <2>1, <3>1
        <4> QED
          BY <4>1
      <3>2. CASE n # 0
        <4>1. k # 1 /\ list # <<>> /\ more[k] = t /\ k - 1 = n /\ n \in 1 .. n
          BY <1>2, <1>4, <2>1, <3>2
        <4>2. more[k - 1] = list[n]
          BY <1>2, <4>1
        <4>3. GoodToken(s, list[n].last, t)
          BY <4>1, Zenon DEF n
        <4> QED
          BY <4>1, <4>2, <4>3, Zenon
      <3> QED
        BY <3>1, <3>2
    <2>2. CASE k # n + 1
      <3>1. k \in 1 .. n /\ more[k] = list[k] /\ (k # 1 => k - 1 \in 1 .. n)
        BY <1>2, <2>2
      <3>2. k # 1 => more[k - 1] = list[k - 1]
        BY <1>2, <3>1, Zenon
      <3>3. GoodToken(s, IF k = 1 THEN 0 ELSE list[k - 1].last, list[k])
        BY <3>1 DEF n
      <3> QED
        BY <3>1, <3>2, <3>3, Zenon
    <2> QED
      BY <2>1, <2>2, Zenon
  <1> QED
    BY <1>2, <1>3, <1>5, Zenon DEF more, T
\* The lexer stands where the next token may begin.
LEMMA ReturnedEndInText ==
    ASSUME LexerInv
    PROVE  /\ ReturnedEnd \in 0 .. Len(sql)
           /\ peeked = <<>> => GoodToken(sql, ReturnedEnd, next_token_internal(sql, pos))
  <1>1. ReturnedEnd \in 0 .. Len(sql) /\ Len(sql) \in Nat
    <2>1. Len(sql) \in Nat
      BY DEF LexerInv
    <2>2. CASE returned = <<>>
      BY <2>1, <2>2 DEF ReturnedEnd
    <2>3. CASE returned # <<>>
      <3>1. returned[Len(returned)] \in TokenOf(sql)
        BY <2>3 DEF LexerInv
      <3>2. \A t \in TokenOf(sql) : t.last \in 1 .. Len(sql)
        BY DEF TokenOf
      <3> QED
        BY <2>1, <2>3, <3>1, <3>2 DEF ReturnedEnd
    <2> QED
      BY <2>1, <2>2, <2>3, Zenon
  <1>2. ASSUME peeked = <<>> PROVE GoodToken(sql, ReturnedEnd, next_token_internal(sql, pos))
    <2>1. pos = ReturnedEnd + 1
      <3>1. \A t \in TokenOf(sql) : <<t>> # <<>>
        OBVIOUS
      <3> QED
        BY <1>2, <3>1, Zenon DEF LexerInv
    <2>2. pos \in 1 .. Len(sql) + 1 /\ pos - 1 = ReturnedEnd
      BY <1>1, <2>1
    <2>3. sql \in Seq(SqlChar) \ {<<>>}
      BY Zenon DEF LexerInv
    <2>4. GoodToken(sql, pos - 1, next_token_internal(sql, pos))
      BY <2>2, <2>3, NextToken, Zenon
    <2> QED
      BY <2>2, <2>4, Zenon
  <1> QED
    BY <1>1, <1>2

\* lexer_create (lexer.c:88).
LEMMA LexerCreateInv == lexer_create => LexerInv
  <1> HAVE lexer_create
  <1>1. sql \in Seq(SqlChar) \ {<<>>} /\ peeks \in 0 .. MaxPeeks
    BY LexerAssumption DEF lexer_create
  <1>2. returned = <<>> /\ Len(returned) = 0 /\ returned \in Seq(TokenOf(sql))
    BY DEF lexer_create
  <1>3. peeked = <<>> /\ pos = ReturnedEnd + 1
    BY DEF lexer_create, ReturnedEnd
  <1>4. 1 .. Len(returned) = {}
    BY <1>2
  <1> QED
    BY <1>1, <1>2, <1>3, <1>4, Zenon DEF LexerInv

\* lexer_next_token (lexer.c:554) returns the token looked at, or scans one.
LEMMA NextTokenInv == LexerInv /\ lexer_next_token => LexerInv'
  <1> SUFFICES ASSUME LexerInv, lexer_next_token PROVE LexerInv'
    OBVIOUS
  <1>1. \E t : /\ returned' = Append(returned, t) /\ GoodToken(sql, ReturnedEnd, t)
               /\ pos' = t.last + 1 /\ peeked' = <<>>
    <2>1. CASE peeked = <<>>
      <3> DEFINE t == next_token_internal(sql, pos)
      <3>1. returned' = Append(returned, t) /\ pos' = t.last + 1 /\ peeked' = <<>>
        BY <2>1, Zenon DEF lexer_next_token
      <3> QED
        BY <2>1, <3>1, ReturnedEndInText, Zenon
    <2>2. CASE peeked # <<>>
      <3>1. returned' = Append(returned, peeked[1]) /\ pos' = pos /\ peeked' = <<>>
        BY <2>2, Zenon DEF lexer_next_token
      <3>2. GoodToken(sql, ReturnedEnd, peeked[1]) /\ pos = peeked[1].last + 1
        BY <2>2, Zenon DEF LexerInv
      <3> QED
        BY <3>1, <3>2, Zenon
    <2> QED
      BY <2>1, <2>2
  <1>2. PICK t : /\ returned' = Append(returned, t) /\ GoodToken(sql, ReturnedEnd, t)
                 /\ pos' = t.last + 1 /\ peeked' = <<>>
    BY <1>1
  <1>3. sql' = sql /\ peeks' = peeks
    BY DEF lexer_next_token
  <1>4. sql \in Seq(SqlChar) \ {<<>>} /\ peeks \in 0 .. MaxPeeks /\ returned \in Seq(TokenOf(sql))
        /\ \A k \in 1 .. Len(returned) :
              GoodToken(sql, IF k = 1 THEN 0 ELSE returned[k - 1].last, returned[k])
    BY Zenon DEF LexerInv
  <1>5. GoodToken(sql, IF returned = <<>> THEN 0 ELSE returned[Len(returned)].last, t)
    BY <1>2 DEF ReturnedEnd
  <1>6. /\ returned' \in Seq(TokenOf(sql)) /\ returned' # <<>> /\ returned'[Len(returned')] = t
        /\ \A k \in 1 .. Len(returned') :
              GoodToken(sql, IF k = 1 THEN 0 ELSE returned'[k - 1].last, returned'[k])
    <2>1. /\ Append(returned, t) \in Seq(TokenOf(sql)) /\ Append(returned, t) # <<>>
          /\ Append(returned, t)[Len(Append(returned, t))] = t
          /\ \A k \in 1 .. Len(Append(returned, t)) :
                GoodToken(sql, IF k = 1 THEN 0 ELSE Append(returned, t)[k - 1].last,
                          Append(returned, t)[k])
      BY <1>4, <1>5, ReturnToken
    <2> QED
      BY <1>2, <2>1, Zenon
  <1>7. ReturnedEnd' = t.last
    BY <1>6, Zenon DEF ReturnedEnd
  <1>8. pos' = ReturnedEnd' + 1 /\ peeked' = <<>>
    BY <1>2, <1>7, Zenon
  <1>9. /\ sql' \in Seq(SqlChar) \ {<<>>} /\ peeks' \in 0 .. MaxPeeks
        /\ returned' \in Seq(TokenOf(sql'))
        /\ \A k \in 1 .. Len(returned') :
              GoodToken(sql', IF k = 1 THEN 0 ELSE returned'[k - 1].last, returned'[k])
    BY <1>3, <1>4, <1>6, Zenon
  <1> QED
    BY <1>8, <1>9, Zenon DEF LexerInv

\* lexer_peek_token (lexer.c:573) keeps the token for later.
LEMMA PeekTokenInv == LexerInv /\ lexer_peek_token => LexerInv'
  <1> SUFFICES ASSUME LexerInv, lexer_peek_token PROVE LexerInv'
    OBVIOUS
  <1>1. sql' = sql /\ returned' = returned /\ peeks' = peeks + 1 /\ peeks < MaxPeeks
        /\ ReturnedEnd' = ReturnedEnd
    BY DEF lexer_peek_token, ReturnedEnd
  <1>2. sql \in Seq(SqlChar) \ {<<>>} /\ returned \in Seq(TokenOf(sql))
        /\ \A k \in 1 .. Len(returned) :
              GoodToken(sql, IF k = 1 THEN 0 ELSE returned[k - 1].last, returned[k])
    BY Zenon DEF LexerInv
  <1>3. peeks' \in 0 .. MaxPeeks
    <2>1. peeks \in 0 .. MaxPeeks
      BY Zenon DEF LexerInv
    <2> QED
      BY <1>1, <2>1, LexerAssumption
  <1>4. /\ \E t \in TokenOf(sql) : peeked' = <<t>>
        /\ GoodToken(sql, ReturnedEnd, peeked'[1])
        /\ pos' = peeked'[1].last + 1
    <2>1. CASE peeked = <<>>
      <3> DEFINE t == next_token_internal(sql, pos)
      <3>1. peeked' = <<t>> /\ pos' = t.last + 1
        BY <2>1, Zenon DEF lexer_peek_token
      <3>2. GoodToken(sql, ReturnedEnd, t)
        BY <2>1, ReturnedEndInText, Zenon
      <3> HIDE DEF t
      <3>3. t \in TokenOf(sql)
        BY <3>2 DEF GoodToken
      <3>4. peeked'[1] = t
        BY <3>1
      <3> QED
        BY <3>1, <3>2, <3>3, <3>4, Zenon
    <2>2. CASE peeked # <<>>
      <3>1. peeked' = peeked /\ pos' = pos
        BY <2>2, Zenon DEF lexer_peek_token
      <3>2. /\ \E t \in TokenOf(sql) : peeked = <<t>>
            /\ GoodToken(sql, ReturnedEnd, peeked[1])
            /\ pos = peeked[1].last + 1
        BY <2>2, Zenon DEF LexerInv
      <3> QED
        BY <3>1, <3>2, Zenon
    <2> QED
      BY <2>1, <2>2
  <1> QED
    BY <1>1, <1>2, <1>3, <1>4, Zenon DEF LexerInv

\* The invariant says more than TokensTile.
LEMMA LexerInvTiles == LexerInv => TokensTile
  <1> HAVE LexerInv
  <1>1. sql \in Seq(SqlChar) \ {<<>>} /\ returned \in Seq(TokenOf(sql)) /\ peeks \in 0 .. MaxPeeks
        /\ \A k \in 1 .. Len(returned) :
              GoodToken(sql, IF k = 1 THEN 0 ELSE returned[k - 1].last, returned[k])
    BY Zenon DEF LexerInv
  <1>2. DOMAIN returned = 1 .. Len(returned)
    BY <1>1
  <1>3. peeked \in Seq(TokenOf(sql)) /\ Len(peeked) <= 1 /\ pos \in 1 .. Len(sql) + 1
    <2>1. Len(sql) \in Nat
      BY <1>1
    <2>2. CASE peeked = <<>> /\ pos = ReturnedEnd + 1
      <3>1. ReturnedEnd \in 0 .. Len(sql)
        BY ReturnedEndInText
      <3> QED
        BY <2>1, <2>2, <3>1
    <2>3. CASE /\ \E t \in TokenOf(sql) : peeked = <<t>>
               /\ GoodToken(sql, ReturnedEnd, peeked[1])
               /\ pos = peeked[1].last + 1
      <3>1. PICK t \in TokenOf(sql) : peeked = <<t>>
        BY <2>3
      <3>2. t.last \in 1 .. Len(sql)
        BY DEF TokenOf
      <3>3. peeked[1] = t /\ Len(peeked) = 1
        BY <3>1
      <3>4. peeked \in Seq(TokenOf(sql))
        BY <3>1
      <3>5. pos = t.last + 1
        BY <2>3, <3>3, Zenon
      <3> QED
        BY <2>1, <3>2, <3>3, <3>4, <3>5
    <2> QED
      BY <2>2, <2>3, Zenon DEF LexerInv
  <1>4. LexerTypeOK
    BY <1>1, <1>3, Zenon DEF LexerTypeOK
  <1> QED
    BY <1>1, <1>2, <1>4, Zenon DEF TokensTile, GoodToken

\* For every text: the tokens returned tile it (lexer.c), whatever is looked at
\* ahead and when.
THEOREM LexerTokensTile == LexerSpec => []TokensTile
  <1>1. LexerInv /\ UNCHANGED lexerVars => LexerInv'
    <2> SUFFICES ASSUME LexerInv, UNCHANGED lexerVars PROVE LexerInv'
      OBVIOUS
    <2>1. sql' = sql /\ pos' = pos /\ peeked' = peeked /\ returned' = returned /\ peeks' = peeks
      BY DEF lexerVars
    <2> QED
      BY <2>1, Zenon DEF LexerInv, ReturnedEnd
  <1>2. LexerInv /\ [LexerNext]_lexerVars => LexerInv'
    BY <1>1, NextTokenInv, PeekTokenInv, Zenon DEF LexerNext
  <1> QED
    BY <1>2, LexerCreateInv, LexerInvTiles, PTL DEF LexerSpec
=============================================================================
