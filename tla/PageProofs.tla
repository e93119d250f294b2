----------------------------- MODULE PageProofs -----------------------------
(***************************************************************************)
(* Proofs about the pages of a file.                                       *)
(*                                                                         *)
(* The page cache, for any number of pages, structures and contents and    *)
(* any capacity.  Nothing is assumed about the links of the LRU list: the  *)
(* theorems hold although the list breaks.                                 *)
(*                                                                         *)
(* The pager keeps its types, its free list and the pages of its clients,  *)
(* for every bound on the number of pages, and implements PageAllocator.   *)
(***************************************************************************)
EXTENDS Pager, PageCache, FiniteSetTheorems, TLAPS

----------------------------------------------------------------------------
(* The page cache.                                                         *)

CacheInv == CacheTypeOK /\ CountExact /\ CleanIsDurable

\* The pages in the cache are finitely many.
LEMMA CachedFinite == IsFiniteSet(Cached) /\ Cardinality(Cached) \in Nat
BY CacheAssumption, FS_Subset, FS_CardinalityType DEF Cached

\* lru_remove and lru_add_front yield links again, whatever the links were.
LEMMA LinksType ==
    ASSUME CacheTypeOK, NEW a \in Addr
    PROVE  /\ NextWithout(a) \in [Addr -> Addr \cup {NULL}]
           /\ PrevWithout(a) \in [Addr -> Addr \cup {NULL}]
BY DEF CacheTypeOK, NextWithout, PrevWithout

\* lru_add_front keeps the types of the links, of lru_head and of lru_tail.
LEMMA AddFrontType ==
    ASSUME CacheTypeOK, NEW a \in Addr,
           NEW next \in [Addr -> Addr \cup {NULL}],
           NEW prev \in [Addr -> Addr \cup {NULL}],
           AddFront(a, next, prev)
    PROVE  /\ lru_next' \in [Addr -> Addr \cup {NULL}]
           /\ lru_prev' \in [Addr -> Addr \cup {NULL}]
           /\ lru_head' \in Addr \cup {NULL}
           /\ lru_tail' \in Addr \cup {NULL}
BY DEF CacheTypeOK, AddFront

\* The file stays a file of page contents when a page is flushed.
LEMMA FlushedType ==
    ASSUME CacheTypeOK, NEW v \in PageId
    PROVE  /\ Flushed(v) \in [PageId -> Value]
           /\ \A p \in PageId \ {v} : Flushed(v)[p] = file_pages[p]
BY DEF CacheTypeOK, Flushed

\* Loading a page raises the number of cached pages by one.
LEMMA CountUp ==
    ASSUME NEW p \in PageId \ Cached
    PROVE  Cardinality(Cached \cup {p}) = Cardinality(Cached) + 1
BY CachedFinite, FS_AddElement, Zenon

\* A cache that holds a page counts at least one, and one less without it.
LEMMA CountDown ==
    ASSUME NEW p \in Cached
    PROVE  /\ Cardinality(Cached \ {p}) = Cardinality(Cached) - 1
           /\ Cardinality(Cached) >= 1
<1>1. /\ IsFiniteSet(Cached \ {p})
      /\ Cardinality(Cached \ {p}) = Cardinality(Cached) - 1
  BY CachedFinite, FS_RemoveElement
<1>2. Cardinality(Cached \ {p}) \in Nat
  BY <1>1, FS_CardinalityType
<1> QED
  BY <1>1, <1>2, CachedFinite

\* The cache starts empty.
LEMMA CacheInitInv == CacheInit => CacheInv
<1> SUFFICES ASSUME CacheInit PROVE CacheInv
  OBVIOUS
<1>0. 0 \in 0 .. MaxRef /\ 0 \in 0 .. max_pages /\ 0 \in 0 .. MaxPins
  BY CacheAssumption
<1>1. CacheTypeOK
  BY <1>0, Zenon DEF CacheInit, CacheTypeOK, Event
<1>2. Cached = {}
  BY DEF CacheInit, Cached
<1>3. CountExact
  BY <1>2, FS_EmptySet DEF CacheInit, CountExact
<1>4. CleanIsDurable
  BY <1>2 DEF CleanIsDurable
<1> QED
  BY <1>1, <1>3, <1>4 DEF CacheInv

\* Emptying the cache, for whatever reason, leaves nothing to be exact about.
LEMMA EmptiedInv ==
    ASSUME CacheInv, Emptied, up' \in BOOLEAN, hung' \in BOOLEAN, pin_count' = pin_count,
           event' \in Event, file_pages' \in [PageId -> Value], data' = file_pages'
    PROVE  CacheInv'
<1>1. CacheTypeOK'
  BY CacheAssumption DEF CacheInv, CacheTypeOK, Emptied
<1>2. Cached' = {}
  BY DEF Emptied, Cached
<1>3. CountExact'
  BY <1>2, FS_EmptySet DEF Emptied, CountExact
<1>4. CleanIsDurable'
  BY <1>2 DEF CleanIsDurable
<1> QED
  BY <1>1, <1>3, <1>4 DEF CacheInv

\* A hit moves the page in the list and pins it.
LEMMA GetHitInv ==
    ASSUME CacheInv, NEW p \in PageId, GetHit(p)
    PROVE  CacheInv'
<1>1. pages[p] \in Addr
  BY DEF GetHit, Cached, CacheInv, CacheTypeOK
<1>2. /\ lru_next' \in [Addr -> Addr \cup {NULL}]
      /\ lru_prev' \in [Addr -> Addr \cup {NULL}]
      /\ lru_head' \in Addr \cup {NULL}
      /\ lru_tail' \in Addr \cup {NULL}
  BY <1>1, LinksType, AddFrontType DEF GetHit, CacheInv
<1>3. refcount' \in [PageId -> 0 .. MaxRef] /\ pin_count' \in 0 .. MaxPins
  BY CacheAssumption DEF GetHit, Pinned, CacheInv, CacheTypeOK
<1>4. CacheTypeOK'
  BY <1>2, <1>3, Zenon DEF GetHit, Pinned, CacheInv, CacheTypeOK, Event
<1>5. CountExact' /\ CleanIsDurable'
  BY DEF GetHit, CacheInv, CountExact, CleanIsDurable, Cached
<1> QED
  BY <1>4, <1>5 DEF CacheInv

\* A page is loaded into a free slot.
LEMMA GetMissInv ==
    ASSUME CacheInv, NEW p \in PageId, NEW a \in Addr, GetMiss(p, a)
    PROVE  CacheInv'
<1>1. /\ lru_next' \in [Addr -> Addr \cup {NULL}]
      /\ lru_prev' \in [Addr -> Addr \cup {NULL}]
      /\ lru_head' \in Addr \cup {NULL}
      /\ lru_tail' \in Addr \cup {NULL}
  BY AddFrontType DEF GetMiss, CacheInv, CacheTypeOK
<1>2. refcount' \in [PageId -> 0 .. MaxRef] /\ pin_count' \in 0 .. MaxPins
  BY CacheAssumption DEF GetMiss, Pinned, CacheInv, CacheTypeOK
<1>3. count' \in 0 .. max_pages
  BY CacheAssumption DEF GetMiss, RoomLeft, CacheInv, CacheTypeOK
<1>4. CacheTypeOK'
  BY <1>1, <1>2, <1>3 DEF GetMiss, Pinned, CacheInv, CacheTypeOK, Event
<1>5. Cached' = Cached \cup {p}
  BY CacheAssumption DEF GetMiss, Cached, CacheInv, CacheTypeOK
<1>6. CountExact'
  BY <1>5, CountUp DEF GetMiss, CacheInv, CountExact
<1>7. CleanIsDurable'
  BY <1>5 DEF GetMiss, CacheInv, CacheTypeOK, CleanIsDurable
<1> QED
  BY <1>4, <1>6, <1>7 DEF CacheInv

\* A dropped page was written first if it was dirty.
LEMMA EvictInv ==
    ASSUME CacheInv, NEW v \in Cached, refcount[v] = 0, Evict(v)
    PROVE  CacheInv'
<1>0. v \in PageId /\ pages[v] \in Addr
  BY DEF Cached, CacheInv, CacheTypeOK
<1>1. Cached' = Cached \ {v}
  BY <1>0 DEF Evict, Cached, CacheInv, CacheTypeOK
<1>2. CountExact' /\ count' \in 0 .. max_pages
  <2>1. count' = count - 1 /\ count = Cardinality(Cached) /\ count \in 0 .. max_pages
    BY DEF Evict, CacheInv, CacheTypeOK, CountExact
  <2>2. Cardinality(Cached \ {v}) = count - 1 /\ count >= 1
    BY <2>1, CountDown, Zenon
  <2>3. CountExact'
    BY <1>1, <2>1, <2>2 DEF CountExact
  <2>4. count' \in 0 .. max_pages
    BY <2>1, <2>2, CacheAssumption
  <2> QED
    BY <2>3, <2>4
<1>3. /\ lru_next' \in [Addr -> Addr \cup {NULL}]
      /\ lru_prev' \in [Addr -> Addr \cup {NULL}]
  BY <1>0, LinksType DEF Evict, CacheInv
<1>4. file_pages' \in [PageId -> Value] /\ \A p \in PageId \ {v} : file_pages'[p] = file_pages[p]
  BY <1>0, FlushedType DEF Evict, CacheInv
<1>5. CacheTypeOK'
  <2>1. /\ pages' \in [PageId -> Addr \cup {NULL}]
        /\ is_dirty' \in [PageId -> BOOLEAN]
    BY <1>0 DEF Evict, CacheInv, CacheTypeOK
  <2>2. event' \in Event
    BY DEF Evict, Event
  <2> QED
    BY <1>2, <1>3, <1>4, <2>1, <2>2 DEF Evict, CacheInv, CacheTypeOK
<1>6. CleanIsDurable'
  BY <1>0, <1>1, <1>4 DEF Evict, CacheInv, CacheTypeOK, CleanIsDurable, Cached
<1> QED
  BY <1>2, <1>5, <1>6 DEF CacheInv

\* One page takes the place of another.
LEMMA GetMissFullInv ==
    ASSUME CacheInv, NEW p \in PageId, NEW v \in PageId, NEW a \in Addr,
           GetMissFull(p, v, a)
    PROVE  CacheInv'
<1>0. v \in Cached /\ p \notin Cached /\ p # v /\ pages[v] \in Addr
  BY DEF GetMissFull, IsVictim, Cached, CacheInv, CacheTypeOK
<1>1. Cached' = (Cached \ {v}) \cup {p}
  BY <1>0, CacheAssumption DEF GetMissFull, Cached, CacheInv, CacheTypeOK
<1>2. CountExact'
  <2>1. IsFiniteSet(Cached \ {v}) /\ p \notin Cached \ {v}
    BY <1>0, CachedFinite, FS_RemoveElement
  <2>2. Cardinality((Cached \ {v}) \cup {p}) = Cardinality(Cached \ {v}) + 1
    BY <2>1, FS_AddElement
  <2>3. Cardinality(Cached \ {v}) = Cardinality(Cached) - 1
    BY <1>0, CountDown
  <2> QED
    BY <1>1, <2>2, <2>3, CachedFinite DEF GetMissFull, CacheInv, CountExact
<1>3. /\ lru_next' \in [Addr -> Addr \cup {NULL}]
      /\ lru_prev' \in [Addr -> Addr \cup {NULL}]
      /\ lru_head' \in Addr \cup {NULL}
      /\ lru_tail' \in Addr \cup {NULL}
  BY <1>0, LinksType, AddFrontType, Zenon DEF GetMissFull, CacheInv
<1>4. file_pages' \in [PageId -> Value] /\ \A q \in PageId \ {v} : file_pages'[q] = file_pages[q]
  BY FlushedType DEF GetMissFull, CacheInv
<1>5. refcount' \in [PageId -> 0 .. MaxRef] /\ pin_count' \in 0 .. MaxPins
  BY CacheAssumption DEF GetMissFull, Pinned, CacheInv, CacheTypeOK
<1>6. pages' \in [PageId -> Addr \cup {NULL}] /\ is_dirty' \in [PageId -> BOOLEAN]
      /\ data' \in [PageId -> Value]
  BY Zenon DEF GetMissFull, CacheInv, CacheTypeOK
<1>7. CacheTypeOK'
  BY <1>3, <1>4, <1>5, <1>6, Zenon DEF GetMissFull, Pinned, CacheInv, CacheTypeOK, Event
<1>8. CleanIsDurable'
  BY <1>0, <1>1, <1>4 DEF GetMissFull, CacheInv, CacheTypeOK, CleanIsDurable, Cached
<1> QED
  BY <1>2, <1>7, <1>8, Zenon DEF CacheInv

\* Writing and pinning touch one page that is cached.
LEMMA ClientInv ==
    ASSUME CacheInv, NEW p \in PageId,
           \/ \E v \in Value : page_mark_dirty(p, v)
           \/ page_unpin(p)
    PROVE  CacheInv'
<1>1. ASSUME NEW v \in Value, page_mark_dirty(p, v) PROVE CacheInv'
  <2>1. CacheTypeOK'
    BY <1>1 DEF page_mark_dirty, lru, CacheInv, CacheTypeOK, Event
  <2>2. CountExact' /\ CleanIsDurable'
    BY <1>1 DEF page_mark_dirty, CacheInv, CacheTypeOK, CountExact, CleanIsDurable, Cached
  <2> QED
    BY <2>1, <2>2 DEF CacheInv
<1>2. CASE page_unpin(p)
  <2>1. refcount' \in [PageId -> 0 .. MaxRef]
    BY <1>2, CacheAssumption DEF page_unpin, CacheInv, CacheTypeOK
  <2>2. CacheTypeOK'
    BY <1>2, <2>1 DEF page_unpin, lru, CacheInv, CacheTypeOK, Event
  <2>3. CountExact' /\ CleanIsDurable'
    BY <1>2 DEF page_unpin, CacheInv, CountExact, CleanIsDurable, Cached
  <2> QED
    BY <2>2, <2>3 DEF CacheInv
<1> QED
  BY <1>1, <1>2

\* The file after a flush of which some writes failed.
LEMMA WrittenType ==
    ASSUME CacheTypeOK, NEW failed \in SUBSET PageId
    PROVE  Written(failed) \in [PageId -> Value]
BY DEF CacheTypeOK, Written

\* A flush makes clean exactly the pages it has written.
LEMMA FlushInv ==
    ASSUME CacheInv,
           \/ \E failed \in SUBSET PageId : page_cache_flush(failed)
           \/ \E p \in PageId : page_cache_flush_page(p)
    PROVE  CacheInv'
<1>1. ASSUME NEW failed \in SUBSET PageId, page_cache_flush(failed) PROVE CacheInv'
  <2>1. file_pages' \in [PageId -> Value]
    BY <1>1, WrittenType DEF page_cache_flush, CacheInv
  <2>2. is_dirty' \in [PageId -> BOOLEAN]
    <3>1. \A p \in PageId : (p \in failed) \in BOOLEAN
      OBVIOUS
    <3> QED
      BY <1>1, <3>1 DEF page_cache_flush
  <2>3. CacheTypeOK'
    BY <1>1, <2>1, <2>2 DEF page_cache_flush, lru, CacheInv, CacheTypeOK, Event
  <2>4. CountExact' /\ Cached' = Cached
    BY <1>1, Zenon DEF page_cache_flush, CacheInv, CountExact, Cached
  <2>5. ASSUME NEW p \in Cached, ~is_dirty'[p] PROVE data'[p] = file_pages'[p]
    <3>1. p \in PageId /\ p \notin failed
      BY <1>1, <2>5, Zenon DEF page_cache_flush, Cached
    <3> QED
      BY <1>1, <2>5, <3>1 DEF page_cache_flush, Written, Dirty, CacheInv, CleanIsDurable
  <2> QED
    BY <2>3, <2>4, <2>5 DEF CacheInv, CleanIsDurable
<1>2. ASSUME NEW p \in PageId, page_cache_flush_page(p) PROVE CacheInv'
  <2>1. CacheTypeOK'
    BY <1>2 DEF page_cache_flush_page, lru, CacheInv, CacheTypeOK, Event
  <2>2. CountExact' /\ CleanIsDurable'
    BY <1>2 DEF page_cache_flush_page, CacheInv, CacheTypeOK, CountExact, CleanIsDurable, Cached
  <2> QED
    BY <2>1, <2>2, Zenon DEF CacheInv
<1> QED
  BY <1>1, <1>2

\* Creating the cache, a loop that does not end, resetting the counters and
\* stuttering leave the cached pages and the file alone.
LEMMA QuietInv ==
    ASSUME CacheInv, UNCHANGED <<pages, fields, lru, count, file_pages>>,
           up' \in BOOLEAN, hung' \in BOOLEAN, event' \in Event,
           pin_count' \in 0 .. MaxPins
    PROVE  CacheInv'
<1>1. CacheTypeOK'
  BY Zenon DEF fields, lru, CacheInv, CacheTypeOK
<1>2. CountExact' /\ CleanIsDurable'
  BY DEF fields, CacheInv, CountExact, CleanIsDurable, Cached
<1> QED
  BY <1>1, <1>2 DEF CacheInv

\* Every step of the cache preserves the inductive invariant.
LEMMA CacheStepInv == CacheInv /\ [CacheNext]_cacheVars => CacheInv'
<1> SUFFICES ASSUME CacheInv, [CacheNext]_cacheVars PROVE CacheInv'
  OBVIOUS
<1>0. /\ up \in BOOLEAN /\ hung \in BOOLEAN /\ event \in Event
      /\ "quiet" \in Event /\ "lost" \in Event
      /\ pin_count \in 0 .. MaxPins /\ 0 \in 0 .. MaxPins
      /\ file_pages \in [PageId -> Value]
  BY CacheAssumption DEF CacheInv, CacheTypeOK, Event
<1>1. CASE page_cache_create
  BY <1>0, <1>1, QuietInv DEF page_cache_create
<1>2. CASE page_cache_reset_stats
  BY <1>0, <1>2, QuietInv DEF page_cache_reset_stats
<1>3. CASE \E p \in PageId : GetMissHangs(p)
  BY <1>0, <1>3, QuietInv DEF GetMissHangs
<1>4. CASE UNCHANGED cacheVars
  BY <1>0, <1>4, QuietInv, Zenon DEF cacheVars
<1>5. ASSUME NEW p \in PageId, NEW v \in PageId, GetMissFails(p, v) PROVE CacheInv'
  BY <1>5, EvictInv DEF GetMissFails, IsVictim
<1>6. ASSUME NEW p \in PageId, page_cache_evict(p) PROVE CacheInv'
  BY <1>6, EvictInv DEF page_cache_evict
<1>7. ASSUME NEW failed \in SUBSET PageId,
             page_cache_clear(failed) \/ page_cache_destroy(failed)
      PROVE  CacheInv'
  <2>1. file_pages' \in [PageId -> Value] /\ data' = file_pages' /\ Emptied
        /\ pin_count' = pin_count /\ hung' = hung
    BY <1>7, WrittenType DEF page_cache_clear, page_cache_destroy, CacheInv
  <2>2. up' \in BOOLEAN /\ event' \in Event
    BY <1>0, <1>7, Zenon DEF page_cache_clear, page_cache_destroy
  <2> QED
    BY <1>0, <2>1, <2>2, EmptiedInv
<1>8. CASE Crash
  BY <1>0, <1>8, EmptiedInv, Zenon DEF Crash
<1>9. CASE \E p \in PageId : GetHit(p)
  BY <1>9, GetHitInv
<1>10. CASE \E p \in PageId, a \in Addr : GetMiss(p, a)
  BY <1>10, GetMissInv
<1>11. CASE \E p \in PageId, v \in PageId, a \in Addr : GetMissFull(p, v, a)
  BY <1>11, GetMissFullInv
<1>12. CASE \E p \in PageId : page_unpin(p) \/ \E v \in Value : page_mark_dirty(p, v)
  BY <1>12, ClientInv
<1>13. CASE \/ \E failed \in SUBSET PageId : page_cache_flush(failed)
            \/ \E p \in PageId : page_cache_flush_page(p)
  BY <1>13, FlushInv
<1> QED
  BY <1>1, <1>2, <1>3, <1>4, <1>5, <1>6, <1>7, <1>8, <1>9, <1>10, <1>11, <1>12,
     <1>13, Zenon DEF CacheNext

\* In every reachable state of the cache the inductive invariant holds.
THEOREM CacheInvariant == CacheSpec => []CacheInv
BY CacheInitInv, CacheStepInv, PTL DEF CacheSpec

\* Every field of the cache keeps its type, whatever state the list is in.
THEOREM CacheType == CacheSpec => []CacheTypeOK
<1>1. CacheInv => CacheTypeOK
  BY DEF CacheInv
<1> QED
  BY <1>1, CacheInvariant, PTL

\* The counter that limits the cache never drifts from the hash table, and
\* the cache never holds more than max_pages pages.
THEOREM CacheCount == CacheSpec => []CountExact
<1>1. CacheInv => CountExact
  BY DEF CacheInv
<1> QED
  BY <1>1, CacheInvariant, PTL

\* A page that is not dirty is equal to its copy in the file.
THEOREM CacheCleanIsDurable == CacheSpec => []CleanIsDurable
<1>1. CacheInv => CleanIsDurable
  BY DEF CacheInv
<1> QED
  BY <1>1, CacheInvariant, PTL

\* A page structure that a client holds is never taken from it by an eviction.
THEOREM CachePinnedStays == CacheSpec => PinnedStays
<1> DEFINE A == \A p \in Cached :
                   refcount[p] > 0 => pages'[p] = pages[p] \/ Emptied
<1>1. CacheInv /\ [CacheNext]_cacheVars => [A]_cacheVars
  <2> SUFFICES ASSUME CacheInv, CacheNext PROVE A
    OBVIOUS
  <2>1. CASE Emptied
    BY <2>1
  <2>2. CASE pages' = pages
    BY <2>2
  <2>3. ASSUME NEW p \in PageId \ Cached, NEW a \in Addr,
               pages' = [pages EXCEPT ![p] = a]
        PROVE  A
    BY <2>3 DEF CacheInv, CacheTypeOK, Cached
  <2>4. ASSUME NEW v \in PageId, refcount[v] = 0,
               pages' = [pages EXCEPT ![v] = NULL]
        PROVE  A
    BY <2>4 DEF CacheInv, CacheTypeOK, Cached
  <2>5. ASSUME NEW p \in PageId \ Cached, NEW v \in PageId, NEW a \in Addr,
               refcount[v] = 0, pages' = [pages EXCEPT ![v] = NULL, ![p] = a]
        PROVE  A
    BY <2>5 DEF CacheInv, CacheTypeOK, Cached
  <2> HIDE DEF A
  <2>6. CASE \E p, v \in PageId, a \in Addr : GetMissFull(p, v, a)
    <3>1. PICK p \in PageId, v \in PageId, a \in Addr : GetMissFull(p, v, a)
      BY <2>6, Zenon
    <3>2. p \notin Cached /\ refcount[v] = 0
      BY <3>1 DEF GetMissFull, IsVictim
    <3>3. pages' = [pages EXCEPT ![v] = NULL, ![p] = a]
      BY <3>1, Zenon DEF GetMissFull
    <3> QED
      BY <2>5, <3>2, <3>3, Zenon
  <2>7. CASE \E p, v \in PageId : GetMissFails(p, v) \/ page_cache_evict(p)
    BY <2>4, <2>7 DEF GetMissFails, IsVictim, page_cache_evict, Evict
  <2>8. CASE \E p \in PageId, a \in Addr : GetMiss(p, a)
    BY <2>3, <2>8, Zenon DEF GetMiss
  <2> QED
    BY <2>1, <2>2, <2>6, <2>7, <2>8, Zenon
       DEF CacheNext, page_cache_create, GetHit, GetMissHangs, page_mark_dirty, page_unpin,
           page_cache_flush_page, page_cache_flush, page_cache_clear,
           page_cache_destroy, Crash, page_cache_reset_stats
<1> QED
  BY <1>1, CacheInvariant, PTL DEF CacheSpec, PinnedStays

----------------------------------------------------------------------------
(* The refinement.                                                         *)

\* What a client reads of page p.
Current == [p \in PageId |-> IF p \in Cached THEN data[p] ELSE file_pages[p]]

\* What a client reads has its type.
LEMMA CurrentType == CacheInv => Current \in [PageId -> Value]
BY DEF CacheInv, CacheTypeOK, Current

\* An empty cache shows the file.
LEMMA InitStore == CacheInit => Store!Init
BY Zenon DEF CacheInit, Cached, Store!Init

\* Dropping a page does not change what a client reads of it.
LEMMA FlushedCurrent ==
    ASSUME CacheInv, NEW v \in Cached
    PROVE  /\ Flushed(v)[v] = data[v]
           /\ \A p \in PageId : Flushed(v)[p] \in {file_pages[p], Current[p]}
           /\ \A p \in PageId \ {v} : Flushed(v)[p] = file_pages[p]
BY DEF CacheInv, CacheTypeOK, CleanIsDurable, Cached, Flushed, Current

\* What is written during a flush is what clients read.
LEMMA WrittenCurrent ==
    ASSUME CacheInv, NEW failed \in SUBSET PageId
    PROVE  \A p \in PageId : Written(failed)[p] \in {file_pages[p], Current[p]}
BY Zenon DEF Written, Dirty, Current

\* Evicting is copying: clients read the same, the file may gain a page.
LEMMA EvictStore ==
    ASSUME CacheInv, Running, NEW v \in Cached, Evict(v)
    PROVE  Store!Copy
<1>0. v \in PageId
  BY Zenon DEF Cached
<1>1. Cached' = Cached \ {v}
  BY <1>0, Zenon DEF Evict, Cached, CacheInv, CacheTypeOK
<1>2. Current' = Current
  BY <1>0, <1>1, FlushedCurrent, Zenon DEF Evict, Current
<1>3. file_pages' \in [PageId -> Value]
  BY <1>0, FlushedType, Zenon DEF Evict, CacheInv
<1>4. \A p \in PageId : file_pages'[p] \in {file_pages[p], Current[p]}
  BY FlushedCurrent, Zenon DEF Evict
<1> QED
  BY <1>2, <1>3, <1>4 DEF Store!Copy, Store!Copied, Running, Evict, Current

\* Loading a page in the place of another is copying, too.
LEMMA GetMissFullStore ==
    ASSUME CacheInv, NEW p \in PageId, NEW v \in PageId, NEW a \in Addr,
           GetMissFull(p, v, a)
    PROVE  Store!Copy
<1>0. v \in Cached /\ p \notin Cached /\ p # v
  BY Zenon DEF GetMissFull, IsVictim
<1>1. Cached' = (Cached \ {v}) \cup {p}
  BY <1>0, CacheAssumption DEF GetMissFull, Cached, CacheInv, CacheTypeOK
<1>2. file_pages' = Flushed(v) /\ data' = [data EXCEPT ![p] = file_pages[p]]
  BY Zenon DEF GetMissFull
<1>3. Current' = Current
  BY <1>0, <1>1, <1>2, FlushedCurrent DEF Current, CacheInv, CacheTypeOK
<1>4. file_pages' \in [PageId -> Value]
  BY <1>2, FlushedType, Zenon DEF CacheInv
<1>5. \A q \in PageId : file_pages'[q] \in {file_pages[q], Current[q]}
  BY <1>0, <1>2, FlushedCurrent
<1> QED
  BY <1>3, <1>4, <1>5, Zenon DEF Store!Copy, Store!Copied, GetMissFull, Running, Current

\* A client's write is a write of the store.
LEMMA WriteStore ==
    ASSUME CacheInv, NEW p \in PageId, NEW v \in Value, page_mark_dirty(p, v)
    PROVE  Store!Write
<1>1. Current' = [Current EXCEPT ![p] = v]
  BY Zenon DEF page_mark_dirty, Current, Cached, CacheInv, CacheTypeOK
<1> QED
  BY <1>1, Zenon DEF Store!Write, page_mark_dirty, Running, Current

\* A flush is copying.
LEMMA FlushStore ==
    ASSUME CacheInv,
           \/ \E failed \in SUBSET PageId : page_cache_flush(failed)
           \/ \E p \in PageId : page_cache_flush_page(p)
    PROVE  Store!Copy
<1>1. ASSUME NEW failed \in SUBSET PageId, page_cache_flush(failed) PROVE Store!Copy
  <2>1. Current' = Current
    BY <1>1, Zenon DEF page_cache_flush, Written, Dirty, Current, Cached
  <2>2. /\ file_pages' \in [PageId -> Value]
        /\ \A p \in PageId : file_pages'[p] \in {file_pages[p], Current[p]}
    BY <1>1, WrittenType, WrittenCurrent, Zenon DEF page_cache_flush, CacheInv
  <2> QED
    BY <1>1, <2>1, <2>2, Zenon DEF Store!Copy, Store!Copied, page_cache_flush, Running, Current
<1>2. ASSUME NEW p \in PageId, page_cache_flush_page(p) PROVE Store!Copy
  <2>1. Current' = Current
    BY <1>2, SMTT(30) DEF page_cache_flush_page, Dirty, Current, Cached
  <2>2. /\ file_pages' \in [PageId -> Value]
        /\ \A q \in PageId : file_pages'[q] \in {file_pages[q], Current[q]}
    BY <1>2 DEF page_cache_flush_page, Dirty, Current, CacheInv, CacheTypeOK
  <2> QED
    BY <1>2, <2>1, <2>2, Zenon
       DEF Store!Copy, Store!Copied, page_cache_flush_page, Running, Current
<1> QED
  BY <1>1, <1>2, Zenon

\* Emptying the cache after a flush that failed for some pages shows the file.
LEMMA EmptiedStore ==
    ASSUME CacheInv, NEW failed \in SUBSET PageId,
           page_cache_clear(failed) \/ page_cache_destroy(failed)
    PROVE  Store!Copy \/ Store!Forget \/ Store!Stop
<1>1. Current' = file_pages' /\ file_pages' = Written(failed) /\ file_pages' \in [PageId -> Value]
  <2>1. Cached' = {} /\ file_pages' = Written(failed)
    BY DEF page_cache_clear, page_cache_destroy, Emptied, Cached
  <2>2. file_pages' \in [PageId -> Value]
    BY <2>1, WrittenType, Zenon DEF CacheInv
  <2> QED
    BY <2>1, <2>2, Zenon DEF Current
<1>2. \A p \in PageId : file_pages'[p] \in {file_pages[p], Current[p]}
  BY <1>1, WrittenCurrent, Zenon
<1>3. CASE page_cache_destroy(failed)
  BY <1>1, <1>2, <1>3, Zenon
     DEF page_cache_destroy, Running, Store!Stop, Store!Copied, Current
<1>4. CASE page_cache_clear(failed) /\ failed # {}
  BY <1>1, <1>2, <1>4, Zenon
     DEF page_cache_clear, Running, Store!Forget, Store!Copied, Current
<1>5. CASE page_cache_clear(failed) /\ failed = {}
  <2>1. Current \in [PageId -> Value] /\ Written(failed) = Current
    BY <1>5, CurrentType, Zenon DEF Written, Dirty, Current, CacheInv, CleanIsDurable
  <2> QED
    BY <1>1, <1>2, <1>5, <2>1, Zenon
       DEF page_cache_clear, Running, Store!Copy, Store!Copied, Current
<1> QED
  BY <1>3, <1>4, <1>5, Zenon

\* Every step of the cache is a step of the store or leaves it unchanged.
LEMMA StepStore ==
    ASSUME CacheInv, [CacheNext]_cacheVars
    PROVE  Store!Next \/ UNCHANGED Store!vars
<1>1. CASE page_cache_create
  <2>1. Current' = Current
    BY <1>1, Zenon DEF page_cache_create, Current, Cached, fields
  <2> QED
    BY <1>1, <2>1, Zenon DEF page_cache_create, Store!Next, Store!Start, Current
<1>2. CASE \/ page_cache_reset_stats
           \/ \E p \in PageId : GetMissHangs(p) \/ GetHit(p) \/ page_unpin(p)
  <2>1. UNCHANGED <<pages, data, file_pages, up>> /\ up /\ event' = "quiet"
    BY <1>2, Zenon DEF page_cache_reset_stats, GetMissHangs, GetHit, page_unpin, Running, fields
  <2>2. Current' = Current
    BY <2>1, Zenon DEF Current, Cached
  <2> QED
    BY <2>1, <2>2, Zenon DEF Store!Next, Store!Copy, Store!Copied, Current, CacheInv, CacheTypeOK
<1>3. ASSUME NEW p \in PageId, NEW a \in Addr, GetMiss(p, a)
      PROVE  Store!Next
  <2>1. Cached' = Cached \cup {p}
    BY <1>3, CacheAssumption DEF GetMiss, Cached, CacheInv, CacheTypeOK
  <2>2. Current' = Current
    BY <1>3, <2>1, Zenon DEF GetMiss, Current, CacheInv, CacheTypeOK
  <2> QED
    BY <1>3, <2>2, Zenon
       DEF GetMiss, Running, Store!Next, Store!Copy, Store!Copied, Current, CacheInv, CacheTypeOK
<1>11. CASE UNCHANGED cacheVars
  <2>1. UNCHANGED <<pages, data, file_pages, up, event>>
    BY <1>11, Zenon DEF cacheVars, fields
  <2>2. Current' = Current
    BY <2>1, Zenon DEF Current, Cached
  <2> QED
    BY <2>1, <2>2, Zenon DEF Store!vars, Current
<1>4. ASSUME NEW p \in PageId, NEW v \in PageId, GetMissFails(p, v)
      PROVE  Store!Next
  BY <1>4, EvictStore DEF GetMissFails, IsVictim, Store!Next
<1>5. ASSUME NEW p \in PageId, page_cache_evict(p) PROVE Store!Next
  BY <1>5, EvictStore DEF page_cache_evict, Store!Next
<1>6. CASE \E p \in PageId, v \in PageId, a \in Addr : GetMissFull(p, v, a)
  BY <1>6, GetMissFullStore DEF Store!Next
<1>7. CASE \E p \in PageId, v \in Value : page_mark_dirty(p, v)
  BY <1>7, WriteStore DEF Store!Next
<1>8. CASE \/ \E failed \in SUBSET PageId : page_cache_flush(failed)
           \/ \E p \in PageId : page_cache_flush_page(p)
  BY <1>8, FlushStore DEF Store!Next
<1>9. CASE \E failed \in SUBSET PageId :
              page_cache_clear(failed) \/ page_cache_destroy(failed)
  BY <1>9, EmptiedStore, Zenon DEF Store!Next
<1>10. CASE Crash
  <2>1. Cached' = {} /\ file_pages' = file_pages
    BY <1>10, Zenon DEF Crash, Emptied, Cached
  <2>2. Current' = file_pages'
    BY <2>1 DEF Current, CacheInv, CacheTypeOK
  <2> QED
    BY <1>10, <2>1, <2>2, Zenon
       DEF Crash, Store!Next, Store!Stop, Store!Copied, Current, CacheInv, CacheTypeOK
<1> QED
  BY <1>1, <1>2, <1>3, <1>4, <1>5, <1>6, <1>7, <1>8, <1>9, <1>10,
     <1>11, SMTT(30) DEF CacheNext

\* The cache is transparent: it implements the store.  Eviction, reloading and
\* failed writes never lose what a client has written; only the end of the
\* cache and page_cache_clear after a failed write do.
THEOREM CacheImplementsStore == CacheSpec => StoreSpec
<1>1. CacheInit => Store!Init
  BY InitStore
<1>2. CacheInv /\ [CacheNext]_cacheVars => [Store!Next]_(Store!vars)
  BY StepStore
<1> QED
  BY <1>1, <1>2, CacheInvariant, PTL DEF CacheSpec, StoreSpec, Store!Spec

----------------------------------------------------------------------------
(* The pager.                                                              *)

\* Where the pages lie: a page that is held or free is inside the file, and
\* the file is never longer than the page count its header states.  The
\* header may lag behind memory, after a failed header write, but a page is
\* handed out only once the header covers it.
Located ==
    /\ is_open => hdr.page_count # 0
    /\ hdr.page_count =< page_count
    /\ file_len =< hdr.page_count
    /\ \A p \in owned : p < file_len
    /\ clean => \A i \in 1 .. free_page_count : chain[i] < file_len

IInv == TypeOK /\ FreelistSound /\ Located

\* The free list has fewer elements than the file has pages, so the unsigned
\* counter free_page_count never wraps around while the list is sound.
LEMMA FreeCountBound ==
    ASSUME TypeOK, FreelistSound, clean
    PROVE  free_page_count < MaxPages
<1>1. free_page_count \in Nat /\ MaxPages \in Nat \ {0}
  BY PagerAssumption DEF TypeOK
<1>2. IsFiniteSet(1 .. free_page_count) /\ Cardinality(1 .. free_page_count) = free_page_count
  BY <1>1, FS_Interval
<1>3. IsFiniteSet(Page) /\ Cardinality(Page) = MaxPages - 1
  BY <1>1, FS_Interval DEF Page
<1>4. SUFFICES ASSUME Cardinality(Page) < Cardinality(1 .. free_page_count)
               PROVE  FALSE
  BY <1>1, <1>2, <1>3
<1>5. chain \in [1 .. free_page_count -> Page]
  BY DEF FreelistSound
<1>6. \E x, y \in 1 .. free_page_count : x # y /\ chain[x] = chain[y]
  BY <1>2, <1>3, <1>4, <1>5, FS_PigeonHole, Zenon
<1> QED
  BY <1>6 DEF FreelistSound

\* Storing a free-list head yields a header again and leaves the page count
\* alone.
LEMMA HeaderFreelist ==
    ASSUME NEW h \in Header, NEW w \in Word, NEW c \in 0 .. MaxCount
    PROVE  /\ [h EXCEPT !.first_free_page = w, !.free_page_count = c] \in Header
           /\ [h EXCEPT !.first_free_page = w, !.free_page_count = c].page_count
                = h.page_count
BY Zenon DEF Header

\* The pager starts without a file, and then the invariant holds.
LEMMA InitIInv == Init => IInv
<1> SUFFICES ASSUME Init PROVE IInv
  OBVIOUS
<1> USE PagerAssumption DEF Init
<1>1. TypeOK
  <2>1. hdr \in Header
    BY DEF NoHeader, Header, Word
  <2>2. disk \in [Page -> Word]
    BY DEF Word
  <2>3. is_open \in BOOLEAN /\ clean \in BOOLEAN
    BY Zenon
  <2>4. /\ page_count \in 0 .. MaxPages /\ first_free_page \in Word
        /\ free_page_count \in 0 .. MaxCount /\ file_size \in 0 .. MaxPages
        /\ file_len \in 0 .. MaxPages
    BY DEF Word
  <2> QED
    BY <2>1, <2>2, <2>3, <2>4, Zenon DEF TypeOK
<1>2. FreelistSound
  BY DEF FreelistSound, Top, NoChain
<1>3. Located
  BY DEF Located, NoHeader
<1> QED
  BY <1>1, <1>2, <1>3, Zenon DEF IInv

\* A new database starts from a fresh header and an empty list.
LEMMA CreateIInv == IInv /\ pager_create => IInv'
BY PagerAssumption
   DEF pager_create, IInv, TypeOK, FreelistSound, Located, Top, NoChain,
       init_header, Header, Word, Page

\* Reopening keeps the part of the list the header still names, or records
\* that the list is no longer known.
LEMMA OpenIInv == IInv /\ pager_open => IInv'
<1> SUFFICES ASSUME IInv, pager_open PROVE IInv'
  BY Zenon
<1> USE PagerAssumption DEF pager_open, file
<1>1. TypeOK'
  BY Zenon DEF IInv, TypeOK, Header, HeaderUsable
<1>2. CASE ~clean'
  BY <1>1, <1>2 DEF IInv, TypeOK, FreelistSound, Located, Header
<1>3. CASE clean'
  <2>1. clean /\ HeaderUsable
    BY <1>3, Zenon
  <2>2. chain' = [i \in 1 .. hdr.free_page_count |-> chain[i]]
    BY <1>3, Zenon DEF Keep
  <2>3. hdr.free_page_count \in Nat /\ hdr.free_page_count =< free_page_count
    BY <2>1 DEF IInv, TypeOK, Header, HeaderUsable
  <2>4. \A i \in 1 .. hdr.free_page_count :
           i \in 1 .. free_page_count /\ chain'[i] = chain[i]
    BY <2>2, <2>3, SMTT(30) DEF IInv, TypeOK
  <2>5. FreelistSound'
    BY <2>1, <2>2, <2>3, <2>4 DEF IInv, TypeOK, FreelistSound, Top, HeaderUsable
  <2>6. Located'
    BY <2>1, <2>3, <2>4 DEF IInv, TypeOK, Located, Header
  <2> QED
    BY <1>1, <2>5, <2>6 DEF IInv
<1> QED
  BY <1>2, <1>3

\* A client writes only pages it holds, so no link of the list changes.
LEMMA WriteIInv ==
    ASSUME NEW p \in Page, NEW w \in ClientWord, IInv, pager_write_page(p, w)
    PROVE  IInv'
<1> USE PagerAssumption DEF pager_write_page, history
<1>1. TypeOK'
  BY DEF IInv, TypeOK, Page, Word
<1>2. FreelistSound'
  BY Zenon DEF IInv, TypeOK, FreelistSound, Top, Page
<1>3. Located'
  BY Zenon DEF IInv, TypeOK, Located, Page, Header
<1> QED
  BY <1>1, <1>2, <1>3, Zenon DEF IInv

\* Allocation pops the top of the list: its link names the page below it.
LEMMA AllocateFromFreelistIInv == IInv /\ AllocateFromFreelist => IInv'
<1> SUFFICES ASSUME IInv, AllocateFromFreelist PROVE IInv'
  OBVIOUS
<1> USE PagerAssumption DEF AllocateFromFreelist, file
<1>1. first_free_page \in Page /\ disk[first_free_page] \in Word
  BY DEF IInv, TypeOK, Located, Page, Word, Header
<1>2. TypeOK'
  BY <1>1 DEF IInv, TypeOK, Decrement
<1>3. Located'
  BY <1>1 DEF IInv, TypeOK, Located, FreelistSound, Decrement, Pop, Top, Header
<1>4. FreelistSound'
  <2> SUFFICES ASSUME clean PROVE FreelistSound'
    BY Zenon DEF FreelistSound
  <2>0. PICK n \in Nat : n = free_page_count
    BY DEF IInv, TypeOK
  <2>1. n \in Nat \ {0} /\ first_free_page = chain[n] /\ free_page_count' = n - 1
    BY <2>0, Zenon DEF IInv, TypeOK, FreelistSound, Top, Decrement
  <2>2. chain' = [i \in 1 .. (n - 1) |-> chain[i]]
    BY <2>0, Zenon DEF Pop
  <2>3. first_free_page' = Top(n - 1)
    BY <2>0, <2>1 DEF IInv, FreelistSound
  <2>4. chain' \in [1 .. (n - 1) -> Page] /\ first_free_page' = Top(n - 1)'
    BY <2>0, <2>1, <2>2, <2>3 DEF IInv, FreelistSound, Top
  <2>5. \A i \in 1 .. (n - 1) : chain[i] \notin owned' /\ disk'[chain[i]] = Top(i - 1)
    BY <2>0, <2>1 DEF IInv, FreelistSound
  <2>6. \A i \in 1 .. (n - 1) : Top(i - 1)' = Top(i - 1) /\ chain'[i] = chain[i]
    BY <2>1, <2>2 DEF Top
  <2> QED
    BY <2>0, <2>1, <2>4, <2>5, <2>6 DEF IInv, FreelistSound
<1> QED
  BY <1>2, <1>3, <1>4, Zenon DEF IInv

\* Growing the file keeps every page and every link, whichever call fails.
LEMMA AllocateGrowIInv ==
    ASSUME NEW fault \in GrowFault, IInv, AllocateGrow(fault)
    PROVE  IInv'
<1> USE PagerAssumption DEF AllocateGrow
<1>1. page_count \in Page
  BY DEF IInv, TypeOK, Located, Page, Header
<1>2. /\ hdr' \in Header
      /\ hdr'.page_count \in {hdr.page_count, page_count + 1}
      /\ fault = "none" => hdr'.page_count = page_count + 1
  BY <1>1, SMTT(30) DEF IInv, TypeOK, Page, Word, Header
<1>3. TypeOK'
  <2>1. disk' \in [Page -> Word]
    BY DEF IInv, TypeOK, Word
  <2>2. owned' \subseteq Page
    BY <1>1 DEF IInv, TypeOK
  <2> QED
    BY <1>1, <1>2, <2>1, <2>2 DEF IInv, TypeOK, Page
<1>4. clean => free_page_count = 0
  BY DEF IInv, TypeOK, FreelistSound, Top, Page
<1>5. Located'
  <2>1. CASE fault = "none"
    <3>1. hdr'.page_count = page_count + 1 /\ file_len' = page_count + 1
      BY <1>2, <2>1
    <3>2. \A p \in owned' : p < page_count + 1
      BY <1>1, <2>1 DEF IInv, TypeOK, Located, Page, Header
    <3> QED
      BY <1>1, <1>4, <3>1, <3>2 DEF Located, Page
  <2>2. CASE fault # "none"
    BY <1>1, <1>2, <2>2 DEF IInv, TypeOK, Located, Page, Header
  <2> QED
    BY <2>1, <2>2
<1>6. FreelistSound'
  BY <1>4 DEF IInv, FreelistSound, Top
<1> QED
  BY <1>3, <1>5, <1>6, Zenon DEF IInv

\* Freeing pushes a page that no client holds and that is not on the list.
LEMMA FreeIInv ==
    ASSUME NEW p \in Page, NEW fault \in FreeFault, IInv, pager_free_page(p, fault)
    PROVE  IInv'
<1> USE PagerAssumption DEF pager_free_page, file
<1>1. CASE fault = "write_page"
  <2>1. TypeOK'
    BY <1>1 DEF IInv, TypeOK
  <2>2. FreelistSound'
    BY <1>1 DEF IInv, FreelistSound, Top
  <2>3. Located'
    BY <1>1 DEF IInv, Located
  <2> QED
    BY <2>1, <2>2, <2>3 DEF IInv
<1>2. CASE fault # "write_page"
  <2>1. p < file_len /\ file_len' = file_len
    BY <1>2 DEF IInv, Located
  <2>2. free_page_count' \in 0 .. MaxCount
    BY <1>2 DEF IInv, TypeOK, Increment
  <2>3. hdr' \in Header /\ hdr'.page_count = hdr.page_count
    <3>1. p \in Word /\ hdr \in Header
      BY SMTT(30) DEF IInv, TypeOK, Page, Word
    <3>2. CASE hdr' = hdr
      BY <3>1, <3>2
    <3>3. CASE hdr' = [hdr EXCEPT !.first_free_page = p,
                                  !.free_page_count = free_page_count']
      <4> HIDE DEF pager_free_page
      <4> QED
        BY <2>2, <3>1, <3>3, HeaderFreelist, Zenon
    <3> QED
      BY <1>2, <3>2, <3>3, Zenon
  <2>6. TypeOK'
    BY <1>2, <2>1, <2>2, <2>3, SMTT(30) DEF IInv, TypeOK, Page, Word
  <2>4. CASE ~clean
    BY <1>2, <2>1, <2>6, <2>3, <2>4 DEF IInv, FreelistSound, Located
  <2>5. CASE clean
    <3>0. PICK n \in Nat : n = free_page_count
      BY DEF IInv, TypeOK
    <3>1. n \in Nat /\ free_page_count' = n + 1
      BY <3>0, <1>2, <2>5, FreeCountBound DEF IInv, TypeOK, Increment
    <3>2. chain' = [i \in 1 .. (n + 1) |-> IF i = n + 1 THEN p ELSE chain[i]]
      BY <3>0, <1>2, <2>5, Zenon DEF Push
    <3>3. \A i \in 1 .. n : chain'[i] = chain[i] /\ chain[i] # p /\ chain[i] \in Page
      BY <3>0, <3>1, <3>2, <2>5 DEF IInv, FreelistSound
    <3>4. chain'[n + 1] = p /\ chain' \in [1 .. (n + 1) -> Page]
      <4>1. n + 1 \in 1 .. (n + 1) /\ \A i \in 1 .. (n + 1) : i = n + 1 \/ i \in 1 .. n
        BY <3>0
      <4>2. chain'[n + 1] = p
        BY <3>2, <4>1
      <4>3. \A i \in 1 .. (n + 1) : chain'[i] \in Page
        BY <3>3, <4>1, <4>2
      <4> QED
        BY <3>2, <4>2, <4>3, Zenon
    <3>5. \A i \in 1 .. (n + 1) : Top(i - 1)' = Top(i - 1)
      BY <3>1, <3>3 DEF Top
    <3>6. \A i \in 1 .. n : disk'[chain[i]] = disk[chain[i]] /\ chain[i] \notin owned'
      BY <1>2, <2>5, <3>0, <3>3 DEF IInv, TypeOK, FreelistSound
    <3>7. disk'[p] = Top(n)
      BY <3>0, <1>2, <2>5, Zenon DEF IInv, TypeOK, FreelistSound
    <3>8. \A i \in 1 .. (n + 1) : disk'[chain'[i]] = Top(i - 1)' /\ chain'[i] \notin owned'
      <4> SUFFICES ASSUME NEW i \in 1 .. (n + 1)
                   PROVE  disk'[chain'[i]] = Top(i - 1)' /\ chain'[i] \notin owned'
        OBVIOUS
      <4>1. CASE i = n + 1
        BY <4>1, <3>1, <3>4, <3>5, <3>7
      <4>2. CASE i \in 1 .. n
        BY <4>2, <3>0, <3>3, <3>5, <3>6, <2>5 DEF IInv, FreelistSound
      <4> QED
        BY <4>1, <4>2, <3>1
    <3>9. \A i, j \in 1 .. (n + 1) : chain'[i] = chain'[j] => i = j
      BY <3>0, <3>1, <3>3, <3>4, <2>5, SMTT(30) DEF IInv, FreelistSound
    <3>10. first_free_page' = Top(n + 1)'
      BY <1>2, <3>1, <3>4 DEF Top
    <3>11. FreelistSound'
      BY <3>1, <3>4, <3>8, <3>9, <3>10, Zenon DEF FreelistSound
    <3>12. Located'
      BY <1>2, <2>1, <2>3, <2>5, <3>0, <3>1, <3>3, <3>4 DEF IInv, Located
    <3> QED
      BY <2>6, <3>11, <3>12 DEF IInv
  <2> QED
    BY <2>4, <2>5
<1> QED
  BY <1>1, <1>2

\* Closing, the header updates and stuttering leave the list and the pages
\* where they are.
LEMMA QuietIInv ==
    IInv /\ (\/ pager_close
             \/ pager_update_page_count
             \/ pager_update_freelist
             \/ UNCHANGED vars) => IInv'
<1>1. IInv /\ pager_close => IInv'
  <2> SUFFICES ASSUME IInv, pager_close PROVE IInv'
    OBVIOUS
  <2> USE DEF pager_close, memory, file, history
  <2>1. TypeOK'
    BY Zenon DEF IInv, TypeOK
  <2>2. FreelistSound'
    BY Zenon DEF IInv, FreelistSound, Top
  <2>3. Located'
    BY DEF IInv, Located
  <2> QED
    BY <2>1, <2>2, <2>3 DEF IInv
<1>2. IInv /\ pager_update_page_count => IInv'
  <2> SUFFICES ASSUME IInv, pager_update_page_count PROVE IInv'
    OBVIOUS
  <2> USE PagerAssumption DEF pager_update_page_count, memory, history
  <2>1. TypeOK'
    BY DEF IInv, TypeOK, Header
  <2>2. FreelistSound'
    BY DEF IInv, FreelistSound, Top
  <2>3. Located'
    BY DEF IInv, TypeOK, Located, Header
  <2> QED
    BY <2>1, <2>2, <2>3, Zenon DEF IInv
<1>3. IInv /\ pager_update_freelist => IInv'
  <2> SUFFICES ASSUME IInv, pager_update_freelist PROVE IInv'
    OBVIOUS
  <2> USE PagerAssumption DEF pager_update_freelist, memory, history
  <2>1. TypeOK'
    BY Zenon DEF IInv, TypeOK, Header
  <2>2. FreelistSound'
    BY DEF IInv, FreelistSound, Top
  <2>3. Located'
    BY Zenon DEF IInv, TypeOK, Located, Header
  <2> QED
    BY <2>1, <2>2, <2>3 DEF IInv
<1>4. IInv /\ UNCHANGED vars => IInv'
  BY DEF IInv, TypeOK, FreelistSound, Located, Top, vars, memory, file, history
<1> QED
  BY <1>1, <1>2, <1>3, <1>4, Zenon

\* Every step of the pager preserves the inductive invariant.
LEMMA StepIInv == IInv /\ [Next]_vars => IInv'
BY CreateIInv, OpenIInv, WriteIInv, AllocateFromFreelistIInv, AllocateGrowIInv,
   FreeIInv, QuietIInv, Zenon
   DEF Next

\* In every reachable state of the pager, whatever the number of pages, the
\* inductive invariant holds.
THEOREM PagerInvariant == Spec => []IInv
BY InitIInv, StepIInv, PTL DEF Spec

\* Every field of the pager and of the file keeps its type.
THEOREM PagerType == Spec => []TypeOK
<1>1. IInv => TypeOK
  BY DEF IInv
<1> QED
  BY <1>1, PagerInvariant, PTL

\* The links of the free list always describe exactly the freed pages, as
\* long as no open met a stale header.
THEOREM PagerFreelist == Spec => []FreelistSound
<1>1. IInv => FreelistSound
  BY DEF IInv
<1> QED
  BY <1>1, PagerInvariant, PTL

\* A page a client holds can always be read back, in every session.
THEOREM PagerOwnedReadable == Spec => []OwnedReadable
<1>1. IInv => OwnedReadable
  BY DEF IInv, TypeOK, Located, OwnedReadable, Readable, Page, Header
<1> QED
  BY <1>1, PagerInvariant, PTL

----------------------------------------------------------------------------
\* No step but its owner's write changes a page that stays owned.
THEOREM PagerOwnedUntouched == Spec => OwnedUntouched
<1> DEFINE A == \A p \in owned \cap owned' :
                   disk'[p] # disk[p] => \E w \in ClientWord : pager_write_page(p, w)
<1>1. ASSUME IInv, [Next]_vars PROVE [A]_vars
  <2> USE <1>1
  <2>1. CASE pager_create
    BY <2>1 DEF pager_create
  <2>2. ASSUME NEW p \in Page, NEW w \in ClientWord, pager_write_page(p, w)
        PROVE  A
    BY <2>2, Zenon DEF IInv, TypeOK, pager_write_page
  <2>3. ASSUME NEW fault \in GrowFault, AllocateGrow(fault) PROVE A
    <3>1. \A p \in owned : p \in Page /\ p =< page_count /\ p < file_len
      BY PagerAssumption DEF IInv, TypeOK, Located, Page, Header
    <3> QED
      BY <2>3, <3>1, Zenon DEF AllocateGrow
  <2>4. ASSUME NEW p \in Page, NEW fault \in FreeFault, pager_free_page(p, fault)
        PROVE  A
    BY <2>4 DEF IInv, TypeOK, pager_free_page, file
  <2>5. CASE disk' = disk
    BY <2>5, Zenon
  <2> QED
    BY <2>1, <2>2, <2>3, <2>4, <2>5, Zenon
       DEF Next, pager_open, pager_close, AllocateFromFreelist,
           pager_update_page_count, pager_update_freelist, file, vars
<1> QED
  BY <1>1, PagerInvariant, PTL DEF Spec, OwnedUntouched

----------------------------------------------------------------------------
(* The refinement: free is the set of pages on the list.                   *)

FreePages == {chain[i] : i \in DOMAIN chain}

\* The free pages are the first free_page_count entries of chain, and
\* first_free_page is 0 exactly when there are none.
LEMMA FreePagesSound ==
    ASSUME IInv, clean
    PROVE  /\ FreePages = {chain[i] : i \in 1 .. free_page_count}
           /\ free_page_count \in Nat
           /\ first_free_page = 0 <=> FreePages = {}
<1>1. free_page_count \in Nat /\ chain \in [1 .. free_page_count -> Page]
  BY PagerAssumption DEF IInv, TypeOK, FreelistSound
<1>2. FreePages = {chain[i] : i \in 1 .. free_page_count}
  BY <1>1, Zenon DEF FreePages
<1>3. CASE free_page_count = 0
  <2>1. 1 .. free_page_count = {}
    BY <1>3
  <2> QED
    BY <1>1, <1>2, <1>3, <2>1, Zenon DEF IInv, FreelistSound, Top
<1>4. CASE free_page_count # 0
  <2>1. free_page_count \in 1 .. free_page_count
    BY <1>1, <1>4
  <2>2. chain[free_page_count] \in Page /\ chain[free_page_count] \in FreePages
    BY <1>1, <1>2, <2>1
  <2>3. first_free_page = chain[free_page_count]
    BY <1>4, Zenon DEF IInv, FreelistSound, Top
  <2> QED
    BY <1>1, <1>2, <2>2, <2>3, PagerAssumption, SMTT(30) DEF Page
<1> QED
  BY <1>3, <1>4, Zenon

\* The pager starts with no page held and none free.
LEMMA InitAllocator == Init => Allocator!Init
BY DEF Init, Allocator!Init, NoChain

\* Reopening from a usable header forgets free pages at most.
LEMMA OpenAllocator ==
    ASSUME IInv, pager_open
    PROVE  Allocator!Reopen \/ Allocator!Break
<1>1. CASE ~clean'
  BY <1>1, Zenon DEF Allocator!Break
<1>2. CASE clean'
  <2>1. /\ clean /\ hdr.free_page_count =< free_page_count
        /\ chain' = [i \in 1 .. hdr.free_page_count |-> chain[i]]
    BY <1>2, Zenon DEF pager_open, HeaderUsable, Keep
  <2>2. hdr.free_page_count \in Nat
    BY DEF IInv, TypeOK, Header
  <2>3. \A i \in 1 .. hdr.free_page_count : i \in 1 .. free_page_count
    BY <2>1, <2>2, FreePagesSound
  <2>4. FreePages' = {chain[i] : i \in 1 .. hdr.free_page_count}
    BY <2>1, Zenon DEF FreePages
  <2>5. FreePages' \subseteq FreePages
    BY <2>1, <2>3, <2>4, FreePagesSound
  <2> QED
    BY <1>2, <2>1, <2>5 DEF pager_open, Allocator!Reopen, FreePages
<1> QED
  BY <1>1, <1>2

\* The page popped from the list was free and held by nobody.
LEMMA AllocateFromFreelistAllocator ==
    ASSUME IInv, AllocateFromFreelist
    PROVE  Allocator!Allocate \/ Allocator!Break
<1>1. CASE ~clean
  BY <1>1, Zenon DEF AllocateFromFreelist, Allocator!Break
<1>2. CASE clean
  <2>0. PICK n \in Nat : n = free_page_count
    BY DEF IInv, TypeOK
  <2>1. n # 0 /\ first_free_page = chain[n] /\ chain \in [1 .. n -> Page]
    BY <1>2, <2>0, Zenon DEF AllocateFromFreelist, IInv, FreelistSound, Top
  <2>2. chain' = [i \in 1 .. (n - 1) |-> chain[i]]
    BY <1>2, <2>0, Zenon DEF AllocateFromFreelist, Pop
  <2>3. \A i \in 1 .. (n - 1) : i \in 1 .. n /\ chain[i] # chain[n]
    BY <1>2, <2>0, <2>1 DEF IInv, FreelistSound
  <2>4. FreePages' = FreePages \ {chain[n]}
    <3>1. FreePages = {chain[i] : i \in 1 .. n}
      BY <2>1, Zenon DEF FreePages
    <3>2. FreePages' = {chain[i] : i \in 1 .. (n - 1)}
      BY <2>2 DEF FreePages
    <3>3. \A i \in 1 .. n : i = n \/ i \in 1 .. (n - 1)
      BY <2>0
    <3> QED
      BY <2>3, <3>1, <3>2, <3>3, Zenon
  <2>5. n \in 1 .. n /\ chain[n] \in Page /\ chain[n] \in FreePages
    BY <2>0, <2>1 DEF FreePages
  <2>6. chain[n] \notin owned
    BY <1>2, <2>0, <2>5 DEF IInv, FreelistSound
  <2> QED
    BY <1>2, <2>1, <2>4, <2>5, <2>6, Zenon
       DEF AllocateFromFreelist, Allocator!Allocate, FreePages
<1> QED
  BY <1>1, <1>2, Zenon

\* The file grows only when no page is free, and by a page held by nobody.
LEMMA AllocateGrowAllocator ==
    ASSUME NEW fault \in GrowFault, IInv, AllocateGrow(fault)
    PROVE  Allocator!Allocate \/ Allocator!Break \/ UNCHANGED Allocator!vars
<1>1. CASE ~clean
  BY <1>1 DEF AllocateGrow, Allocator!Break
<1>2. CASE fault # "none"
  BY <1>2 DEF AllocateGrow, Allocator!vars
<1>3. CASE clean /\ fault = "none"
  <2>1. page_count \in Page \ owned
    BY PagerAssumption DEF AllocateGrow, IInv, TypeOK, Located, Page, Header
  <2>2. FreePages = {}
    BY <1>3, FreePagesSound DEF AllocateGrow
  <2> QED
    BY <1>3, <2>1, <2>2 DEF AllocateGrow, Allocator!Allocate, FreePages
<1> QED
  BY <1>1, <1>2, <1>3

\* Freeing moves a page from its holder to the free pages, or leaks it.
LEMMA FreeAllocator ==
    ASSUME NEW p \in Page, NEW fault \in FreeFault, IInv, pager_free_page(p, fault)
    PROVE  Allocator!Release \/ Allocator!Break
<1>1. CASE ~clean
  BY <1>1 DEF pager_free_page, Allocator!Break
<1>2. CASE clean /\ fault = "write_page"
  BY <1>2 DEF pager_free_page, Allocator!Release
<1>3. CASE clean /\ fault # "write_page"
  <2>0. PICK n \in Nat : n = free_page_count
    BY DEF IInv, TypeOK
  <2>1. chain' = [i \in 1 .. (n + 1) |-> IF i = n + 1 THEN p ELSE chain[i]]
    BY <1>3, <2>0, Zenon DEF pager_free_page, Push
  <2>2. FreePages = {chain[i] : i \in 1 .. n}
    BY <1>3, <2>0, FreePagesSound, Zenon
  <2>3. /\ n + 1 \in 1 .. (n + 1)
        /\ \A i \in 1 .. (n + 1) : i = n + 1 \/ i \in 1 .. n
        /\ \A i \in 1 .. n : i \in 1 .. (n + 1) /\ i # n + 1
    BY <2>0
  <2>4. FreePages' = FreePages \cup {p}
    <3>1. FreePages' = {chain'[i] : i \in 1 .. (n + 1)}
      BY <2>1, Zenon DEF FreePages
    <3>2. chain'[n + 1] = p /\ \A i \in 1 .. n : chain'[i] = chain[i]
      BY <2>1, <2>3
    <3> QED
      BY <2>2, <2>3, <3>1, <3>2, Zenon
  <2> QED
    BY <1>3, <2>4, Zenon DEF pager_free_page, Allocator!Release, FreePages
<1> QED
  BY <1>1, <1>2, <1>3

\* Every step of the pager is a step of the page allocator or leaves it
\* unchanged.
LEMMA StepAllocator ==
    ASSUME IInv, [Next]_vars
    PROVE  Allocator!Next \/ UNCHANGED Allocator!vars
<1>1. CASE pager_create
  BY <1>1 DEF pager_create, Allocator!Next, Allocator!Create, NoChain
<1>2. CASE pager_open
  BY <1>2, OpenAllocator DEF Allocator!Next
<1>3. CASE AllocateFromFreelist
  BY <1>3, AllocateFromFreelistAllocator DEF Allocator!Next
<1>4. ASSUME NEW fault \in GrowFault, AllocateGrow(fault)
      PROVE  Allocator!Next \/ UNCHANGED Allocator!vars
  BY <1>4, AllocateGrowAllocator DEF Allocator!Next
<1>5. ASSUME NEW p \in Page, NEW fault \in FreeFault, pager_free_page(p, fault)
      PROVE  Allocator!Next
  BY <1>5, FreeAllocator, Zenon DEF Allocator!Next
<1>6. CASE UNCHANGED history
  BY <1>6, Zenon DEF history, Allocator!vars
<1> QED
  BY <1>1, <1>2, <1>3, <1>4, <1>5, <1>6, Zenon
     DEF Next, pager_close, pager_write_page, pager_update_page_count,
         pager_update_freelist, vars, history

\* The pager implements PageAllocator: a page handed out is held by nobody
\* else and free pages are reused before the file grows, until a database is
\* reopened from a stale header.
THEOREM PagerImplementsAllocator == Spec => AllocatorSpec
<1>1. Init => Allocator!Init
  BY InitAllocator
<1>2. IInv /\ [Next]_vars => [Allocator!Next]_(Allocator!vars)
  BY StepAllocator
<1> QED
  BY <1>1, <1>2, PagerInvariant, PTL DEF Spec, AllocatorSpec, Allocator!Spec
=============================================================================
