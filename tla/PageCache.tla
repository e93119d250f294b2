----------------------------- MODULE PageCache -----------------------------
(***************************************************************************)
(* The page cache of src/storage/page_cache.c: page buffers found through  *)
(* a hash table and evicted in the order of a doubly linked LRU list.      *)
(*                                                                         *)
(* The links of the list are pointers to Page structures, modelled by      *)
(* addresses, because lru_remove does not maintain lru_head and lru_tail:  *)
(* they can name a structure that was freed.  Such a block keeps its       *)
(* links.  Its refcount is overwritten by the allocator with a value that  *)
(* is not 0, and page_alloc may use the block again.  The other fields     *)
(* belong to a page while it is cached and are indexed by its number.      *)
(*                                                                         *)
(* The hash table is a function from page numbers to structures.  Calls    *)
(* are single steps: all callers run in one thread.                        *)
(***************************************************************************)
EXTENDS Integers, FiniteSets

CONSTANTS
    PageId, Value,
    Addr,       \* the addresses of Page structures
    NULL,
    max_pages,
    MaxRef,     \* bound on the pins of one page
    MaxPins     \* bound on the counter pin_count

ASSUME CacheAssumption ==
    /\ IsFiniteSet(PageId)
    /\ NULL \notin Addr \cup PageId
    /\ max_pages \in Nat \ {0}
    /\ MaxRef \in Nat \ {0}
    /\ MaxPins \in Nat

VARIABLES
    up,                         \* a PageCache exists
    pages,                      \* the Page structure of a page, NULL: not cached
    refcount, is_dirty, data,   \* its fields
    lru_next, lru_prev,         \* the links stored in every block
    lru_head, lru_tail,
    count, pin_count,
    file_pages,                 \* the pages in the file
    event,                      \* history: what the last step did to clients
    hung                        \* the eviction loop does not end

fields == <<refcount, is_dirty, data>>
lru == <<lru_next, lru_prev, lru_head, lru_tail>>
cacheVars == <<up, pages, fields, lru, count, pin_count, file_pages,
               event, hung>>

Cached == {p \in PageId : pages[p] # NULL}
FreeBlocks == Addr \ {pages[p] : p \in PageId}
Dirty == {p \in Cached : is_dirty[p]}

Event == {"quiet", "write", "lost"}

\* Nothing is cached and the list is empty.
Emptied ==
    /\ pages' = [p \in PageId |-> NULL]
    /\ refcount' = [p \in PageId |-> 0]
    /\ is_dirty' = [p \in PageId |-> FALSE]
    /\ lru_next' = [a \in Addr |-> NULL]
    /\ lru_prev' = [a \in Addr |-> NULL]
    /\ lru_head' = NULL
    /\ lru_tail' = NULL
    /\ count' = 0

CacheInit ==
    /\ up = FALSE
    /\ pages = [p \in PageId |-> NULL]
    /\ refcount = [p \in PageId |-> 0]
    /\ is_dirty = [p \in PageId |-> FALSE]
    /\ lru_next = [a \in Addr |-> NULL]
    /\ lru_prev = [a \in Addr |-> NULL]
    /\ lru_head = NULL
    /\ lru_tail = NULL
    /\ count = 0
    /\ pin_count = 0
    /\ file_pages \in [PageId -> Value]
    /\ data = file_pages
    /\ event = "quiet"
    /\ hung = FALSE

page_cache_create ==
    /\ ~up
    /\ up' = TRUE
    /\ pin_count' = 0
    /\ event' = "quiet"
    /\ UNCHANGED <<pages, fields, lru, count, file_pages, hung>>

----------------------------------------------------------------------------
(* The LRU list.                                                           *)

\* lru_remove: the links of all blocks once block a has been taken out.
\* lru_head and lru_tail keep their values.
NextWithout(a) ==
    [b \in Addr |-> IF b = a THEN NULL
                    ELSE IF b = lru_prev[a] THEN lru_next[a] ELSE lru_next[b]]
PrevWithout(a) ==
    [b \in Addr |-> IF b = a THEN NULL
                    ELSE IF b = lru_next[a] THEN lru_prev[a] ELSE lru_prev[b]]

\* lru_add_front, on the links next and prev.  When a is still lru_head, it
\* becomes its own predecessor.
AddFront(a, next, prev) ==
    /\ lru_next' = [next EXCEPT ![a] = lru_head]
    /\ lru_prev' = [b \in Addr |-> IF b = lru_head THEN a
                                   ELSE IF b = a THEN NULL ELSE prev[b]]
    /\ lru_head' = a
    /\ lru_tail' = IF lru_tail = NULL THEN a ELSE lru_tail

\* The eviction walk, k blocks from lru_tail.
Walk[k \in Nat] ==
    IF k = 0 THEN lru_tail
    ELSE IF Walk[k - 1] = NULL THEN NULL ELSE lru_prev[Walk[k - 1]]
WalkSteps == 0 .. Cardinality(Addr)

Evictable(a) == \E p \in Cached : pages[p] = a /\ refcount[p] = 0

IsVictimTail(v) == v \in Cached /\ pages[v] = lru_tail

\* The page the walk stops at.
IsVictim(v) ==
    /\ v \in Cached
    /\ refcount[v] = 0
    /\ \E k \in WalkSteps :
          /\ Walk[k] = pages[v]
          /\ \A j \in 0 .. (k - 1) : ~Evictable(Walk[j])

WalkEnds == \E k \in WalkSteps : Walk[k] = NULL \/ Evictable(Walk[k])

FlushedNever(v) == file_pages

\* The file once page v, if it is dirty, has been written.
Flushed(v) == IF is_dirty[v] THEN [file_pages EXCEPT ![v] = data[v]] ELSE file_pages

----------------------------------------------------------------------------
(* Operations.  A call that fails before it has changed anything is a      *)
(* stuttering step and has no action.                                      *)

Running == up /\ ~hung

RoomLeft == count < max_pages

\* A client receives page p.
Pinned(p, n) ==
    /\ refcount' = [refcount EXCEPT ![p] = n]
    /\ pin_count < MaxPins
    /\ pin_count' = pin_count + 1

\* page_cache_get, page_pin: the page is cached.
GetHit(p) ==
    /\ Running
    /\ p \in Cached
    /\ refcount[p] < MaxRef
    /\ Pinned(p, refcount[p] + 1)
    /\ AddFront(pages[p], NextWithout(pages[p]), PrevWithout(pages[p]))
    /\ event' = "quiet"
    /\ UNCHANGED <<up, pages, is_dirty, data, count, file_pages, hung>>

\* page_cache_get: the page is loaded and there is room for it.
GetMiss(p, a) ==
    /\ Running
    /\ p \notin Cached
    /\ RoomLeft
    /\ a \in FreeBlocks
    /\ Pinned(p, 1)
    /\ AddFront(a, lru_next, lru_prev)
    /\ pages' = [pages EXCEPT ![p] = a]
    /\ is_dirty' = [is_dirty EXCEPT ![p] = FALSE]
    /\ data' = [data EXCEPT ![p] = file_pages[p]]
    /\ count' = count + 1
    /\ event' = "quiet"
    /\ UNCHANGED <<up, file_pages, hung>>

\* page_cache_get: the page is loaded after evict_lru_page has made room.
\* One eviction is enough, as count never exceeds max_pages.
GetMissFull(p, v, a) ==
    /\ Running
    /\ p \notin Cached
    /\ ~RoomLeft
    /\ IsVictim(v)
    /\ a \in FreeBlocks \cup {pages[v]}
    /\ Pinned(p, 1)
    /\ AddFront(a, NextWithout(pages[v]), PrevWithout(pages[v]))
    /\ pages' = [pages EXCEPT ![v] = NULL, ![p] = a]
    /\ is_dirty' = [is_dirty EXCEPT ![v] = FALSE, ![p] = FALSE]
    /\ data' = [data EXCEPT ![p] = file_pages[p]]
    /\ file_pages' = Flushed(v)
    /\ event' = "quiet"
    /\ UNCHANGED <<up, count, hung>>

\* Mutant: the counter is not decremented.
EvictKeepsCount(v) ==
    /\ pages' = [pages EXCEPT ![v] = NULL]
    /\ is_dirty' = [is_dirty EXCEPT ![v] = FALSE]
    /\ file_pages' = Flushed(v)
    /\ lru_next' = NextWithout(pages[v])
    /\ lru_prev' = PrevWithout(pages[v])
    /\ event' = "quiet"
    /\ UNCHANGED <<up, refcount, data, lru_head, lru_tail, count, pin_count, hung>>

\* Page v leaves the cache.
Evict(v) ==
    /\ pages' = [pages EXCEPT ![v] = NULL]
    /\ is_dirty' = [is_dirty EXCEPT ![v] = FALSE]
    /\ file_pages' = Flushed(v)
    /\ lru_next' = NextWithout(pages[v])
    /\ lru_prev' = PrevWithout(pages[v])
    /\ count' = count - 1
    /\ event' = "quiet"
    /\ UNCHANGED <<up, refcount, data, lru_head, lru_tail, pin_count, hung>>

\* page_cache_get: a page was evicted, but the new one cannot be allocated or
\* read.
GetMissFails(p, v) ==
    /\ Running
    /\ p \notin Cached
    /\ ~RoomLeft
    /\ IsVictim(v)
    /\ Evict(v)

\* page_cache_get: the links lead in a circle of pinned pages.
GetMissHangs(p) ==
    /\ Running
    /\ p \notin Cached
    /\ ~RoomLeft
    /\ ~WalkEnds
    /\ hung' = TRUE
    /\ event' = "quiet"
    /\ UNCHANGED <<up, pages, fields, lru, count, pin_count, file_pages>>

page_cache_evict(p) ==
    /\ Running
    /\ p \in Cached
    /\ refcount[p] = 0
    /\ Evict(p)

\* A client that has pinned page p changes it and calls page_mark_dirty.
page_mark_dirty(p, v) ==
    /\ Running
    /\ p \in Cached
    /\ refcount[p] > 0
    /\ data' = [data EXCEPT ![p] = v]
    /\ is_dirty' = [is_dirty EXCEPT ![p] = TRUE]
    /\ event' = "write"
    /\ UNCHANGED <<up, pages, refcount, lru, count, pin_count, file_pages, hung>>

page_unpin(p) ==
    /\ Running
    /\ p \in Cached
    /\ refcount[p] > 0
    /\ refcount' = [refcount EXCEPT ![p] = refcount[p] - 1]
    /\ event' = "quiet"
    /\ UNCHANGED <<up, pages, is_dirty, data, lru, count, pin_count, file_pages, hung>>

----------------------------------------------------------------------------
(* Whole-cache operations.  "failed" is the set of dirty pages that cannot *)
(* be written.                                                             *)

Written(failed) == [p \in PageId |-> IF p \in Dirty \ failed THEN data[p] ELSE file_pages[p]]

\* Mutant: a page that could not be written counts as clean.
FlushIgnoresFailure(failed) ==
    /\ Running
    /\ failed \subseteq Dirty
    /\ file_pages' = Written(failed)
    /\ is_dirty' = [p \in PageId |-> FALSE]
    /\ event' = "quiet"
    /\ UNCHANGED <<up, pages, refcount, data, lru, count, pin_count, hung>>

page_cache_flush(failed) ==
    /\ Running
    /\ failed \subseteq Dirty
    /\ file_pages' = Written(failed)
    /\ is_dirty' = [p \in PageId |-> p \in failed]
    /\ event' = "quiet"
    /\ UNCHANGED <<up, pages, refcount, data, lru, count, pin_count, hung>>

page_cache_flush_page(p) ==
    /\ Running
    /\ p \in Dirty
    /\ file_pages' = [file_pages EXCEPT ![p] = data[p]]
    /\ is_dirty' = [is_dirty EXCEPT ![p] = FALSE]
    /\ event' = "quiet"
    /\ UNCHANGED <<up, pages, refcount, data, lru, count, pin_count, hung>>

\* Pinned pages are freed too: a client must not use a page after this.
page_cache_clear(failed) ==
    /\ Running
    /\ failed \subseteq Dirty
    /\ file_pages' = Written(failed)
    /\ event' = IF failed = {} THEN "quiet" ELSE "lost"
    /\ data' = file_pages'
    /\ Emptied
    /\ UNCHANGED <<up, pin_count, hung>>

page_cache_destroy(failed) ==
    /\ Running
    /\ failed \subseteq Dirty
    /\ file_pages' = Written(failed)
    /\ up' = FALSE
    /\ data' = file_pages'
    /\ Emptied
    /\ event' = "quiet"
    /\ UNCHANGED <<pin_count, hung>>

\* The process is killed: what was not written is gone.
Crash ==
    /\ up
    /\ up' = FALSE
    /\ hung' = FALSE
    /\ data' = file_pages
    /\ Emptied
    /\ event' = "quiet"
    /\ UNCHANGED <<pin_count, file_pages>>

page_cache_reset_stats ==
    /\ Running
    /\ pin_count' = 0
    /\ event' = "quiet"
    /\ UNCHANGED <<up, pages, fields, lru, count, file_pages, hung>>

CacheNext ==
    \/ page_cache_create
    \/ \E p \in PageId :
          \/ GetHit(p)
          \/ \E a \in Addr : GetMiss(p, a)
          \/ \E v \in PageId, a \in Addr : GetMissFull(p, v, a)
          \/ \E v \in PageId : GetMissFails(p, v)
          \/ GetMissHangs(p)
          \/ page_cache_evict(p)
          \/ \E v \in Value : page_mark_dirty(p, v)
          \/ page_unpin(p)
          \/ page_cache_flush_page(p)
    \/ \E failed \in SUBSET PageId :
          \/ page_cache_flush(failed)
          \/ page_cache_clear(failed)
          \/ page_cache_destroy(failed)
    \/ Crash
    \/ page_cache_reset_stats

CacheSpec == CacheInit /\ [][CacheNext]_cacheVars

----------------------------------------------------------------------------
(* Properties.                                                             *)

\* Every field of the cache has its type.
CacheTypeOK ==
    /\ up \in BOOLEAN
    /\ pages \in [PageId -> Addr \cup {NULL}]
    /\ refcount \in [PageId -> 0 .. MaxRef]
    /\ is_dirty \in [PageId -> BOOLEAN]
    /\ data \in [PageId -> Value]
    /\ lru_next \in [Addr -> Addr \cup {NULL}]
    /\ lru_prev \in [Addr -> Addr \cup {NULL}]
    /\ lru_head \in Addr \cup {NULL}
    /\ lru_tail \in Addr \cup {NULL}
    /\ count \in 0 .. max_pages
    /\ pin_count \in 0 .. MaxPins
    /\ file_pages \in [PageId -> Value]
    /\ event \in Event
    /\ hung \in BOOLEAN

\* count is the number of pages in the hash table.  The limit of the cache is
\* kept by this counter alone.
CountExact == count = Cardinality(Cached)

\* A cached page that is not dirty is equal to the page in the file: eviction
\* may drop it, whatever failed writes, evictions and flushes came before.
CleanIsDurable == \A p \in Cached : ~is_dirty[p] => data[p] = file_pages[p]

\* While a client has pinned a page, the structure it points to stays the
\* structure of that page: neither an eviction for another page nor
\* page_cache_evict frees it, even when the list is broken.  Clearing or
\* destroying the cache does.
PinnedStays ==
    [][\A p \in Cached :
          refcount[p] > 0 => pages'[p] = pages[p] \/ Emptied]_cacheVars

\* The cache is transparent: a client reads what was written last, until the
\* cache is gone or page_cache_clear ignores a failed write.
Store == INSTANCE PageStore
    WITH current <- [p \in PageId |-> IF p \in Cached THEN data[p] ELSE file_pages[p]],
         durable <- file_pages
StoreSpec == Store!Spec

\* The search for a page to evict always ends.
EvictionEnds == ~hung
============================================================================
