------------------------------- MODULE Pager -------------------------------
(***************************************************************************)
(* The pager of src/storage/pager.c: a database file of fixed-size pages,  *)
(* a 48-byte header at its start, and a free list whose links are stored   *)
(* in the first word of the free pages themselves.                         *)
(*                                                                         *)
(* Sizes and offsets are counted in pages.  A file that holds the header   *)
(* alone, as pager_create leaves it, has length 0: reading any page of it  *)
(* meets the end of the file.  Of a page only the first word is kept: it   *)
(* is the one part of a page that the pager itself interprets.             *)
(*                                                                         *)
(* Every operation runs under pager->mutex, so it is one step.  An I/O     *)
(* call may fail at every place where the code tests for it; what the code *)
(* did before the failing call stays done.                                 *)
(***************************************************************************)
EXTENDS Integers, FiniteSets

CONSTANTS
    MaxPages,   \* bound on page_count
    MaxCount,   \* largest value of the unsigned counter free_page_count
    ClientWord  \* the first words of the pages that clients write

ASSUME PagerAssumption ==
    /\ MaxPages \in Nat \ {0}
    /\ MaxCount \in Nat
    /\ MaxPages =< MaxCount
    /\ ClientWord \subseteq 0 .. MaxPages

Page == 1 .. (MaxPages - 1)

\* The first word of a page; MaxPages stands for every number past the file.
Word == 0 .. MaxPages

NoChain == [i \in 1 .. 0 |-> 0]

Header ==
    [page_count : 0 .. MaxPages, first_free_page : Word,
     free_page_count : 0 .. MaxCount]

VARIABLES
    is_open,            \* a Pager structure exists for the file
    page_count,         \* pager->page_count
    first_free_page,    \* pager->first_free_page
    free_page_count,    \* pager->free_page_count
    file_size,          \* pager->file_size
    hdr,                \* the header stored in the file; page_count 0: none
    file_len,           \* the length of the file
    disk,               \* the first word of every page of the file
    owned,              \* history: pages handed out and not given back
    chain,              \* history: the free pages, oldest first
    clean               \* history: every open found a usable free list

memory == <<page_count, first_free_page, free_page_count, file_size>>
file == <<hdr, file_len, disk>>
history == <<owned, chain, clean>>
vars == <<is_open, memory, file, history>>

NoHeader == [page_count |-> 0, first_free_page |-> 0, free_page_count |-> 0]
init_header == [page_count |-> 1, first_free_page |-> 0, free_page_count |-> 0]

Init ==
    /\ is_open = FALSE
    /\ page_count = 0
    /\ first_free_page = 0
    /\ free_page_count = 0
    /\ file_size = 0
    /\ hdr = NoHeader
    /\ file_len = 0
    /\ disk = [p \in Page |-> 0]
    /\ owned = {}
    /\ chain = NoChain
    /\ clean = TRUE

----------------------------------------------------------------------------
(* The history variable chain is a stack: the page freed last is on top.   *)

Top(n) == IF n = 0 THEN 0 ELSE chain[n]
Pop(n) == [i \in 1 .. (n - 1) |-> chain[i]]
Push(n, p) == [i \in 1 .. (n + 1) |-> IF i = n + 1 THEN p ELSE chain[i]]
Keep(n) == [i \in 1 .. n |-> chain[i]]

\* The header names a part of the list that is still free.
HeaderUsable ==
    /\ hdr.free_page_count =< free_page_count
    /\ hdr.first_free_page = Top(hdr.free_page_count)

----------------------------------------------------------------------------
(* Lifecycle.                                                              *)

pager_create ==
    /\ ~is_open
    /\ is_open' = TRUE
    /\ page_count' = 1
    /\ first_free_page' = 0
    /\ free_page_count' = 0
    /\ file_size' = 1
    /\ hdr' = init_header
    /\ file_len' = 0
    /\ disk' = [p \in Page |-> 0]
    /\ owned' = {}
    /\ chain' = NoChain
    /\ clean' = TRUE

pager_open ==
    /\ ~is_open
    /\ hdr.page_count # 0
    /\ is_open' = TRUE
    /\ page_count' = hdr.page_count
    /\ first_free_page' = hdr.first_free_page
    /\ free_page_count' = hdr.free_page_count
    /\ file_size' = file_len
    /\ UNCHANGED file
    /\ owned' = owned
    /\ clean' = (clean /\ HeaderUsable)
    /\ chain' = IF clean' THEN Keep(hdr.free_page_count) ELSE NoChain

\* pager_close writes nothing.  A process that is killed leaves the file in
\* the same state: every write was already handed to the operating system.
pager_close ==
    /\ is_open
    /\ is_open' = FALSE
    /\ UNCHANGED <<memory, file, history>>

----------------------------------------------------------------------------
(* Page I/O.  Clients read and write the pages they own.                   *)

pager_write_page(p, w) ==
    /\ is_open
    /\ p \in owned
    /\ disk' = [disk EXCEPT ![p] = w]
    /\ file_len' = IF p < file_len THEN file_len ELSE p + 1
    /\ file_size' = IF p < file_size THEN file_size ELSE p + 1
    /\ UNCHANGED <<is_open, page_count, first_free_page, free_page_count, hdr,
                   history>>

\* pager_read_page succeeds: the bounds test passes and the file is long enough.
Readable(p) == p < page_count /\ p < file_len

\* The counter is unsigned: it wraps around.
Increment(n) == IF n = MaxCount THEN 0 ELSE n + 1
Decrement(n) == IF n = 0 THEN MaxCount ELSE n - 1

\* pager_allocate_page, free list not empty.  The header is not written.
\* When the free page cannot be read the call fails and changes nothing.
AllocateFromFreelist ==
    /\ is_open
    /\ first_free_page # 0
    /\ first_free_page < file_len
    /\ first_free_page' = disk[first_free_page]
    /\ free_page_count' = Decrement(free_page_count)
    /\ owned' = owned \cup {first_free_page}
    /\ chain' = IF clean THEN Pop(free_page_count) ELSE chain
    /\ UNCHANGED <<is_open, page_count, file_size, file, clean>>

\* Mutants: the page count stored in the header is "stored"; the free list is
\* looked at only when "reuse" holds.
GrowWith(fault, stored, reuse) ==
    /\ is_open
    /\ reuse => first_free_page = 0
    /\ page_count < MaxPages
    /\ fault = "none"
    /\ page_count' = page_count + 1
    /\ hdr' = [hdr EXCEPT !.page_count = stored]
    /\ file_len' = page_count + 1
    /\ file_size' = page_count + 1
    /\ owned' = owned \cup {page_count}
    /\ UNCHANGED <<is_open, first_free_page, free_page_count, disk, chain, clean>>
AllocateGrowStaleCount(fault) == GrowWith(fault, page_count, TRUE)
AllocateGrowAlways(fault) == GrowWith(fault, page_count + 1, FALSE)

\* pager_allocate_page, free list empty.  "fault" is the call that fails.
AllocateGrow(fault) ==
    /\ is_open
    /\ first_free_page = 0
    /\ page_count < MaxPages
    /\ page_count' = page_count + 1
    /\ hdr' = IF fault \in {"read_header", "write_header"}
              THEN hdr
              ELSE [hdr EXCEPT !.page_count = page_count + 1]
    /\ IF fault = "none"
       THEN /\ file_len' = page_count + 1
            /\ file_size' = page_count + 1
            /\ disk' = [p \in Page |-> IF p =< page_count /\ p < file_len
                                       THEN disk[p] ELSE 0]
            /\ owned' = owned \cup {page_count}
       ELSE UNCHANGED <<file_len, file_size, disk, owned>>
    /\ UNCHANGED <<is_open, first_free_page, free_page_count, chain, clean>>

\* Mutants: "next" replaces the link written, "at" the page it is written to.
FreeWith(p, fault, next, at) ==
    /\ is_open
    /\ p \in owned
    /\ fault = "none"
    /\ owned' = owned \ {p}
    /\ disk' = [q \in Page |-> IF q = at THEN next ELSE disk[q]]
    /\ first_free_page' = p
    /\ free_page_count' = Increment(free_page_count)
    /\ chain' = IF clean THEN Push(free_page_count, p) ELSE chain
    /\ hdr' = [hdr EXCEPT !.first_free_page = p,
                          !.free_page_count = free_page_count']
    /\ UNCHANGED <<is_open, page_count, file_len, file_size, clean>>
FreeUnlinked(p, fault) == FreeWith(p, fault, 0, p)
FreeWrongPage(p, fault) == FreeWith(p, fault, first_free_page, p - 1)

\* A client gives up the page when it calls pager_free_page, whatever the
\* result.
pager_free_page(p, fault) ==
    /\ is_open
    /\ p \in owned
    /\ owned' = owned \ {p}
    /\ IF fault = "write_page"
       THEN UNCHANGED <<first_free_page, free_page_count, file, chain>>
       ELSE /\ disk' = [disk EXCEPT ![p] = first_free_page]
            /\ file_len' = IF p < file_len THEN file_len ELSE p + 1
            /\ first_free_page' = p
            /\ free_page_count' = Increment(free_page_count)
            /\ chain' = IF clean THEN Push(free_page_count, p) ELSE chain
            /\ hdr' = IF fault \in {"read_header", "write_header"}
                      THEN hdr
                      ELSE [hdr EXCEPT !.first_free_page = p,
                                       !.free_page_count = free_page_count']
    /\ UNCHANGED <<is_open, page_count, file_size, clean>>

----------------------------------------------------------------------------
(* Header maintenance, by a client that stores the values pager_stats gave *)
(* it.                                                                     *)

pager_update_page_count ==
    /\ is_open
    /\ hdr' = [hdr EXCEPT !.page_count = page_count]
    /\ UNCHANGED <<is_open, memory, file_len, disk, history>>

pager_update_freelist ==
    /\ is_open
    /\ hdr' = [hdr EXCEPT !.first_free_page = first_free_page,
                          !.free_page_count = free_page_count]
    /\ UNCHANGED <<is_open, memory, file_len, disk, history>>

GrowFault == {"none", "read_header", "write_header", "ftruncate"}
FreeFault == {"none", "write_page", "read_header", "write_header"}

Next ==
    \/ pager_create
    \/ pager_open
    \/ pager_close
    \/ \E p \in Page, w \in ClientWord : pager_write_page(p, w)
    \/ AllocateFromFreelist
    \/ \E fault \in GrowFault : AllocateGrow(fault)
    \/ \E p \in Page, fault \in FreeFault : pager_free_page(p, fault)
    \/ pager_update_page_count
    \/ pager_update_freelist

Spec == Init /\ [][Next]_vars

----------------------------------------------------------------------------
(* Properties.                                                             *)

\* Every field of the pager and of the file has its type.
TypeOK ==
    /\ is_open \in BOOLEAN
    /\ page_count \in 0 .. MaxPages
    /\ first_free_page \in Word
    /\ free_page_count \in 0 .. MaxCount
    /\ file_size \in 0 .. MaxPages
    /\ hdr \in Header
    /\ file_len \in 0 .. MaxPages
    /\ disk \in [Page -> Word]
    /\ owned \subseteq Page
    /\ clean \in BOOLEAN

\* The list that starts at first_free_page and follows the links stored in
\* the pages is exactly the pages freed and not reused: it ends, it has
\* free_page_count elements and it names no page a client holds.
FreelistSound ==
    clean =>
      /\ chain \in [1 .. free_page_count -> Page]
      /\ first_free_page = Top(free_page_count)
      /\ \A i \in 1 .. free_page_count :
            /\ disk[chain[i]] = Top(i - 1)
            /\ chain[i] \notin owned
      /\ \A i, j \in 1 .. free_page_count : chain[i] = chain[j] => i = j

\* A page a client holds can always be read back: it lies inside page_count
\* and inside the file, also after failed allocations, after a crash between
\* the header write and ftruncate, and after every reopen.
OwnedReadable == is_open => \A p \in owned : Readable(p)

\* Only its owner's pager_write_page changes a page that stays owned: no
\* ftruncate, no free-list link and no reopen touches it.
OwnedUntouched ==
    [][\A p \in owned \cap owned' :
          disk'[p] # disk[p] => \E w \in ClientWord : pager_write_page(p, w)]_vars

\* The pager hands out pages as PageAllocator promises: never a page that is
\* held, and free pages before new ones.
Allocator == INSTANCE PageAllocator
    WITH held <- owned, free <- {chain[i] : i \in DOMAIN chain}, intact <- clean
AllocatorSpec == Allocator!Spec
============================================================================
