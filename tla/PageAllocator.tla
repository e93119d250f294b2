--------------------------- MODULE PageAllocator ---------------------------
(***************************************************************************)
(* What a client of the pager relies on: a page handed out is held by      *)
(* nobody else, and freed pages are used again before the file grows.      *)
(* The promise lasts while "intact" holds.  It ends when a database is     *)
(* reopened from a header that no longer describes the free pages; Pager   *)
(* says exactly when that is.                                              *)
(***************************************************************************)

CONSTANT Page

VARIABLES held, free, intact

vars == <<held, free, intact>>

Init ==
    /\ held = {}
    /\ free = {}
    /\ intact = TRUE

Allocate ==
    /\ intact /\ intact'
    /\ \E p \in Page \ held :
          /\ free # {} => p \in free
          /\ held' = held \cup {p}
          /\ free' = free \ {p}

\* A freed page may be leaked when the file cannot be written, but it never
\* stays with its holder.
Release ==
    /\ intact /\ intact'
    /\ \E p \in held :
          /\ held' = held \ {p}
          /\ free' = free \/ free' = free \cup {p}

\* Reopening an existing database may forget free pages, never held ones.
Reopen ==
    /\ intact /\ intact'
    /\ held' = held
    /\ free' \subseteq free

\* A new database starts with nothing held and nothing free.
Create ==
    /\ held' = {}
    /\ free' = {}
    /\ intact' = TRUE

Break ==
    /\ ~intact'

Next ==
    \/ Allocate
    \/ Release
    \/ Reopen
    \/ Create
    \/ Break

Spec == Init /\ [][Next]_vars
============================================================================
