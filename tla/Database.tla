------------------------------ MODULE Database ------------------------------
(***************************************************************************)
(* A database: the handle of src/sql/storage.c, the catalog in it and the  *)
(* executors of src/sql/executor.c that run statements on it.              *)
(*                                                                         *)
(* Every tree is one leaf page (BTree).  A page is known by its number;    *)
(* nothing ever frees one (Pager).  The cache holds the pages in use and   *)
(* the file the copies that were flushed; a flush may fail to write any of *)
(* the dirty pages and its result is ignored.  Statements run one at a     *)
(* time, for several executors.                                            *)
(***************************************************************************)
EXTENDS CatalogTree

CONSTANTS
    TableName,      \* the names in statements
    CatalogCapacity,    \* entries of the catalog that fit on a page: 6
    Row,            \* what the value lists of an INSERT are serialized to
    RowCapacity,    \* rows that fit on a page
    Executor,
    MaxPages,       \* a bound on the size of the file
    MaxRowid        \* a bound on the number of INSERTs of a process

ASSUME DatabaseAssumption ==
    /\ TableName \subseteq Name
    /\ CatalogCapacity \in Nat /\ RowCapacity \in Nat
    /\ MaxPages \in Nat /\ MaxRowid \in Nat

VARIABLES
    is_open,        \* a Storage exists
    pages,          \* the pages in the cache
    stored,         \* the pages in the file
    dirty,          \* the cached pages that are dirty
    catalog,        \* the root page of the catalog
    exec,           \* the executors
    rowid_counter,  \* a static variable of executor_exec_insert
    reply           \* history: what the last call did and answered

vars == <<is_open, pages, stored, dirty, catalog, exec, rowid_counter, reply>>

\* A page of zeros is no leaf.
ZeroPage == [is_leaf |-> FALSE, cells |-> <<>>]
EmptyLeaf == [is_leaf |-> TRUE, cells |-> <<>>]

NoExecutor == [live |-> FALSE, in_transaction |-> FALSE, txn_state |-> "NONE"]

CatalogCells == pages[catalog].cells

\* The file after the pages in W were written.
Written(file, cached, W) ==
    [p \in 1 .. Len(file) |-> IF p \in W THEN cached[p] ELSE file[p]]

Init ==
    /\ is_open = FALSE
    /\ pages = <<>>
    /\ stored = <<>>
    /\ dirty = {}
    /\ catalog = 0
    /\ exec = [e \in Executor |-> NoExecutor]
    /\ rowid_counter = 0
    /\ reply = [op |-> "other"]

----------------------------------------------------------------------------
(* The handle.                                                             *)

\* The file cannot be opened: it is missing or its header cannot be read.
\* pager_create then makes it an empty file.
StartFile(readable) == IF readable THEN stored ELSE <<>>

\* catalog_open allocates a page for a new catalog.
tinydb_open(readable) ==
    /\ ~is_open
    /\ LET file == StartFile(readable)
           root == Len(file) + 1
       IN  /\ root <= MaxPages
           /\ pages' = Append(file, EmptyLeaf)
           /\ stored' = Append(file, ZeroPage)
           /\ dirty' = {root}
           /\ catalog' = root
    /\ is_open' = TRUE
    /\ reply' = [op |-> "open", kept |-> readable]
    /\ UNCHANGED <<exec, rowid_counter>>

\* The file cannot be created, no page can be allocated for the catalog, or
\* the page cannot be read after it was allocated.
tinydb_open_fails(readable, grown) ==
    /\ ~is_open
    /\ LET file == StartFile(readable)
       IN  /\ grown => Len(file) < MaxPages
           /\ stored' = IF grown THEN Append(file, ZeroPage) ELSE file
    /\ reply' = [op |-> "other"]         \* ERR_STORAGE_IO
    /\ UNCHANGED <<is_open, pages, dirty, catalog, exec, rowid_counter>>

\* What is in memory is gone; the file stays.
Forget ==
    /\ is_open' = FALSE
    /\ pages' = <<>>
    /\ dirty' = {}
    /\ catalog' = 0
    /\ exec' = [e \in Executor |-> NoExecutor]

\* catalog_close and page_cache_destroy both flush the cache; the pages that
\* neither can write are lost.
tinydb_close(W) ==
    /\ is_open
    /\ \A e \in Executor : ~exec[e].live
    /\ stored' = Written(stored, pages, W)
    /\ Forget
    /\ reply' = [op |-> "close"]
    /\ UNCHANGED rowid_counter

\* The process ends at any moment and another one starts.
Killed ==
    /\ stored' = stored
    /\ Forget
    /\ rowid_counter' = 0
    /\ reply' = [op |-> "killed"]

----------------------------------------------------------------------------
(* Executors and transactions.                                             *)

Quiet ==
    /\ reply' = [op |-> "other"]
    /\ UNCHANGED <<is_open, pages, stored, dirty, catalog, rowid_counter>>

executor_create(e) ==
    /\ is_open /\ ~exec[e].live
    /\ exec' = [exec EXCEPT ![e] = [NoExecutor EXCEPT !.live = TRUE]]
    /\ Quiet

executor_destroy(e) ==
    /\ exec[e].live
    /\ exec' = [exec EXCEPT ![e] = NoExecutor]
    /\ Quiet

\* tinydb_begin, tinydb_commit and tinydb_rollback succeed and do nothing.
SetTransaction(e, in_transaction, txn_state) ==
    exec' = [exec EXCEPT ![e].in_transaction = in_transaction, ![e].txn_state = txn_state]

executor_exec_begin(e) ==
    /\ exec[e].live
    /\ IF exec[e].in_transaction
       THEN UNCHANGED exec              \* ERR_TX_ALREADY_ACTIVE
       ELSE SetTransaction(e, TRUE, "ACTIVE")
    /\ Quiet

\* Both fail with ERR_TX_NOT_ACTIVE outside a transaction.
EndTransaction(e, txn_state) ==
    /\ exec[e].live
    /\ IF exec[e].in_transaction
       THEN SetTransaction(e, FALSE, txn_state)
       ELSE UNCHANGED exec
    /\ Quiet

executor_exec_commit(e) == EndTransaction(e, "COMMITTED")
executor_exec_rollback(e) == EndTransaction(e, "ROLLED_BACK")

----------------------------------------------------------------------------
(* Statements.                                                             *)

\* Mutant: pages that could not be written count as clean.
FlushCleansAll(cached, file, unsaved) ==
    \E W \in SUBSET unsaved :
       /\ pages' = cached
       /\ stored' = Written(file, cached, W)
       /\ dirty' = {}

\* btree_close: the cache is flushed, whichever tree is closed; any of the
\* dirty pages may fail to be written.
Flush(cached, file, unsaved) ==
    \E W \in SUBSET unsaved :
       /\ pages' = cached
       /\ stored' = Written(file, cached, W)
       /\ dirty' = unsaved \ W

\* Mutant: the number of the page before the new one.
EntryOfPreviousPage(name, root) ==
    [type |-> "table", name |-> Cut[name], tbl_name |-> Cut[name], root_page |-> root - 1]

\* The entry of a new table; the statement's name is cut to 63 characters.
TableEntry(name, root) ==
    [type |-> "table", name |-> Cut[name], tbl_name |-> Cut[name], root_page |-> root]

\* The pages of a tree into which cells were put, or not.
Changed(root, cells) == IF cells = pages[root].cells THEN {} ELSE {root}

\* The tree of the new table is created and closed, which flushes the pages
\* in W; then the entry goes into the catalog.  "survives": the outcome of
\* closing the tree again after it was freed.  When the memory still holds the
\* tree the cache is flushed again; otherwise the process dies.
executor_exec_create_table(e, name, survives) ==
    /\ exec[e].live
    /\ Len(pages) < MaxPages
    /\ LET root == Len(pages) + 1
           created == Append(pages, EmptyLeaf)
           r == insert_entry(CatalogCells, TableEntry(name, root), CatalogCapacity)
       IN  \E W \in SUBSET (dirty \cup {root}) :
              LET file == Written(Append(stored, ZeroPage), created, W)
              IN  IF survives
                  THEN /\ Flush([created EXCEPT ![catalog].cells = r.cells], file,
                                ((dirty \cup {root}) \ W) \cup Changed(catalog, r.cells))
                       /\ reply' = [op |-> "create", name |-> name, ret |-> r.ret]
                       /\ UNCHANGED <<is_open, catalog, exec, rowid_counter>>
                  ELSE /\ stored' = file
                       /\ Forget
                       /\ rowid_counter' = 0
                       /\ reply' = [op |-> "killed"]

\* No page can be allocated for the table.
create_table_fails(e) ==
    /\ exec[e].live
    /\ exec' = exec
    /\ Quiet

\* Mutant: the result of btree_insert is not returned.
insert_always_succeeds(e, name, row) ==
    /\ exec[e].live
    /\ LET entry == lookup(CatalogCells, "table", name)
           rowid == rowid_counter + 1
           root == entry.root_page
           r == btree_insert(pages[root].cells, rowid, row, RowCapacity)
       IN  /\ entry # NoEntry
           /\ rowid <= MaxRowid
           /\ rowid_counter' = rowid
           /\ Flush([pages EXCEPT ![root].cells = r.cells], stored,
                    dirty \cup Changed(root, r.cells))
           /\ reply' = [op |-> "insert", by |-> e, name |-> name, row |-> row,
                        rowid |-> rowid, ret |-> "SUCCESS"]
    /\ UNCHANGED <<is_open, catalog, exec>>

\* The row counter is taken before the row is known to fit.
executor_exec_insert(e, name, row) ==
    /\ exec[e].live
    /\ LET entry == lookup(CatalogCells, "table", name)
           rowid == rowid_counter + 1
           root == entry.root_page
           r == btree_insert(pages[root].cells, rowid, row, RowCapacity)
       IN  IF entry = NoEntry
           THEN /\ reply' = [op |-> "other"]     \* ERR_EXEC_TABLE_NOT_FOUND
                /\ UNCHANGED <<pages, stored, dirty, rowid_counter>>
           ELSE /\ rowid <= MaxRowid
                /\ rowid_counter' = rowid
                /\ Flush([pages EXCEPT ![root].cells = r.cells], stored,
                         dirty \cup Changed(root, r.cells))
                /\ reply' = [op |-> "insert", by |-> e, name |-> name, row |-> row,
                             rowid |-> rowid, ret |-> r.ret]
    /\ UNCHANGED <<is_open, catalog, exec>>

\* Reads every row and closes the tree of the table.
executor_exec_select(e, name) ==
    /\ exec[e].live
    /\ LET entry == lookup(CatalogCells, "table", name)
       IN  IF entry = NoEntry
           THEN /\ reply' = [op |-> "other"]     \* ERR_EXEC_TABLE_NOT_FOUND
                /\ UNCHANGED <<pages, stored, dirty>>
           ELSE /\ reply' = [op |-> "select", by |-> e,
                             root |-> entry.root_page]
                /\ Flush(pages, stored, dirty)
    /\ UNCHANGED <<is_open, catalog, exec, rowid_counter>>

\* DROP TABLE, CREATE INDEX, DROP INDEX, UPDATE and DELETE are accepted and
\* do nothing.
executor_exec_stub(e) ==
    /\ exec[e].live
    /\ exec' = exec
    /\ Quiet

Statement(e, name) ==
    \/ \E survives \in BOOLEAN : executor_exec_create_table(e, name, survives)
    \/ \E row \in Row : executor_exec_insert(e, name, row)
    \/ executor_exec_select(e, name)

Next ==
    \/ \E readable \in BOOLEAN : tinydb_open(readable)
    \/ \E readable, grown \in BOOLEAN : tinydb_open_fails(readable, grown)
    \/ \E W \in SUBSET dirty : tinydb_close(W)
    \/ Killed
    \/ \E e \in Executor :
          \/ executor_create(e)
          \/ executor_destroy(e)
          \/ executor_exec_begin(e)
          \/ executor_exec_commit(e)
          \/ executor_exec_rollback(e)
          \/ executor_exec_stub(e)
          \/ create_table_fails(e)
          \/ \E name \in TableName : Statement(e, name)

Spec == Init /\ [][Next]_vars
----------------------------------------------------------------------------
(* Properties.                                                             *)

RowCell == [key : Nat, value : Row]
EntryCell == [key : Nat, value : Entry]

TypeOK ==
    /\ is_open \in BOOLEAN
    /\ IF is_open THEN catalog \in 1 .. Len(pages) /\ Len(pages) = Len(stored)
                  ELSE pages = <<>>
    /\ Len(stored) <= MaxPages
    /\ \A p \in 1 .. Len(pages) :
          pages[p].cells \in Seq(RowCell) \/ pages[p].cells \in Seq(EntryCell)
    /\ dirty \subseteq 1 .. Len(pages)
    /\ \A e \in Executor :
          exec[e].in_transaction <=> exec[e].txn_state = "ACTIVE"
    /\ rowid_counter \in 0 .. MaxRowid

\* Every entry of the catalog names a page of its own: a leaf of this session
\* that is not the catalog's page and that no other entry names.  A table can
\* therefore not be changed through another one.
RootsSound ==
    is_open =>
       /\ pages[catalog].is_leaf
       /\ \A i \in 1 .. Len(CatalogCells) :
             LET root == CatalogCells[i].value.root_page
             IN  /\ root \in catalog + 1 .. Len(pages)
                 /\ pages[root].is_leaf
                 /\ \A j \in 1 .. Len(CatalogCells) :
                       CatalogCells[j].value.root_page = root => j = i

\* No row that can be reached has a key that a later INSERT will use again,
\* although rowid_counter restarts with the process and is shared by all
\* tables: an INSERT is never dropped because its key is taken.
RowidsFresh ==
    is_open =>
       \A p \in catalog + 1 .. Len(pages) :
          LET cells == pages[p].cells
          IN  /\ \A i \in 1 .. Len(cells) : cells[i].key <= rowid_counter
              /\ \A i, j \in 1 .. Len(cells) : cells[i].key = cells[j].key => i = j

\* A session gives out nothing that is in use: every entry of the catalog names
\* a page of its own, and no row that can be reached has a key that a later
\* INSERT will use again, although rowid_counter restarts with the process.
FreshIds == TypeOK /\ RootsSound /\ RowidsFresh

\* The copy of a page in the file is the page itself, or the page is still
\* dirty and the copy is an earlier state of it: a crash after any write,
\* failed write or statement leaves whole pages whose rows are a prefix of
\* the rows that were acknowledged.
StoredIsPrefix ==
    \A p \in 1 .. Len(pages) :
       /\ p \notin dirty => stored[p] = pages[p]
       /\ Len(stored[p].cells) <= Len(pages[p].cells)
       /\ \A i \in 1 .. Len(stored[p].cells) : stored[p].cells[i] = pages[p].cells[i]

\* The rows of the tables that lookup finds.
TableNames ==
    IF is_open THEN {n \in Name : lookup(CatalogCells, "table", n) # NoEntry} ELSE {}
RowsOf(n) ==
    LET cells == pages[lookup(CatalogCells, "table", n).root_page].cells
    IN  [i \in 1 .. Len(cells) |-> cells[i].value]
Contents == [n \in TableNames |-> RowsOf(n)]

\* A session keeps its tables: an acknowledged row is at the end of the table
\* it was inserted into and of no other, no statement of any executor takes a
\* row away, and only the end of the session does.
T == INSTANCE Tables WITH tables <- Contents, event <- reply
TablesSpec == T!Spec

----------------------------------------------------------------------------
(* What the documents say and the code does not do.                        *)

\* "on restart the committed changes SHALL be recovered" (transaction-support/
\* spec.md:37): a database that is opened again, from a file that can be read
\* and that has tables, has tables.
HasTables(file) ==
    \E p \in 1 .. Len(file) : \E i \in 1 .. Len(file[p].cells) :
       file[p].cells[i].value \in Entry
TablesRecovered ==
    [][reply'.op = "open" /\ reply'.kept /\ HasTables(stored) => Contents' # T!NoTables]_vars
============================================================================
