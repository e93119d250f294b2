----------------------------- MODULE Statistics -----------------------------
(***************************************************************************)
(* The statistics of tables, src/observability/stats.c: an array of        *)
(* entries found by name, with a limit.  An entry has room for a part of a *)
(* long name only, while it is looked up by the whole one.  Counters are   *)
(* unsigned and wrap.                                                      *)
(***************************************************************************)
EXTENDS Integers, Sequences

CONSTANTS
    Table,              \* the names of tables
    Cut,                \* the part of a name that an entry holds
    MaxTables,          \* MAX_TRACKED_TABLES
    RowCounts,          \* the values of row_count, 2^64
    MaxUpdates          \* a bound on the updates

ASSUME StatisticsAssumption == MaxTables \in Nat /\ RowCounts \in Nat \ {0} /\ MaxUpdates \in Nat

VARIABLES
    initialized,        \* g_stats_initialized
    entries,            \* g_table_stats, up to g_table_stats_count
    log                 \* history: the updates since the entries were cleared

statisticsVars == <<initialized, entries, log>>

StatsInit ==
    /\ initialized = FALSE
    /\ entries = <<>>
    /\ log = <<>>

\* Mutant: the entries of an earlier time stay.
stats_init_keeps ==
    /\ ~initialized
    /\ initialized' = TRUE
    /\ log' = <<>>
    /\ UNCHANGED entries

stats_init ==
    /\ ~initialized
    /\ initialized' = TRUE
    /\ entries' = <<>>
    /\ log' = <<>>

stats_destroy ==
    /\ initialized
    /\ initialized' = FALSE
    /\ UNCHANGED <<entries, log>>

stats_reset ==
    /\ initialized
    /\ entries' = <<>>
    /\ log' = <<>>
    /\ UNCHANGED initialized

\* The entries that a name finds.
Found(t) == {i \in DOMAIN entries : entries[i].name = t}

Entry(t) == [name |-> Cut[t], row_count |-> 0, scans |-> 0, inserts |-> 0, updates |-> 0, deletes |-> 0]

\* What an operation does to an entry.
Counted(e, op, delta) ==
    CASE op = "scan" -> [e EXCEPT !.scans = @ + 1]
      [] op = "insert" -> [e EXCEPT !.inserts = @ + 1, !.row_count = (@ + delta) % RowCounts]
      [] op = "update" -> [e EXCEPT !.updates = @ + 1]
      [] op = "delete" -> [e EXCEPT !.deletes = @ + 1, !.row_count = (@ - delta) % RowCounts]

\* The first entry of the name, or a new one while there is room.
stats_update_table_stats(t, op, delta) ==
    /\ initialized
    /\ Len(log) < MaxUpdates
    /\ log' = Append(log, [table |-> t, op |-> op, delta |-> delta])
    /\ entries' =
         IF Found(t) # {}
         THEN LET i == CHOOSE k \in Found(t) : \A j \in Found(t) : k <= j
              IN  [entries EXCEPT ![i] = Counted(@, op, delta)]
         ELSE IF Len(entries) < MaxTables THEN Append(entries, Counted(Entry(t), op, delta))
         ELSE entries
    /\ UNCHANGED initialized

Operation == {"scan", "insert", "update", "delete"}

StatsNext ==
    \/ stats_init \/ stats_destroy \/ stats_reset
    \/ \E t \in Table, op \in Operation, delta \in 1 .. 2 : stats_update_table_stats(t, op, delta)

StatsSpec == StatsInit /\ [][StatsNext]_statisticsVars

----------------------------------------------------------------------------
(* Properties.                                                             *)

\* The updates of one kind of a table: how many, and the rows they stand for.
Tallied(c, u, t, op) ==
    IF u.table = t /\ u.op = op THEN [calls |-> c.calls + 1, rows |-> c.rows + u.delta] ELSE c

Tally(updates, t, op) ==
    LET f[i \in 0 .. Len(updates)] ==
          IF i = 0 THEN [calls |-> 0, rows |-> 0] ELSE Tallied(f[i - 1], updates[i], t, op)
    IN  f[Len(updates)]

\* An entry counts all updates of a table, the first included; row_count is the
\* difference of the rows inserted and deleted, as it wraps when more were deleted.
CountsUpdates(e, t, updates) ==
    LET tally(op) == Tally(updates, t, op)
    IN  /\ e.scans = tally("scan").calls /\ e.inserts = tally("insert").calls
        /\ e.updates = tally("update").calls /\ e.deletes = tally("delete").calls
        /\ e.row_count = (tally("insert").rows - tally("delete").rows) % RowCounts

\* A table has one entry, and it counts every update since the last reset.  Only
\* when the array is full has a table that was updated no entry.
CountsAll ==
    initialized =>
       \A t \in Table :
          IF Found(t) = {} THEN (\A i \in DOMAIN log : log[i].table # t) \/ Len(entries) = MaxTables
          ELSE \E i \in DOMAIN entries : Found(t) = {i} /\ CountsUpdates(entries[i], t, log)

\* The names of the tables fit in the entries.
NamesFit == \A t \in Table : Cut[t] = t
=============================================================================
