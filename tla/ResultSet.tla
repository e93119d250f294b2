----------------------------- MODULE ResultSet -----------------------------
(***************************************************************************)
(* Result sets, src/sql/executor.c: the array of rows, its growth,         *)
(* DISTINCT done in place, and LIMIT with OFFSET.  The counts are C ints,  *)
(* the literals of a LIMIT are wider.  No caller in src/ applies the       *)
(* clauses: the order and the number of them is free here.                 *)
(***************************************************************************)
EXTENDS Integers, Sequences

CONSTANTS
    Value,              \* the values of a column
    RowWidth,           \* the number of values in a row
    column_count,       \* rs->column_count: the columns compared.  It is 0 after
                        \* result_set_create and no code in src/ sets it.
    INT_MAX,            \* the greatest int
    Count,              \* the numbers written after LIMIT and OFFSET
    InitialCapacity,    \* initial_capacity of result_set_create
    MaxRows,            \* a bound on the rows added
    MaxSteps            \* a bound on the clauses applied

ASSUME ResultSetAssumption ==
    /\ INT_MAX \in Nat /\ Count \subseteq Nat /\ InitialCapacity \in Nat \ {0}
    /\ RowWidth \in Nat /\ column_count \in 0 .. RowWidth
    /\ MaxRows \in 0 .. INT_MAX /\ MaxSteps \in Nat

VARIABLES
    rows,               \* rs->rows: a function of the places below capacity
    row_count,          \* rs->row_count
    capacity,           \* rs->capacity
    meant,              \* history: the rows that should be in the set
    added, steps        \* counters for the bounds

resultSetVars == <<rows, row_count, capacity, meant, added, steps>>

Row == [1 .. RowWidth -> Value]
Unset == <<>>           \* a place nothing was written to
NoCount == -1           \* no LIMIT, no OFFSET

\* (int): the low bits of a wider integer; also the sum of two ints, as it wraps.
ToInt(n) == ((n + INT_MAX + 1) % (2 * INT_MAX + 2)) - (INT_MAX + 1)

result_set_create ==
    /\ capacity = InitialCapacity
    /\ rows = [i \in 0 .. capacity - 1 |-> Unset]
    /\ row_count = 0
    /\ meant = <<>>
    /\ added = 0 /\ steps = 0

\* The array doubles when it is full.
result_set_add_row(row) ==
    /\ added < MaxRows
    /\ added' = added + 1
    /\ capacity' = IF row_count >= capacity THEN 2 * capacity ELSE capacity
    /\ rows' = [i \in 0 .. capacity' - 1 |->
                  IF i = row_count THEN row ELSE IF i < capacity THEN rows[i] ELSE Unset]
    /\ row_count' = row_count + 1
    /\ meant' = Append(meant, row)
    /\ UNCHANGED steps

----------------------------------------------------------------------------
(* DISTINCT.                                                               *)

\* What it means: a row stays that no earlier one is equal to.
FirstOccurrences(s) ==
    LET first[n \in 0 .. Len(s)] ==
          IF n = 0 THEN <<>>
          ELSE IF \E j \in 1 .. n - 1 : s[j] = s[n] THEN first[n - 1]
          ELSE Append(first[n - 1], s[n])
    IN  first[Len(s)]

\* value_compare finds no difference in the columns of the set.
SameRow(a, b) == \A c \in 1 .. column_count : a[c] = b[c]

\* Mutant: a row is compared with the one kept last only.
DistinctRound_last(state, r) ==
    LET row == state.rows[r]
        w == state.kept
    IN  IF w > 0 /\ SameRow(row, state.rows[w - 1]) THEN state
        ELSE [rows |-> [state.rows EXCEPT ![w] = row], kept |-> w + 1]

\* One round for the row at place r, with w rows kept: it is compared with those
\* and written behind them if it is none of them.
DistinctRound(state, r) ==
    LET row == state.rows[r]
        w == state.kept
    IN  IF \E i \in 0 .. w - 1 : SameRow(row, state.rows[i]) THEN state
        ELSE [rows |-> [state.rows EXCEPT ![w] = row], kept |-> w + 1]

\* The rounds in order, for the first places.
Distinct(places, count) ==
    LET state[n \in 0 .. count] ==
          IF n = 0 THEN [rows |-> places, kept |-> 0] ELSE DistinctRound(state[n - 1], n - 1)
    IN  state[count]

select_apply_distinct ==
    /\ steps < MaxSteps
    /\ row_count > 0
    /\ rows' = Distinct(rows, row_count).rows
    /\ row_count' = Distinct(rows, row_count).kept
    /\ meant' = FirstOccurrences(meant)
    /\ steps' = steps + 1
    /\ UNCHANGED <<capacity, added>>

----------------------------------------------------------------------------
(* LIMIT and OFFSET.                                                       *)

Least(m, n) == IF m <= n THEN m ELSE n

\* What they mean: the rows behind the first offset, and of those the first limit.
Slice(s, limit, offset) ==
    LET from == IF offset = NoCount THEN 0 ELSE Least(offset, Len(s))
        to == IF limit = NoCount THEN Len(s) ELSE Least(from + limit, Len(s))
    IN  SubSeq(s, from + 1, to)

\* The rows moved to the front.
Moved(offset) == [i \in DOMAIN rows |-> IF i + offset < row_count THEN rows[i + offset] ELSE rows[i]]

\* An offset or a limit as the code has it; limit_val is cut to what there is.
select_apply_limit(limit, offset) ==
    /\ steps < MaxSteps
    /\ row_count > 0
    /\ LET o == IF offset = NoCount THEN 0 ELSE ToInt(offset)
           l0 == IF limit = NoCount THEN row_count ELSE ToInt(limit)
           l == IF ToInt(o + l0) > row_count THEN row_count - o ELSE l0
           left == IF o > 0 THEN row_count - o ELSE row_count
       IN  IF o >= row_count
           THEN row_count' = 0 /\ UNCHANGED rows
           ELSE /\ rows' = IF o > 0 THEN Moved(o) ELSE rows
                /\ row_count' = IF l < left THEN l ELSE left
    /\ meant' = Slice(meant, limit, offset)
    /\ steps' = steps + 1
    /\ UNCHANGED <<capacity, added>>

ResultSetNext ==
    \/ \E row \in Row : result_set_add_row(row)
    \/ select_apply_distinct
    \/ \E limit, offset \in Count \cup {NoCount} : select_apply_limit(limit, offset)

ResultSetSpec == result_set_create /\ [][ResultSetNext]_resultSetVars

----------------------------------------------------------------------------
(* Properties.                                                             *)

\* The rows counted fit in the array.
ResultSetTypeOK ==
    /\ capacity \in Nat
    /\ rows \in [0 .. capacity - 1 -> Row \cup {Unset}]
    /\ row_count \in 0 .. capacity
    /\ added \in 0 .. MaxRows
    /\ steps \in 0 .. MaxSteps

\* After any sequence of rows added, DISTINCT, LIMIT and OFFSET the set holds the
\* rows that their meaning leaves, in order.
RowsAsMeant ==
    /\ ResultSetTypeOK
    /\ row_count = Len(meant)
    /\ \A i \in 1 .. row_count : rows[i - 1] = meant[i]

\* DISTINCT compares whole rows, and the numbers after LIMIT and OFFSET are ints.
WholeRows == column_count = RowWidth
CountsFit == Count \subseteq 0 .. INT_MAX
=============================================================================
