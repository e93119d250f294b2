------------------------------- MODULE Query -------------------------------
(***************************************************************************)
(* A query from its text to its rows: the parser's node (module Parser),   *)
(* the evaluation of its WHERE on each row of a table (module Expressions) *)
(* and the projection of the rows kept, by the functions of                *)
(* src/sql/executor.c.  executor.h offers these functions; no statement of *)
(* src/ calls them yet, so the order of the calls is the header's.         *)
(***************************************************************************)
EXTENDS Integers, Sequences, FiniteSets

CONSTANTS
    Columns,            \* the columns of the table, a sequence of names
    NumberOf,           \* the integer that a literal token stands for
    Field,              \* the values in the table: integers and null
    MaxRows,            \* a bound on the rows of the table
    Question            \* the queries: [tokens : sequences, meant : nodes]

VARIABLES
    question,           \* the query
    table,              \* the rows of the table
    select,             \* the AstSelect
    scanned,            \* the rows read
    kept,               \* the places of the rows that passed WHERE
    result              \* the rows projected

vars == <<question, table, select, scanned, kept, result>>

P == INSTANCE Parser WITH
        Identifier <- {"t"} \cup {Columns[i] : i \in DOMAIN Columns}, Literal <- DOMAIN NumberOf,
        Text <- Question, NoNode <- <<>>, text <- question, outcome <- select

E == INSTANCE Expressions WITH
        IntBits <- 8, MantissaBits <- 6, Value <- {}, ColumnName <- {}, Expression <- {},
        row <- <<>>, expr <- <<>>

Null == E!value_from_null

Init ==
    /\ question \in Question
    /\ \E n \in 0 .. MaxRows : table \in [1 .. n -> [DOMAIN Columns -> Field]]
    /\ select = [done |-> FALSE]
    /\ scanned = 0
    /\ kept = {}
    /\ result = <<>>

\* parser_parse on the text.
Parse ==
    /\ ~select.done
    /\ LET r == P!parse_statement(P!parser_create(question.tokens))
       IN  select' = [done |-> TRUE, ok |-> r.ok /\ ~r.s.err, node |-> r.node]
    /\ UNCHANGED <<question, table, scanned, kept, result>>

\* The code an operator has in the evaluator.  The parser stores the type of the
\* token; for =, <, >, +, -, * and / the evaluator tests the character instead,
\* which is the type of no operator.
OpCode(op) ==
    CASE op = "!=" -> "NEQ"
      [] op = "<=" -> "LTE"
      [] op = ">=" -> "GTE"
      [] op \in {"AND", "OR", "NOT"} -> op
      [] OTHER -> "UNKNOWN"

RECURSIVE Stored(_)

\* The expression the parser has stored, as the evaluator finds it.
Stored(e) ==
    CASE e.kind = "COLUMN" -> e
      [] e.kind = "LITERAL" ->
            [e EXCEPT !.value = IF @ = "NULL" THEN Null ELSE E!value_from_int(NumberOf[@])]
      [] e.kind = "BINARY" ->
            [e EXCEPT !.op = OpCode(@), !.left = Stored(@), !.right = Stored(@)]
      [] e.kind = "UNARY" -> [e EXCEPT !.op = OpCode(@), !.operand = Stored(@)]
      [] e.kind = "IN" ->
            [e EXCEPT !.value = Stored(@), !.list = [i \in DOMAIN @ |-> Stored(@[i])]]

\* Mutant: the names are not passed on.
Named_unnamed(row) == [i \in DOMAIN Columns |-> [name |-> "", value |-> row[i]]]

\* The columns of a row, with their names.
Named(row) == [i \in DOMAIN Columns |-> [name |-> Columns[i], value |-> row[i]]]

\* Without WHERE every row passes.
select_apply_where(row, where) ==
    DOMAIN where = {} \/ E!value_is_truthy(E!Eval(Stored(where), Named(row)))

\* Mutant: the columns are taken by their places.
select_project_columns_place(row, columns) ==
    [k \in DOMAIN columns |-> row[IF k \in DOMAIN row THEN k ELSE Len(row)]]

\* The columns of the list by their names, null for a name the row has not.
select_project_columns(row, columns) ==
    [k \in DOMAIN columns |->
       LET places == {i \in DOMAIN Columns : Columns[i] = columns[k].name}
       IN  IF places = {} THEN Null ELSE row[CHOOSE i \in places : \A j \in places : i <= j]]

\* A row of the table is read: tested, projected and added to the result.
Scan ==
    /\ select.done /\ select.ok
    /\ scanned < Len(table)
    /\ scanned' = scanned + 1
    /\ LET row == table[scanned + 1]
       IN  IF select_apply_where(row, select.node.where)
           THEN /\ kept' = kept \cup {scanned + 1}
                /\ result' = Append(result, select_project_columns(row, select.node.columns))
           ELSE UNCHANGED <<kept, result>>
    /\ UNCHANGED <<question, table, select>>

Next == Parse \/ Scan

Spec == Init /\ [][Next]_vars

----------------------------------------------------------------------------
(* What a query means.                                                     *)

FieldNamed(row, name) == row[CHOOSE i \in DOMAIN Columns : Columns[i] = name]

RECURSIVE Means(_, _)

\* The value of an operand, and the truth of a condition, on a row.  Nothing holds
\* of a null but that it is in a list with NULL.
Operand(e, row) ==
    IF e.kind = "COLUMN" THEN FieldNamed(row, e.name)
    ELSE IF e.value = "NULL" THEN Null ELSE E!value_from_int(NumberOf[e.value])

Means(e, row) ==
    LET l == Operand(e.left, row)
        r == Operand(e.right, row)
    IN  CASE e.kind = "UNARY" -> ~Means(e.operand, row)
          [] e.kind = "IN" -> \E i \in DOMAIN e.list : Operand(e.value, row) = Operand(e.list[i], row)
          [] e.kind = "BINARY" ->
                CASE e.op = "AND" -> Means(e.left, row) /\ Means(e.right, row)
                  [] e.op = "OR" -> Means(e.left, row) \/ Means(e.right, row)
                  [] OTHER ->
                        /\ l # Null /\ r # Null
                        /\ CASE e.op = "=" -> l.val = r.val
                             [] e.op = "!=" -> l.val # r.val
                             [] e.op = "<" -> l.val < r.val
                             [] e.op = "<=" -> l.val <= r.val
                             [] e.op = ">" -> l.val > r.val
                             [] e.op = ">=" -> l.val >= r.val

----------------------------------------------------------------------------
(* Properties.                                                             *)

\* The query is parsed, and of the rows read exactly those are kept on which its
\* condition is true.
WhereSelects ==
    select.done =>
       /\ select.ok
       /\ kept = {i \in 1 .. scanned :
                    DOMAIN question.meant.where = {} \/ Means(question.meant.where, table[i])}

\* The columns that a list names, a star for all of them.
Listed(columns) == IF columns[1].name = "*" THEN Columns ELSE [k \in DOMAIN columns |-> columns[k].name]

\* Every row of the result holds the columns that the query lists, from one of the
\* rows kept.
ProjectsListed ==
    /\ Len(result) = Cardinality(kept)
    /\ \A i \in DOMAIN result : \E j \in kept :
          LET names == Listed(question.meant.columns)
          IN  /\ Len(result[i]) = Len(names)
              /\ \A k \in DOMAIN names : result[i][k] = FieldNamed(table[j], names[k])
=============================================================================
