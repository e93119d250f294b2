------------------------------- MODULE Nodes -------------------------------
(***************************************************************************)
(* The nodes of expressions and column definitions that the parser builds. *)
(* A column is left to be resolved (place 0) when its name stands alone;   *)
(* with a table before it, the place is the first.                         *)
(***************************************************************************)
Column(name, index) == [kind |-> "COLUMN", index |-> index, name |-> name]
Binary(op, l, r) == [kind |-> "BINARY", op |-> op, left |-> l, right |-> r]
Unary(op, e) == [kind |-> "UNARY", op |-> op, operand |-> e]
Constant(tok) == [kind |-> "LITERAL", value |-> tok]

ColumnDef(name, type) ==
    [name |-> name, type |-> type, not_null |-> FALSE, primary_key |-> FALSE,
     autoincrement |-> FALSE, default_value |-> <<>>]
============================================================================
