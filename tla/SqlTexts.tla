------------------------------ MODULE SqlTexts ------------------------------
(***************************************************************************)
(* Texts for the parser: statements written out from their nodes, and the  *)
(* same with one token dropped, doubled or exchanged.                      *)
(***************************************************************************)
EXTENDS Nodes, Naturals, Sequences, SequencesExt

CONSTANT NoNode         \* "meant" of a text that no statement is behind

----------------------------------------------------------------------------
(* How nodes are written.                                                  *)

\* Sequences of tokens with a comma between.
Commas(seqs) ==
    FoldLeft(LAMBDA all, s : IF all = <<>> THEN s ELSE all \o <<",">> \o s, <<>>, seqs)

RECURSIVE Write(_)

\* An operand in parentheses unless it is a name or a literal.
Operand(e) ==
    IF e.kind \in {"COLUMN", "LITERAL"} THEN Write(e) ELSE <<"(">> \o Write(e) \o <<")">>

Write(e) ==
    CASE e.kind = "COLUMN" -> IF e.index = 0 THEN <<e.name>> ELSE <<"t", ".", e.name>>
      [] e.kind = "LITERAL" -> <<e.value>>
      [] e.kind = "UNARY" -> <<e.op>> \o Operand(e.operand)
      [] e.kind = "BINARY" -> Operand(e.left) \o <<e.op>> \o Operand(e.right)
      [] e.kind = "LIKE" -> Operand(e.str) \o <<"LIKE">> \o Operand(e.pattern)
      [] e.kind = "IN" ->
            Operand(e.value) \o <<"IN", "(">> \o
            Commas([i \in DOMAIN e.list |-> Write(e.list[i])]) \o <<")">>

WriteType(type) == CASE type = "FLOAT" -> <<"REAL">> [] OTHER -> <<type>>
If(b, tokens) == IF b THEN tokens ELSE <<>>

WriteColumn(c) ==
    <<c.name>> \o WriteType(c.type) \o If(c.primary_key, <<"PRIMARY", "KEY">>)
    \o If(c.autoincrement, <<"AUTOINCREMENT">>) \o If(c.not_null, <<"NOT", "NULL">>)
    \o (IF DOMAIN c.default_value = {} THEN <<>> ELSE <<"DEFAULT">> \o Write(c.default_value))

WriteRow(values) == <<"(">> \o Commas([i \in DOMAIN values |-> Write(values[i])]) \o <<")">>
Expr(word, e) == IF DOMAIN e = {} THEN <<>> ELSE <<word>> \o Write(e)

WriteStatement(n) ==
    CASE n.kind = "CREATE_TABLE" ->
            <<"CREATE", "TABLE">> \o If(n.if_not_exists, <<"IF", "NOT", "EXISTS">>) \o <<n.table, "(">>
            \o Commas([i \in DOMAIN n.columns |-> WriteColumn(n.columns[i])]) \o <<")", ";">>
      [] n.kind = "DROP_TABLE" ->
            <<"DROP", "TABLE">> \o If(n.if_exists, <<"IF", "EXISTS">>) \o <<n.table, ";">>
      [] n.kind = "CREATE_INDEX" ->
            <<"CREATE", "INDEX">> \o If(n.unique, <<"UNIQUE">>)
            \o <<n.index, "ON", n.table, "(", n.column, ")", ";">>
      [] n.kind = "DROP_INDEX" -> <<"DROP", "INDEX", n.index, ";">>
      [] n.kind = "INSERT" ->
            <<"INSERT", "INTO", n.table>>
            \o If(n.columns # <<>>, <<"(">> \o Commas([i \in DOMAIN n.columns |-> <<n.columns[i]>>]) \o <<")">>)
            \o <<"VALUES">> \o Commas([i \in DOMAIN n.values |-> WriteRow(n.values[i])]) \o <<";">>
      [] n.kind = "UPDATE" ->
            <<"UPDATE", n.table, "SET">>
            \o Commas([i \in DOMAIN n.set_clauses |->
                         <<n.set_clauses[i].column, "=">> \o Write(n.set_clauses[i].value)])
            \o Expr("WHERE", n.where) \o <<";">>
      [] n.kind = "DELETE" -> <<"DELETE", "FROM", n.table>> \o Expr("WHERE", n.where) \o <<";">>
      [] n.kind = "SELECT" ->
            <<"SELECT">> \o If(n.distinct, <<"DISTINCT">>)
            \o Commas([i \in DOMAIN n.columns |->
                         <<n.columns[i].name>> \o
                         (IF n.columns[i].alias = <<>> THEN <<>> ELSE <<"AS">> \o n.columns[i].alias)])
            \o <<"FROM", n.table>> \o Expr("WHERE", n.where)
            \o If(n.order_by # <<>>, <<"ORDER", "BY">> \o Commas([i \in DOMAIN n.order_by |->
                         <<n.order_by[i].column>> \o If(n.order_by[i].descending, <<"DESC">>)]))
            \o Expr("LIMIT", n.limit) \o Expr("OFFSET", n.offset) \o <<";">>
      [] n.kind = "TRANSACTION" -> <<n.type, ";">>

Meaning(nodes) == {[tokens |-> WriteStatement(n), meant |-> n] : n \in nodes}

----------------------------------------------------------------------------
(* Statements.                                                             *)

One == Constant("1")
ColA == Column("a", 0)
None == <<>>

Atom == {ColA, Column("b", 1), Constant("'s'"), Constant("NULL")}

Simple ==
    Atom \cup {Unary(op, e) : op \in {"-", "NOT"}, e \in Atom}
    \cup {Binary(op, l, r) : op \in {"=", "AND"}, l \in Atom, r \in Atom}
    \cup {[kind |-> "LIKE", str |-> ColA, pattern |-> e] : e \in Atom}
    \cup {[kind |-> "IN", value |-> e, list |-> list, not |-> FALSE] :
            e \in Atom, list \in {<<>>, <<One>>, <<One, ColA>>}}

Nested == {Binary(op, l, r) : op \in {"OR", "-"}, l \in Simple, r \in Simple}
          \cup {Unary(op, e) : op \in {"-", "NOT"}, e \in Simple}

Delete(where) == [kind |-> "DELETE", table |-> "t", where |-> where]
Select(columns, where, order_by, limit, offset) ==
    [kind |-> "SELECT", columns |-> columns, distinct |-> FALSE, table |-> "t", where |-> where,
     order_by |-> order_by, limit |-> limit, offset |-> offset]
Star == <<[name |-> "*", alias |-> None]>>
Create(columns) ==
    [kind |-> "CREATE_TABLE", table |-> "t", if_not_exists |-> FALSE, columns |-> columns]

Columns ==
    [name : {"a"}, type : {"FLOAT", "TEXT", "BLOB"}, not_null : BOOLEAN, primary_key : BOOLEAN,
     autoincrement : BOOLEAN, default_value : {None}]
    \cup {[ColumnDef("a", "TEXT") EXCEPT !.default_value = One]}

Statements ==
    {[Create(<<c, ColumnDef("b", "TEXT")>>) EXCEPT !.if_not_exists = x] : c \in Columns, x \in BOOLEAN}
    \cup {[kind |-> "DROP_TABLE", table |-> "t", if_exists |-> x] : x \in BOOLEAN}
    \cup {[kind |-> "CREATE_INDEX", index |-> "b", table |-> "t", column |-> "a", unique |-> x] : x \in BOOLEAN}
    \cup {[kind |-> "DROP_INDEX", index |-> "b"]}
    \cup {[kind |-> "INSERT", table |-> "t", columns |-> c, values |-> v] :
            c \in {<<>>, <<"a">>, <<"a", "b">>}, v \in {<<<<One>>>>, <<<<One, ColA>>, <<One>>>>}}
    \cup {[kind |-> "UPDATE", table |-> "t", where |-> e, set_clauses |-> c] :
            e \in Simple,
            c \in {<<[column |-> "a", value |-> One]>>,
                   <<[column |-> "a", value |-> Unary("-", One)], [column |-> "b", value |-> ColA]>>}}
    \cup {Select(c, w, o, l, f) :
            c \in {Star, <<[name |-> "a", alias |-> None], [name |-> "b", alias |-> None]>>},
            w \in {None, Binary("=", ColA, One)},
            o \in {None, <<[column |-> "a", descending |-> TRUE]>>,
                   <<[column |-> "a", descending |-> FALSE], [column |-> "b", descending |-> TRUE]>>},
            l \in {None, One}, f \in {None, One}}
    \cup {[kind |-> "TRANSACTION", type |-> x] : x \in {"BEGIN", "COMMIT", "ROLLBACK"}}

Meant == Meaning(Statements) \cup Meaning({Delete(e) : e \in Simple \cup Nested})

----------------------------------------------------------------------------
(* Texts with a token dropped, doubled or exchanged.                       *)

Sample ==
    {WriteStatement(n) : n \in
       {Create(<<[ColumnDef("a", "TEXT") EXCEPT !.default_value = One, !.not_null = TRUE],
                 [ColumnDef("b", "FLOAT") EXCEPT !.primary_key = TRUE]>>),
        [kind |-> "DROP_TABLE", table |-> "t", if_exists |-> TRUE],
        [kind |-> "CREATE_INDEX", index |-> "b", table |-> "t", column |-> "a", unique |-> TRUE],
        [kind |-> "INSERT", table |-> "t", columns |-> <<"a", "b">>, values |-> <<<<One, ColA>>, <<One>>>>],
        [kind |-> "UPDATE", table |-> "t", where |-> Binary("=", ColA, One),
         set_clauses |-> <<[column |-> "a", value |-> One], [column |-> "b", value |-> One]>>],
        Delete([kind |-> "IN", value |-> ColA, list |-> <<One, Column("b", 1)>>, not |-> FALSE]),
        Select(<<[name |-> "a", alias |-> None], [name |-> "b", alias |-> None]>>,
               Binary("OR", Unary("NOT", Binary("=", ColA, One)), ColA),
               <<[column |-> "a", descending |-> TRUE], [column |-> "b", descending |-> FALSE]>>, One, One),
        [kind |-> "TRANSACTION", type |-> "BEGIN"]}}
    \cup {<<"SELECT", "a", "AS", "b", "FROM", "t", "WHERE", "a", "BETWEEN", "1", "AND", "1", ";">>}

Stray ==
    {"a", "1", "(", ")", ",", ".", "-", "*", "=", ";", "ERROR", "NOT", "IN", "LIKE", "BETWEEN", "AND",
     "IS", "WHERE", "AS", "DEFAULT", "PRIMARY", "ORDER", "LIMIT", "TABLE", "INDEX", "SELECT"}

Damaged(s) ==
    {RemoveAt(s, i) : i \in DOMAIN s}
    \cup {InsertAt(s, i, x) : i \in DOMAIN s, x \in Stray}
    \cup {ReplaceAt(s, i, x) : i \in DOMAIN s, x \in Stray}
    \cup {SubSeq(s, 1, i) : i \in DOMAIN s}

DamagedTexts == {[tokens |-> s, meant |-> NoNode] : s \in UNION {Damaged(s) : s \in Sample} \ {<<>>}}
=============================================================================
