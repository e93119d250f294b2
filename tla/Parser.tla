------------------------------- MODULE Parser -------------------------------
(***************************************************************************)
(* The recursive-descent parser, src/sql/parser.c.  A text is a sequence   *)
(* of tokens, each written as its keyword, its symbol or its text.  The    *)
(* state of the parser is its place and has_error; once that is set,       *)
(* advance does nothing, and what would go on by advancing does not end.   *)
(* A function returns its state, whether it has a node, and the node.      *)
(***************************************************************************)
EXTENDS Nodes, Naturals, Sequences

CONSTANTS
    Identifier,         \* the names, and the words the lexer takes for names
    Literal,            \* the tokens of integers, reals and strings
    Text,               \* the texts parsed: [tokens : sequences, meant : nodes]
    NoNode              \* "meant" of a text that no statement is behind

VARIABLES
    text,               \* the text
    outcome             \* what parser_parse returned

vars == <<text, outcome>>

Running == [done |-> FALSE]

----------------------------------------------------------------------------
(* The parser's state s: its place in the tokens t, and has_error.  The    *)
(* tokens are part of it so that functions have one parameter.             *)

parser_create(tokens) == [t |-> tokens, pos |-> 1, err |-> FALSE, hang |-> FALSE]

Tok(s) == IF s.pos <= Len(s.t) THEN s.t[s.pos] ELSE "EOF"

parser_set_error(s) == [s EXCEPT !.err = TRUE]

advance(s) == IF s.err THEN s ELSE [s EXCEPT !.pos = @ + 1]

\* Mutant: a token that is missing is no error.
expect_token_lax(s, type) == IF Tok(s) = type THEN advance(s) ELSE s

expect_token(s, type) == IF Tok(s) = type THEN advance(s) ELSE parser_set_error(s)

\* A function that calls itself, or loops, without having advanced never returns.
Hangs(s) == [s |-> [s EXCEPT !.hang = TRUE, !.err = TRUE], ok |-> FALSE, node |-> <<>>]

Returns(s, node) == [s |-> s, ok |-> TRUE, node |-> node]
ReturnsNull(s) == [s |-> s, ok |-> FALSE, node |-> <<>>]

\* What follows a call r, unless it has returned no node.
Then(r, Continue(_)) == IF r.ok THEN Continue(r) ELSE r

\* The keywords that keyword_to_token_type knows.  Any other is only found as the
\* text of a name.
keyword_to_token_type ==
    {"INTO", "VALUES", "FROM", "WHERE", "AND", "OR", "NOT", "NULL", "LIKE", "BETWEEN", "IN",
     "IS", "SET", "BEGIN", "COMMIT", "ROLLBACK", "PRIMARY", "KEY", "IF", "EXISTS", "ORDER",
     "BY", "ASC", "DESC", "LIMIT", "OFFSET", "AS", "ON", "UNIQUE", "DEFAULT", "AUTOINCREMENT"}

check_keyword(s, kw) == Tok(s) = kw /\ kw \in keyword_to_token_type \cup Identifier

expect_keyword(s, kw) == IF check_keyword(s, kw) THEN advance(s) ELSE parser_set_error(s)

parse_identifier(s) ==
    IF Tok(s) \in Identifier THEN Returns(advance(s), Tok(s)) ELSE ReturnsNull(parser_set_error(s))

----------------------------------------------------------------------------
(* Expressions.                                                            *)

get_precedence(op) ==
    CASE op = "OR" -> 4
      [] op = "AND" -> 5
      [] op = "NOT" -> 6
      [] op \in {"=", "!=", "<", ">", "<=", ">="} -> 7
      [] op \in {"+", "-"} -> 9
      [] op \in {"*", "/", "%"} -> 10
      [] OTHER -> 0

RECURSIVE parse_literal(_), parse_unary_not(_), parse_binary_expr(_), BinaryRest(_, _),
          ExpressionList(_, _)

parse_expression(s) == parse_binary_expr(s)

parse_literal(s) ==
    LET tok == Tok(s)
        next == advance(s)
    IN  CASE tok \in Literal \cup {"NULL"} -> Returns(next, Constant(tok))
          [] tok \in Identifier /\ Tok(next) # "." -> Returns(next, Column(tok, 0))
          [] tok \in Identifier /\ Tok(next) = "." ->
                Then(parse_identifier(advance(next)), LAMBDA col : Returns(col.s, Column(col.node, 1)))
          [] tok = "(" /\ ~s.err ->
                LET close(e) == [e EXCEPT !.s = expect_token(e.s, ")")]
                IN  close(parse_expression(next))
          [] tok \in {"-", "+"} /\ ~s.err ->
                Then(parse_literal(next), LAMBDA e : Returns(e.s, Unary(tok, e.node)))
          [] tok \in {"(", "-", "+"} /\ s.err -> Hangs(s)
          [] OTHER -> ReturnsNull(parser_set_error(s))

parse_unary_not(s) ==
    IF ~check_keyword(s, "NOT") THEN parse_literal(s)
    ELSE IF s.err THEN Hangs(s)
    ELSE Then(parse_unary_not(advance(s)), LAMBDA e : Returns(e.s, Unary("NOT", e.node)))

\* min_prec is not used: the right operand takes all that follows.
parse_binary_expr(s) ==
    Then(parse_unary_not(s), LAMBDA l : IF l.s.err THEN l ELSE BinaryRest(l.s, l.node))

\* Mutant: the operands change sides.
BinaryRest_swapped(s, left) ==
    IF get_precedence(Tok(s)) = 0 \/ Tok(s) = "NOT" THEN Returns(s, left)
    ELSE Then(parse_binary_expr(advance(s)),
              LAMBDA r : BinaryRest(r.s, Binary(Tok(s), r.node, left)))

\* The rounds of the loop, with what has been parsed as left.  IS has no
\* precedence and ends it before the code for IS is reached.
BinaryRest(s, left) ==
    LET op == Tok(s)
        next == advance(s)
    IN  CASE op = "LIKE" ->
                Then(parse_binary_expr(next), LAMBDA r :
                     BinaryRest(r.s, [kind |-> "LIKE", str |-> left, pattern |-> r.node]))
          [] op = "IN" /\ Tok(next) = "(" ->
                Then(IF Tok(advance(next)) = ")" THEN Returns(advance(next), <<>>)
                     ELSE ExpressionList(advance(next), <<>>), LAMBDA list :
                     BinaryRest(expect_token(list.s, ")"),
                        [kind |-> "IN", value |-> left, list |-> list.node, not |-> FALSE]))
          [] op = "IN" /\ Tok(next) # "(" -> BinaryRest(next, left)
          [] op = "BETWEEN" ->
                Then(parse_binary_expr(next), LAMBDA low :
                     IF ~check_keyword(low.s, "AND") THEN ReturnsNull(parser_set_error(low.s))
                     ELSE Then(parse_binary_expr(advance(low.s)), LAMBDA high :
                          BinaryRest(high.s, [kind |-> "BETWEEN", value |-> left,
                             low |-> low.node, high |-> high.node, not |-> FALSE])))
          [] OTHER ->
                IF get_precedence(op) = 0 \/ op = "NOT" THEN Returns(s, left)
                ELSE Then(parse_binary_expr(next), LAMBDA r :
                          BinaryRest(r.s, Binary(op, left, r.node)))

\* What comes after an element of a list: the rest of it behind a comma.
More(s, list, Rest(_, _)) == IF Tok(s) = "," THEN Rest(advance(s), list) ELSE Returns(s, list)

\* The list of IN, and parse_expression_list: expressions with commas between.
ExpressionList(s, list) ==
    Then(parse_expression(s), LAMBDA e : More(e.s, Append(list, e.node), ExpressionList))

\* An empty list is no list, and no error.
parse_expression_list(s) ==
    IF Tok(s) = ")" THEN ReturnsNull(s) ELSE ExpressionList(s, <<>>)

----------------------------------------------------------------------------
(* Tables and indexes.                                                     *)

\* INTEGER comes as a name and is not consumed.
parse_column_type(s) ==
    CASE Tok(s) = "REAL" -> Returns(advance(s), "FLOAT")
      [] Tok(s) = "TEXT" -> Returns(advance(s), "TEXT")
      [] check_keyword(s, "BLOB") -> Returns(advance(s), "BLOB")
      [] OTHER -> Returns(s, "TEXT")

RECURSIVE Constraints(_, _), ColumnDefs(_, _), IdentifierList(_, _), ColumnList(_, _),
          ValueLists(_, _), SetClauses(_, _), OrderByItems(_, _)

\* The loop over the constraints.  After an error it finds the same one again.
Constraints(s, col) ==
    LET next == advance(s)
    IN  CASE s.err /\ \E kw \in {"NOT", "PRIMARY", "AUTOINCREMENT", "DEFAULT"} : check_keyword(s, kw) ->
                Hangs(s)
          [] ~s.err /\ check_keyword(s, "NOT") ->
                Constraints(advance(next), [col EXCEPT !.not_null = TRUE])
          [] ~s.err /\ check_keyword(s, "PRIMARY") ->
                IF check_keyword(next, "KEY")
                THEN Constraints(advance(next), [col EXCEPT !.primary_key = TRUE])
                ELSE Constraints(next, col)
          [] ~s.err /\ check_keyword(s, "AUTOINCREMENT") ->
                Constraints(next, [col EXCEPT !.autoincrement = TRUE])
          [] ~s.err /\ check_keyword(s, "DEFAULT") ->
                LET default(e) == Constraints(e.s, [col EXCEPT !.default_value = e.node])
                IN  default(parse_expression(next))
          [] OTHER -> Returns(s, col)

parse_column_def(s) ==
    Then(parse_identifier(s), LAMBDA name :
    Then(parse_column_type(name.s), LAMBDA type :
         Constraints(type.s, ColumnDef(name.node, type.node))))

\* A trailing comma is accepted.
ColumnDefs(s, cols) ==
    IF Tok(s) = ")" \/ s.err THEN Returns(s, cols)
    ELSE Then(parse_column_def(s), LAMBDA c : More(c.s, Append(cols, c.node), ColumnDefs))

\* IF and the words after it: the state behind them, and whether they were there.
IfClause(s, words) ==
    LET present == \A i \in DOMAIN words : i + s.pos <= Len(s.t) /\ s.t[i + s.pos] = words[i]
    IN  IF Tok(s) # "IF" THEN Returns(s, FALSE)
        ELSE IF present THEN Returns([s EXCEPT !.pos = @ + 1 + Len(words)], TRUE)
        ELSE ReturnsNull(parser_set_error(s))

parse_create_table(s) ==
    Then(IfClause(s, <<"NOT", "EXISTS">>), LAMBDA if :
    Then(parse_identifier(if.s), LAMBDA name :
    Then(ColumnDefs(expect_token(name.s, "("), <<>>), LAMBDA cols :
         Returns(expect_token(expect_token(cols.s, ")"), ";"),
            [kind |-> "CREATE_TABLE", table |-> name.node, if_not_exists |-> if.node,
             columns |-> cols.node]))))

parse_drop_table(s) ==
    Then(IfClause(s, <<"EXISTS">>), LAMBDA if :
    Then(parse_identifier(if.s), LAMBDA name :
         Returns(expect_token(name.s, ";"),
            [kind |-> "DROP_TABLE", table |-> name.node, if_exists |-> if.node])))

parse_create_index(s) ==
    LET unique == check_keyword(s, "UNIQUE")
    IN  Then(parse_identifier(IF unique THEN advance(s) ELSE s), LAMBDA index :
        IF ~check_keyword(index.s, "ON") THEN ReturnsNull(parser_set_error(index.s)) ELSE
        Then(parse_identifier(advance(index.s)), LAMBDA table :
        Then(parse_identifier(expect_token(table.s, "(")), LAMBDA column :
             Returns(expect_token(expect_token(column.s, ")"), ";"),
                [kind |-> "CREATE_INDEX", index |-> index.node, table |-> table.node,
                 column |-> column.node, unique |-> unique]))))

parse_drop_index(s) ==
    Then(parse_identifier(s), LAMBDA name :
         Returns(expect_token(name.s, ";"), [kind |-> "DROP_INDEX", index |-> name.node]))

----------------------------------------------------------------------------
(* Rows.                                                                   *)

\* The names in parentheses after the table of an INSERT, trailing comma included.
IdentifierList(s, names) ==
    IF Tok(s) = ")" \/ s.err THEN Returns(s, names)
    ELSE Then(parse_identifier(s), LAMBDA n : More(n.s, Append(names, n.node), IdentifierList))

ValueLists(s, rows) ==
    IF s.err THEN Returns(s, rows)
    ELSE Then(parse_expression_list(expect_token(s, "(")), LAMBDA values :
              More(expect_token(values.s, ")"), Append(rows, values.node), ValueLists))

\* The names in parentheses, if there are any.
ListedNames(s) ==
    IF Tok(s) # "(" THEN Returns(s, <<>>)
    ELSE Then(IdentifierList(advance(s), <<>>), LAMBDA names :
              Returns(expect_token(names.s, ")"), names.node))

parse_insert(s) ==
    Then(parse_identifier(expect_keyword(advance(s), "INTO")), LAMBDA table :
    Then(ListedNames(table.s), LAMBDA names :
    Then(ValueLists(expect_keyword(names.s, "VALUES"), <<>>), LAMBDA rows :
         Returns(expect_token(rows.s, ";"),
            [kind |-> "INSERT", table |-> table.node, columns |-> names.node,
             values |-> rows.node]))))

SetClauses(s, clauses) ==
    IF s.err THEN Returns(s, clauses)
    ELSE Then(parse_identifier(s), LAMBDA name :
         Then(parse_expression(expect_token(name.s, "=")), LAMBDA value :
              More(value.s, Append(clauses, [column |-> name.node, value |-> value.node]),
                   SetClauses)))

RequiredWhere(s) ==
    IF check_keyword(s, "WHERE") THEN parse_expression(advance(s))
    ELSE ReturnsNull(parser_set_error(s))

parse_update(s) ==
    Then(parse_identifier(advance(s)), LAMBDA table :
    Then(SetClauses(expect_keyword(table.s, "SET"), <<>>), LAMBDA clauses :
    Then(RequiredWhere(clauses.s), LAMBDA where :
         Returns(expect_token(where.s, ";"),
            [kind |-> "UPDATE", table |-> table.node, set_clauses |-> clauses.node,
             where |-> where.node]))))

parse_delete(s) ==
    Then(parse_identifier(expect_keyword(advance(s), "FROM")), LAMBDA table :
    Then(RequiredWhere(table.s), LAMBDA where :
         Returns(expect_token(where.s, ";"),
            [kind |-> "DELETE", table |-> table.node, where |-> where.node])))

----------------------------------------------------------------------------
(* Queries.                                                                *)

\* A star ends the list.  An alias that is missing is an error, but the column
\* stays.
ColumnList(s, cols) ==
    IF Tok(s) = "*" THEN Returns(advance(s), Append(cols, [name |-> "*", alias |-> <<>>]))
    ELSE Then(parse_identifier(s), LAMBDA name :
              LET named(alias) ==
                    More(alias.s, Append(cols, [name |-> name.node, alias |-> alias.node]), ColumnList)
              IN  named(IF check_keyword(name.s, "AS") THEN parse_identifier(advance(name.s))
                        ELSE ReturnsNull(name.s)))

OrderByItems(s, items) ==
    IF s.err THEN IF items = <<>> THEN ReturnsNull(s) ELSE Returns(s, items)
    ELSE Then(parse_identifier(s), LAMBDA name :
              LET desc == check_keyword(name.s, "DESC")
              IN  More(IF desc \/ check_keyword(name.s, "ASC") THEN advance(name.s) ELSE name.s,
                       Append(items, [column |-> name.node, descending |-> desc]), OrderByItems))

\* An optional clause: a keyword and an expression.
Clause(s, kw) ==
    IF check_keyword(s, kw) THEN parse_expression(advance(s)) ELSE Returns(s, <<>>)

\* ORDER without BY is skipped.
OrderBy(s) ==
    IF ~check_keyword(s, "ORDER") THEN Returns(s, <<>>)
    ELSE IF ~check_keyword(advance(s), "BY") THEN Returns(advance(s), <<>>)
    ELSE OrderByItems(advance(advance(s)), <<>>)

parse_select(s) ==
    LET distinct == check_keyword(advance(s), "DISTINCT")
    IN  Then(ColumnList(IF distinct THEN advance(advance(s)) ELSE advance(s), <<>>), LAMBDA cols :
        IF Tok(cols.s) # "FROM" THEN ReturnsNull(parser_set_error(cols.s)) ELSE
        Then(parse_identifier(advance(cols.s)), LAMBDA table :
        Then(Clause(table.s, "WHERE"), LAMBDA where :
        Then(OrderBy(where.s), LAMBDA order :
        Then(Clause(order.s, "LIMIT"), LAMBDA limit :
        Then(Clause(limit.s, "OFFSET"), LAMBDA offset :
             Returns(expect_token(offset.s, ";"),
                [kind |-> "SELECT", columns |-> cols.node, distinct |-> distinct,
                 table |-> table.node, where |-> where.node, order_by |-> order.node,
                 limit |-> limit.node, offset |-> offset.node])))))))

parse_transaction(s) ==
    LET next == advance(s)
        skip == Tok(s) = "BEGIN" /\ check_keyword(next, "TRANSACTION")
    IN  Returns(expect_token(IF skip THEN advance(next) ELSE next, ";"),
                [kind |-> "TRANSACTION", type |-> Tok(s)])

\* CREATE and DROP take the word after them.
parse_statement(s) ==
    LET tok == Tok(s)
        word == Tok(advance(s))
        after == advance(advance(s))
    IN  CASE tok = "CREATE" /\ word = "TABLE" -> parse_create_table(after)
          [] tok = "CREATE" /\ word = "INDEX" -> parse_create_index(after)
          [] tok = "DROP" /\ word = "TABLE" -> parse_drop_table(after)
          [] tok = "DROP" /\ word = "INDEX" -> parse_drop_index(after)
          [] tok = "INSERT" -> parse_insert(s)
          [] tok = "UPDATE" -> parse_update(s)
          [] tok = "DELETE" -> parse_delete(s)
          [] tok = "SELECT" -> parse_select(s)
          [] tok \in {"BEGIN", "COMMIT", "ROLLBACK"} -> parse_transaction(s)
          [] OTHER -> ReturnsNull(parser_set_error(s))

----------------------------------------------------------------------------
Init ==
    /\ text \in Text
    /\ outcome = Running

\* A parse, up to its return if it returns.
parser_parse ==
    /\ outcome = Running
    /\ LET r == parse_statement(parser_create(text.tokens))
       IN  outcome' = [done |-> TRUE, hangs |-> r.s.hang, error |-> r.s.err, pos |-> r.s.pos,
                       ok |-> r.ok, node |-> r.node]
    /\ UNCHANGED text

Next == parser_parse

Spec == Init /\ [][Next]_vars

----------------------------------------------------------------------------
(* Properties.                                                             *)

Accepted == outcome.done /\ outcome.ok /\ ~outcome.error

\* A statement is read as it is meant: its tokens give its node back, without an
\* error.
ParsesAsMeant ==
    outcome.done /\ text.meant # NoNode => Accepted /\ outcome.node = text.meant

\* What is accepted was read from the first token to the first semicolon, but for
\* one after the NOT of a column, where any token passes for NULL.
AcceptedToSemicolon ==
    Accepted =>
       /\ outcome.pos - 1 \in DOMAIN text.tokens
       /\ text.tokens[outcome.pos - 1] = ";"
       /\ \A i \in 2 .. outcome.pos - 2 : text.tokens[i] = ";" => text.tokens[i - 1] = "NOT"

\* Even after an error, no UPDATE and no DELETE is returned without the WHERE
\* that the text must have.
WhereKept ==
    outcome.done /\ outcome.ok =>
       (outcome.node.kind \in {"UPDATE", "DELETE"} =>
          /\ DOMAIN outcome.node.where # {}
          /\ \E i \in DOMAIN text.tokens : text.tokens[i] = "WHERE")

\* The list of values after VALUES or a comma is empty.
EmptyValues ==
    \E i \in 1 .. Len(text.tokens) - 1 : text.tokens[i] = "(" /\ text.tokens[i + 1] = ")"

\* Without a node there is an error to report, unless an INSERT has an empty list.
FailureHasError ==
    outcome.done /\ ~outcome.ok =>
       outcome.error \/ (text.tokens[1] = "INSERT" /\ EmptyValues)
=============================================================================
