---------------------------- MODULE MCEvaluation ----------------------------
(***************************************************************************)
(* What is computed from rows, for TLC: values and operators, LIKE, a      *)
(* query from its text to its rows, the clauses on a result set, the       *)
(* statistics of tables and the stored form of schemas.  They share no     *)
(* state, so a behaviour picks one part and the others stay as they are at *)
(* the start; a query joins the parser and the evaluator in module Query.  *)
(***************************************************************************)
EXTENDS SqlTexts, Integers, Schema, Statistics, Like, ResultSet

CONSTANTS
    Part,           \* the parts that are checked
    Question        \* the queries

VARIABLES
    part,
    row, expr, e_result,                                        \* Expressions
    question, table, select, scanned, kept, q_result            \* Query

----------------------------------------------------------------------------
(* Expressions over rows of three columns, with integers of five bits of   *)
(* which a double holds three.                                             *)

Typed(type, vals) == [type : {type}, val : vals]

\* Among the integers are the least and the greatest, neighbours that a double
\* does not tell apart, and two (2 and 10) whose order as texts is the reverse.
Values ==
    Typed("NULL", {0}) \cup Typed("INTEGER", {-16, -1, 0, 2, 8, 9, 10, 15})
    \cup Typed("FLOAT", {<<0, 1>>, <<-1, 2>>, <<2, 1>>, <<7, 2>>})
    \cup Typed("TEXT", {<<>>, <<50>>, <<49, 48>>, <<49>>})
    \cup Typed("BLOB", {<<49>>, <<49, 48>>})

FewValues ==
    Typed("NULL", {0}) \cup Typed("INTEGER", {-16, -1, 0, 8, 9, 15})
    \cup Typed("FLOAT", {<<-1, 2>>}) \cup Typed("TEXT", {<<50>>}) \cup Typed("BLOB", {<<>>})

\* A place outside the row, a place whose name is another, and a name not in the row.
Places == {Column("b", 0), Column("b", 2), Column("d", 1)}

Val == INSTANCE Expressions WITH
    IntBits <- 5, MantissaBits <- 3, Value <- Values, ColumnName <- {"a", "b", "c"},
    Expression <- Places, result <- e_result

\* One expression for every operator, and some in others.
Operators ==
    LET b == Column("b", 2)
    IN  {Binary(op, Column("a", 1), b) :
           op \in Val!CompareOp \cup {"AND", "OR", "IS", "+", "-", "*", "/", "EQ", "LIKE"}}
        \cup {Unary(op, b) : op \in {"!", "-", "NOT", "MINUS"}}
        \cup {[kind |-> "IN", value |-> b, list |-> <<Binary("+", b, Column("b", 1)), b>>, not |-> x] :
                x \in BOOLEAN}
        \cup {[kind |-> "BETWEEN", value |-> b, low |-> Constant(Val!value_from_int(0)),
               high |-> Column("c", 3), not |-> x] : x \in BOOLEAN}

Op == INSTANCE Expressions WITH
    IntBits <- 5, MantissaBits <- 3, Value <- FewValues, ColumnName <- {"a", "b", "c"},
    Expression <- Operators, result <- e_result

----------------------------------------------------------------------------
(* Queries of a table with two columns.  A condition is written with its   *)
(* operands in parentheses.                                                *)

Ask(names, where) ==
    Select([k \in DOMAIN names |-> [name |-> names[k], alias |-> None]], where, None, None, None)

\* Conditions with the operators whose codes agree, on columns with their table.
Tests ==
    {Binary(op, Column("a", 1), Column("b", 1)) : op \in {"!=", "<=", ">="}}
    \cup {Binary("<=", Column("b", 1), One),
          [kind |-> "IN", value |-> Column("b", 1), list |-> <<Constant("2"), Constant("NULL")>>,
           not |-> FALSE]}

Conditions == {None} \cup Tests \cup {Binary(op, x, y) : op \in {"AND", "OR"}, x, y \in Tests}

MCQuestion == Meaning({Ask(names, where) : names \in {<<"a", "b">>, <<"b">>}, where \in Conditions})

\* A query by the key, as the documentation writes it with a table's name.
MCEquals == Meaning({Ask(<<"b">>, Binary(op, Column("a", 1), One)) : op \in {"=", "<", ">"}})

Qry == INSTANCE Query WITH
    Columns <- <<"a", "b">>, NumberOf <- [tok \in {"1", "2"} |-> IF tok = "1" THEN 1 ELSE 2],
    Field <- Typed("INTEGER", {1, 2}) \cup Typed("NULL", {0}), MaxRows <- 2, result <- q_result

\* Names that fit in an entry.
MCCut == [t \in Table |-> t]

\* As many columns as there may be, and one more; the last differs.
MCColumnLists ==
    {[i \in 1 .. n |-> IF i = n THEN d ELSE c] :
       n \in {MAX_COLUMNS, MAX_COLUMNS + 1}, c, d \in SchemaColumn}

ASSUME EvaluationAssumption ==
    /\ Part \subseteq {"values", "operators", "like", "query", "result_set", "statistics", "schema"}
    /\ Val!ExpressionsAssumption /\ Op!ExpressionsAssumption

----------------------------------------------------------------------------
expressionVars == <<row, expr, e_result>>
queryVars == <<question, table, select, scanned, kept, q_result>>
allVars == <<part, expressionVars, likeVars, queryVars, resultSetVars, statisticsVars, schemaVars>>

\* The parts that are not checked, each at one of its initial states.
IdleExpressions ==
    /\ row = [i \in 1 .. 3 |-> [name |-> <<"a", "b", "c">>[i], value |-> Val!value_from_null]]
    /\ expr = Column("b", 2) /\ e_result = Val!None
IdleLike ==
    /\ str = <<>> /\ pattern = <<>> /\ not = FALSE /\ s = 1 /\ p = 1
    /\ last_star = 0 /\ last_star_s = 0 /\ result = Running
AnyQuestion == CHOOSE q \in Question : TRUE
IdleQuery ==
    /\ question = AnyQuestion /\ table = <<>> /\ select = [done |-> FALSE]
    /\ scanned = 0 /\ kept = {} /\ q_result = <<>>
AnySchema == schema_create("a", <<CHOOSE c \in SchemaColumn : TRUE>>)
IdleSchema ==
    /\ schema = AnySchema
    /\ buf = <<>> /\ size = 0 /\ restored = NotRead /\ written = NoSchema

MCInit ==
    /\ part \in Part
    /\ (part = "like" /\ LikeInit) \/ (part # "like" /\ IdleLike)
    /\ (part = "query" /\ Qry!Init) \/ (part # "query" /\ IdleQuery)
    /\ result_set_create
    /\ StatsInit
    /\ (part = "schema" /\ SchemaInit) \/ (part # "schema" /\ IdleSchema)
    /\ \/ part = "values" /\ Val!Init
       \/ part = "operators" /\ Op!Init
       \/ part \notin {"values", "operators"} /\ IdleExpressions

\* An evaluation, a match and a query have an end, and so have the clauses
\* that the bounds allow.
Ended ==
    /\ part \notin {"statistics", "schema"}
    /\ UNCHANGED <<expressionVars, likeVars, queryVars, resultSetVars, statisticsVars, schemaVars>>

MCNext ==
    /\ UNCHANGED part
    /\ \/ /\ (part = "values" /\ Val!Next) \/ (part = "operators" /\ Op!Next)
          /\ UNCHANGED <<likeVars, queryVars, resultSetVars, statisticsVars, schemaVars>>
       \/ /\ part = "like" /\ LikeNext
          /\ UNCHANGED <<expressionVars, queryVars, resultSetVars, statisticsVars, schemaVars>>
       \/ /\ part = "query" /\ Qry!Next
          /\ UNCHANGED <<expressionVars, likeVars, resultSetVars, statisticsVars, schemaVars>>
       \/ /\ part = "result_set" /\ ResultSetNext
          /\ UNCHANGED <<expressionVars, likeVars, queryVars, statisticsVars, schemaVars>>
       \/ /\ part = "statistics" /\ StatsNext
          /\ UNCHANGED <<expressionVars, likeVars, queryVars, resultSetVars, schemaVars>>
       \/ /\ part = "schema" /\ SchemaNext
          /\ UNCHANGED <<expressionVars, likeVars, queryVars, resultSetVars, statisticsVars>>
       \/ Ended

MCSpec == MCInit /\ [][MCNext]_allVars
----------------------------------------------------------------------------
(* Properties of the parts, at their instances.                            *)

\* The ways to compare values agree: value_compare is an order, also between
\* values of different types; BETWEEN and IN, which go through it, agree with the
\* operators, which go through doubles and strcmp, on values of one type; and
\* rounding to doubles never turns an order around.  Every operator gives a
\* value of the language.
ComparisonsAgree ==
    /\ part = "values" => Val!CompareIsOrder /\ Val!SpecialsAgree /\ Val!OrderKept
    /\ part = "operators" => Op!TypeOK

\* A query is parsed, and of the rows read exactly those are kept on which its
\* condition is true.
WhereSelects == Qry!WhereSelects

\* Every row of the result holds the columns that the query lists, from one of
\* the rows kept.
ProjectsListed == Qry!ProjectsListed
=============================================================================
