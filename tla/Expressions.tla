---------------------------- MODULE Expressions ----------------------------
(***************************************************************************)
(* The evaluation of expressions over a row, src/sql/expression.c: the     *)
(* order on values, columns found by place or by name, and the operators.  *)
(* LIKE is module Like.                                                    *)
(*                                                                         *)
(* Integers have IntBits bits and wrap.  A float is a fraction <<n, d>>;   *)
(* the conversion of an integer to a float keeps MantissaBits bits, other  *)
(* float arithmetic is exact.  Texts and blobs are sequences of character  *)
(* codes.  An operator is the code the evaluator tests for: it knows =, <, *)
(* >, +, -, *, / and ! by their characters and the others by their tokens. *)
(***************************************************************************)
EXTENDS Integers, Sequences

CONSTANTS
    IntBits,            \* the width of an integer
    MantissaBits,       \* the integers up to 2^MantissaBits are exact as floats
    Value,              \* the values of the rows
    ColumnName,         \* the names of columns
    Expression          \* the expressions evaluated

ExpressionsAssumption == IntBits \in Nat \ {0} /\ MantissaBits \in Nat \ {0}

VARIABLES
    row,                \* row_data and column_names: a sequence of columns
    expr,               \* the expression
    result              \* the value returned, or none yet

vars == <<row, expr, result>>

MaxInt == 2 ^ (IntBits - 1) - 1
MinInt == -(2 ^ (IntBits - 1))

----------------------------------------------------------------------------
(* Values.                                                                 *)

value_from_int(n) == [type |-> "INTEGER", val |-> n]
value_from_float(q) == [type |-> "FLOAT", val |-> q]
value_from_null == [type |-> "NULL", val |-> 0]

\* A C condition as a value.
Truth(b) == value_from_int(IF b THEN 1 ELSE 0)

value_is_null(v) == v.type = "NULL"

value_is_truthy(v) ==
    CASE v.type = "INTEGER" -> v.val # 0
      [] v.type = "FLOAT" -> v.val[1] # 0
      [] v.type \in {"TEXT", "BLOB"} -> Len(v.val) > 0
      [] OTHER -> FALSE

Sign(n) == IF n < 0 THEN -1 ELSE IF n > 0 THEN 1 ELSE 0

\* The order of two fractions.
CompareFloats(p, q) == Sign(p[1] * q[2] - q[1] * p[2])

\* memcmp, and the lengths where one text begins with the other: also strcmp.
CompareTexts(s, t) ==
    LET differ == {i \in DOMAIN s \cap DOMAIN t : s[i] # t[i]}
        first == CHOOSE i \in differ : \A j \in differ : i <= j
    IN  IF differ = {} THEN Sign(Len(s) - Len(t)) ELSE Sign(s[first] - t[first])

TypeOrder(v) ==
    CASE v.type = "INTEGER" -> 0 [] v.type = "FLOAT" -> 1 [] v.type = "TEXT" -> 2 [] OTHER -> 3

\* NULL is below every value, then the types in their order.
value_compare(a, b) ==
    CASE value_is_null(a) /\ value_is_null(b) -> 0
      [] value_is_null(a) /\ ~value_is_null(b) -> -1
      [] ~value_is_null(a) /\ value_is_null(b) -> 1
      [] OTHER ->
         IF a.type # b.type THEN IF TypeOrder(a) < TypeOrder(b) THEN -1 ELSE 1
         ELSE CASE a.type = "INTEGER" -> Sign(a.val - b.val)
                [] a.type = "FLOAT" -> CompareFloats(a.val, b.val)
                [] OTHER -> CompareTexts(a.val, b.val)

----------------------------------------------------------------------------
(* Conversions.                                                            *)

Abs(n) == IF n < 0 THEN -n ELSE n

\* (double): the nearest number of MantissaBits bits, of two the even one.
ToDouble(n) ==
    LET scale == CHOOSE s \in 0 .. IntBits :
                    /\ Abs(n) < 2 ^ (MantissaBits + s)
                    /\ s > 0 => Abs(n) >= 2 ^ (MantissaBits + s - 1)
        unit == 2 ^ scale
        down == Abs(n) \div unit
        rest == 2 * (Abs(n) % unit)
        near == IF rest > unit \/ (rest = unit /\ down % 2 = 1) THEN down + 1 ELSE down
    IN  Sign(n) * near * unit

\* The decimal digits of a number.
Decimal[n \in Nat] ==
    IF n < 10 THEN <<48 + n>> ELSE Append(Decimal[n \div 10], 48 + (n % 10))

\* The text the code compares: %lld, %.15g (floats in the rows are multiples of
\* one half), and nothing for a null or a blob.
TextOf(v) ==
    LET sign(n) == IF n < 0 THEN <<45>> ELSE <<>>
    IN  CASE v.type = "TEXT" -> v.val
          [] v.type = "INTEGER" -> sign(v.val) \o Decimal[Abs(v.val)]
          [] v.type = "FLOAT" ->
                sign(v.val[1]) \o Decimal[Abs(v.val[1]) \div v.val[2]]
                \o (IF Abs(v.val[1]) % v.val[2] = 0 THEN <<>> ELSE <<46, 53>>)
          [] OTHER -> <<>>

Numeric(v) == v.type \in {"INTEGER", "FLOAT"}

\* The double an operand of a comparison or of arithmetic becomes.  A null has
\* zero bits.
DoubleOf(v) ==
    CASE v.type = "INTEGER" -> <<ToDouble(v.val), 1>>
      [] v.type = "FLOAT" -> v.val
      [] OTHER -> <<0, 1>>

\* Two's complement, as the builds wrap.
Wrap(n) == ((n + 2 ^ (IntBits - 1)) % (2 ^ IntBits)) - 2 ^ (IntBits - 1)

----------------------------------------------------------------------------
(* Operators.                                                              *)

CompareOp == {"=", "<", ">", "LTE", "GTE", "NEQ"}

Holds(op, cmp) ==
    CASE op = "=" -> cmp = 0
      [] op = "NEQ" -> cmp # 0
      [] op = "<" -> cmp < 0
      [] op = ">" -> cmp > 0
      [] op = "LTE" -> cmp <= 0
      [] op = "GTE" -> cmp >= 0

\* With a text the other side becomes text too; otherwise both become doubles,
\* and nothing holds of a null or a blob.
eval_comparison(op, l, r) ==
    IF l.type = "TEXT" \/ r.type = "TEXT"
    THEN Truth(Holds(op, CompareTexts(TextOf(l), TextOf(r))))
    ELSE Truth(Numeric(l) /\ Numeric(r) /\ Holds(op, CompareFloats(DoubleOf(l), DoubleOf(r))))

\* Arithmetic reads the union as a double when it is no integer; for a text or a
\* blob that is the bits of a pointer, some float.
SomeFloat == value_from_float(<<0, 0>>)
Readable(v) == Numeric(v) \/ value_is_null(v)

eval_sum(op, l, r) ==
    LET p == DoubleOf(l)
        q == DoubleOf(r)
    IN  IF l.type = "INTEGER" /\ r.type = "INTEGER"
        THEN value_from_int(Wrap(CASE op = "+" -> l.val + r.val
                                   [] op = "-" -> l.val - r.val
                                   [] op = "*" -> l.val * r.val))
        ELSE IF ~(Readable(l) /\ Readable(r)) THEN SomeFloat
        ELSE value_from_float(CASE op = "+" -> <<p[1] * q[2] + q[1] * p[2], p[2] * q[2]>>
                                [] op = "-" -> <<p[1] * q[2] - q[1] * p[2], p[2] * q[2]>>
                                [] op = "*" -> <<p[1] * q[1], p[2] * q[2]>>)

\* C's division of integers.
Quotient(a, b) == Sign(a) * Sign(b) * (Abs(a) \div Abs(b))

\* (int64_t) of a double: one too large converts to the least integer.
ToInt(n) == IF n \in MinInt .. MaxInt THEN n ELSE MinInt

\* The divisor takes the way through a double also between integers; the least
\* integer divided by -1 stops the process.
Trap == [type |-> "TRAP", val |-> 0]

eval_division(l, r) ==
    LET p == DoubleOf(l)
        q == DoubleOf(r)
    IN  IF Readable(r) /\ q[1] = 0 THEN value_from_null
        ELSE IF l.type = "INTEGER" /\ r.type = "INTEGER"
             THEN IF l.val = MinInt /\ ToInt(q[1]) = -1 THEN Trap
                  ELSE value_from_int(Quotient(l.val, ToInt(q[1])))
        ELSE IF ~(Readable(l) /\ Readable(r)) THEN SomeFloat
        ELSE value_from_float(<<Sign(q[1]) * p[1] * q[2], p[2] * Abs(q[1])>>)

\* The operators of eval_binary.  It passes LIKE, IN and BETWEEN on to
\* functions that refuse a binary node; the rest is unknown.
eval_binary(op, l, r) ==
    CASE op = "AND" -> Truth(value_is_truthy(l) /\ value_is_truthy(r))
      [] op = "OR" -> Truth(value_is_truthy(l) \/ value_is_truthy(r))
      [] op = "IS" -> Truth(value_is_null(l) <=> value_is_null(r))
      [] op \in CompareOp -> eval_comparison(op, l, r)
      [] op \in {"+", "-", "*"} -> eval_sum(op, l, r)
      [] op = "/" -> eval_division(l, r)
      [] OTHER -> value_from_null

eval_unary(op, v) ==
    CASE op = "!" -> Truth(~value_is_truthy(v))
      [] op = "-" /\ v.type = "INTEGER" -> value_from_int(Wrap(-v.val))
      [] op = "-" /\ v.type = "FLOAT" -> value_from_float(<<-v.val[1], v.val[2]>>)
      [] op \in {"NOT", "IS"} -> Truth(FALSE)
      [] OTHER -> value_from_null

\* Mutant: the bounds are left out.
eval_between_open(v, low, high, not) ==
    LET inside == /\ \A x \in {v, low, high} : ~value_is_null(x)
                  /\ value_compare(v, low) > 0
                  /\ value_compare(v, high) < 0
    IN  Truth(inside # not)

\* Without a null, both bounds are inside.
eval_between(v, low, high, not) ==
    LET inside == /\ \A x \in {v, low, high} : ~value_is_null(x)
                  /\ value_compare(v, low) >= 0
                  /\ value_compare(v, high) <= 0
    IN  Truth(inside # not)

eval_in(v, list, not) ==
    Truth((\E i \in DOMAIN list : value_compare(v, list[i]) = 0) # not)

\* The column at a place, or the first of the given name when the name there is
\* another; without one the place decides.
eval_column(index, name, cols) ==
    LET named == {i \in DOMAIN cols : cols[i].name = name}
    IN  IF index \notin DOMAIN cols THEN value_from_null
        ELSE IF index \in named \/ named = {} THEN cols[index].value
        ELSE cols[CHOOSE i \in named : \A j \in named : i <= j].value

RECURSIVE Eval(_, _)

\* Both operands are evaluated, whatever the first one is.
Eval(e, cols) ==
    CASE e.kind = "LITERAL" -> e.value
      [] e.kind = "COLUMN" -> eval_column(e.index, e.name, cols)
      [] e.kind = "BINARY" -> eval_binary(e.op, Eval(e.left, cols), Eval(e.right, cols))
      [] e.kind = "UNARY" -> eval_unary(e.op, Eval(e.operand, cols))
      [] e.kind = "IN" ->
            eval_in(Eval(e.value, cols), [i \in DOMAIN e.list |-> Eval(e.list[i], cols)], e.not)
      [] e.kind = "BETWEEN" ->
            eval_between(Eval(e.value, cols), Eval(e.low, cols), Eval(e.high, cols), e.not)

----------------------------------------------------------------------------
None == [type |-> "NONE", val |-> 0]

Init ==
    /\ row \in [1 .. 3 -> [name : ColumnName, value : Value]]
    /\ \A i, j \in 1 .. 3 : row[i].name = row[j].name => i = j
    /\ expr \in Expression
    /\ result = None

expr_eval ==
    /\ result = None
    /\ result' = Eval(expr, row)
    /\ UNCHANGED <<row, expr>>

Next == expr_eval

Spec == Init /\ [][Next]_vars

----------------------------------------------------------------------------
(* Properties.                                                             *)

ValueSet ==
    [type : {"NULL", "TRAP"}, val : {0}] \cup
    [type : {"INTEGER"}, val : MinInt .. MaxInt] \cup
    [type : {"FLOAT"}, val : Int \X Nat] \cup
    [type : {"TEXT", "BLOB"}, val : Seq(Nat)]

TypeOK ==
    /\ row \in Seq([name : ColumnName, value : ValueSet])
    /\ expr \in Expression
    /\ result \in ValueSet \cup {None}

\* value_compare is an order, also between values of different types: it is the
\* same seen from either side, and transitive.
CompareIsOrder ==
    \A i, j, k \in 1 .. 3 :
       LET a == row[i].value
           b == row[j].value
           c == row[k].value
       IN  /\ value_compare(a, b) = -value_compare(b, a)
           /\ value_compare(a, b) <= 0 /\ value_compare(b, c) <= 0 => value_compare(a, c) <= 0

\* The integers that a double holds.
Exact(v) == v.type = "INTEGER" => Abs(v.val) <= 2 ^ MantissaBits

\* The values BETWEEN and IN compare as >= , <= and = do: of one type, not null,
\* no blob, and no integer that a double rounds.
Alike(S) ==
    /\ \A v \in S : v.type \in {"INTEGER", "FLOAT", "TEXT"} /\ Exact(v)
    /\ \A v, w \in S : v.type = w.type

Both(x, y) == eval_binary("AND", x, y)
Either(x, y) == eval_binary("OR", x, y)

\* BETWEEN and IN go through value_compare, the operators through doubles and
\* strcmp.  On values of one type they agree: v BETWEEN l AND h is v >= l AND
\* v <= h, and v IN (l, h) is v = l OR v = h.
SpecialsAgree ==
    \A i, j, k \in 1 .. 3 :
       LET v == row[i].value
           l == row[j].value
           h == row[k].value
       IN  Alike({v, l, h}) =>
              /\ eval_between(v, l, h, FALSE) = Both(eval_binary("GTE", v, l), eval_binary("LTE", v, h))
              /\ eval_in(v, <<l, h>>, FALSE) = Either(eval_binary("=", v, l), eval_binary("=", v, h))

\* Rounding to doubles may make two numbers equal but never turns their order
\* around: if a is less than b then a <= b holds and a > b does not.
OrderKept ==
    \A i, j \in 1 .. 3 :
       LET a == row[i].value
           b == row[j].value
           exact(v) == IF v.type = "INTEGER" THEN <<v.val, 1>> ELSE v.val
       IN  Numeric(a) /\ Numeric(b) /\ CompareFloats(exact(a), exact(b)) < 0 =>
              /\ eval_binary("LTE", a, b) = Truth(TRUE)
              /\ eval_binary(">", a, b) = Truth(FALSE)
=============================================================================
