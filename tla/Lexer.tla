------------------------------- MODULE Lexer -------------------------------
(***************************************************************************)
(* The lexer of src/sql/lexer.c: it cuts a text into tokens on demand and  *)
(* can look one token ahead.  A text is a sequence of characters from the  *)
(* classes the code tells apart.  A token is its type, the place of its    *)
(* first and last character and, for a string, its content.  Which words   *)
(* are keywords is module Keywords.                                        *)
(***************************************************************************)
EXTENDS Naturals, Sequences

CONSTANTS
    SqlChar,        \* the characters that occur in the texts
    SqlText,        \* the texts
    MaxPeeks        \* a bound on the calls of lexer_peek_token

ASSUME LexerAssumption == SqlText \subseteq Seq(SqlChar) \ {<<>>} /\ MaxPeeks \in Nat

Alpha == {"a", "e", "x", "_"}
Digit == {"0", "1"}
HexDigit == {"0", "1", "a", "e"}
Space == {" "}
Quote == "'"
DoubleQuote == "\""
Single == {"+", "-", "*", "/", "%", "(", ")", ",", ".", ";", "?", "="}

VARIABLES
    sql,            \* the text
    pos,            \* Lexer.pos, the next character
    peeked,         \* Lexer.peeked and peek_token: <<>> or <<token>>
    returned,       \* history: what lexer_next_token returned
    peeks           \* the number of lookaheads

lexerVars == <<sql, pos, peeked, returned, peeks>>

----------------------------------------------------------------------------
(* The scanner, as functions of a text s and a position i in it.           *)

\* current_char and peek_char: NUL at the end.
At(s, i) == IF i <= Len(s) THEN s[i] ELSE "NUL"

\* The first position from i on whose character is not in S.
EndOf(s, i, S) ==
    CHOOSE j \in i .. Len(s) + 1 :
       At(s, j) \notin S /\ \A k \in i .. j - 1 : s[k] \in S

Token(type, first, next) == [type |-> type, first |-> first, last |-> next - 1, content |-> <<>>]

\* The words are looked up in the keyword table afterwards.
scan_identifier(s, i) == Token("WORD", i, EndOf(s, i + 1, Alpha \cup Digit))

\* The end of a fraction that starts at d, and of an exponent that starts at f.
FractionEnd(s, d) ==
    IF At(s, d) = "." /\ At(s, d + 1) \in Digit THEN EndOf(s, d + 1, Digit) ELSE d
ExponentEnd(s, f) ==
    IF At(s, f) # "e" THEN f
    ELSE EndOf(s, IF At(s, f + 1) \in {"+", "-"} THEN f + 2 ELSE f + 1, Digit)

scan_number(s, i) ==
    IF At(s, i) = "0" /\ At(s, i + 1) = "x"
    THEN Token("INTEGER", i, EndOf(s, i + 2, HexDigit))
    ELSE LET d == EndOf(s, i, Digit)
             f == FractionEnd(s, d)
             e == ExponentEnd(s, f)
         IN  Token(IF e > d THEN "REAL" ELSE "INTEGER", i, e)

\* How far a string is read.
StringState ==
    [next : Nat, state : {"open", "closed", "unterminated"}, content : Seq(SqlChar \cup {Quote})]

\* One round in a string: a doubled quote stands for a single quote character, also
\* between double quotes.
StringRound(s, quote) ==
    [r \in StringState |->
       LET c == At(s, r.next)
           read(n, x) == [next |-> r.next + n, state |-> "open", content |-> Append(r.content, x)]
       IN  IF r.state # "open" THEN r
           ELSE IF c = "NUL" THEN [next |-> r.next, state |-> "unterminated", content |-> <<>>]
           ELSE IF c # quote THEN read(1, c)
           ELSE IF At(s, r.next + 1) = quote THEN read(2, Quote)
           ELSE [next |-> r.next + 1, state |-> "closed", content |-> r.content]]

\* The rounds of a string that begins at i; there are never more than characters.
StringFrom(s, i) ==
    LET round[n \in 0 .. Len(s)] ==
          IF n = 0 THEN [next |-> i + 1, state |-> "open", content |-> <<>>]
          ELSE StringRound(s, s[i])[round[n - 1]]
    IN  round[Len(s)]

scan_string(s, i) ==
    LET r == StringFrom(s, i)
    IN  [Token(IF r.state = "closed" THEN "STRING" ELSE "ERROR", i, r.next) EXCEPT !.content = r.content]

scan_operator(s, i) ==
    LET c == s[i]
        d == At(s, i + 1)
    IN  IF c \in Single THEN Token(c, i, i + 1)
        ELSE IF c = "<" /\ d = "=" THEN Token("<=", i, i + 2)
        ELSE IF c = ">" /\ d = "=" THEN Token(">=", i, i + 2)
        ELSE IF (c = "<" /\ d = ">") \/ (c = "!" /\ d = "=") THEN Token("!=", i, i + 2)
        ELSE IF c \in {"<", ">"} THEN Token(c, i, i + 1)
        ELSE Token("ERROR", i, i + 1)

scan_placeholder(s, i) ==
    IF At(s, i + 1) \in Digit
    THEN Token("PLACEHOLDER", i, EndOf(s, i + 1, Digit))
    ELSE Token("ERROR", i, i + 1)

next_token_internal(s, from) ==
    LET i == EndOf(s, from, Space)
        c == At(s, i)
    IN  IF i > Len(s) THEN Token("EOF", i, i)
        ELSE IF c \in Alpha THEN scan_identifier(s, i)
        ELSE IF c \in Digit THEN scan_number(s, i)
        ELSE IF c \in {Quote, DoubleQuote} THEN scan_string(s, i)
        ELSE IF c = "$" THEN scan_placeholder(s, i)
        ELSE scan_operator(s, i)

----------------------------------------------------------------------------
(* The lexer.                                                              *)

lexer_create ==
    /\ sql \in SqlText
    /\ pos = 1
    /\ peeked = <<>>
    /\ returned = <<>>
    /\ peeks = 0

\* The parser stops at the end of the text.
AtEnd == returned # <<>> /\ returned[Len(returned)].type = "EOF"

\* Mutant: the token is scanned again after a lookahead.
lexer_next_token_again ==
    /\ ~AtEnd
    /\ LET t == next_token_internal(sql, pos)
       IN  /\ returned' = Append(returned, t)
           /\ pos' = t.last + 1
    /\ peeked' = <<>>
    /\ UNCHANGED <<sql, peeks>>

\* Mutant: an error token leaves the lexer where it is and is scanned again.
lexer_next_token_retries ==
    /\ ~AtEnd
    /\ LET t == next_token_internal(sql, pos)
       IN  IF t.type = "ERROR"
           THEN UNCHANGED <<returned, pos>>
           ELSE returned' = Append(returned, t) /\ pos' = t.last + 1
    /\ UNCHANGED <<sql, peeked, peeks>>

\* A token seen ahead is returned first.
lexer_next_token ==
    /\ ~AtEnd
    /\ IF peeked # <<>>
       THEN /\ returned' = Append(returned, peeked[1])
            /\ peeked' = <<>>
            /\ UNCHANGED pos
       ELSE LET t == next_token_internal(sql, pos)
            IN  /\ returned' = Append(returned, t)
                /\ pos' = t.last + 1
                /\ UNCHANGED peeked
    /\ UNCHANGED <<sql, peeks>>

lexer_peek_token ==
    /\ ~AtEnd
    /\ peeks < MaxPeeks
    /\ peeks' = peeks + 1
    /\ IF peeked # <<>>
       THEN UNCHANGED <<pos, peeked>>
       ELSE LET t == next_token_internal(sql, pos)
            IN  peeked' = <<t>> /\ pos' = t.last + 1
    /\ UNCHANGED <<sql, returned>>

LexerNext == lexer_next_token \/ lexer_peek_token

LexerSpec == lexer_create /\ [][LexerNext]_lexerVars
LexerFairSpec == LexerSpec /\ WF_lexerVars(lexer_next_token)

----------------------------------------------------------------------------
(* Properties.                                                             *)

TokenType ==
    {"EOF", "ERROR", "WORD", "INTEGER", "REAL", "STRING", "PLACEHOLDER", "!=", "<=", ">=", "<", ">"}
    \cup Single

TokenOf(s) ==
    [type : TokenType, first : 1 .. Len(s) + 1, last : 1 .. Len(s), content : Seq(SqlChar \cup {Quote})]

LexerTypeOK ==
    /\ sql \in Seq(SqlChar) \ {<<>>}
    /\ pos \in 1 .. Len(sql) + 1
    /\ peeked \in Seq(TokenOf(sql)) /\ Len(peeked) <= 1
    /\ returned \in Seq(TokenOf(sql))
    /\ peeks \in 0 .. MaxPeeks

\* A token of a text begins behind the place where the one before it ends, but for
\* blanks, and EOF comes only when nothing is left.
Follows(s, before, t) ==
    /\ before < t.first
    /\ \A j \in before + 1 .. t.first - 1 : s[j] \in Space
    /\ t.type # "EOF" => t.first <= t.last /\ s[t.first] \notin Space
    /\ t.type = "EOF" => t.first = Len(s) + 1

\* The way SQL writes a string between single quotes, up to the closing quote.
Quoted(content) ==
    LET written[n \in 0 .. Len(content)] ==
          IF n = 0 THEN <<Quote>>
          ELSE IF content[n] = Quote THEN Append(Append(written[n - 1], Quote), Quote)
          ELSE Append(written[n - 1], content[n])
    IN  written[Len(content)]

\* The content of a string between single quotes is what the quotes say: writing
\* it again gives the text of the token.
StringRead(s, t) ==
    t.type = "STRING" /\ s[t.first] = Quote =>
       Append(Quoted(t.content), Quote) = SubSeq(s, t.first, t.last)

\* The tokens returned tile the text, each with what it stands for.  Looking ahead
\* changes neither the tokens nor their order.
TokensTile ==
    /\ LexerTypeOK
    /\ \A k \in DOMAIN returned :
         /\ Follows(sql, IF k = 1 THEN 0 ELSE returned[k - 1].last, returned[k])
         /\ StringRead(sql, returned[k])

\* Every text comes to its EOF.
EndReached == <>AtEnd
=============================================================================
