----------------------------- MODULE MCFrontEnd -----------------------------
(***************************************************************************)
(* The front end of SQL, for TLC: the search for keywords, the lexer and   *)
(* the parser.  The lexer's model says "WORD" for what the search decides, *)
(* and the parser's texts are already tokens; so a behaviour picks one     *)
(* part and the others stay as they are at the start.                      *)
(*                                                                         *)
(* The keyword table is the one of src/sql/lexer.c.  The 45 keywords have  *)
(* the even places 2 (AND) to 90 (WHERE) of the alphabet of words; an odd  *)
(* place is a word between two keywords.  BLOB is the 7th and INTEGER the  *)
(* 22nd keyword in alphabetical order.                                     *)
(***************************************************************************)
EXTENDS Keywords, SqlTexts, Lexer, SequencesExt

CONSTANT Part       \* the parts that are checked

VARIABLES
    part,
    text, outcome       \* Parser

MCWord == 1 .. 91

\* AND .. BETWEEN, BY .. INSERT, INTO .. WHERE, and at the end INTEGER and BLOB.
table ==
    [k \in 1 .. 6 |-> 2 * k] \o [k \in 1 .. 14 |-> 2 * (k + 7)] \o
    [k \in 1 .. 23 |-> 2 * (k + 22)] \o <<2 * 22, 2 * 7>>
MCkeywords == [k \in 0 .. 44 |-> table[k + 1]]

\* Words, numbers, strings and comparisons; and the characters left over.
Common == {"e", "x", "0", "1", ".", "'", "<", "=", " "}
Others == {"a", "-", "\"", "!", ">", "$", "1", "#"}
MCSqlChar == Common \cup Others
MCSqlText == (BoundedSeq(Common, 5) \cup BoundedSeq(Others, 3)) \ {<<>>}

Par == INSTANCE Parser WITH
    Identifier <- {"t", "a", "b", "INTEGER", "BLOB"}, Literal <- {"1", "2.5", "'s'"},
    Text <- Meant \cup DamagedTexts

ASSUME FrontEndAssumption ==
    Part \subseteq {"keywords", "lexer", "parser"}

parserVars == <<text, outcome>>
allVars == <<part, vars, lexerVars, parserVars>>

BeginText == [tokens |-> <<"BEGIN", ";">>, meant |-> [kind |-> "TRANSACTION", type |-> "BEGIN"]]

MCInit ==
    /\ part \in Part
    /\ part = "keywords" \/ word = 1
    /\ Init
    /\ part = "lexer" \/ sql = <<"e">>
    /\ lexer_create
    /\ \/ part = "parser" /\ Par!Init
       \/ part # "parser" /\ text = BeginText /\ outcome = Par!Running

MCNext ==
    /\ UNCHANGED part
    /\ \/ part = "keywords" /\ lookup_keyword /\ UNCHANGED <<lexerVars, parserVars>>
       \/ part = "lexer" /\ LexerNext /\ UNCHANGED <<vars, parserVars>>
       \/ part = "parser" /\ Par!Next /\ UNCHANGED <<vars, lexerVars>>

MCSpec == MCInit /\ [][MCNext]_allVars

\* The parser asks for tokens until the end of the text.
MCFairSpec == MCSpec /\ WF_lexerVars(part = "lexer" /\ lexer_next_token)
----------------------------------------------------------------------------
(* Properties of the parts, at their instances.                            *)

\* Every text comes to its EOF.
ReachesEnd == part = "lexer" => EndReached

\* parser_parse reads a statement as it is meant: its tokens give its node back.
ParsesAsMeant == Par!ParsesAsMeant

\* Of any text, damaged or not: what is accepted was read from the first token
\* to the first semicolon; even after an error no UPDATE and no DELETE is
\* returned without the WHERE that the text must have; and without a node there
\* is an error to report, unless an INSERT has an empty list.
AnyTextSound == Par!AcceptedToSemicolon /\ Par!WhereKept /\ Par!FailureHasError
=============================================================================
