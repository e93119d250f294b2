-------------------------------- MODULE Like --------------------------------
(***************************************************************************)
(* LIKE, src/sql/expression.c: eval_like and the loop of                   *)
(* simple_like_match, one round of it a step.  Texts are sequences; % and  *)
(* _ are the wildcards of a pattern.  The positions s and p are the        *)
(* pointers of the loop.                                                   *)
(***************************************************************************)
EXTENDS Integers, Sequences

CONSTANTS
    Char,               \* the characters of texts, % and _ not among them
    MaxStr, MaxPattern  \* the lengths of the longest text and pattern

\* The wildcards: any text, any character.
Percent == "%"
Underscore == "_"

ASSUME LikeAssumption == MaxStr \in Nat /\ MaxPattern \in Nat /\ Char \cap {Percent, Underscore, "#"} = {}

NotText == <<"#">>      \* an operand that is a number, a blob or null

VARIABLES
    str, pattern,       \* the operands
    not,                \* NOT LIKE
    s, p,               \* the next character of each
    last_star,          \* the place of the last % met, 0 if none
    last_star_s,        \* where in the text it was met
    result              \* the value returned, or -1

likeVars == <<str, pattern, not, s, p, last_star, last_star_s, result>>

Running == -1
\* The texts of up to n characters.
Texts(chars, n) == UNION {[1 .. m -> chars] : m \in 0 .. n}

IsText == str # NotText /\ pattern # NotText

LikeInit ==
    /\ str \in Texts(Char, MaxStr) \cup {NotText}
    /\ pattern \in Texts(Char \cup {Percent, Underscore}, MaxPattern) \cup {NotText}
    /\ not \in BOOLEAN
    /\ s = 1 /\ p = 1
    /\ last_star = 0 /\ last_star_s = 0
    /\ result = Running

----------------------------------------------------------------------------

\* What eval_like makes of the outcome of the match.
Return(matches) ==
    /\ result' = IF matches # not THEN 1 ELSE 0
    /\ UNCHANGED <<s, p, last_star, last_star_s>>

\* An operand that is no text: 0, also for NOT LIKE.
eval_like ==
    /\ ~IsText
    /\ result' = 0
    /\ UNCHANGED <<s, p, last_star, last_star_s>>

\* The end of the pattern, before the loop if it is empty.
pattern_ends ==
    /\ IsText
    /\ p > Len(pattern)
    /\ Return(s > Len(str))

\* % is remembered; of several the last is kept and p stays on it.
at_percent ==
    /\ IsText
    /\ p <= Len(pattern)
    /\ pattern[p] = Percent
    /\ last_star' = p
    /\ last_star_s' = s
    /\ p' = CHOOSE q \in p .. Len(pattern) :
               /\ \A i \in p .. q : pattern[i] = Percent
               /\ q < Len(pattern) => pattern[q + 1] # Percent
    /\ UNCHANGED <<s, result>>

AtPlain == IsText /\ p <= Len(pattern) /\ pattern[p] # Percent

\* Mutant: the text may end before the pattern.
text_ends_early ==
    /\ AtPlain
    /\ s > Len(str)
    /\ Return(TRUE)

\* The text ends first; p is not on a %.
text_ends ==
    /\ AtPlain
    /\ s > Len(str)
    /\ Return(FALSE)

same_character ==
    /\ AtPlain
    /\ s <= Len(str)
    /\ pattern[p] \in {Underscore, str[s]}
    /\ s' = s + 1
    /\ p' = p + 1
    /\ UNCHANGED <<last_star, last_star_s, result>>

Differs == AtPlain /\ s <= Len(str) /\ pattern[p] \notin {Underscore, str[s]}

\* A difference, with no % before it.  (The code goes back to the last %
\* otherwise; p never leaves a %, so there is none.)
differs ==
    /\ Differs
    /\ last_star = 0
    /\ Return(FALSE)

LikeNext ==
    /\ result = Running
    /\ eval_like \/ pattern_ends \/ at_percent \/ text_ends \/ same_character \/ differs
    /\ UNCHANGED <<str, pattern, not>>

LikeSpec == LikeInit /\ [][LikeNext]_likeVars

----------------------------------------------------------------------------
(* Properties.                                                             *)

LikeTypeOK ==
    /\ str \in Seq(Char) \cup {NotText}
    /\ pattern \in Seq(Char \cup {Percent, Underscore}) \cup {NotText}
    /\ not \in BOOLEAN
    /\ s \in 1 .. MaxStr + 1
    /\ p \in 1 .. MaxPattern + 1
    /\ last_star \in 0 .. MaxPattern
    /\ last_star_s \in 0 .. MaxStr + 1
    /\ result \in {Running, 0, 1}

\* The text is divided among the characters of the pattern: the part of the n-th
\* ends at end[n].  A % takes any part, a _ any one character, and a character itself.
Divides(end, t, q) ==
    LET from(n) == IF n = 1 THEN 0 ELSE end[n - 1]
    IN  /\ \A n \in 1 .. Len(q) :
             IF q[n] = Percent THEN from(n) <= end[n]
             ELSE end[n] = from(n) + 1 /\ q[n] \in {Underscore, t[end[n]]}
        /\ Len(t) = IF q = <<>> THEN 0 ELSE end[Len(q)]

\* What LIKE means.
Matches(t, q) == \E end \in [1 .. Len(q) -> 0 .. Len(t)] : Divides(end, t, q)

\* Whatever simple_like_match returns, with wildcards in the pattern or not, is
\* what LIKE means.
MatchReturned ==
    result # Running /\ IsText =>
       (result = 1 <=> (Matches(str, pattern) # not))

\* The branch for a difference after a % is not reached: the match never leaves
\* a %.
StaysOnPercent ==
    last_star # 0 => p \in last_star .. Len(pattern) /\ pattern[p] = Percent /\ result = Running

\* Whatever simple_like_match returns is what LIKE means, and it does not return
\* once it has met a %.
ReturnsMatch == LikeTypeOK /\ MatchReturned /\ StaysOnPercent
=============================================================================
