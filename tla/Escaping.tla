------------------------------ MODULE Escaping ------------------------------
(***************************************************************************)
(* protocol_escape_string and protocol_unescape_string of                  *)
(* src/server/protocol.c: a response separates values by tabs and rows by  *)
(* newlines, so these two and the backslash are written as two characters. *)
(* A string is a sequence of characters without the final NUL.             *)
(***************************************************************************)
EXTENDS Naturals, Sequences

CONSTANTS
    MaxLength,      \* of the strings escaped
    MaxSize         \* of the destination buffers

ASSUME EscapingAssumption == MaxLength \in Nat /\ MaxSize \in Nat \ {0}

\* The characters the code tells apart, and one that it does not.
Char == {"TAB", "NL", "BACKSLASH", "t", "n", "0", "x"}

VARIABLES src, dst_size, escaped, unescaped

escapingVars == <<src, dst_size, escaped, unescaped>>

\* Mutant: the backslash is not escaped.
EscapeChar_no_backslash(c) ==
    CASE c = "TAB" -> <<"BACKSLASH", "t">>
      [] c = "NL" -> <<"BACKSLASH", "n">>
      [] OTHER -> <<c>>

EscapeChar(c) ==
    CASE c = "TAB" -> <<"BACKSLASH", "t">>
      [] c = "NL" -> <<"BACKSLASH", "n">>
      [] c = "BACKSLASH" -> <<"BACKSLASH", "BACKSLASH">>
      [] OTHER -> <<c>>

\* A loop: the characters read so far, and those written.
LoopStart == [read |-> 0, dst |-> <<>>]

\* One round: the loop goes on while two more characters and the NUL fit.
EscapeRound(s, size, loop) ==
    IF loop.read = Len(s) \/ Len(loop.dst) + 2 >= size THEN loop
    ELSE [read |-> loop.read + 1, dst |-> loop.dst \o EscapeChar(s[loop.read + 1])]

protocol_escape_string(s, size) ==
    LET loop[n \in 0 .. Len(s)] ==
          IF n = 0 THEN LoopStart ELSE EscapeRound(s, size, loop[n - 1])
    IN  loop[Len(s)].dst

UnescapeChar(c) ==
    CASE c = "t" -> "TAB"
      [] c = "n" -> "NL"
      [] c = "0" -> "NUL"
      [] OTHER -> c

\* A backslash at the end of the string is a character as any other.
UnescapeRound(s, size, loop) ==
    LET at == loop.read + 1
    IN  IF loop.read = Len(s) \/ Len(loop.dst) >= size - 1 THEN loop
        ELSE IF s[at] = "BACKSLASH" /\ at < Len(s)
             THEN [read |-> at + 1, dst |-> Append(loop.dst, UnescapeChar(s[at + 1]))]
             ELSE [read |-> at, dst |-> Append(loop.dst, s[at])]

protocol_unescape_string(s, size) ==
    LET loop[n \in 0 .. Len(s)] ==
          IF n = 0 THEN LoopStart ELSE UnescapeRound(s, size, loop[n - 1])
    IN  loop[Len(s)].dst

\* Any string, escaped into a buffer of any size and read back into a large one.
EscapingInit ==
    /\ src \in UNION {[1 .. n -> Char] : n \in 0 .. MaxLength}
    /\ dst_size \in 1 .. MaxSize
    /\ escaped = <<>>
    /\ unescaped = <<>>

EscapingNext ==
    /\ escaped = <<>> /\ unescaped = <<>>
    /\ escaped' = protocol_escape_string(src, dst_size)
    /\ unescaped' = protocol_unescape_string(escaped', MaxSize)
    /\ UNCHANGED <<src, dst_size>>

EscapingSpec == EscapingInit /\ [][EscapingNext]_escapingVars

EscapingTypeOK ==
    /\ src \in Seq(Char)
    /\ dst_size \in 1 .. MaxSize
    /\ escaped \in Seq(Char)
    /\ unescaped \in Seq(Char \cup {"NUL"})

\* What was escaped into a buffer that is too short still reads back as a
\* beginning of the string: no pair is cut; a buffer of twice the length and
\* one more loses nothing.
StringReadsBack ==
    escaped # <<>> =>
       /\ \E k \in 0 .. Len(src) : unescaped = SubSeq(src, 1, k)
       /\ dst_size >= 2 * Len(src) + 1 => unescaped = src

\* An escaped string fits, with its NUL, and holds no separator.
FitsClean ==
    /\ Len(escaped) < dst_size
    /\ \A i \in DOMAIN escaped : escaped[i] \notin {"TAB", "NL"}

\* What protocol_escape_string writes fits with its NUL and holds no separator;
\* it reads back as the string, or as a beginning of it if the buffer is short.
EscapesReadBack == EscapingTypeOK /\ FitsClean /\ StringReadsBack
=============================================================================
