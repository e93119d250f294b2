------------------------------ MODULE Keywords ------------------------------
(***************************************************************************)
(* The keyword lookup of src/sql/lexer.c: a binary search in a table that  *)
(* is written down by hand.  Words are numbers that stand for their place  *)
(* in alphabetical order (letter case ignored), which is all the search    *)
(* looks at.                                                               *)
(***************************************************************************)
EXTENDS Integers

CONSTANTS
    keyword_count,      \* the number of entries of the table
    keywords,           \* the table, a function from 0 .. keyword_count - 1
    Word,               \* the words of the texts
    sorted_count        \* how many entries from the start on are in order

ASSUME KeywordsAssumption ==
    /\ keyword_count \in Nat
    /\ Word \subseteq Int
    /\ keywords \in [0 .. keyword_count - 1 -> Word]
    /\ sorted_count \in 0 .. keyword_count
    /\ \A i, j \in 0 .. sorted_count - 1 : i < j => keywords[i] < keywords[j]

Index == 0 .. keyword_count - 1

\* The outcomes that are no index: TOKEN_IDENTIFIER, and the search still running.
Identifier == -1
Searching == -2

VARIABLES
    word,               \* text
    low, high,          \* the range still to search
    result              \* the entry whose type is returned

vars == <<word, low, high, result>>

Init ==
    /\ word \in Word
    /\ low = 0
    /\ high = keyword_count - 1
    /\ result = Searching

\* Mutant: the upper half is taken from mid + 2 on.
lookup_keyword_skips ==
    /\ result = Searching
    /\ LET mid == (low + high) \div 2
       IN  IF low > high THEN result' = Identifier /\ UNCHANGED <<low, high>>
           ELSE IF word = keywords[mid] THEN result' = mid /\ UNCHANGED <<low, high>>
           ELSE IF word < keywords[mid] THEN high' = mid - 1 /\ UNCHANGED <<low, result>>
           ELSE low' = mid + 2 /\ UNCHANGED <<high, result>>
    /\ UNCHANGED word

\* One round of the loop, or the return.
lookup_keyword ==
    /\ result = Searching
    /\ LET mid == (low + high) \div 2
       IN  \/ /\ low > high
              /\ result' = Identifier
              /\ UNCHANGED <<low, high>>
           \/ /\ low <= high
              /\ word = keywords[mid]
              /\ result' = mid
              /\ UNCHANGED <<low, high>>
           \/ /\ low <= high
              /\ word < keywords[mid]
              /\ high' = mid - 1
              /\ UNCHANGED <<low, result>>
           \/ /\ low <= high
              /\ word > keywords[mid]
              /\ low' = mid + 1
              /\ UNCHANGED <<high, result>>
    /\ UNCHANGED word

Spec == Init /\ [][lookup_keyword]_vars

----------------------------------------------------------------------------
(* Properties.                                                             *)

\* The range stays within the table, so that keywords[mid] is an entry of it.
TypeOK ==
    /\ word \in Word
    /\ low \in 0 .. keyword_count
    /\ high \in -1 .. keyword_count - 1
    /\ result \in Index \cup {Identifier, Searching}

\* The lookup is right for the keywords in the sorted part of the table, and no
\* word that is not a keyword becomes one.
SortedFound ==
    /\ result \in Index => keywords[result] = word
    /\ result = Identifier => \A k \in 0 .. sorted_count - 1 : keywords[k] # word

\* What a sorted table is for: each of its words is found.
EveryKeywordFound == result = Identifier => \A k \in Index : keywords[k] # word
=============================================================================
