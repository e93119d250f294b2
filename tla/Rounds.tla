------------------------------- MODULE Rounds -------------------------------
(***************************************************************************)
(* A loop as a function: the state after n rounds is that after n - 1      *)
(* rounds, put through the body once more.  The lemmas say that such a     *)
(* function exists and that it keeps what every round keeps.  The body is  *)
(* a function, not an operator, so that they can be cited for any loop.    *)
(***************************************************************************)
EXTENDS Naturals, WellFoundedInduction, TLAPS

\* Every set of natural numbers that is not empty has a least member.
LEMMA LeastNumber ==
    ASSUME NEW S, S \subseteq Nat, S # {}
    PROVE  \E n \in S : \A m \in S : n <= m
<1> DEFINE R == OpToRel(<, Nat)
<1>1. IsWellFoundedOn(R, Nat)
  BY NatLessThanWellFounded
<1>2. \A y, x \in Nat : y < x => <<y, x>> \in R
  BY DEF OpToRel
<1> HIDE DEF R
<1>3. PICK n \in S : \A y \in S : ~(<<y, n>> \in R)
  BY <1>1, WFMin, Zenon
<1>4. ASSUME NEW m \in S PROVE n <= m
  <2>1. m \in Nat /\ n \in Nat /\ ~(<<m, n>> \in R)
    BY <1>3
  <2>2. ~(m < n)
    BY <1>2, <2>1
  <2> QED
    BY <2>1, <2>2
<1> QED
  BY <1>4

\* Induction over the rounds.
LEMMA EveryRound ==
    ASSUME NEW N \in Nat, NEW T, 0 \in T, \A n \in 1 .. N : n - 1 \in T => n \in T
    PROVE  \A n \in 0 .. N : n \in T
<1> DEFINE S == {n \in 0 .. N : n \notin T}
<1> SUFFICES ASSUME S # {} PROVE FALSE
  OBVIOUS
<1>1. S \subseteq Nat
  OBVIOUS
<1> HIDE DEF S
<1>2. PICK n \in S : \A m \in S : n <= m
  BY <1>1, LeastNumber, Zenon
<1>3. n \in 0 .. N /\ n \notin T
  BY <1>2 DEF S
<1>4. n \in 1 .. N /\ n - 1 \in 0 .. N
  BY <1>3
<1>5. n - 1 \notin S
  BY <1>2, <1>4
<1> QED
  BY <1>3, <1>4, <1>5 DEF S

\* The rounds exist: body[n] is the n-th.
AreRounds(f, S, start, N, body) ==
    f \in [0 .. N -> S] /\ f[0] = start /\ \A n \in 1 .. N : f[n] = body[n][f[n - 1]]

\* There is a function that has the states of a loop as its values.
LEMMA RoundsExist ==
    ASSUME NEW S, NEW start \in S, NEW N \in Nat, NEW body \in [1 .. N -> [S -> S]]
    PROVE  \E f : AreRounds(f, S, start, N, body)
<1> DEFINE Rounds(n, f) == f[0] = start /\ \A m \in 1 .. n : f[m] = body[m][f[m - 1]]
           T == {n \in 0 .. N : \E f \in [0 .. n -> S] : Rounds(n, f)}
<1>1. 0 \in T
  <2> DEFINE g == [n \in 0 .. 0 |-> start]
  <2>1. g \in [0 .. 0 -> S] /\ Rounds(0, g) /\ 0 \in 0 .. N
    OBVIOUS
  <2> HIDE DEF g
  <2>2. \E f \in [0 .. 0 -> S] : Rounds(0, f)
    BY <2>1
  <2> QED
    BY <2>1, <2>2
<1>2. ASSUME NEW n \in 1 .. N, n - 1 \in T PROVE n \in T
  <2>1. PICK f \in [0 .. n - 1 -> S] : Rounds(n - 1, f)
    BY <1>2
  <2>2. n \in Nat /\ n - 1 \in 0 .. n - 1 /\ f[n - 1] \in S /\ n \in 0 .. N
    BY <2>1
  <2> DEFINE g == [m \in 0 .. n |-> IF m = n THEN body[n][f[n - 1]] ELSE f[m]]
  <2>3. body[n][f[n - 1]] \in S
    BY <2>2
  <2>4. ASSUME NEW m \in 0 .. n PROVE g[m] \in S
    <3>1. m = n \/ m \in 0 .. n - 1
      BY <2>2
    <3> QED
      BY <2>3, <3>1
  <2>5. g \in [0 .. n -> S]
    BY <2>4
  <2>6. g[0] = start
    BY <2>1, <2>2
  <2>7. ASSUME NEW m \in 1 .. n PROVE g[m] = body[m][g[m - 1]]
    <3>1. (m = n \/ m \in 1 .. n - 1) /\ m - 1 \in 0 .. n /\ m - 1 # n /\ m \in 0 .. n
      BY <2>2
    <3>2. g[m - 1] = f[m - 1]
      BY <3>1
    <3> QED
      BY <2>1, <3>1, <3>2
  <2> HIDE DEF g
  <2> QED
    BY <2>2, <2>5, <2>6, <2>7, Zenon
<1> HIDE DEF T
<1>3. \A n \in 0 .. N : n \in T
  BY <1>1, <1>2, EveryRound, Zenon
<1> QED
  BY <1>3 DEF T, AreRounds

\* Two loops whose bodies agree where the first one gets to are the same.
Agree(f, g, N) ==
    f[0] = g[0] /\ \A n \in 1 .. N : f[n - 1] = g[n - 1] => f[n] = g[n]

\* Two such functions are equal.
LEMMA SameRounds ==
    ASSUME NEW N \in Nat, NEW f, NEW g, Agree(f, g, N)
    PROVE  \A n \in 0 .. N : f[n] = g[n]
<1> DEFINE T == {n \in 0 .. N : f[n] = g[n]}
<1>1. 0 \in T
  BY DEF Agree
<1>2. \A n \in 1 .. N : n - 1 \in T => n \in T
  BY DEF Agree
<1> HIDE DEF T
<1>3. \A n \in 0 .. N : n \in T
  BY <1>1, <1>2, EveryRound
<1> QED
  BY <1>3 DEF T
============================================================================
