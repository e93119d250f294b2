--------------------------- MODULE ProtocolProofs ---------------------------
(***************************************************************************)
(* Proofs about the line protocol (module Protocol) and its escaping       *)
(* (Escaping), for every size of the buffer and any requests and strings:  *)
(* however the reads cut the stream, the lines returned are the requests,  *)
(* and what is escaped reads back.                                         *)
(***************************************************************************)
EXTENDS Protocol, Escaping, Rounds, SequenceTheorems

----------------------------------------------------------------------------
(* The bytes on the way.  What is in the buffer and what is still in the   *)
(* stream are one sequence d; a read only moves the border between them.   *)

\* The m-th line, of l bytes, lies between two places of d.
LaidLine(d, m, l, from, to) ==
    /\ to <= Len(d) /\ d[to] = Newline
    /\ \A i \in from + 1 .. to - 1 : d[i] = m
    /\ to - from - 1 <= l
    /\ LineFits(l) => to - from - 1 = l

\* The lines behind the k-th lie in d one after the other, each with its
\* newline: at[m] is the place of the newline of the m-th, and 0 for m = k.  A
\* line may have lost its beginning if it does not fit in the buffer.
Laid(d, k, ls, at) ==
    /\ at \in [k .. Len(ls) -> Nat] /\ at[k] = 0 /\ at[Len(ls)] = Len(d)
    /\ \A m, j \in k .. Len(ls) : m < j => at[m] < at[j]
    /\ \A m \in k + 1 .. Len(ls) : LaidLine(d, m, ls[m], at[m - 1], at[m])

\* The elements of two sequences that are joined.
LEMMA Joined ==
    ASSUME NEW x \in Seq(Nat), NEW y \in Seq(Nat)
    PROVE  /\ x \o y \in Seq(Nat) /\ Len(x \o y) = Len(x) + Len(y)
           /\ Len(x) \in Nat /\ Len(y) \in Nat
           /\ \A i \in 1 .. Len(x) : (x \o y)[i] = x[i]
           /\ \A i \in 1 .. Len(y) : (x \o y)[Len(x) + i] = y[i]
OBVIOUS

\* Cutting off the beginning of d and leaving it in the stream are the same.
LEMMA CutAhead ==
    ASSUME NEW x \in Seq(Nat), NEW y \in Seq(Nat), NEW c \in 0 .. Len(x)
    PROVE  SubSeq(x, c + 1, Len(x)) \o y = SubSeq(x \o y, c + 1, Len(x \o y))
<1> DEFINE z == x \o y
           u == SubSeq(x, c + 1, Len(x))
           v == SubSeq(z, c + 1, Len(z))
<1>1. /\ z \in Seq(Nat) /\ Len(z) = Len(x) + Len(y) /\ Len(x) \in Nat /\ Len(y) \in Nat
      /\ \A i \in 1 .. Len(x) : z[i] = x[i]
      /\ \A i \in 1 .. Len(y) : z[Len(x) + i] = y[i]
  OBVIOUS
<1> HIDE DEF z
<1>2. /\ u \in Seq(Nat) /\ Len(u) = Len(x) - c
      /\ \A i \in 1 .. Len(x) - c : u[i] = x[c + i]
  <2>1. \A i \in c + 1 .. Len(x) : x[i] \in Nat
    BY <1>1, SMTT(30)
  <2>2. c + 1 \in Int /\ Len(x) \in Int
    BY <1>1
  <2> QED
    BY <1>1, <2>1, <2>2
<1>3. /\ v \in Seq(Nat) /\ Len(v) = Len(z) - c
      /\ \A i \in 1 .. Len(z) - c : v[i] = z[c + i]
  <2>1. \A i \in c + 1 .. Len(z) : z[i] \in Nat
    BY <1>1
  <2>2. c + 1 \in Int /\ Len(z) \in Int
    BY <1>1
  <2> QED
    BY <1>1, <2>1, <2>2
<1> HIDE DEF u, v
<1> DEFINE w == u \o y
<1>4. /\ w \in Seq(Nat) /\ Len(w) = Len(u) + Len(y)
      /\ \A i \in 1 .. Len(u) : w[i] = u[i]
      /\ \A i \in 1 .. Len(y) : w[Len(u) + i] = y[i]
  BY <1>2, Joined, Zenon
<1> HIDE DEF w
<1>5. Len(w) = Len(v)
  BY <1>1, <1>2, <1>3, <1>4
<1>6. ASSUME NEW i \in 1 .. Len(w) PROVE w[i] = v[i]
  <2>1. CASE i <= Len(x) - c
    <3>1. /\ i \in 1 .. Len(u) /\ c + i \in 1 .. Len(x)
          /\ i \in 1 .. Len(x) - c
      BY <1>1, <1>2, <2>1
    <3>2. i \in 1 .. Len(z) - c
      BY <1>1, <3>1
    <3> QED
      BY <1>1, <1>2, <1>3, <1>4, <3>1, <3>2, Zenon
  <2>2. CASE i > Len(x) - c
    <3> DEFINE j == i - (Len(x) - c)
    <3>0. /\ i \in Nat /\ c \in Nat /\ i <= Len(w) /\ Len(w) = Len(u) + Len(y)
          /\ Len(u) = Len(x) - c /\ Len(x) \in Nat /\ Len(y) \in Nat
          /\ Len(z) = Len(x) + Len(y) /\ i > Len(x) - c
      <4>1. Len(w) \in Nat
        BY <1>4
      <4> QED
        BY <1>1, <1>2, <1>4, <2>2, <4>1
    <3>1. j \in 1 .. Len(y) /\ i = Len(u) + j /\ c + i = Len(x) + j /\ i \in 1 .. Len(z) - c
      BY <3>0
    <3> HIDE DEF j
    <3>2. w[i] = y[j] /\ v[i] = z[c + i] /\ z[Len(x) + j] = y[j]
      BY <1>1, <1>3, <1>4, <3>1, Zenon
    <3> QED
      BY <3>1, <3>2
  <2> QED
    BY <1>1, <2>1, <2>2
<1>7. w = v
  BY <1>3, <1>4, <1>5, <1>6, SeqEqual, Zenon
<1> QED
  BY <1>7, Zenon DEF w, v, u, z

\* Joining three sequences, from the left or from the right.
LEMMA JoinedAgain ==
    ASSUME NEW x \in Seq(Nat), NEW a \in Seq(Nat), NEW b \in Seq(Nat)
    PROVE  (x \o a) \o b = x \o (a \o b)
<1> DEFINE y == a \o b
           n == Len(a)
<1>1. n \in Nat /\ y \in Seq(Nat) /\ a \o b = y
  BY Joined
<1>5. /\ a \in Seq(Nat) /\ b \in Seq(Nat) /\ Len(a) = n /\ a \o b = y
  OBVIOUS
<1> HIDE DEF n
<1>6. (x \o a) \o b = x \o y
  <2> DEFINE p == x \o a
             q == p \o b
             r == x \o y
  <2>1. /\ p \in Seq(Nat) /\ Len(p) = Len(x) + n /\ Len(x) \in Nat /\ Len(b) \in Nat
        /\ \A i \in 1 .. Len(x) : p[i] = x[i]
        /\ \A i \in 1 .. n : p[Len(x) + i] = a[i]
    BY <1>5, Joined, Zenon
  <2>2. /\ Len(y) = n + Len(b)
        /\ \A i \in 1 .. n : y[i] = a[i]
        /\ \A i \in 1 .. Len(b) : y[n + i] = b[i]
    <3>1. /\ Len(a \o b) = Len(a) + Len(b)
          /\ \A i \in 1 .. Len(a) : (a \o b)[i] = a[i]
          /\ \A i \in 1 .. Len(b) : (a \o b)[Len(a) + i] = b[i]
      BY <1>5, Joined, Zenon
    <3> QED
      BY <1>5, <3>1, Zenon
  <2> HIDE DEF p
  <2>3. /\ q \in Seq(Nat) /\ Len(q) = Len(p) + Len(b)
        /\ \A i \in 1 .. Len(p) : q[i] = p[i]
        /\ \A i \in 1 .. Len(b) : q[Len(p) + i] = b[i]
    BY <1>5, <2>1, Joined, Zenon
  <2>4. /\ r \in Seq(Nat) /\ Len(r) = Len(x) + Len(y)
        /\ \A i \in 1 .. Len(x) : r[i] = x[i]
        /\ \A i \in 1 .. Len(y) : r[Len(x) + i] = y[i]
    BY Joined
  <2> HIDE DEF q, r
  <2>5. Len(q) = Len(r)
    BY <1>1, <2>1, <2>2, <2>3, <2>4
  <2>8. Len(q) = Len(x) + n + Len(b) /\ Len(q) \in Nat
    BY <1>1, <2>1, <2>3
  <2>6. ASSUME NEW i \in 1 .. Len(q) PROVE q[i] = r[i]
    <3>4. /\ i \in Nat /\ 1 <= i /\ i <= Len(x) + n + Len(b)
          /\ Len(x) \in Nat /\ Len(b) \in Nat /\ n \in Nat
          /\ Len(y) = n + Len(b) /\ Len(p) = Len(x) + n
      BY <1>1, <2>1, <2>2, <2>8
    <3>1. CASE i \in 1 .. Len(x)
      <4>1. i \in 1 .. Len(p)
        BY <1>1, <2>1, <3>1
      <4> QED
        BY <2>1, <2>3, <2>4, <3>1, <4>1
    <3>2. CASE i - Len(x) \in 1 .. n
      <4> DEFINE j == i - Len(x)
      <4>1. i \in 1 .. Len(p) /\ i = Len(x) + j /\ j \in 1 .. Len(y) /\ j \in 1 .. n
        BY <3>2, <3>4
      <4> HIDE DEF j
      <4> QED
        BY <2>1, <2>2, <2>3, <2>4, <4>1, ZenonT(30)
    <3>3. CASE i - Len(p) \in 1 .. Len(b)
      <4> DEFINE j == i - Len(p)
      <4>1. /\ i = Len(p) + j /\ i = Len(x) + (n + j) /\ n + j \in 1 .. Len(y)
            /\ j \in 1 .. Len(b)
        BY <3>3, <3>4
      <4> HIDE DEF j
      <4>2. q[i] = b[j] /\ r[Len(x) + (n + j)] = y[n + j] /\ y[n + j] = b[j]
        BY <2>2, <2>3, <2>4, <4>1, Zenon
      <4> QED
        BY <4>1, <4>2
    <3> QED
      <4>1. i \in 1 .. Len(x) \/ i - Len(x) \in 1 .. n \/ i - (Len(x) + n) \in 1 .. Len(b)
        BY <3>4
      <4> QED
        BY <3>1, <3>2, <3>3, <3>4, <4>1
  <2>7. q = r
    BY <2>3, <2>4, <2>5, <2>6, SeqEqual, Zenon
  <2> QED
    BY <2>7 DEF p, q, r
<1> QED
  BY <1>6

\* A read of n bytes moves the border.
LEMMA MoveBorder ==
    ASSUME NEW x \in Seq(Nat), NEW y \in Seq(Nat), NEW n \in 1 .. Len(y)
    PROVE  /\ x \o SubSeq(y, 1, n) \in Seq(Nat)
           /\ SubSeq(y, n + 1, Len(y)) \in Seq(Nat)
           /\ Len(x \o SubSeq(y, 1, n)) = Len(x) + n
           /\ (x \o SubSeq(y, 1, n)) \o SubSeq(y, n + 1, Len(y)) = x \o y
<1>1. Len(y) \in Nat /\ n \in Nat /\ n <= Len(y)
  OBVIOUS
<1>2. SubSeq(y, 1, n) \in Seq(Nat) /\ Len(SubSeq(y, 1, n)) = n
  BY <1>1
<1>3. SubSeq(y, n + 1, Len(y)) \in Seq(Nat)
  BY <1>1
<1>4. SubSeq(y, 1, n) \o SubSeq(y, n + 1, Len(y)) = y
  BY <1>1, ConcatAdjacentSubSeq, SubSeqFull
<1> DEFINE a == SubSeq(y, 1, n)
           b == SubSeq(y, n + 1, Len(y))
<1> HIDE DEF a, b
<1>5. a \in Seq(Nat) /\ b \in Seq(Nat) /\ Len(a) = n /\ a \o b = y
  BY <1>2, <1>3, <1>4, SMTT(30) DEF a, b
<1>6. (x \o a) \o b = x \o (a \o b)
  BY <1>5, JoinedAgain, ZenonT(30)
<1>7. x \o a \in Seq(Nat) /\ Len(x \o a) = Len(x) + n
  BY <1>5, Joined, Zenon
<1> QED
  BY <1>5, <1>6, <1>7, Zenon DEF a, b

\* What is left of d.
LEMMA Rest ==
    ASSUME NEW d \in Seq(Nat), NEW c \in 0 .. Len(d)
    PROVE  /\ SubSeq(d, c + 1, Len(d)) \in Seq(Nat)
           /\ Len(SubSeq(d, c + 1, Len(d))) = Len(d) - c
           /\ \A i \in 1 .. Len(d) - c : SubSeq(d, c + 1, Len(d))[i] = d[c + i]
<1>1. Len(d) \in Nat
  OBVIOUS
<1>2. \A i \in c + 1 .. Len(d) : d[i] \in Nat
  BY <1>1
<1>3. c + 1 \in Int /\ Len(d) \in Int
  BY <1>1
<1> QED
  BY <1>1, <1>2, <1>3

\* A line behind the cut stays as it is.
LEMMA LineMoved ==
    ASSUME NEW d \in Seq(Nat), NEW c \in 0 .. Len(d), NEW m, NEW l \in Nat,
           NEW from \in Nat, NEW to \in Nat, c <= from, from < to,
           LaidLine(d, m, l, from, to)
    PROVE  LaidLine(SubSeq(d, c + 1, Len(d)), m, l, from - c, to - c)
<1> DEFINE e == SubSeq(d, c + 1, Len(d))
           n == Len(d)
<1>1. Len(e) = n - c /\ \A i \in 1 .. n - c : e[i] = d[c + i]
  BY Rest
<1>2. n \in Nat /\ c \in Nat /\ c <= n
  OBVIOUS
<1>3. to <= n /\ d[to] = Newline /\ \A i \in from + 1 .. to - 1 : d[i] = m
  BY DEF LaidLine
<1>4. to - from - 1 <= l /\ (LineFits(l) => to - from - 1 = l)
  BY DEF LaidLine
<1> HIDE DEF e, n
<1>5. to - c <= Len(e) /\ to - c \in 1 .. n - c
  BY <1>1, <1>2, <1>3
<1>6. c + (to - c) = to
  BY <1>2
<1>7. e[to - c] = Newline
  BY <1>1, <1>3, <1>5, <1>6
<1>8. ASSUME NEW i \in from - c + 1 .. to - c - 1 PROVE e[i] = m
  <2>1. i \in 1 .. n - c /\ c + i \in from + 1 .. to - 1
    BY <1>2, <1>3
  <2> QED
    BY <1>1, <1>3, <2>1, Zenon
<1>9. (to - c) - (from - c) - 1 = to - from - 1
  BY <1>2
<1>10. LaidLine(e, m, l, from - c, to - c)
  BY <1>4, <1>5, <1>7, <1>8, <1>9 DEF LaidLine
<1> QED
  BY <1>10 DEF e, n

\* The first line is returned with its newline.
LEMMA LaidReturned ==
    ASSUME NEW d \in Seq(Nat), NEW ls \in Seq(Nat), NEW k \in Nat, k < Len(ls),
           NEW at, Laid(d, k, ls, at)
    PROVE  /\ at[k + 1] \in 1 .. Len(d)
           /\ Laid(SubSeq(d, at[k + 1] + 1, Len(d)), k + 1, ls,
                   [m \in k + 1 .. Len(ls) |-> at[m] - at[k + 1]])
<1> DEFINE L == Len(ls)
           c == at[k + 1]
           e == SubSeq(d, c + 1, Len(d))
           to == [m \in k + 1 .. L |-> at[m] - c]
<1>1. L \in Nat /\ k + 1 \in k .. L /\ k \in k .. L /\ L \in k .. L /\ L \in k + 1 .. L
      /\ k + 1 \in k + 1 .. L /\ Len(d) \in Nat
  OBVIOUS
<1>2. /\ at \in [k .. L -> Nat] /\ at[k] = 0 /\ at[L] = Len(d)
      /\ \A m, j \in k .. L : m < j => at[m] < at[j]
      /\ \A m \in k + 1 .. L : LaidLine(d, m, ls[m], at[m - 1], at[m])
  BY DEF Laid
<1>3. c \in Nat /\ 0 < c
  <2>1. k < k + 1
    OBVIOUS
  <2>2. at[k] < at[k + 1]
    BY <1>1, <1>2, <2>1
  <2>3. at[k + 1] \in Nat
    BY <1>1, <1>2, Zenon
  <2> QED
    BY <1>2, <2>2, <2>3
<1>4. c <= Len(d)
  BY <1>1, <1>2 DEF LaidLine
<1>5. c \in 0 .. Len(d) /\ Len(e) = Len(d) - c
  <2> HIDE DEF c
  <2>1. c \in 0 .. Len(d)
    BY <1>1, <1>3, <1>4
  <2> QED
    BY <2>1, Rest
<1> HIDE DEF L, c, e
<1>6. ASSUME NEW m \in k + 1 .. L PROVE at[m] \in Nat /\ c <= at[m] /\ m \in k .. L
  <2>1. m \in k .. L /\ (m = k + 1 \/ k + 1 < m)
    BY <1>1
  <2>2. at[m] \in Nat /\ (m = k + 1 \/ at[k + 1] < at[m])
    BY <1>1, <1>2, <2>1
  <2> QED
    BY <1>3, <2>1, <2>2 DEF c
<1>7. to \in [k + 1 .. L -> Nat] /\ to[k + 1] = 0 /\ to[L] = Len(e)
  <2>1. \A m \in k + 1 .. L : at[m] - c \in Nat
    BY <1>3, <1>6
  <2>2. at[k + 1] - c = 0 /\ at[L] - c = Len(e)
    BY <1>2, <1>3, <1>5 DEF c
  <2> QED
    BY <1>1, <2>1, <2>2
<1>8. ASSUME NEW m \in k + 1 .. L, NEW j \in k + 1 .. L, m < j PROVE to[m] < to[j]
  <2>1. at[m] < at[j] /\ at[m] \in Nat /\ at[j] \in Nat
    BY <1>2, <1>6, <1>8
  <2> QED
    BY <1>3, <2>1
<1>9. ASSUME NEW m \in k + 1 + 1 .. L PROVE LaidLine(e, m, ls[m], to[m - 1], to[m])
  <2>1. m \in k + 1 .. L /\ m - 1 \in k + 1 .. L /\ m - 1 < m /\ m \in 1 .. L
    BY <1>1
  <2>2. /\ at[m] \in Nat /\ at[m - 1] \in Nat /\ c <= at[m - 1] /\ at[m - 1] < at[m]
        /\ ls[m] \in Nat
    BY <1>2, <1>6, <2>1, SMTT(30) DEF L
  <2>3. LaidLine(d, m, ls[m], at[m - 1], at[m])
    BY <1>2, <2>1
  <2>4. LaidLine(e, m, ls[m], at[m - 1] - c, at[m] - c)
    BY <1>5, <2>2, <2>3, LineMoved, SMTT(30) DEF e
  <2> QED
    BY <2>1, <2>4
<1>10. Laid(e, k + 1, ls, to)
  <2> HIDE DEF to
  <2> QED
    BY <1>7, <1>8, <1>9 DEF Laid, L
<1>11. c \in 1 .. Len(d)
  BY <1>1, <1>3, <1>4
<1> QED
  BY <1>10, <1>11 DEF e, c, L

\* The beginning of a line that does not fit is thrown away.
LEMMA LaidThrown ==
    ASSUME NEW d \in Seq(Nat), NEW ls \in Seq(Nat), NEW k \in Nat, k < Len(ls),
           NEW at, Laid(d, k, ls, at), NEW c \in 0 .. at[k + 1] - 1, ~LineFits(ls[k + 1])
    PROVE  Laid(SubSeq(d, c + 1, Len(d)), k, ls,
                [m \in k .. Len(ls) |-> IF m = k THEN 0 ELSE at[m] - c])
<1> DEFINE L == Len(ls)
           e == SubSeq(d, c + 1, Len(d))
           to == [m \in k .. L |-> IF m = k THEN 0 ELSE at[m] - c]
<1>1. L \in Nat /\ k + 1 \in k .. L /\ k \in k .. L /\ L \in k .. L /\ L \in k + 1 .. L
      /\ k + 1 \in k + 1 .. L /\ Len(d) \in Nat /\ k + 1 \in 1 .. L
  OBVIOUS
<1>2. /\ at \in [k .. L -> Nat] /\ at[k] = 0 /\ at[L] = Len(d)
      /\ \A m, j \in k .. L : m < j => at[m] < at[j]
      /\ \A m \in k + 1 .. L : LaidLine(d, m, ls[m], at[m - 1], at[m])
  BY DEF Laid
<1>3. at[k + 1] \in Nat /\ c \in Nat /\ c < at[k + 1]
  BY <1>1, <1>2, SMTT(30)
<1>4. LaidLine(d, k + 1, ls[k + 1], 0, at[k + 1])
  BY <1>1, <1>2
<1>5. c \in 0 .. Len(d) /\ Len(e) = Len(d) - c
  <2>1. at[k + 1] <= Len(d)
    BY <1>4 DEF LaidLine
  <2>2. c \in 0 .. Len(d)
    BY <1>1, <1>3, <2>1
  <2> QED
    BY <2>2, Rest
<1> HIDE DEF L, e
<1>6. ASSUME NEW m \in k + 1 .. L PROVE at[m] \in Nat /\ c < at[m] /\ m \in k .. L /\ m # k
  <2>1. m \in k .. L /\ (m = k + 1 \/ k + 1 < m) /\ m # k
    BY <1>1
  <2>2. at[m] \in Nat /\ (m = k + 1 \/ at[k + 1] < at[m])
    BY <1>1, <1>2, <2>1, SMTT(30)
  <2> QED
    BY <1>3, <2>1, <2>2
<1>7. to[k] = 0 /\ \A m \in k + 1 .. L : to[m] = at[m] - c
  BY <1>1, <1>6
<1>8. to \in [k .. L -> Nat] /\ to[L] = Len(e)
  <2>1. \A m \in k .. L : m = k \/ m \in k + 1 .. L
    BY <1>1
  <2>2. \A m \in k + 1 .. L : at[m] - c \in Nat
    BY <1>3, <1>6
  <2>3. at[L] - c = Len(e)
    BY <1>2, <1>3, <1>5
  <2> QED
    BY <1>1, <1>7, <2>1, <2>2, <2>3
<1>9. ASSUME NEW m \in k .. L, NEW j \in k .. L, m < j PROVE to[m] < to[j]
  <2>1. j \in k + 1 .. L /\ (m = k \/ m \in k + 1 .. L)
    BY <1>1, <1>9
  <2>2. at[m] < at[j] /\ at[j] \in Nat /\ c < at[j] /\ to[j] = at[j] - c
    BY <1>2, <1>6, <1>7, <1>9, <2>1
  <2>3. CASE m = k
    BY <1>3, <1>7, <2>2, <2>3
  <2>4. CASE m \in k + 1 .. L
    <3>1. at[m] \in Nat /\ to[m] = at[m] - c
      BY <1>6, <1>7, <2>4
    <3> QED
      BY <1>3, <2>2, <3>1
  <2> QED
    BY <2>1, <2>3, <2>4
<1>10. ASSUME NEW m \in k + 1 .. L PROVE LaidLine(e, m, ls[m], to[m - 1], to[m])
  <2>1. CASE m = k + 1
    <3> DEFINE n == at[k + 1]
    <3>1. /\ n <= Len(d) /\ d[n] = Newline /\ \A i \in 1 .. n - 1 : d[i] = k + 1
          /\ n - 1 <= ls[k + 1] /\ n \in Nat /\ c < n /\ ls[k + 1] \in Nat
      <4>1. 0 + 1 = 1 /\ n - 0 - 1 = n - 1 /\ ls[k + 1] \in Nat /\ n \in Nat
        BY <1>1, <1>3, SMTT(30) DEF L
      <4> QED
        BY <1>3, <1>4, <4>1 DEF LaidLine
    <3>2. \A i \in 1 .. Len(d) - c : e[i] = d[c + i]
      BY <1>5, Rest DEF e
    <3> HIDE DEF n
    <3>3. n - c <= Len(e) /\ n - c \in 1 .. Len(d) - c /\ c + (n - c) = n
      BY <1>1, <1>3, <1>5, <3>1
    <3>4. e[n - c] = Newline
      BY <3>1, <3>2, <3>3, Zenon
    <3>5. ASSUME NEW i \in 0 + 1 .. n - c - 1 PROVE e[i] = k + 1
      <4>1. i \in 1 .. Len(d) - c /\ c + i \in 1 .. n - 1
        BY <1>1, <1>3, <3>1
      <4> QED
        BY <3>1, <3>2, <4>1
    <3>6. n - c - 0 - 1 <= ls[k + 1]
      BY <1>3, <3>1, SMTT(30)
    <3>7. LaidLine(e, k + 1, ls[k + 1], 0, n - c)
      BY <3>3, <3>4, <3>5, <3>6 DEF LaidLine
    <3>8. to[m - 1] = 0 /\ to[m] = n - c
      BY <1>1, <1>7, <2>1 DEF n
    <3> QED
      BY <2>1, <3>7, <3>8
  <2>2. CASE m # k + 1
    <3>1. m - 1 \in k + 1 .. L /\ m - 1 < m /\ m \in 1 .. L /\ m - 1 \in k .. L /\ m \in k .. L
      BY <1>1, <2>2
    <3>5. at[m] \in Nat /\ at[m - 1] \in Nat /\ c < at[m - 1] /\ at[m - 1] < at[m]
      BY <1>2, <1>6, <3>1
    <3>2. /\ at[m] \in Nat /\ at[m - 1] \in Nat /\ c <= at[m - 1] /\ at[m - 1] < at[m]
          /\ ls[m] \in Nat
      <4>1. ls[m] \in Nat
        BY <3>1 DEF L
      <4> QED
        BY <1>3, <3>5, <4>1
    <3>3. LaidLine(d, m, ls[m], at[m - 1], at[m])
      BY <1>2
    <3>4. LaidLine(e, m, ls[m], at[m - 1] - c, at[m] - c)
      BY <1>5, <3>2, <3>3, LineMoved, SMTT(30) DEF e
    <3> QED
      BY <1>7, <3>1, <3>4
  <2> QED
    BY <2>1, <2>2
<1>11. Laid(e, k, ls, to)
  <2> HIDE DEF to
  <2> QED
    BY <1>7, <1>8, <1>9, <1>10 DEF Laid, L
<1> QED
  BY <1>11 DEF e, L

\* A request goes behind the others, with its newline.
LEMMA LaidSent ==
    ASSUME NEW d \in Seq(Nat), NEW ls \in Seq(Nat), NEW k \in 0 .. Len(ls),
           NEW at, Laid(d, k, ls, at), NEW l \in Nat
    PROVE  \E to : Laid(d \o Append(LineOf(Len(ls) + 1, l), Newline), k, Append(ls, l), to)
<1> DEFINE L == Len(ls)
           n == Len(d)
           line == Append(LineOf(L + 1, l), Newline)
           e == d \o line
           ls2 == Append(ls, l)
           to == [m \in k .. L + 1 |-> IF m = L + 1 THEN n + l + 1 ELSE at[m]]
<1>1. L \in Nat /\ k \in Nat /\ k <= L /\ n \in Nat
  OBVIOUS
<1>2. /\ at \in [k .. L -> Nat] /\ at[k] = 0 /\ at[L] = n
      /\ \A m, j \in k .. L : m < j => at[m] < at[j]
      /\ \A m \in k + 1 .. L : LaidLine(d, m, ls[m], at[m - 1], at[m])
  BY DEF Laid
<1>3. /\ line \in Seq(Nat) /\ Len(line) = l + 1 /\ line[l + 1] = Newline
      /\ \A i \in 1 .. l : line[i] = L + 1
  <2> DEFINE bytes == LineOf(L + 1, l)
  <2>1. bytes \in Seq(Nat) /\ Len(bytes) = l /\ \A i \in 1 .. l : bytes[i] = L + 1
    <3>1. L + 1 \in Nat
      BY <1>1
    <3> HIDE DEF L
    <3> QED
      BY <3>1 DEF LineOf
  <2> HIDE DEF bytes
  <2>2. Newline \in Nat
    BY DEF Newline
  <2> QED
    BY <2>1, <2>2 DEF bytes
<1> HIDE DEF line
<1>4. /\ e \in Seq(Nat) /\ Len(e) = n + (l + 1)
      /\ \A i \in 1 .. n : e[i] = d[i]
      /\ \A i \in 1 .. l + 1 : e[n + i] = line[i]
  <2>1. /\ e \in Seq(Nat) /\ Len(e) = Len(d) + Len(line)
        /\ \A i \in 1 .. Len(d) : e[i] = d[i]
        /\ \A i \in 1 .. Len(line) : e[Len(d) + i] = line[i]
    BY <1>3, Joined, Zenon
  <2> QED
    BY <1>3, <2>1
<1>5. /\ ls2 \in Seq(Nat) /\ Len(ls2) = L + 1 /\ ls2[L + 1] = l
      /\ \A m \in 1 .. L : ls2[m] = ls[m]
  OBVIOUS
<1> HIDE DEF L, n, e, ls2
<1>6. to[L + 1] = n + l + 1 /\ \A m \in k .. L : to[m] = at[m]
  <2>1. L + 1 \in k .. L + 1 /\ \A m \in k .. L : m \in k .. L + 1 /\ m # L + 1
    BY <1>1
  <2> QED
    BY <2>1
<1>7. to \in [k .. L + 1 -> Nat] /\ to[k] = 0
  <2>1. \A m \in k .. L + 1 : m = L + 1 \/ m \in k .. L
    BY <1>1
  <2>2. n + l + 1 \in Nat /\ k \in k .. L
    BY <1>1
  <2> QED
    BY <1>2, <1>6, <2>1, <2>2, Zenon
<1>8. to[L + 1] = Len(e)
  BY <1>1, <1>4, <1>6
<1>9. \A m \in k .. L : at[m] \in Nat /\ at[m] <= n
  <2> SUFFICES ASSUME NEW m \in k .. L PROVE at[m] \in Nat /\ at[m] <= n
    OBVIOUS
  <2>1. L \in k .. L /\ (m = L \/ m < L)
    BY <1>1
  <2>2. at[m] \in Nat /\ (m = L \/ at[m] < at[L])
    BY <1>2, <2>1
  <2> QED
    BY <1>1, <1>2, <2>2
<1> HIDE DEF to
<1>10. ASSUME NEW m \in k .. L + 1, NEW j \in k .. L + 1, m < j PROVE to[m] < to[j]
  <2>1. m \in k .. L /\ (j = L + 1 \/ j \in k .. L)
    BY <1>1, <1>10
  <2>2. CASE j = L + 1
    <3>1. to[m] = at[m] /\ at[m] \in Nat /\ at[m] <= n
      BY <1>6, <1>9, <2>1
    <3> QED
      BY <1>1, <1>6, <2>2, <3>1
  <2>3. CASE j \in k .. L
    BY <1>2, <1>6, <1>10, <2>1, <2>3
  <2> QED
    BY <2>1, <2>2, <2>3
<1>11. ASSUME NEW m \in k + 1 .. L + 1 PROVE LaidLine(e, m, ls2[m], to[m - 1], to[m])
  <2>1. CASE m = L + 1
    <3>1. to[m - 1] = n /\ to[m] = n + l + 1 /\ ls2[m] = l
      <4>1. L \in k .. L /\ m - 1 = L
        BY <1>1, <2>1
      <4> QED
        BY <1>2, <1>5, <1>6, <2>1, <4>1, SMTT(30)
    <3> DEFINE g == n + l + 1
    <3>2. g <= Len(e) /\ g = n + (l + 1) /\ l + 1 \in 1 .. l + 1
      BY <1>1, <1>4
    <3>3. e[g] = Newline
      BY <1>3, <1>4, <3>2
    <3>4. ASSUME NEW i \in n + 1 .. g - 1 PROVE e[i] = L + 1
      <4> DEFINE j == i - n
      <4>1. j \in 1 .. l + 1 /\ j \in 1 .. l /\ i = n + j
        BY <1>1
      <4> HIDE DEF j
      <4> QED
        BY <1>3, <1>4, <4>1
    <3>5. g - n - 1 = l /\ l <= l
      BY <1>1
    <3> HIDE DEF g
    <3>7. g <= Len(e) /\ e[g] = Newline /\ \A i \in n + 1 .. g - 1 : e[i] = L + 1
      BY <3>2, <3>3, <3>4
    <3>8. LaidLine(e, L + 1, l, n, g)
      BY <3>5, <3>7 DEF LaidLine
    <3>6. LaidLine(e, L + 1, l, n, n + l + 1)
      BY <3>8 DEF g
    <3> QED
      BY <2>1, <3>1, <3>6
  <2>2. CASE m # L + 1
    <3>1. m \in k + 1 .. L /\ m \in k .. L /\ m - 1 \in k .. L /\ m \in 1 .. L /\ m - 1 < m
      BY <1>1, <2>2
    <3> DEFINE f == at[m - 1]
               g == at[m]
    <3>2. to[m - 1] = f /\ to[m] = g /\ ls2[m] = ls[m] /\ f \in Nat /\ g \in Nat /\ f < g
      BY <1>2, <1>5, <1>6, <1>9, <3>1
    <3>3. LaidLine(d, m, ls[m], f, g)
      BY <1>2, <3>1
    <3> HIDE DEF f, g
    <3>4. g \in 1 .. n /\ g <= Len(e)
      BY <1>1, <1>4, <3>2, <3>3 DEF LaidLine, n
    <3>5. e[g] = Newline
      BY <1>4, <3>3, <3>4 DEF LaidLine
    <3>6. ASSUME NEW i \in f + 1 .. g - 1 PROVE e[i] = m
      <4>1. i \in 1 .. n
        BY <1>1, <3>2, <3>4
      <4> QED
        BY <1>4, <3>3, <4>1, Zenon DEF LaidLine
    <3>7. LaidLine(e, m, ls[m], f, g)
      BY <3>3, <3>4, <3>5, <3>6 DEF LaidLine
    <3> QED
      BY <3>2, <3>7
  <2> QED
    BY <2>1, <2>2
<1>12. Laid(e, k, ls2, to)
  BY <1>5, <1>7, <1>8, <1>10, <1>11 DEF Laid
<1> QED
  BY <1>12 DEF e, ls2, n, L, line

\* The first newline in the buffer is that of the first line, if it is there.
LEMMA NewlineFound ==
    ASSUME NEW d \in Seq(Nat), NEW ls \in Seq(Nat), NEW k \in Nat, k < Len(ls),
           NEW at, Laid(d, k, ls, at),
           NEW x \in Seq(Nat), NEW y \in Seq(Nat), d = x \o y
    PROVE  FirstNewline(x) = IF at[k + 1] <= Len(x) THEN at[k + 1] ELSE 0
<1> DEFINE c == at[k + 1]
           n == Len(x)
<1>1. n \in Nat /\ \A i \in 1 .. n : x[i] = d[i]
  BY Joined
<1>2. c \in 1 .. Len(d)
  BY LaidReturned, Zenon
<1>3. d[c] = Newline /\ \A i \in 1 .. c - 1 : d[i] = k + 1
  <2>1. k + 1 \in k + 1 .. Len(ls) /\ k + 1 - 1 = k
    OBVIOUS
  <2>2. LaidLine(d, k + 1, ls[k + 1], 0, c)
    BY <2>1 DEF Laid
  <2>3. 0 + 1 = 1
    OBVIOUS
  <2> QED
    BY <2>2, <2>3, Zenon DEF LaidLine
<1>4. k + 1 # Newline
  BY DEF Newline
<1>5. c \in Nat /\ 1 <= c
  BY <1>2
<1> HIDE DEF c, n
<1>6. CASE c <= n
  <2>1. c \in 1 .. n
    BY <1>1, <1>5, <1>6
  <2>2. \A j \in 1 .. c - 1 : j \in 1 .. n /\ x[j] # Newline
    <3> SUFFICES ASSUME NEW j \in 1 .. c - 1 PROVE j \in 1 .. n /\ x[j] # Newline
      OBVIOUS
    <3>1. j \in 1 .. n
      BY <1>1, <1>5, <1>6
    <3> QED
      BY <1>1, <1>3, <1>4, <3>1, Zenon
  <2>3. x[c] = Newline
    BY <1>1, <1>3, <2>1, Zenon
  <2>4. ASSUME NEW i \in 1 .. n, x[i] = Newline, \A j \in 1 .. i - 1 : x[j] # Newline
        PROVE  i = c
    <3>1. ~(i \in 1 .. c - 1)
      BY <2>2, <2>4
    <3>2. ~(c \in 1 .. i - 1)
      BY <2>3, <2>4, SMTT(30)
    <3> QED
      BY <1>1, <1>5, <3>1, <3>2
  <2>5. (CHOOSE i \in 1 .. n : x[i] = Newline /\ \A j \in 1 .. i - 1 : x[j] # Newline) = c
    BY <2>1, <2>2, <2>3, <2>4
  <2>6. FirstNewline(x) = c
    BY <2>1, <2>3, <2>5 DEF FirstNewline, n
  <2> QED
    BY <1>6, <2>6 DEF c, n
<1>7. CASE ~(c <= n)
  <2>1. \A i \in 1 .. n : x[i] # Newline
    <3> SUFFICES ASSUME NEW i \in 1 .. n PROVE x[i] # Newline
      OBVIOUS
    <3>1. i \in 1 .. c - 1
      BY <1>1, <1>5, <1>7
    <3> QED
      BY <1>1, <1>3, <1>4, <3>1, Zenon
  <2>2. FirstNewline(x) = 0
    BY <2>1 DEF FirstNewline, n
  <2> QED
    BY <1>7, <2>2 DEF c, n
<1> QED
  BY <1>6, <1>7
----------------------------------------------------------------------------
(* Requests.                                                               *)

\* The lines returned, and those on the way behind them.
LinesInv ==
    /\ buffer \in Seq(Nat) /\ incoming \in Seq(Nat)
    /\ lengths \in Seq(Lengths) /\ returned \in Seq(Seq(Nat))
    /\ ended \in BOOLEAN /\ result \in {-1, 0, 1}
    /\ Len(buffer) < BufferSize - 1
    /\ LinesIntact /\ Len(returned) <= Len(lengths)
    /\ \E at : Laid(buffer \o incoming, Len(returned), lengths, at)

\* Lengths of requests are numbers.
LEMMA LengthsAreNat == \A ls \in Seq(Lengths) : ls \in Seq(Nat)
BY ProtocolAssumption, SeqMonotonic, Zenon

\* At the start nothing is under way.
LEMMA LinesInit == protocol_init => LinesInv
<1> SUFFICES ASSUME protocol_init PROVE LinesInv
  OBVIOUS
<1>1. /\ Len(<<>>) = 0 /\ <<>> \o <<>> = <<>> /\ 0 + 1 .. 0 = {} /\ DOMAIN <<>> = {}
      /\ 0 .. 0 = {0}
  OBVIOUS
<1>2. incoming = <<>> /\ buffer = <<>> /\ returned = <<>> /\ lengths = <<>>
  BY DEF protocol_init
<1> DEFINE at == [m \in 0 .. 0 |-> 0]
<1>3. Laid(<<>>, 0, <<>>, at)
  BY <1>1 DEF Laid
<1>4. \E a : Laid(buffer \o incoming, Len(returned), lengths, a)
  BY <1>1, <1>2, <1>3
<1>5. 0 < BufferSize - 1
  BY ProtocolAssumption
<1>6. /\ <<>> \in Seq(Nat) /\ <<>> \in Seq(Lengths) /\ <<>> \in Seq(Seq(Nat))
  OBVIOUS
<1>7. ended \in BOOLEAN /\ result \in {-1, 0, 1}
  BY Zenon DEF protocol_init
<1>8. LinesIntact
  BY <1>1, <1>2 DEF LinesIntact
<1>9. Len(returned) <= Len(lengths)
  BY <1>1, <1>2
<1> QED
  BY <1>1, <1>2, <1>4, <1>5, <1>6, <1>7, <1>8, <1>9 DEF LinesInv

\* A request that the peer sends is laid behind the others.
LEMMA SendLines ==
    ASSUME LinesInv, NEW length \in Lengths, peer_send(length)
    PROVE  LinesInv'
<1> DEFINE line == Append(LineOf(Len(lengths) + 1, length), Newline)
           k == Len(returned)
<1>1. /\ buffer \in Seq(Nat) /\ incoming \in Seq(Nat)
      /\ lengths \in Seq(Lengths) /\ lengths \in Seq(Nat) /\ returned \in Seq(Seq(Nat))
      /\ length \in Nat
  BY LengthsAreNat, ProtocolAssumption DEF LinesInv
<1>2. /\ lengths' = Append(lengths, length) /\ incoming' = incoming \o line
      /\ UNCHANGED <<ended, buffer, result, returned>>
  BY DEF peer_send
<1>3. line \in Seq(Nat)
  <2> DEFINE bytes == LineOf(Len(lengths) + 1, length)
  <2>1. Len(lengths) + 1 \in Nat
    BY <1>1
  <2>2. bytes \in Seq(Nat)
    BY <1>1, <2>1 DEF LineOf
  <2> HIDE DEF bytes
  <2>3. Newline \in Nat
    BY DEF Newline
  <2> QED
    BY <2>2, <2>3, AppendProperties DEF bytes
<1>4. k \in 0 .. Len(lengths)
  BY <1>1 DEF LinesInv
<1>5. PICK at : Laid(buffer \o incoming, k, lengths, at)
  BY DEF LinesInv
<1>6. PICK to : Laid((buffer \o incoming) \o line, k, Append(lengths, length), to)
  <2>1. buffer \o incoming \in Seq(Nat)
    BY <1>1, Joined
  <2> QED
    BY <1>1, <1>4, <1>5, <2>1, LaidSent, Zenon
<1> HIDE DEF line
<1>7. (buffer \o incoming) \o line = buffer \o incoming'
  BY <1>1, <1>2, <1>3, JoinedAgain, Zenon
<1>8. \E a : Laid(buffer' \o incoming', Len(returned'), lengths', a)
  BY <1>2, <1>6, <1>7
<1>9. incoming' \in Seq(Nat) /\ lengths' \in Seq(Lengths) /\ Len(lengths') = Len(lengths) + 1
  BY <1>1, <1>2, <1>3
<1>10. \A i \in 1 .. Len(lengths) : lengths'[i] = lengths[i]
  BY <1>1, <1>2
<1>11. Len(returned) <= Len(lengths')
  BY <1>1, <1>4, <1>9
<1>12. LinesIntact'
  <2> SUFFICES ASSUME NEW j \in DOMAIN returned
               PROVE  /\ j <= Len(lengths')
                      /\ returned[j] = LineOf(j, Len(returned[j]))
                      /\ Len(returned[j]) <= lengths'[j]
                      /\ LineFits(lengths'[j]) => Len(returned[j]) = lengths'[j]
    BY <1>2, Zenon DEF LinesIntact, LineOf, LineFits
  <2>1. j \in 1 .. Len(lengths) /\ j <= Len(lengths')
    BY <1>1, <1>4, <1>9, SMTT(30)
  <2> QED
    BY <1>10, <2>1, SMTT(30) DEF LinesInv, LinesIntact
<1> QED
  BY <1>1, <1>2, <1>8, <1>9, <1>11, <1>12 DEF LinesInv

\* A read returns the first line laid, keeps what it has of it, or throws it
\* away.
LEMMA ReadLines == LinesInv /\ protocol_read_request => LinesInv'
<1> SUFFICES ASSUME LinesInv, protocol_read_request PROVE LinesInv'
  OBVIOUS
<1> DEFINE k == Len(returned)
           L == Len(lengths)
           d == buffer \o incoming
<1>1. /\ buffer \in Seq(Nat) /\ incoming \in Seq(Nat)
      /\ lengths \in Seq(Lengths) /\ lengths \in Seq(Nat) /\ returned \in Seq(Seq(Nat))
      /\ k \in Nat /\ L \in Nat /\ k <= L
  BY LengthsAreNat DEF LinesInv
<1>2. UNCHANGED <<ended, lengths>>
  BY DEF protocol_read_request
<1>3. CASE result' = 0 /\ UNCHANGED <<incoming, buffer, returned>>
  BY <1>2, <1>3 DEF LinesInv, LinesIntact, LineOf, LineFits
<1>4. ASSUME NEW n \in 1 .. BufferSize - Len(buffer) - 1, n <= Len(incoming),
             incoming' = SubSeq(incoming, n + 1, Len(incoming)),
             LET data == buffer \o SubSeq(incoming, 1, n)
                 newline == FirstNewline(data)
             IN  IF newline > 0
                 THEN /\ returned' = Append(returned, SubSeq(data, 1, newline - 1))
                      /\ buffer' = Remaining(data)
                      /\ result' = 1
                 ELSE /\ buffer' = IF TooLarge(data) THEN <<>> ELSE data
                      /\ result' = -1
                      /\ UNCHANGED returned
      PROVE  LinesInv'
  <2> DEFINE data == buffer \o SubSeq(incoming, 1, n)
             rest == SubSeq(incoming, n + 1, Len(incoming))
             N == Len(data)
             newline == FirstNewline(data)
  <2>1. n \in 1 .. Len(incoming)
    BY <1>1, <1>4
  <2>2. data \in Seq(Nat) /\ rest \in Seq(Nat) /\ N = Len(buffer) + n /\ data \o rest = d
    BY <1>1, <2>1, MoveBorder, Zenon
  <2>3. /\ N \in Nat /\ N <= BufferSize - 1 /\ N >= 1
        /\ Len(d) = N + Len(rest) /\ Len(rest) \in Nat /\ Len(d) # 0
    <3>1. Len(d) = N + Len(rest) /\ Len(rest) \in Nat
      BY <2>2, Joined, Zenon
    <3>2. Len(buffer) \in Nat /\ BufferSize \in Nat
      BY <1>1, ProtocolAssumption
    <3> HIDE DEF N, d, rest
    <3> QED
      BY <1>4, <2>2, <3>1, <3>2
  <2>4. PICK at : Laid(d, k, lengths, at)
    BY DEF LinesInv
  <2>5. d \in Seq(Nat)
    BY <1>1, Joined
  <2>6. k < L
    <3>1. SUFFICES ASSUME k = L PROVE FALSE
      BY <1>1
    <3>2. Len(d) = 0
      BY <2>4, <3>1 DEF Laid
    <3> QED
      BY <2>3, <3>2, Zenon
  <2> DEFINE c == at[k + 1]
  <2>7. newline = IF c <= N THEN c ELSE 0
    BY <1>1, <2>2, <2>4, <2>5, <2>6, NewlineFound, Zenon
  <2>8. c \in 1 .. Len(d)
    BY <1>1, <2>4, <2>5, <2>6, LaidReturned, Zenon
  <2>9. LaidLine(d, k + 1, lengths[k + 1], 0, c)
    <3>1. k + 1 \in k + 1 .. L /\ k + 1 - 1 = k
      BY <1>1, <2>6
    <3> QED
      BY <2>4, <3>1 DEF Laid
  <2>10. /\ IF newline > 0
            THEN /\ returned' = Append(returned, SubSeq(data, 1, newline - 1))
                 /\ buffer' = Remaining(data)
                 /\ result' = 1
            ELSE /\ buffer' = IF TooLarge(data) THEN <<>> ELSE data
                 /\ result' = -1
                 /\ UNCHANGED returned
         /\ incoming' = rest
    BY <1>4, Zenon
  <2> HIDE DEF data, rest, N, newline, d, c, k, L
  <2>11. c \in Nat /\ 1 <= c /\ c <= Len(d)
    <3>1. Len(d) \in Nat
      BY <2>3
    <3> QED
      BY <2>8, <3>1
  <2>12. CASE c <= N
    <3>1. newline = c /\ newline > 0
      BY <2>7, <2>11, <2>12
    <3> DEFINE line == SubSeq(data, 1, c - 1)
    <3>2. returned' = Append(returned, line) /\ buffer' = SubSeq(data, c + 1, N) /\ result' = 1
      BY <2>10, <3>1 DEF Remaining, newline, N
    <3>3. c \in 0 .. N
      BY <2>3, <2>11, <2>12
    <3>4. buffer' \in Seq(Nat) /\ Len(buffer') = N - c
      BY <2>2, <3>2, <3>3, Rest, Zenon DEF N
    <3>5. Len(buffer') < BufferSize - 1
      BY <2>3, <2>11, <3>4, ProtocolAssumption
    <3>6. buffer' \o incoming' = SubSeq(d, c + 1, Len(d))
      BY <2>2, <2>10, <3>2, <3>3, CutAhead, Zenon DEF N
    <3>7. line = LineOf(k + 1, c - 1) /\ line \in Seq(Nat) /\ Len(line) = c - 1
      <4>1. \A i \in 1 .. N : data[i] = d[i] /\ data[i] \in Nat
        <5>1. \A i \in 1 .. Len(data) : (data \o rest)[i] = data[i] /\ data[i] \in Nat
          BY <2>2, Joined
        <5> QED
          BY <2>2, <5>1 DEF N
      <4>2. \A i \in 1 .. c - 1 : i \in 1 .. N /\ d[i] = k + 1
        <5>1. \A i \in 1 .. c - 1 : i \in 1 .. N /\ i \in 0 + 1 .. c - 1
          BY <2>3, <2>11, <2>12
        <5> QED
          BY <2>9, <5>1 DEF LaidLine
      <4>3. \A i \in 1 .. c - 1 : data[i] = k + 1 /\ data[i] \in Nat
        BY <4>1, <4>2
      <4>4. c - 1 \in Nat /\ k + 1 \in Nat
        BY <1>1, <2>11
      <4> DEFINE j == c - 1
                 text == LineOf(k + 1, j)
      <4>5. text \in Seq(Nat) /\ Len(text) = j /\ \A i \in 1 .. j : text[i] = k + 1
        <5> HIDE DEF j
        <5> QED
          BY <4>4 DEF LineOf, j
      <4>6. line \in Seq(Nat) /\ Len(line) = j /\ \A i \in 1 .. j : line[i] = data[i]
        <5> HIDE DEF j
        <5>1. j \in Nat /\ \A i \in 1 .. j : data[i] \in Nat
          BY <4>3, <4>4 DEF j
        <5>2. SubSeq(data, 1, j) \in Seq(Nat) /\ Len(SubSeq(data, 1, j)) = j
              /\ \A i \in 1 .. j : SubSeq(data, 1, j)[i] = data[i]
          BY <5>1
        <5> QED
          BY <5>2 DEF j
      <4> HIDE DEF line, text, j
      <4>7. line = text
        BY <4>3, <4>5, <4>6, SeqEqual, Zenon DEF j
      <4> QED
        BY <4>6, <4>7 DEF text, j
    <3> HIDE DEF line
    <3>8. /\ returned' \in Seq(Seq(Nat)) /\ Len(returned') = k + 1
          /\ returned'[k + 1] = line /\ DOMAIN returned' = 1 .. k + 1
          /\ \A i \in 1 .. k : returned'[i] = returned[i]
      BY <1>1, <3>2, <3>7 DEF k
    <3>9. \E a : Laid(buffer' \o incoming', Len(returned'), lengths', a)
      <4>1. \E a : Laid(SubSeq(d, c + 1, Len(d)), k + 1, lengths, a)
        BY <1>1, <2>4, <2>5, <2>6, LaidReturned, Zenon DEF c, L
      <4> QED
        BY <1>2, <3>6, <3>8, <4>1
    <3>10. LinesIntact'
      <4> SUFFICES ASSUME NEW j \in 1 .. k + 1
                   PROVE  /\ j <= L
                          /\ returned'[j] = LineOf(j, Len(returned'[j]))
                          /\ Len(returned'[j]) <= lengths[j]
                          /\ LineFits(lengths[j]) => Len(returned'[j]) = lengths[j]
        BY <1>2, <3>8 DEF LinesIntact, LineOf, LineFits, L
      <4>1. j \in 1 .. k \/ j = k + 1
        BY <1>1
      <4>2. CASE j \in 1 .. k
        <5>1. j \in DOMAIN returned /\ j \in Nat /\ j <= k
          BY <1>1, <4>2 DEF k
        <5>2. returned'[j] = returned[j]
          BY <3>8, <4>2
        <5>3. /\ returned[j] = LineOf(j, Len(returned[j]))
              /\ Len(returned[j]) <= lengths[j]
              /\ LineFits(lengths[j]) => Len(returned[j]) = lengths[j]
          BY <5>1 DEF LinesInv, LinesIntact
        <5>4. j <= L
          BY <1>1, <5>1
        <5> QED
          BY <5>2, <5>3, <5>4
      <4>3. CASE j = k + 1
        <5>1. k + 1 <= L
          BY <1>1, <2>6
        <5>2. c - 0 - 1 = c - 1
          BY <2>11
        <5>3. c - 1 <= lengths[k + 1] /\ (LineFits(lengths[k + 1]) => c - 1 = lengths[k + 1])
          BY <2>9, <5>2 DEF LaidLine
        <5> QED
          BY <3>7, <3>8, <4>3, <5>1, <5>3
      <4> QED
        BY <4>1, <4>2, <4>3
    <3>11. Len(returned') <= Len(lengths')
      BY <1>1, <1>2, <2>6, <3>8 DEF L
    <3> QED
      BY <1>1, <1>2, <2>2, <2>10, <3>2, <3>4, <3>5, <3>8, <3>9, <3>10, <3>11, Zenon DEF LinesInv
  <2>13. CASE ~(c <= N)
    <3>1. newline = 0 /\ ~(newline > 0)
      BY <2>7, <2>13
    <3>2. /\ buffer' = IF TooLarge(data) THEN <<>> ELSE data
          /\ result' = -1 /\ returned' = returned
      BY <2>10, <3>1
    <3>3. LinesIntact' /\ Len(returned') <= Len(lengths')
      BY <1>2, <3>2 DEF LinesInv, LinesIntact, LineOf, LineFits
    <3>4. CASE TooLarge(data)
      <4>1. buffer' = <<>> /\ N >= BufferSize - 1
        BY <3>2, <3>4 DEF TooLarge, N
      <4>2. ~LineFits(lengths[k + 1])
        <5>1. lengths[k + 1] \in Nat
          <6>1. k + 1 \in 1 .. L
            BY <1>1, <2>6
          <6> QED
            BY <1>1, <6>1 DEF L
        <5>2. LineFits(lengths[k + 1]) => c - 0 - 1 = lengths[k + 1]
          BY <2>9 DEF LaidLine
        <5> QED
          BY <2>3, <2>11, <2>13, <4>1, <5>1, <5>2, ProtocolAssumption DEF LineFits
      <4>3. N \in 0 .. c - 1 /\ N \in 0 .. N
        BY <2>3, <2>11, <2>13
      <4>4. SubSeq(data, N + 1, N) = <<>>
        BY <2>3
      <4>5. <<>> \o rest = SubSeq(d, N + 1, Len(d))
        BY <2>2, <4>3, <4>4, CutAhead, Zenon DEF N
      <4>6. \E a : Laid(SubSeq(d, N + 1, Len(d)), k, lengths, a)
        BY <1>1, <2>4, <2>5, <2>6, <4>2, <4>3, LaidThrown, Zenon DEF c, L
      <4>7. \E a : Laid(buffer' \o incoming', Len(returned'), lengths', a)
        BY <1>2, <2>10, <3>2, <4>1, <4>5, <4>6, Zenon DEF k
      <4>8. Len(<<>>) < BufferSize - 1 /\ <<>> \in Seq(Nat)
        BY ProtocolAssumption
      <4> QED
        BY <1>1, <1>2, <2>2, <2>10, <3>2, <3>3, <4>1, <4>7, <4>8 DEF LinesInv
    <3>5. CASE ~TooLarge(data)
      <4>1. buffer' = data /\ N < BufferSize - 1
        BY <2>3, <3>2, <3>5, ProtocolAssumption DEF TooLarge, N
      <4>2. \E a : Laid(buffer' \o incoming', Len(returned'), lengths', a)
        BY <1>2, <2>2, <2>4, <2>10, <3>2, <4>1, Zenon DEF k
      <4> QED
        BY <1>1, <1>2, <2>2, <2>10, <3>2, <3>3, <4>1, <4>2, Zenon DEF LinesInv, N
    <3> QED
      BY <3>4, <3>5
  <2> QED
    BY <2>12, <2>13
<1> QED
  BY <1>3, <1>4, Zenon DEF protocol_read_request
----------------------------------------------------------------------------
(* Responses.                                                              *)

Words == {"ok", "rows", "error", "length", "text"}

\* Whole responses.
Whole(o) ==
    \A k \in DOMAIN o :
       /\ o[k] = "error" => k + 2 <= Len(o) /\ o[k + 1] = "length" /\ o[k + 2] = "text"
       /\ o[k] = "length" => k > 1 /\ o[k - 1] = "error"
       /\ o[k] = "text" => k > 2 /\ o[k - 1] = "length"

FramesInv == out \in Seq(Words) /\ failed \in BOOLEAN /\ (~failed => Whole(out))

\* Two runs of whole responses behind one another are one.
LEMMA WholeJoined ==
    ASSUME NEW o \in Seq(Words), NEW w \in Seq(Words), Whole(o), Whole(w)
    PROVE  Whole(o \o w)
<1> DEFINE x == o \o w
           n == Len(o)
           m == Len(w)
<1>1. /\ n \in Nat /\ m \in Nat /\ Len(x) = n + m /\ x \in Seq(Words)
      /\ DOMAIN o = 1 .. n /\ DOMAIN w = 1 .. m /\ DOMAIN x = 1 .. n + m
      /\ \A i \in 1 .. n : x[i] = o[i]
      /\ \A i \in 1 .. m : x[n + i] = w[i]
  OBVIOUS
<1>2. Len(o) = n /\ Len(w) = m
  OBVIOUS
<1> HIDE DEF x, n, m
<1>3. ASSUME NEW k \in 1 .. n + m
      PROVE  /\ x[k] = "error" => k + 2 <= n + m /\ x[k + 1] = "length" /\ x[k + 2] = "text"
             /\ x[k] = "length" => k > 1 /\ x[k - 1] = "error"
             /\ x[k] = "text" => k > 2 /\ x[k - 1] = "length"
  <2>1. CASE k \in 1 .. n
    <3>1. /\ o[k] = "error" => k + 2 <= n /\ o[k + 1] = "length" /\ o[k + 2] = "text"
          /\ o[k] = "length" => k > 1 /\ o[k - 1] = "error"
          /\ o[k] = "text" => k > 2 /\ o[k - 1] = "length"
      BY <1>1, <1>2, <2>1, Zenon DEF Whole
    <3>2. x[k] = o[k]
      BY <1>1, <2>1
    <3>3. /\ k + 2 <= n => k + 1 \in 1 .. n /\ k + 2 \in 1 .. n /\ k + 2 <= n + m
          /\ k > 1 => k - 1 \in 1 .. n
          /\ k > 2 => k - 1 \in 1 .. n
      BY <1>1, <2>1
    <3> QED
      BY <1>1, <3>1, <3>2, <3>3
  <2>2. CASE k \notin 1 .. n
    <3> DEFINE j == k - n
    <3>1. j \in 1 .. m /\ k = n + j /\ j \in Nat
      BY <1>1, <2>2
    <3> HIDE DEF j
    <3>2. /\ w[j] = "error" => j + 2 <= m /\ w[j + 1] = "length" /\ w[j + 2] = "text"
          /\ w[j] = "length" => j > 1 /\ w[j - 1] = "error"
          /\ w[j] = "text" => j > 2 /\ w[j - 1] = "length"
      BY <1>1, <1>2, <3>1, Zenon DEF Whole
    <3>3. x[k] = w[j]
      BY <1>1, <3>1
    <3>4. /\ j + 2 <= m => /\ j + 1 \in 1 .. m /\ j + 2 \in 1 .. m
                           /\ k + 2 <= n + m /\ k + 1 = n + (j + 1) /\ k + 2 = n + (j + 2)
          /\ j > 1 => j - 1 \in 1 .. m /\ k - 1 = n + (j - 1) /\ k > 1
          /\ j > 2 => j - 1 \in 1 .. m /\ k - 1 = n + (j - 1) /\ k > 2
      BY <1>1, <3>1
    <3> QED
      BY <1>1, <3>2, <3>3, <3>4
  <2> QED
    BY <2>1, <2>2
<1> QED
  BY <1>1, <1>3, Zenon DEF Whole, x

\* What each write function writes when no write fails is whole.
LEMMA ResponsesAreWhole ==
    /\ Whole(<<>>) /\ \A type \in {"ok", "rows"} : Whole(<<type>>)
    /\ Whole(<<"error", "length", "text">>)
<1>1. ASSUME NEW type \in {"ok", "rows"} PROVE Whole(<<type>>)
  <2>1. /\ DOMAIN <<type>> = {1} /\ <<type>>[1] = type
    OBVIOUS
  <2>2. type # "error" /\ type # "length" /\ type # "text"
    OBVIOUS
  <2> QED
    BY <2>1, <2>2 DEF Whole
<1>2. Whole(<<"error", "length", "text">>)
  <2> DEFINE o == <<"error", "length", "text">>
  <2>1. /\ Len(o) = 3 /\ DOMAIN o = 1 .. 3 /\ o[1] = "error" /\ o[2] = "length" /\ o[3] = "text"
    OBVIOUS
  <2>2. 1 .. 3 = {1, 2, 3} /\ 1 + 2 = 3 /\ 1 + 1 = 2 /\ 2 - 1 = 1 /\ 3 - 1 = 2
    OBVIOUS
  <2> HIDE DEF o
  <2>3. ASSUME NEW k \in {1, 2, 3}
        PROVE  /\ o[k] = "error" => k + 2 <= Len(o) /\ o[k + 1] = "length" /\ o[k + 2] = "text"
               /\ o[k] = "length" => k > 1 /\ o[k - 1] = "error"
               /\ o[k] = "text" => k > 2 /\ o[k - 1] = "length"
    <3>1. CASE k = 1
      BY <2>1, <2>2, <3>1
    <3>2. CASE k = 2
      BY <2>1, <2>2, <3>2
    <3>3. CASE k = 3
      BY <2>1, <2>2, <3>3
    <3> QED
      BY <3>1, <3>2, <3>3
  <2> QED
    BY <2>1, <2>2, <2>3 DEF Whole, o
<1>3. Whole(<<>>)
  BY DEF Whole
<1> QED
  BY <1>1, <1>2, <1>3

\* The write functions keep whole what is whole.
LEMMA WriteFrames ==
    FramesInv /\ ((\E type \in {"ok", "rows"} : protocol_write_response(type))
                  \/ protocol_write_error)
    => FramesInv'
<1> SUFFICES ASSUME FramesInv,
                    (\E type \in {"ok", "rows"} : protocol_write_response(type))
                    \/ protocol_write_error
             PROVE  FramesInv'
  OBVIOUS
<1>1. PICK w : out' = out \o w /\ w \in Seq(Words)
                 /\ ((failed' = failed /\ Whole(w)) \/ failed' = TRUE)
  <2>1. ASSUME NEW type \in {"ok", "rows"}, protocol_write_response(type)
        PROVE  \E w : /\ out' = out \o w /\ w \in Seq(Words)
                      /\ (failed' = failed /\ Whole(w)) \/ failed' = TRUE
    <3>1. <<type>> \in Seq(Words) /\ <<>> \in Seq(Words)
      BY DEF Words
    <3>2. \/ out' = out \o <<type>> /\ failed' = failed
          \/ out' = out \o <<>> /\ failed' = TRUE
      BY <2>1 DEF protocol_write_response, Wrote, Failed
    <3> QED
      BY <3>1, <3>2, ResponsesAreWhole, Zenon
  <2>2. ASSUME protocol_write_error
        PROVE  \E w : /\ out' = out \o w /\ w \in Seq(Words)
                      /\ (failed' = failed /\ Whole(w)) \/ failed' = TRUE
    <3> DEFINE o == <<"error", "length", "text">>
    <3>1. o \in Seq(Words) /\ Len(o) = 3 /\ \A i \in 1 .. 3 : o[i] \in Words
      BY DEF Words
    <3> HIDE DEF o
    <3>2. ASSUME NEW k \in 0 .. 2 PROVE SubSeq(o, 1, k) \in Seq(Words)
      BY <3>1
    <3>3. \/ out' = out \o o /\ failed' = failed
          \/ \E k \in 0 .. 2 : out' = out \o SubSeq(o, 1, k) /\ failed' = TRUE
      BY <2>2 DEF protocol_write_error, Wrote, Failed, o
    <3>4. Whole(o)
      BY ResponsesAreWhole DEF o
    <3> QED
      BY <3>1, <3>2, <3>3, <3>4, Zenon
  <2> QED
    BY <2>1, <2>2, Zenon
<1>2. out \in Seq(Words) /\ failed \in BOOLEAN /\ (~failed => Whole(out))
  BY DEF FramesInv
<1>3. out' \in Seq(Words)
  BY <1>1, <1>2, ConcatProperties
<1>4. ~failed' => Whole(out')
  BY <1>1, <1>2, WholeJoined
<1>5. failed' \in BOOLEAN
  BY <1>1, <1>2, Zenon
<1> QED
  BY <1>3, <1>4, <1>5 DEF FramesInv

----------------------------------------------------------------------------
(* Both directions.                                                        *)

\* The inductive invariant: the bytes in the buffer and on the way are the lines
\* not returned yet, laid one behind the other, the first of them perhaps short
\* of its beginning if it does not fit in the buffer.
ProtocolInv == LinesInv /\ FramesInv

\* The invariant holds at the start.
LEMMA ProtocolInitInv == protocol_init => ProtocolInv
<1>1. protocol_init => FramesInv
  <2>1. <<>> \in Seq(Words)
    OBVIOUS
  <2> QED
    BY <2>1, ResponsesAreWhole, Zenon DEF protocol_init, FramesInv
<1> QED
  BY <1>1, LinesInit DEF ProtocolInv

\* Every step preserves the invariant.
LEMMA ProtocolNextInv == ProtocolInv /\ [ProtocolNext]_protocolVars => ProtocolInv'
<1> SUFFICES ASSUME ProtocolInv, [ProtocolNext]_protocolVars PROVE ProtocolInv'
  OBVIOUS
<1> USE DEF ProtocolInv
<1>1. ASSUME UNCHANGED outVars PROVE FramesInv'
  BY <1>1 DEF FramesInv, Whole, outVars
<1>2. ASSUME UNCHANGED <<incoming, buffer, result, lengths, returned>>, ended' \in BOOLEAN
      PROVE  LinesInv'
  <2>1. LinesIntact'
    BY <1>2 DEF LinesInv, LinesIntact, LineOf, LineFits
  <2>2. buffer' \o incoming' = buffer \o incoming /\ Len(returned') = Len(returned)
        /\ lengths' = lengths
    BY <1>2
  <2>3. \E at : Laid(buffer' \o incoming', Len(returned'), lengths', at)
    BY <2>2 DEF LinesInv
  <2> QED
    BY <1>2, <2>1, <2>3 DEF LinesInv
<1>3. ASSUME NEW length \in Lengths, peer_send(length) PROVE ProtocolInv'
  <2>1. UNCHANGED outVars
    BY <1>3 DEF peer_send
  <2> QED
    BY <1>1, <1>3, <2>1, SendLines
<1>4. CASE peer_close
  BY <1>1, <1>2, <1>4 DEF peer_close
<1>5. CASE protocol_read_request
  <2>1. UNCHANGED outVars
    BY <1>5 DEF protocol_read_request
  <2> QED
    BY <1>1, <1>5, <2>1, ReadLines
<1>6. CASE (\E type \in {"ok", "rows"} : protocol_write_response(type)) \/ protocol_write_error
  <2>1. UNCHANGED <<incoming, buffer, result, lengths, returned>> /\ ended' = ended
    BY <1>6 DEF protocol_write_response, protocol_write_error
  <2>2. ended' \in BOOLEAN
    BY <2>1 DEF LinesInv
  <2> QED
    BY <1>2, <1>6, <2>1, <2>2, WriteFrames
<1>7. CASE UNCHANGED protocolVars
  <2>1. UNCHANGED outVars /\ UNCHANGED <<incoming, buffer, result, lengths, returned>>
        /\ ended' = ended
    BY <1>7 DEF protocolVars, outVars
  <2>2. ended' \in BOOLEAN
    BY <2>1 DEF LinesInv
  <2> QED
    BY <1>1, <1>2, <2>1, <2>2
<1> QED
  BY <1>3, <1>4, <1>5, <1>6, <1>7 DEF ProtocolNext

\* For every buffer size, every set of lengths, any number of requests and any
\* way the reads cut the stream: the k-th line that protocol_read_request
\* returns is the k-th request, whole if it fits in the buffer and else its end,
\* every read asks for at least one byte, and responses are written whole unless
\* a write function fails.
THEOREM ProtocolStreamsWhole == ProtocolSpec => []StreamsWhole
<1>1. ProtocolInv => StreamsWhole
  <2> SUFFICES ASSUME ProtocolInv PROVE StreamsWhole
    OBVIOUS
  <2>1. Len(buffer) < BufferSize - 1 /\ Len(buffer) \in Nat
    BY DEF ProtocolInv, LinesInv
  <2>2. Len(buffer) < BufferSize
    BY <2>1, ProtocolAssumption
  <2>3. ProtocolTypeOK
    BY <2>2 DEF ProtocolInv, LinesInv, FramesInv, Words, ProtocolTypeOK
  <2> QED
    BY <2>1, <2>3 DEF ProtocolInv, LinesInv, FramesInv, Whole, StreamsWhole, RoomToRead, FramesWhole
<1> QED
  BY <1>1, ProtocolInitInv, ProtocolNextInv, PTL DEF ProtocolSpec

----------------------------------------------------------------------------
(* Escaping.                                                               *)

\* The characters of an escaped string.
Plain == Char \ {"TAB", "NL"}

\* The first k characters of s are written in d one after the other: what is
\* written for the i-th ends at at[i].
Spelled(s, k, d, at) ==
    /\ at \in [0 .. k -> Nat] /\ at[0] = 0 /\ at[k] = Len(d)
    /\ \A i, j \in 0 .. k : i < j => at[i] < at[j]
    /\ \A i \in 1 .. k :
          /\ at[i] = at[i - 1] + Len(EscapeChar(s[i]))
          /\ \A p \in 1 .. Len(EscapeChar(s[i])) : d[at[i - 1] + p] = EscapeChar(s[i])[p]

\* What is written for a character is one that is not a backslash, or a backslash
\* and one that UnescapeChar turns into the character.
LEMMA OneChar ==
    ASSUME NEW c \in Char
    PROVE  /\ EscapeChar(c) \in Seq(Plain)
           /\ \/ /\ Len(EscapeChar(c)) = 1
                 /\ EscapeChar(c)[1] = c /\ c # "BACKSLASH"
              \/ /\ Len(EscapeChar(c)) = 2
                 /\ EscapeChar(c)[1] = "BACKSLASH" /\ UnescapeChar(EscapeChar(c)[2]) = c
<1>1. CASE c = "TAB"
  <2>1. EscapeChar(c) = <<"BACKSLASH", "t">> /\ UnescapeChar("t") = c
    BY <1>1 DEF EscapeChar, UnescapeChar
  <2> QED
    BY <2>1 DEF Plain, Char
<1>2. CASE c = "NL"
  <2>1. EscapeChar(c) = <<"BACKSLASH", "n">> /\ UnescapeChar("n") = c
    BY <1>2 DEF EscapeChar, UnescapeChar
  <2> QED
    BY <2>1 DEF Plain, Char
<1>3. CASE c = "BACKSLASH"
  <2>1. EscapeChar(c) = <<"BACKSLASH", "BACKSLASH">> /\ UnescapeChar("BACKSLASH") = c
    BY <1>3 DEF EscapeChar, UnescapeChar
  <2> QED
    BY <2>1 DEF Plain, Char
<1>4. CASE c \notin {"TAB", "NL", "BACKSLASH"}
  <2>1. EscapeChar(c) = <<c>>
    BY <1>4 DEF EscapeChar
  <2>2. c \in Plain /\ c # "BACKSLASH"
    BY <1>4 DEF Plain
  <2> QED
    BY <2>1, <2>2
<1> QED
  BY <1>1, <1>2, <1>3, <1>4

\* One more character.
LEMMA SpelledOn ==
    ASSUME NEW s \in Seq(Char), NEW k \in Nat, k < Len(s),
           NEW d \in Seq(Plain), NEW at, Spelled(s, k, d, at)
    PROVE  /\ d \o EscapeChar(s[k + 1]) \in Seq(Plain)
           /\ Len(d \o EscapeChar(s[k + 1])) \in {Len(d) + 1, Len(d) + 2}
           /\ \E to : Spelled(s, k + 1, d \o EscapeChar(s[k + 1]), to)
<1> DEFINE w == EscapeChar(s[k + 1])
           e == d \o w
           n == Len(d)
           m == Len(w)
           to == [i \in 0 .. k + 1 |-> IF i = k + 1 THEN n + m ELSE at[i]]
<1>1. k + 1 \in 1 .. Len(s) /\ s[k + 1] \in Char
  <2>1. k + 1 \in 1 .. Len(s)
    OBVIOUS
  <2> QED
    BY <2>1
<1>2. w \in Seq(Plain) /\ m \in {1, 2}
  BY <1>1, OneChar
<1>3. Len(d) = n /\ Len(w) = m /\ n \in Nat /\ EscapeChar(s[k + 1]) = w
  OBVIOUS
<1> HIDE DEF w, m, n
<1>4. /\ e \in Seq(Plain) /\ Len(e) = n + m
      /\ \A i \in 1 .. n : e[i] = d[i]
      /\ \A i \in 1 .. m : e[n + i] = w[i]
  BY <1>2, <1>3
<1> HIDE DEF e
<1>5. /\ at \in [0 .. k -> Nat] /\ at[0] = 0 /\ at[k] = n
      /\ \A i, j \in 0 .. k : i < j => at[i] < at[j]
      /\ \A i \in 1 .. k :
            /\ at[i] = at[i - 1] + Len(EscapeChar(s[i]))
            /\ \A p \in 1 .. Len(EscapeChar(s[i])) : d[at[i - 1] + p] = EscapeChar(s[i])[p]
  BY <1>3 DEF Spelled
<1>6. \A i \in 0 .. k + 1 : i = k + 1 \/ (i \in 0 .. k /\ i # k + 1 /\ (i = k \/ i < k))
  OBVIOUS
<1>7. \A i \in 0 .. k : at[i] \in Nat /\ at[i] <= n
  <2> TAKE i \in 0 .. k
  <2>1. at[i] \in Nat
    BY <1>5
  <2>2. i = k \/ (i < k /\ k \in 0 .. k)
    OBVIOUS
  <2>3. i = k \/ at[i] < n
    BY <1>5, <2>2
  <2> QED
    BY <1>3, <1>5, <2>1, <2>3
<1>8. to \in [0 .. k + 1 -> Nat] /\ to[k + 1] = n + m /\ \A i \in 0 .. k : to[i] = at[i]
  <2>1. n + m \in Nat /\ k + 1 \in 0 .. k + 1
    BY <1>2, <1>3
  <2>2. \A i \in 0 .. k : i # k + 1 /\ i \in 0 .. k + 1
    OBVIOUS
  <2> QED
    BY <1>5, <1>6, <2>1, <2>2
<1> HIDE DEF to
<1>9. to[0] = 0 /\ to[k + 1] = Len(e)
  <2>1. 0 \in 0 .. k
    OBVIOUS
  <2> QED
    BY <1>4, <1>5, <1>8, <2>1
<1>10. ASSUME NEW i \in 0 .. k + 1, NEW j \in 0 .. k + 1, i < j PROVE to[i] < to[j]
  <2>1. i \in 0 .. k /\ (j \in 0 .. k \/ j = k + 1)
    BY <1>10
  <2>2. CASE j \in 0 .. k
    BY <1>5, <1>8, <1>10, <2>1, <2>2
  <2>3. CASE j = k + 1
    <3>1. to[i] = at[i] /\ at[i] \in Nat /\ at[i] <= n /\ to[j] = n + m
      BY <1>7, <1>8, <2>1, <2>3
    <3> QED
      BY <1>2, <1>3, <3>1
  <2> QED
    BY <2>1, <2>2, <2>3
<1>11. ASSUME NEW i \in 1 .. k + 1
       PROVE  /\ to[i] = to[i - 1] + Len(EscapeChar(s[i]))
              /\ \A p \in 1 .. Len(EscapeChar(s[i])) : e[to[i - 1] + p] = EscapeChar(s[i])[p]
  <2>1. CASE i \in 1 .. k
    <3>1. i \in 0 .. k /\ i - 1 \in 0 .. k
      BY <2>1
    <3>2. to[i] = at[i] /\ to[i - 1] = at[i - 1]
      BY <1>8, <3>1
    <3> DEFINE q == Len(EscapeChar(s[i]))
               from == at[i - 1]
    <3>3. /\ at[i] = from + q
          /\ \A p \in 1 .. q : d[from + p] = EscapeChar(s[i])[p]
      BY <1>5, <2>1, Zenon
    <3>4. q \in Nat
      <4>1. i \in 1 .. Len(s)
        BY <2>1
      <4>2. s[i] \in Char
        BY <4>1
      <4> QED
        BY <4>2, OneChar
    <3>5. from \in Nat /\ from + q <= n
      <4>1. from \in Nat /\ at[i] <= n
        BY <1>7, <3>1
      <4> QED
        BY <3>3, <4>1
    <3> HIDE DEF q, from
    <3>6. \A p \in 1 .. q : from + p \in 1 .. n
      BY <1>3, <3>4, <3>5
    <3>7. \A p \in 1 .. q : e[from + p] = EscapeChar(s[i])[p]
      BY <1>4, <3>3, <3>6
    <3> QED
      BY <3>2, <3>3, <3>7 DEF q, from
  <2>2. CASE i = k + 1
    <3>1. i - 1 = k /\ k \in 0 .. k
      BY <2>2
    <3>2. to[i] = n + m /\ to[i - 1] = n
      BY <1>5, <1>8, <2>2, <3>1
    <3> QED
      BY <1>3, <1>4, <2>2, <3>2
  <2>3. i \in 1 .. k \/ i = k + 1
    OBVIOUS
  <2> QED
    BY <2>1, <2>2, <2>3
<1>12. Spelled(s, k + 1, e, to)
  BY <1>8, <1>9, <1>10, <1>11 DEF Spelled
<1> QED
  BY <1>2, <1>3, <1>4, <1>12 DEF e
\* What holds of the loop of protocol_escape_string after n rounds.
Escapes(s, size, n, loop) ==
    /\ loop \in [read : 0 .. Len(s), dst : Seq(Plain)]
    /\ \E at : Spelled(s, loop.read, loop.dst, at)
    /\ Len(loop.dst) < size /\ Len(loop.dst) <= 2 * loop.read
    /\ loop.read = n \/ Len(loop.dst) + 2 >= size

\* It holds before the first round.
LEMMA EscapesStart ==
    ASSUME NEW s \in Seq(Char), NEW size \in Nat \ {0}
    PROVE  Escapes(s, size, 0, LoopStart)
<1>1. /\ LoopStart.read = 0 /\ LoopStart.dst = <<>> /\ Len(<<>>) = 0 /\ <<>> \in Seq(Plain)
      /\ 0 \in 0 .. Len(s) /\ 0 < size /\ 0 <= 2 * 0
  BY DEF LoopStart
<1>2. LoopStart \in [read : 0 .. Len(s), dst : Seq(Plain)]
  BY <1>1 DEF LoopStart
<1>3. Spelled(s, 0, <<>>, [i \in 0 .. 0 |-> 0])
  <2>1. 0 .. 0 = {0} /\ 1 .. 0 = {}
    OBVIOUS
  <2> QED
    BY <1>1, <2>1 DEF Spelled
<1> QED
  BY <1>1, <1>2, <1>3 DEF Escapes

\* A round keeps to the characters of s and of an escaped string.
LEMMA EscapeRoundType ==
    ASSUME NEW s \in Seq(Char), NEW size \in Nat,
           NEW loop \in [read : 0 .. Len(s), dst : Seq(Plain)]
    PROVE  EscapeRound(s, size, loop) \in [read : 0 .. Len(s), dst : Seq(Plain)]
<1> DEFINE k == loop.read
<1>1. CASE k = Len(s) \/ Len(loop.dst) + 2 >= size
  BY <1>1 DEF EscapeRound
<1>2. CASE ~(k = Len(s) \/ Len(loop.dst) + 2 >= size)
  <2>1. k + 1 \in 1 .. Len(s) /\ k + 1 \in 0 .. Len(s) /\ loop.dst \in Seq(Plain)
    BY <1>2
  <2>2. s[k + 1] \in Char
    BY <2>1
  <2>3. EscapeChar(s[k + 1]) \in Seq(Plain)
    BY <2>2, OneChar
  <2>4. loop.dst \o EscapeChar(s[k + 1]) \in Seq(Plain)
    BY <2>1, <2>3, ConcatProperties
  <2>5. EscapeRound(s, size, loop) = [read |-> k + 1, dst |-> loop.dst \o EscapeChar(s[k + 1])]
    BY <1>2 DEF EscapeRound
  <2> QED
    BY <2>1, <2>4, <2>5
<1> QED
  BY <1>1, <1>2

\* Every round preserves it.
LEMMA EscapesRound ==
    ASSUME NEW s \in Seq(Char), NEW size \in Nat \ {0}, NEW n \in 1 .. Len(s),
           NEW loop, Escapes(s, size, n - 1, loop)
    PROVE  Escapes(s, size, n, EscapeRound(s, size, loop))
<1> DEFINE k == loop.read
           d == loop.dst
           next == EscapeRound(s, size, loop)
<1>1. /\ loop \in [read : 0 .. Len(s), dst : Seq(Plain)]
      /\ k \in Nat /\ k <= Len(s) /\ Len(s) \in Nat /\ d \in Seq(Plain) /\ Len(d) \in Nat
      /\ Len(d) < size /\ Len(d) <= 2 * k
      /\ k = n - 1 \/ Len(d) + 2 >= size
      /\ n \in Nat /\ 1 <= n /\ n <= Len(s) /\ size \in Nat
  <2>1. loop \in [read : 0 .. Len(s), dst : Seq(Plain)]
    BY DEF Escapes
  <2>2. k \in 0 .. Len(s) /\ d \in Seq(Plain)
    BY <2>1
  <2>3. Len(d) \in Nat /\ Len(s) \in Nat
    BY <2>2
  <2>4. k \in Nat /\ k <= Len(s)
    BY <2>2, <2>3
  <2> QED
    BY <2>1, <2>2, <2>3, <2>4 DEF Escapes
<1>2. PICK at : Spelled(s, k, d, at)
  BY DEF Escapes
<1>3. CASE k = Len(s) \/ Len(d) + 2 >= size
  <2>1. next = loop
    BY <1>3, Zenon DEF EscapeRound
  <2>2. k = n \/ Len(d) + 2 >= size
    <3> HIDE DEF k, d
    <3> QED
      BY <1>1, <1>3
  <2> QED
    BY <1>1, <1>2, <2>1, <2>2 DEF Escapes
<1>4. CASE ~(k = Len(s) \/ Len(d) + 2 >= size)
  <2> DEFINE e == d \o EscapeChar(s[k + 1])
  <2>1. next = [read |-> k + 1, dst |-> e]
    BY <1>4 DEF EscapeRound
  <2>2. k < Len(s) /\ k = n - 1 /\ Len(d) + 2 < size
    <3> HIDE DEF k, d
    <3> QED
      BY <1>1, <1>4
  <2>3. e \in Seq(Plain) /\ Len(e) \in {Len(d) + 1, Len(d) + 2} /\ \E to : Spelled(s, k + 1, e, to)
    BY <1>1, <1>2, <2>2, SpelledOn
  <2> HIDE DEF e, k, d
  <2>4. next.read = k + 1 /\ next.dst = e
    BY <2>1
  <2>5. Len(e) < size /\ Len(e) <= 2 * (k + 1) /\ k + 1 = n /\ k + 1 \in 0 .. Len(s)
    BY <1>1, <2>2, <2>3
  <2>6. next \in [read : 0 .. Len(s), dst : Seq(Plain)]
    BY <2>1, <2>3, <2>5
  <2> HIDE DEF next
  <2> QED
    BY <2>3, <2>4, <2>5, <2>6 DEF Escapes, next
<1> QED
  BY <1>3, <1>4

\* protocol_escape_string writes the first k characters, all of them if the
\* buffer has twice their number and one more.
LEMMA EscapedString ==
    ASSUME NEW s \in Seq(Char), NEW size \in Nat \ {0}
    PROVE  LET d == protocol_escape_string(s, size)
           IN  /\ d \in Seq(Plain) /\ Len(d) < size
               /\ \E k \in 0 .. Len(s) : /\ \E at : Spelled(s, k, d, at)
                                         /\ size >= 2 * Len(s) + 1 => k = Len(s)
<1> DEFINE N == Len(s)
           S == [read : 0 .. Len(s), dst : Seq(Plain)]
           Round(l) == EscapeRound(s, size, l)
           Turns(f) == [n \in 0 .. N |-> IF n = 0 THEN LoopStart ELSE Round(f[n - 1])]
           body == [n \in 1 .. N |-> [l \in S |-> Round(l)]]
           list == CHOOSE f : f = Turns(f)
<1>1. N \in Nat /\ LoopStart \in S
  <2>1. <<>> \in Seq(Plain) /\ 0 \in 0 .. Len(s) /\ Len(s) \in Nat
    OBVIOUS
  <2> QED
    BY <2>1 DEF LoopStart
<1>2. body \in [1 .. N -> [S -> S]]
  <2>1. ASSUME NEW l \in S PROVE Round(l) \in S
    BY EscapeRoundType
  <2> HIDE DEF Round, S
  <2> QED
    BY <2>1
<1>3. protocol_escape_string(s, size) = list[N].dst
  BY DEF protocol_escape_string
<1>4. PICK g : AreRounds(g, S, LoopStart, N, body)
  <2> HIDE DEF body, N, S
  <2> QED
    BY <1>1, <1>2, RoundsExist
<1> HIDE DEF N, S
<1>5. g \in [0 .. N -> S] /\ g[0] = LoopStart
  BY <1>4 DEF AreRounds
<1>6. ASSUME NEW n \in 1 .. N PROVE g[n] = Round(g[n - 1])
  <2>1. n - 1 \in 0 .. N
    BY <1>1
  <2>2. g[n - 1] \in S
    BY <1>5, <2>1
  <2>3. g[n] = body[n][g[n - 1]]
    BY <1>4 DEF AreRounds
  <2> HIDE DEF Round
  <2> QED
    BY <2>2, <2>3
<1> HIDE DEF Round
<1>7. g = Turns(g)
  <2>1. \A n \in 0 .. N : n = 0 \/ n \in 1 .. N
    BY <1>1
  <2> QED
    BY <1>5, <1>6, <2>1
<1>8. list = Turns(list)
  <2> HIDE DEF Turns
  <2> QED
    BY <1>7
<1> HIDE DEF list
<1>9. list[0] = LoopStart
  <2>1. list[0] = Turns(list)[0] /\ 0 \in 0 .. N
    BY <1>1, <1>8
  <2> QED
    BY <2>1
<1>10. ASSUME NEW n \in 1 .. N PROVE list[n] = Round(list[n - 1])
  <2>1. n \in 0 .. N /\ n # 0
    BY <1>1
  <2>2. list[n] = Turns(list)[n]
    BY <1>8
  <2> QED
    BY <2>1, <2>2
<1> DEFINE Good == {n \in 0 .. N : Escapes(s, size, n, list[n])}
<1>11. 0 \in Good
  BY <1>1, <1>9, EscapesStart
<1>12. ASSUME NEW n \in 1 .. N, n - 1 \in Good PROVE n \in Good
  <2>1. n \in 0 .. N /\ n \in 1 .. Len(s)
    BY <1>1 DEF N
  <2>2. Escapes(s, size, n - 1, list[n - 1]) /\ list[n] = EscapeRound(s, size, list[n - 1])
    BY <1>10, <1>12 DEF Round
  <2>3. Escapes(s, size, n, list[n])
    BY <2>1, <2>2, EscapesRound
  <2> QED
    BY <2>1, <2>3
<1> HIDE DEF Good
<1>13. N \in Good
  <2>1. N \in 0 .. N
    BY <1>1
  <2> QED
    BY <1>1, <1>11, <1>12, <2>1, EveryRound, Zenon
<1> DEFINE end == list[N]
           d == end.dst
           k == end.read
<1>14. Escapes(s, size, N, end)
  BY <1>13 DEF Good
<1> HIDE DEF end
<1>15. /\ d \in Seq(Plain) /\ k \in 0 .. Len(s) /\ Len(d) < size /\ Len(d) <= 2 * k
       /\ k = N \/ Len(d) + 2 >= size
       /\ \E at : Spelled(s, k, d, at)
  <2>1. end \in [read : 0 .. Len(s), dst : Seq(Plain)]
    BY <1>14 DEF Escapes
  <2>2. d \in Seq(Plain) /\ k \in 0 .. Len(s)
    BY <2>1
  <2> QED
    BY <1>14, <2>2 DEF Escapes
<1>16. Len(d) \in Nat /\ k \in Nat /\ k <= N /\ size \in Nat
  <2>1. Len(d) \in Nat
    BY <1>15
  <2> QED
    BY <1>1, <1>15, <2>1 DEF N
<1>17. protocol_escape_string(s, size) = d
  BY <1>3 DEF end
<1> HIDE DEF d, k
<1>18. size >= 2 * N + 1 => k = N
  <2>1. /\ Len(d) \in Nat /\ k \in Nat /\ k <= N /\ size \in Nat /\ N \in Nat
        /\ Len(d) <= 2 * k /\ (k = N \/ Len(d) + 2 >= size)
    BY <1>1, <1>15, <1>16
  <2> QED
    BY <2>1
<1> QED
  BY <1>15, <1>17, <1>18 DEF N
----------------------------------------------------------------------------
(* Reading back.                                                           *)

\* The loop of protocol_unescape_string over d after n rounds, d being what was
\* written for the first k characters of s: it has read what was written for the
\* first n of them, and written these.
Unescapes(s, k, at, n, loop) ==
    \E m \in 0 .. k :
       /\ m = n \/ (m = k /\ k <= n)
       /\ loop = [read |-> at[m], dst |-> SubSeq(s, 1, m)]

\* The beginning of a string, one character more.
LEMMA OneMore ==
    ASSUME NEW s \in Seq(Char), NEW m \in Nat, m < Len(s)
    PROVE  /\ SubSeq(s, 1, m) \in Seq(Char) /\ Len(SubSeq(s, 1, m)) = m
           /\ Append(SubSeq(s, 1, m), s[m + 1]) = SubSeq(s, 1, m + 1)
<1> DEFINE a == SubSeq(s, 1, m)
           b == SubSeq(s, 1, m + 1)
           c == Append(a, s[m + 1])
<1>1. /\ \A i \in 1 .. m : i \in 1 .. Len(s)
      /\ \A i \in 1 .. m + 1 : i \in 1 .. Len(s)
      /\ m + 1 \in Nat /\ m + 1 \in 1 .. Len(s)
  OBVIOUS
<1>2. s[m + 1] \in Char
  BY <1>1
<1>3. a \in Seq(Char) /\ Len(a) = m /\ \A i \in 1 .. m : a[i] = s[i]
  BY <1>1
<1>4. b \in Seq(Char) /\ Len(b) = m + 1 /\ \A i \in 1 .. m + 1 : b[i] = s[i]
  BY <1>1
<1> HIDE DEF a, b
<1>5. /\ c \in Seq(Char) /\ Len(c) = m + 1
      /\ c[m + 1] = s[m + 1] /\ \A i \in 1 .. m : c[i] = a[i]
  BY <1>2, <1>3
<1>6. \A i \in 1 .. m + 1 : c[i] = b[i]
  <2>1. \A i \in 1 .. m + 1 : i \in 1 .. m \/ i = m + 1
    OBVIOUS
  <2> HIDE DEF c
  <2> QED
    BY <1>3, <1>4, <1>5, <2>1
<1> HIDE DEF c
<1>7. c = b
  BY <1>4, <1>5, <1>6, SeqEqual
<1> QED
  BY <1>3, <1>7 DEF a, b, c

\* A round keeps to the characters of the escaped string.
LEMMA UnescapeRoundType ==
    ASSUME NEW d \in Seq(Plain), NEW size \in Nat,
           NEW loop \in [read : 0 .. Len(d), dst : Seq(Char \cup {"NUL"})]
    PROVE  UnescapeRound(d, size, loop) \in [read : 0 .. Len(d), dst : Seq(Char \cup {"NUL"})]
<1> DEFINE at == loop.read + 1
           C == Char \cup {"NUL"}
<1>1. CASE loop.read = Len(d) \/ Len(loop.dst) >= size - 1
  BY <1>1 DEF UnescapeRound
<1>2. CASE ~(loop.read = Len(d) \/ Len(loop.dst) >= size - 1)
  <2>1. at \in 1 .. Len(d) /\ at \in 0 .. Len(d) /\ loop.dst \in Seq(C)
    BY <1>2
  <2>2. d[at] \in C
    BY <2>1 DEF Plain
  <2>3. Append(loop.dst, d[at]) \in Seq(C)
    BY <2>1, <2>2, AppendProperties
  <2>4. CASE d[at] = "BACKSLASH" /\ at < Len(d)
    <3>1. at + 1 \in 1 .. Len(d) /\ at + 1 \in 0 .. Len(d)
      BY <2>1, <2>4
    <3>2. d[at + 1] \in Char
      BY <3>1 DEF Plain
    <3>3. UnescapeChar(d[at + 1]) \in C
      BY <3>2 DEF UnescapeChar, Char
    <3>4. Append(loop.dst, UnescapeChar(d[at + 1])) \in Seq(C)
      BY <2>1, <3>3, AppendProperties
    <3>5. UnescapeRound(d, size, loop)
            = [read |-> at + 1, dst |-> Append(loop.dst, UnescapeChar(d[at + 1]))]
      BY <1>2, <2>4 DEF UnescapeRound
    <3> QED
      BY <3>1, <3>4, <3>5
  <2>5. CASE ~(d[at] = "BACKSLASH" /\ at < Len(d))
    <3>1. UnescapeRound(d, size, loop) = [read |-> at, dst |-> Append(loop.dst, d[at])]
      BY <1>2, <2>5 DEF UnescapeRound
    <3> QED
      BY <2>1, <2>3, <3>1
  <2> QED
    BY <2>4, <2>5
<1> QED
  BY <1>1, <1>2

\* A round reads what was written for one character.
LEMMA UnescapesRound ==
    ASSUME NEW s \in Seq(Char), NEW k \in 0 .. Len(s), NEW d \in Seq(Plain),
           NEW at, Spelled(s, k, d, at), NEW size \in Nat, k < size,
           NEW n \in Nat \ {0}, NEW loop, Unescapes(s, k, at, n - 1, loop)
    PROVE  Unescapes(s, k, at, n, UnescapeRound(d, size, loop))
<1>1. PICK m \in 0 .. k : /\ m = n - 1 \/ (m = k /\ k <= n - 1)
                          /\ loop = [read |-> at[m], dst |-> SubSeq(s, 1, m)]
  BY DEF Unescapes
<1>2. loop.read = at[m] /\ loop.dst = SubSeq(s, 1, m)
  BY <1>1
<1>3. /\ k \in Nat /\ k <= Len(s) /\ Len(s) \in Nat /\ m \in Nat /\ m <= k
      /\ Len(d) \in Nat
  <2>1. Len(s) \in Nat /\ Len(d) \in Nat
    OBVIOUS
  <2> QED
    BY <2>1
<1>4. /\ at \in [0 .. k -> Nat] /\ at[k] = Len(d)
      /\ \A i, j \in 0 .. k : i < j => at[i] < at[j]
      /\ \A i \in 1 .. k :
            /\ at[i] = at[i - 1] + Len(EscapeChar(s[i]))
            /\ \A p \in 1 .. Len(EscapeChar(s[i])) : d[at[i - 1] + p] = EscapeChar(s[i])[p]
  BY DEF Spelled
<1>5. CASE m = k
  <2>1. UnescapeRound(d, size, loop) = loop
    BY <1>2, <1>4, <1>5 DEF UnescapeRound
  <2>2. m = k /\ k <= n
    BY <1>1, <1>3, <1>5
  <2> QED
    BY <1>1, <2>1, <2>2, SMTT(30) DEF Unescapes
<1>6. CASE m # k
  <2>1. m = n - 1 /\ m < k /\ m + 1 \in 1 .. k /\ m + 1 \in 0 .. k /\ k \in 0 .. k
        /\ m + 1 = n /\ m + 1 - 1 = m /\ m < Len(s) /\ m + 1 \in 1 .. Len(s)
    BY <1>1, <1>3, <1>6
  <2>2. s[m + 1] \in Char
    BY <2>1
  <2> DEFINE c == s[m + 1]
             w == EscapeChar(c)
             r == at[m]
  <2>3. at[m + 1] = r + Len(w) /\ \A p \in 1 .. Len(w) : d[r + p] = w[p]
    <3> DEFINE i == m + 1
    <3>1. i \in 1 .. k /\ i - 1 = m
      BY <2>1
    <3> HIDE DEF i
    <3>2. /\ at[i] = at[i - 1] + Len(EscapeChar(s[i]))
          /\ \A p \in 1 .. Len(EscapeChar(s[i])) : d[at[i - 1] + p] = EscapeChar(s[i])[p]
      BY <1>4, <3>1
    <3>3. /\ at[i] = at[m] + Len(EscapeChar(s[i]))
          /\ \A p \in 1 .. Len(EscapeChar(s[i])) : d[at[m] + p] = EscapeChar(s[i])[p]
      BY <3>1, <3>2, SMTT(30)
    <3> QED
      BY <3>3 DEF i
  <2>4. r \in Nat /\ at[m + 1] \in Nat /\ r < Len(d)
    <3>1. at[m] \in Nat /\ at[m + 1] \in Nat
      BY <1>4, <2>1
    <3>2. at[m] < at[k]
      BY <1>4, <2>1
    <3> QED
      BY <1>4, <3>1, <3>2
  <2>5. at[m + 1] <= Len(d)
    <3>1. m + 1 = k \/ m + 1 < k
      BY <1>3, <2>1
    <3>2. at[m + 1] = Len(d) \/ at[m + 1] < Len(d)
      BY <1>4, <2>1, <3>1
    <3> QED
      BY <1>3, <2>4, <3>2
  <2>6. /\ SubSeq(s, 1, m) \in Seq(Char) /\ Len(SubSeq(s, 1, m)) = m
        /\ Append(SubSeq(s, 1, m), c) = SubSeq(s, 1, m + 1)
    BY <1>3, <2>1, OneMore
  <2>7. ~(loop.read = Len(d) \/ Len(loop.dst) >= size - 1)
    <3>1. loop.read = r /\ Len(loop.dst) = m
      BY <1>2, <2>6
    <3> HIDE DEF r
    <3> QED
      BY <1>3, <2>1, <2>4, <3>1
  <2>8. /\ Len(w) \in Nat
        /\ \/ Len(w) = 1 /\ w[1] = c /\ c # "BACKSLASH"
           \/ Len(w) = 2 /\ w[1] = "BACKSLASH" /\ UnescapeChar(w[2]) = c
    BY <2>2, OneChar, SMTT(30)
  <2> HIDE DEF c, w, r
  <2>9. UnescapeRound(d, size, loop) = [read |-> at[m + 1], dst |-> SubSeq(s, 1, m + 1)]
    <3>1. CASE Len(w) = 1 /\ w[1] = c /\ c # "BACKSLASH"
      <4>1. d[r + 1] = c /\ at[m + 1] = r + 1
        BY <2>3, <3>1
      <4> QED
        BY <1>2, <2>6, <2>7, <3>1, <4>1, Zenon DEF UnescapeRound, r
    <3>2. CASE Len(w) = 2 /\ w[1] = "BACKSLASH" /\ UnescapeChar(w[2]) = c
      <4>1. d[r + 1] = "BACKSLASH" /\ d[r + 2] = w[2] /\ at[m + 1] = r + 2
        BY <2>3, <3>2
      <4>2. r + 1 < Len(d) /\ r + 1 + 1 = r + 2
        BY <1>3, <2>4, <2>5, <4>1
      <4> QED
        BY <1>2, <2>6, <2>7, <3>2, <4>1, <4>2, Zenon DEF UnescapeRound, r
    <3> QED
      BY <2>8, <3>1, <3>2, SMTT(30)
  <2> QED
    BY <2>1, <2>9 DEF Unescapes
<1> QED
  BY <1>5, <1>6

\* At least as many characters are written as are read.
LEMMA SpelledLength ==
    ASSUME NEW s, NEW k \in Nat, NEW d, NEW at, Spelled(s, k, d, at)
    PROVE  k <= Len(d)
<1> DEFINE Good == {n \in 0 .. k : n <= at[n]}
<1>1. /\ at \in [0 .. k -> Nat] /\ at[0] = 0 /\ at[k] = Len(d)
      /\ \A i, j \in 0 .. k : i < j => at[i] < at[j]
  BY DEF Spelled
<1>2. 0 \in Good
  BY <1>1
<1>3. ASSUME NEW n \in 1 .. k, n - 1 \in Good PROVE n \in Good
  <2>1. n - 1 \in 0 .. k /\ n \in 0 .. k /\ n - 1 < n /\ n \in Nat
    OBVIOUS
  <2>2. at[n - 1] \in Nat /\ at[n] \in Nat /\ at[n - 1] < at[n] /\ n - 1 <= at[n - 1]
    BY <1>1, <1>3, <2>1
  <2>3. n <= at[n]
    BY <2>1, <2>2
  <2> QED
    BY <2>1, <2>3
<1> HIDE DEF Good
<1>4. k \in Good
  <2>1. k \in 0 .. k
    OBVIOUS
  <2> QED
    BY <1>2, <1>3, <2>1, EveryRound
<1> QED
  BY <1>1, <1>4 DEF Good

\* protocol_unescape_string reads the first k characters back.
LEMMA UnescapedString ==
    ASSUME NEW s \in Seq(Char), NEW k \in 0 .. Len(s), NEW d \in Seq(Plain),
           NEW at, Spelled(s, k, d, at), NEW size \in Nat, Len(d) < size
    PROVE  protocol_unescape_string(d, size) = SubSeq(s, 1, k)
<1> DEFINE N == Len(d)
           S == [read : 0 .. Len(d), dst : Seq(Char \cup {"NUL"})]
           Round(l) == UnescapeRound(d, size, l)
           Turns(f) == [n \in 0 .. N |-> IF n = 0 THEN LoopStart ELSE Round(f[n - 1])]
           body == [n \in 1 .. N |-> [l \in S |-> Round(l)]]
           list == CHOOSE f : f = Turns(f)
<1>1. N \in Nat /\ LoopStart \in S
  <2>1. <<>> \in Seq(Char \cup {"NUL"}) /\ 0 \in 0 .. Len(d)
    OBVIOUS
  <2> QED
    BY <2>1 DEF LoopStart
<1>2. body \in [1 .. N -> [S -> S]]
  <2>1. ASSUME NEW l \in S PROVE Round(l) \in S
    BY UnescapeRoundType
  <2> HIDE DEF Round, S
  <2> QED
    BY <2>1
<1>3. protocol_unescape_string(d, size) = list[N].dst
  BY DEF protocol_unescape_string
<1>4. PICK g : AreRounds(g, S, LoopStart, N, body)
  <2> HIDE DEF body, N, S
  <2> QED
    BY <1>1, <1>2, RoundsExist
<1> HIDE DEF N, S
<1>5. g \in [0 .. N -> S] /\ g[0] = LoopStart
  BY <1>4 DEF AreRounds
<1>6. ASSUME NEW n \in 1 .. N PROVE g[n] = Round(g[n - 1])
  <2>1. n - 1 \in 0 .. N
    BY <1>1
  <2>2. g[n - 1] \in S
    BY <1>5, <2>1
  <2>3. g[n] = body[n][g[n - 1]]
    BY <1>4 DEF AreRounds
  <2> HIDE DEF Round
  <2> QED
    BY <2>2, <2>3
<1> HIDE DEF Round
<1>7. g = Turns(g)
  <2>1. \A n \in 0 .. N : n = 0 \/ n \in 1 .. N
    BY <1>1
  <2> QED
    BY <1>5, <1>6, <2>1
<1>8. list = Turns(list)
  <2> HIDE DEF Turns
  <2> QED
    BY <1>7
<1> HIDE DEF list
<1>9. list[0] = LoopStart
  <2>1. list[0] = Turns(list)[0] /\ 0 \in 0 .. N
    BY <1>1, <1>8
  <2> QED
    BY <2>1
<1>10. ASSUME NEW n \in 1 .. N PROVE list[n] = Round(list[n - 1])
  <2>1. n \in 0 .. N /\ n # 0
    BY <1>1
  <2>2. list[n] = Turns(list)[n]
    BY <1>8
  <2> QED
    BY <2>1, <2>2
<1>11. k \in Nat /\ k <= N /\ k < size
  <2>1. k \in Nat
    OBVIOUS
  <2>2. k <= N
    BY <2>1, SpelledLength DEF N
  <2> QED
    BY <1>1, <2>1, <2>2 DEF N
<1> DEFINE Good == {n \in 0 .. N : Unescapes(s, k, at, n, list[n])}
<1>12. 0 \in Good
  <2>1. 0 \in 0 .. N /\ 0 \in 0 .. k /\ SubSeq(s, 1, 0) = <<>>
    BY <1>1, <1>11
  <2>2. at[0] = 0
    BY DEF Spelled
  <2>3. list[0] = [read |-> at[0], dst |-> SubSeq(s, 1, 0)]
    BY <1>9, <2>1, <2>2 DEF LoopStart
  <2> QED
    BY <2>1, <2>3 DEF Unescapes
<1>13. ASSUME NEW n \in 1 .. N, n - 1 \in Good PROVE n \in Good
  <2>1. n \in 0 .. N /\ n \in Nat \ {0}
    BY <1>1
  <2>2. Unescapes(s, k, at, n - 1, list[n - 1]) /\ list[n] = UnescapeRound(d, size, list[n - 1])
    BY <1>10, <1>13 DEF Round
  <2>3. Unescapes(s, k, at, n, list[n])
    BY <1>11, <2>1, <2>2, UnescapesRound, SMTT(30)
  <2> QED
    BY <2>1, <2>3
<1> HIDE DEF Good
<1>14. N \in Good
  <2>1. N \in 0 .. N
    BY <1>1
  <2> QED
    BY <1>1, <1>12, <1>13, <2>1, EveryRound, Zenon
<1>15. PICK m \in 0 .. k : /\ m = N \/ (m = k /\ k <= N)
                           /\ list[N] = [read |-> at[m], dst |-> SubSeq(s, 1, m)]
  BY <1>14, Zenon DEF Good, Unescapes
<1>16. m = k
  BY <1>11, <1>15
<1> QED
  BY <1>3, <1>15, <1>16

----------------------------------------------------------------------------
(* Both.                                                                   *)

\* It holds before a string is escaped.
LEMMA EscapingInitInv == EscapingInit => EscapesReadBack
<1> SUFFICES ASSUME EscapingInit PROVE EscapesReadBack
  OBVIOUS
<1>1. src \in Seq(Char)
  <2>1. PICK n \in 0 .. MaxLength : src \in [1 .. n -> Char]
    BY DEF EscapingInit
  <2>2. n \in Nat
    BY EscapingAssumption
  <2> QED
    BY <2>1, <2>2
<1>2. escaped = <<>> /\ unescaped = <<>> /\ dst_size \in 1 .. MaxSize
  BY DEF EscapingInit
<1>3. <<>> \in Seq(Char) /\ <<>> \in Seq(Char \cup {"NUL"}) /\ Len(<<>>) = 0 /\ DOMAIN <<>> = {}
  OBVIOUS
<1>4. 0 < dst_size
  BY <1>2
<1> QED
  BY <1>1, <1>2, <1>3, <1>4 DEF EscapesReadBack, EscapingTypeOK, FitsClean, StringReadsBack

\* It holds of a string that was escaped and read back.
LEMMA EscapingStep ==
    ASSUME EscapesReadBack, EscapingNext PROVE EscapesReadBack'
<1>1. src \in Seq(Char) /\ dst_size \in 1 .. MaxSize /\ dst_size \in Nat \ {0}
      /\ MaxSize \in Nat /\ dst_size <= MaxSize
  BY EscapingAssumption DEF EscapesReadBack, EscapingTypeOK
<1>2. /\ escaped' = protocol_escape_string(src, dst_size)
      /\ unescaped' = protocol_unescape_string(escaped', MaxSize)
      /\ src' = src /\ dst_size' = dst_size
  BY DEF EscapingNext
<1>3. escaped' \in Seq(Plain) /\ Len(escaped') < dst_size
  BY <1>1, <1>2, EscapedString
<1>4. PICK k \in 0 .. Len(src) : /\ \E at : Spelled(src, k, escaped', at)
                                 /\ dst_size >= 2 * Len(src) + 1 => k = Len(src)
  BY <1>1, <1>2, EscapedString
<1>5. Len(escaped') < MaxSize
  <2>1. Len(escaped') \in Nat
    BY <1>3
  <2> QED
    BY <1>1, <1>3, <2>1
<1>6. unescaped' = SubSeq(src, 1, k)
  BY <1>1, <1>2, <1>3, <1>4, <1>5, UnescapedString
<1> DEFINE u == SubSeq(src, 1, k)
<1>7. k \in Nat /\ k <= Len(src) /\ Len(src) \in Nat
  <2>1. Len(src) \in Nat
    BY <1>1
  <2> QED
    BY <2>1
<1>8. u \in Seq(Char) /\ Len(u) = k /\ \A i \in 1 .. k : u[i] = src[i]
  <2>1. \A i \in 1 .. k : src[i] \in Char
    BY <1>1, <1>7
  <2> QED
    BY <1>1, <1>7, <2>1
<1>9. k = Len(src) => u = src
  <2> HIDE DEF u
  <2> QED
    BY <1>1, <1>8, SeqEqual
<1> HIDE DEF u
<1>10. StringReadsBack'
  BY <1>2, <1>4, <1>6, <1>9 DEF StringReadsBack, u
<1>11. Seq(Plain) \subseteq Seq(Char) /\ Seq(Char) \subseteq Seq(Char \cup {"NUL"})
  <2>1. Plain \subseteq Char /\ Char \subseteq Char \cup {"NUL"}
    BY SMTT(30) DEF Plain
  <2> QED
    BY <2>1, SeqMonotonic
<1>12. EscapingTypeOK'
  <2>1. unescaped' = u
    BY <1>6 DEF u
  <2> QED
    BY <1>1, <1>2, <1>3, <1>8, <1>11, <2>1 DEF EscapingTypeOK
<1>13. FitsClean'
  <2>1. \A p \in DOMAIN escaped' : escaped'[p] \in Plain
    BY <1>3
  <2>2. "TAB" \notin Plain /\ "NL" \notin Plain
    BY DEF Plain
  <2> QED
    BY <1>2, <1>3, <2>1, <2>2 DEF FitsClean
<1> QED
  BY <1>10, <1>12, <1>13 DEF EscapesReadBack

\* For strings of any length and buffers of any size: what
\* protocol_escape_string writes fits with its NUL and holds no separator, and
\* protocol_unescape_string reads it back as the string, or as a beginning of it
\* if the buffer was too short.
THEOREM EscapingReadsBack == EscapingSpec => []EscapesReadBack
<1>1. EscapesReadBack /\ [EscapingNext]_escapingVars => EscapesReadBack'
  <2>1. EscapesReadBack /\ UNCHANGED escapingVars => EscapesReadBack'
    BY DEF EscapesReadBack, escapingVars, EscapingTypeOK, FitsClean, StringReadsBack
  <2> QED
    BY <2>1, EscapingStep
<1> QED
  BY <1>1, EscapingInitInv, PTL DEF EscapingSpec
=============================================================================
