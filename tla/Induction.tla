------------------------------- MODULE Induction -------------------------------
(***************************************************************************)
(* Induction for a set of numbers, and functions defined by recursion: the *)
(* forms of the library take an operator as a parameter, which the provers *)
(* cannot instantiate.  FlattenSeq() is one such function.                 *)
(***************************************************************************)
EXTENDS Integers, SequencesExt, SequenceTheorems, WellFoundedInduction, TLAPS

\* A set of numbers that has 0, and n + 1 whenever it has n, has every number.
LEMMA SetInduction ==
  ASSUME NEW S, 0 \in S, \A n \in Nat : n \in S => n + 1 \in S
  PROVE  \A n \in Nat : n \in S
<1> DEFINE T == Nat \ S
<1> SUFFICES ASSUME T # {} PROVE FALSE
  OBVIOUS
<1>1. PICK x \in T : \A y \in T : ~(y < x)
  <2>1. PICK x \in T : \A y \in T : ~(<<y, x>> \in OpToRel(<, Nat))
    BY WFMin, NatLessThanWellFounded, Zenon
  <2> QED BY <2>1 DEF OpToRel
<1>2. x \in Nat /\ x # 0
  BY <1>1
<1>3. x - 1 \in Nat /\ x - 1 < x /\ (x - 1) + 1 = x
  BY <1>2
<1>4. x - 1 \in S
  BY <1>1, <1>3
<1> QED BY <1>1, <1>3, <1>4

\* There is a sequence of values that starts at d and goes on by F.
Recurs(D, d, N, F) ==
  \E g \in [0 .. N -> D] : g[0] = d /\ \A n \in 1 .. N : g[n] = F[<<g[n - 1], n>>]

LEMMA Recursion ==
  ASSUME NEW D, NEW d \in D, NEW N \in Nat, NEW F \in [D \X (1 .. N) -> D]
  PROVE  Recurs(D, d, N, F)
<1> DEFINE Good(m, g) == g[0] = d /\ \A n \in 1 .. m : g[n] = F[<<g[n - 1], n>>]
           S == {m \in Nat : m <= N => \E g \in [0 .. m -> D] : Good(m, g)}
<1>1. 0 \in S
  <2> DEFINE g == [n \in 0 .. 0 |-> d]
  <2>1. g \in [0 .. 0 -> D] /\ Good(0, g)
    OBVIOUS
  <2> QED BY <2>1
<1>2. ASSUME NEW m \in Nat, m \in S PROVE m + 1 \in S
  <2> SUFFICES ASSUME m + 1 <= N PROVE \E g \in [0 .. m + 1 -> D] : Good(m + 1, g)
    OBVIOUS
  <2>1. PICK g \in [0 .. m -> D] : Good(m, g)
    BY <1>2
  <2>2. PICK e \in D : e = F[<<g[m], m + 1>>]
    <3>1. g[m] \in D /\ m + 1 \in 1 .. N
      OBVIOUS
    <3> QED BY <3>1
  <2> DEFINE h == [n \in 0 .. m + 1 |-> IF n <= m THEN g[n] ELSE e]
  <2>3. h \in [0 .. m + 1 -> D] /\ h[0] = d
    BY <2>1
  <2>4. \A n \in 1 .. m : h[n] = g[n] /\ h[n - 1] = g[n - 1]
    OBVIOUS
  <2>5. h[m + 1] = e /\ h[m] = g[m]
    OBVIOUS
  <2> HIDE DEF h
  <2>6. \A n \in 1 .. m + 1 : h[n] = F[<<h[n - 1], n>>]
    <3> SUFFICES ASSUME NEW n \in 1 .. m + 1 PROVE h[n] = F[<<h[n - 1], n>>]
      OBVIOUS
    <3>1. CASE n \in 1 .. m
      BY <2>1, <2>4, <3>1
    <3>2. CASE n = m + 1
      <4>1. n - 1 = m
        BY <3>2
      <4> QED BY <2>2, <2>5, <3>2, <4>1
    <3> QED BY <3>1, <3>2
  <2> QED BY <2>3, <2>6
<1>3. N \in S
  <2> HIDE DEF S
  <2> QED BY <1>1, <1>2, SetInduction
<1> QED BY <1>3 DEF Recurs

\* A set of sequences that has <<>>, and Append(s, b) whenever it has s, has all.
LEMMA SnocInduction ==
  ASSUME NEW B, NEW Q, <<>> \in Q, \A s \in Seq(B), b \in B : s \in Q => Append(s, b) \in Q
  PROVE  \A s \in Seq(B) : s \in Q
<1> DEFINE S == {n \in Nat : \A s \in Seq(B) : Len(s) = n => s \in Q}
<1>1. 0 \in S
  <2> SUFFICES ASSUME NEW s \in Seq(B), Len(s) = 0 PROVE s \in Q
    OBVIOUS
  <2>1. s = <<>>
    OBVIOUS
  <2> QED BY <2>1
<1>2. ASSUME NEW n \in Nat, n \in S PROVE n + 1 \in S
  <2> SUFFICES ASSUME NEW s \in Seq(B), Len(s) = n + 1 PROVE s \in Q
    OBVIOUS
  <2> DEFINE t == SubSeq(s, 1, n)
             b == s[n + 1]
  <2>1. t \in Seq(B) /\ b \in B /\ Len(t) = n
    OBVIOUS
  <2>2. s = Append(t, b)
    OBVIOUS
  <2>3. t \in Q
    BY <1>2, <2>1
  <2> HIDE DEF t, b
  <2> QED BY <2>1, <2>2, <2>3
<1>3. \A n \in Nat : n \in S
  <2> HIDE DEF S
  <2> QED BY <1>1, <1>2, SetInduction
<1> QED BY <1>3

----------------------------------------------------------------------------
(***************************************************************************)
(* FlattenSeq()                                                            *)
(***************************************************************************)

\* g[i] is what the first i of some sequences make, one after the other.
Chained(seqs, g) ==
  /\ g[1] = seqs[1]
  /\ \A i \in 2 .. Len(seqs) : g[i] = g[i - 1] \o seqs[i]

LEMMA FlattenRecursion ==
  ASSUME NEW L, NEW seqs \in Seq(Seq(L)), seqs # <<>>
  PROVE  \E g \in [1 .. Len(seqs) -> Seq(L)] : Chained(seqs, g) /\ FlattenSeq(seqs) = g[Len(seqs)]
<1> DEFINE N == Len(seqs)
           Body(h) == [i \in 1 .. Len(seqs) |-> IF i = 1 THEN seqs[i] ELSE h[i - 1] \o seqs[i]]
           F == [x \in Seq(L) \X (1 .. N - 1) |-> x[1] \o seqs[x[2] + 1]]
<1>1. N \in Nat /\ N >= 1 /\ N - 1 \in Nat /\ \A i \in 1 .. N : seqs[i] \in Seq(L)
  OBVIOUS
<1>2. F \in [Seq(L) \X (1 .. N - 1) -> Seq(L)]
  <2> SUFFICES ASSUME NEW d \in Seq(L), NEW n \in 1 .. N - 1 PROVE d \o seqs[n + 1] \in Seq(L)
    OBVIOUS
  <2>1. seqs[n + 1] \in Seq(L)
    BY <1>1
  <2> QED BY <2>1
<1>3. PICK e \in [0 .. N - 1 -> Seq(L)] :
        e[0] = seqs[1] /\ \A n \in 1 .. N - 1 : e[n] = F[<<e[n - 1], n>>]
  <2>1. PICK D, d, K, G : D = Seq(L) /\ d = seqs[1] /\ K = N - 1 /\ G = F
    OBVIOUS
  <2>2. d \in D /\ K \in Nat /\ G \in [D \X (1 .. K) -> D]
    BY <1>1, <1>2, <2>1
  <2>3. Recurs(D, d, K, G)
    BY <2>2, Recursion, Zenon
  <2> HIDE DEF F, N
  <2> QED BY <2>1, <2>3, Zenon DEF Recurs
<1>4. \A n \in 1 .. N - 1 : e[n - 1] \in Seq(L) /\ e[n] = e[n - 1] \o seqs[n + 1]
  <2> SUFFICES ASSUME NEW n \in 1 .. N - 1
               PROVE  e[n - 1] \in Seq(L) /\ e[n] = e[n - 1] \o seqs[n + 1]
    OBVIOUS
  <2>1. n - 1 \in 0 .. N - 1
    BY <1>1
  <2>2. <<e[n - 1], n>> \in Seq(L) \X (1 .. N - 1)
    BY <2>1
  <2> QED BY <1>3, <2>1, <2>2
<1> HIDE DEF F
<1> DEFINE g == [i \in 1 .. N |-> e[i - 1]]
<1>5. g \in [1 .. N -> Seq(L)]
  BY <1>1
<1>6. g[1] = seqs[1]
  BY <1>1, <1>3
<1>7. \A i \in 2 .. N : g[i] = g[i - 1] \o seqs[i]
  <2> SUFFICES ASSUME NEW i \in 2 .. N PROVE g[i] = g[i - 1] \o seqs[i]
    OBVIOUS
  <2>1. i - 1 \in 1 .. N - 1 /\ (i - 1) + 1 = i /\ i \in 1 .. N /\ i - 1 \in 1 .. N
    BY <1>1
  <2>2. g[i] = e[i - 1] /\ g[i - 1] = e[(i - 1) - 1]
    BY <2>1
  <2> HIDE DEF g
  <2> QED BY <1>4, <2>1, <2>2
<1> HIDE DEF g
<1>8. g = Body(g)
  <2>1. \A i \in 1 .. N : i = 1 \/ i \in 2 .. N
    BY <1>1
  <2>2. \A i \in 1 .. N : g[i] = Body(g)[i]
    BY <1>6, <1>7, <2>1
  <2> QED BY <1>5, <2>2
<1> DEFINE h == CHOOSE h : h = Body(h)
<1>9. h = Body(h)
  <2> HIDE DEF Body
  <2> QED BY <1>8
<1>10. FlattenSeq(seqs) = h[Len(seqs)]
  <2>1. Len(seqs) # 0
    BY <1>1
  <2> QED BY <2>1, Zenon DEF FlattenSeq
<1> HIDE DEF h
<1>11. h[1] = seqs[1]
  BY <1>1, <1>9
<1>12. \A i \in 2 .. N : h[i] = h[i - 1] \o seqs[i]
  <2> SUFFICES ASSUME NEW i \in 2 .. N PROVE h[i] = h[i - 1] \o seqs[i]
    OBVIOUS
  <2>1. i \in 1 .. N /\ i # 1
    BY <1>1
  <2>2. PICK b : b = Body(h)
    OBVIOUS
  <2>3. b[i] = h[i - 1] \o seqs[i]
    BY <2>1, <2>2
  <2> QED BY <1>9, <2>2, <2>3
<1>13. \A n \in 0 .. N - 1 : h[n + 1] = g[n + 1]
  <2> DEFINE S == {n \in Nat : n <= N - 1 => h[n + 1] = g[n + 1]}
  <2>1. 0 \in S
    BY <1>6, <1>11
  <2>2. ASSUME NEW n \in Nat, n \in S PROVE n + 1 \in S
    <3> SUFFICES ASSUME n + 1 <= N - 1 PROVE h[(n + 1) + 1] = g[(n + 1) + 1]
      OBVIOUS
    <3>1. h[n + 1] = g[n + 1] /\ (n + 1) + 1 \in 2 .. N /\ ((n + 1) + 1) - 1 = n + 1
      BY <1>1, <2>2
    <3> HIDE DEF S
    <3> QED BY <1>7, <1>12, <3>1
  <2>3. \A n \in Nat : n \in S
    <3> HIDE DEF S
    <3> QED BY <2>1, <2>2, SetInduction
  <2> QED BY <2>3
<1>14. g[N] = h[N]
  <2>1. N - 1 \in 0 .. N - 1 /\ (N - 1) + 1 = N
    BY <1>1
  <2>2. h[(N - 1) + 1] = g[(N - 1) + 1]
    BY <1>13, <2>1
  <2> QED BY <2>1, <2>2
<1>15. Chained(seqs, g)
  BY <1>6, <1>7 DEF Chained
<1> QED BY <1>5, <1>10, <1>14, <1>15

LEMMA FlattenEmpty == FlattenSeq(<<>>) = <<>>
  BY DEF FlattenSeq

\* One more sequence comes behind the others.
LEMMA FlattenSnoc ==
  ASSUME NEW L, NEW q \in Seq(Seq(L)), NEW x \in Seq(L)
  PROVE  /\ FlattenSeq(q) \in Seq(L)
         /\ FlattenSeq(Append(q, x)) = FlattenSeq(q) \o x
<1> DEFINE r == Append(q, x)
           n == Len(q)
<1>1. /\ r \in Seq(Seq(L)) /\ r # <<>> /\ n \in Nat /\ Len(r) = n + 1 /\ r[n + 1] = x
      /\ \A i \in 1 .. n : r[i] = q[i]
  <2>1. PICK E : E = Seq(L)
    OBVIOUS
  <2>2. q \in Seq(E) /\ x \in E /\ n \in Nat
    BY <2>1
  <2>3. r \in Seq(E) /\ Len(r) = n + 1 /\ r[n + 1] = x
    BY <2>2
  <2>4. \A i \in 1 .. n : r[i] = q[i]
    BY <2>2
  <2> QED BY <2>1, <2>2, <2>3, <2>4
<1> HIDE DEF r
<1>2. PICK g \in [1 .. Len(r) -> Seq(L)] : Chained(r, g) /\ FlattenSeq(r) = g[Len(r)]
  BY <1>1, FlattenRecursion, Zenon
<1>3. CASE q = <<>>
  <2>1. FlattenSeq(q) = <<>> /\ n = 0
    BY <1>3, FlattenEmpty
  <2>2. FlattenSeq(r) = x
    BY <1>1, <1>2, <2>1 DEF Chained
  <2>3. <<>> \in Seq(L) /\ <<>> \o x = x
    BY EmptySeq, ConcatEmptySeq, Zenon
  <2> QED BY <2>1, <2>2, <2>3 DEF r
<1>4. CASE q # <<>>
  <2>1. PICK h \in [1 .. Len(q) -> Seq(L)] : Chained(q, h) /\ FlattenSeq(q) = h[Len(q)]
    BY <1>4, FlattenRecursion, Zenon
  <2>2. n >= 1
    BY <1>4
  <2> DEFINE S == {i \in Nat : i + 1 <= n => g[i + 1] = h[i + 1]}
  <2>3. 0 \in S
    BY <1>1, <1>2, <2>1, <2>2 DEF Chained
  <2>4. ASSUME NEW i \in Nat, i \in S PROVE i + 1 \in S
    <3> SUFFICES ASSUME i + 2 <= n PROVE g[i + 2] = h[i + 2]
      OBVIOUS
    <3>1. g[i + 1] = h[i + 1] /\ r[i + 2] = q[i + 2]
      BY <1>1, <2>4
    <3>2. /\ i + 2 \in 2 .. Len(q) /\ i + 2 \in 2 .. Len(r) /\ (i + 2) - 1 = i + 1
      BY <1>1
    <3>3. g[i + 2] = g[i + 1] \o r[i + 2] /\ h[i + 2] = h[i + 1] \o q[i + 2]
      BY <1>2, <2>1, <3>2 DEF Chained
    <3> QED BY <3>1, <3>3
  <2>5. \A i \in Nat : i \in S
    <3> HIDE DEF S
    <3> QED BY <2>3, <2>4, SetInduction
  <2>6. g[n] = h[n]
    <3>1. n - 1 \in Nat /\ (n - 1) + 1 = n /\ n <= n
      BY <1>1, <2>2
    <3> HIDE DEF n
    <3> QED BY <2>5, <3>1
  <2>7. g[n + 1] = g[n] \o x
    <3>1. n + 1 \in 2 .. Len(r) /\ (n + 1) - 1 = n
      BY <1>1, <2>2
    <3> QED BY <1>1, <1>2, <3>1 DEF Chained
  <2>8. h[n] \in Seq(L)
    <3>1. n \in 1 .. Len(q)
      BY <1>1, <2>2
    <3> HIDE DEF n
    <3> QED BY <2>1, <3>1
  <2> QED BY <1>1, <1>2, <2>1, <2>6, <2>7, <2>8 DEF r
<1> QED BY <1>3, <1>4
==============================================================================
