------------------------------- MODULE SortProofs -------------------------------
(***************************************************************************)
(* Proofs about Sort for any command lines, any number of files, of lines  *)
(* and of threads, and any bound on the temporary files: the types, what   *)
(* becomes of the files, and that the output is sorted.                    *)
(***************************************************************************)
EXTENDS Sort, MergeHeapProofs, Induction, FiniteSetTheorems, SequenceTheorems

----------------------------------------------------------------------------
(***************************************************************************)
(* What StableSort() and Dump() make of a sequence.                        *)
(***************************************************************************)

\* The line i of s comes before the line j, and how many come before i.
First(s, i, j) ==
  Coll(job.sflag, s[i], s[j]) < 0 \/ (Coll(job.sflag, s[i], s[j]) = 0 /\ i < j)
Rank(s, i) == Cardinality({j \in DOMAIN s : First(s, j, i)})

\* The order of the lines is total.
LEMMA FirstFacts ==
  ASSUME job.sflag \in BOOLEAN, NEW s \in Seq(Line),
         NEW i \in 1 .. Len(s), NEW j \in 1 .. Len(s), NEW k \in 1 .. Len(s)
  PROVE  /\ ~First(s, i, i)
         /\ First(s, i, j) => ~First(s, j, i)
         /\ i # j => First(s, i, j) \/ First(s, j, i)
         /\ First(s, i, j) /\ First(s, j, k) => First(s, i, k)
<1>1. s[i] \in Line /\ s[j] \in Line /\ s[k] \in Line
  OBVIOUS
<1>2. /\ s[i].key \in Nat /\ s[i].rest \in Nat /\ s[j].key \in Nat /\ s[j].rest \in Nat
      /\ s[k].key \in Nat /\ s[k].rest \in Nat
  BY <1>1 DEF Line
<1>3. i \in Nat /\ j \in Nat /\ k \in Nat
  OBVIOUS
<1>4. CASE job.sflag = TRUE
  <2>1. \A m, n \in {i, j, k} :
          First(s, m, n) <=> s[m].key < s[n].key \/ (s[m].key = s[n].key /\ m < n)
    BY SMTT(30), <1>2, <1>3, <1>4 DEF First, Coll
  <2> QED BY <1>2, <1>3, <2>1
<1>5. CASE job.sflag = FALSE
  <2>1. \A m, n \in {i, j, k} :
          First(s, m, n) <=>
            \/ s[m].key < s[n].key
            \/ s[m].key = s[n].key /\ s[m].rest < s[n].rest
            \/ s[m].key = s[n].key /\ s[m].rest = s[n].rest /\ m < n
    BY SMTT(30), <1>2, <1>3, <1>5 DEF First, Coll
  <2> QED BY SMTT(30), <1>2, <1>3, <2>1
<1> QED BY <1>4, <1>5

\* The ranks are those from 0 to Len(s) - 1, each once, in the order of the lines.
LEMMA RankFacts ==
  ASSUME job.sflag \in BOOLEAN, NEW s \in Seq(Line)
  PROVE  /\ \A i \in 1 .. Len(s) : Rank(s, i) \in 0 .. Len(s) - 1
         /\ \A i, j \in 1 .. Len(s) : First(s, i, j) => Rank(s, i) < Rank(s, j)
         /\ \A k \in 0 .. Len(s) - 1 : \E i \in 1 .. Len(s) : Rank(s, i) = k
<1> DEFINE S == 1 .. Len(s)
           P(i) == {j \in S : First(s, j, i)}
<1>1. Len(s) \in Nat /\ IsFiniteSet(S) /\ Cardinality(S) = Len(s)
  <2>1. Len(s) \in Nat
    OBVIOUS
  <2> QED BY <2>1, FS_Interval
<1>2. \A i \in S : IsFiniteSet(P(i)) /\ Rank(s, i) = Cardinality(P(i)) /\ Rank(s, i) \in Nat
  <2> SUFFICES ASSUME NEW i \in S
               PROVE  IsFiniteSet(P(i)) /\ Rank(s, i) = Cardinality(P(i)) /\ Rank(s, i) \in Nat
    OBVIOUS
  <2>1. P(i) \in SUBSET S
    OBVIOUS
  <2>2. IsFiniteSet(P(i))
    BY <1>1, <2>1, FS_Subset
  <2>3. Rank(s, i) = Cardinality(P(i))
    <3>1. DOMAIN s = S
      OBVIOUS
    <3>2. {j \in DOMAIN s : First(s, j, i)} = P(i)
      BY <3>1
    <3> QED BY <3>2 DEF Rank
  <2> QED BY <2>2, <2>3, FS_CardinalityType
<1>3. ASSUME NEW i \in S PROVE Rank(s, i) \in 0 .. Len(s) - 1
  <2>1. P(i) \in SUBSET S /\ i \notin P(i)
    BY FirstFacts
  <2>2. Cardinality(P(i)) <= Cardinality(S) /\ Cardinality(P(i)) # Cardinality(S)
    BY <1>1, <2>1, FS_Subset
  <2>3. Rank(s, i) <= Len(s) /\ Rank(s, i) # Len(s) /\ Rank(s, i) \in Nat
    BY <1>1, <1>2, <2>2
  <2> QED BY <1>1, <2>3
<1>4. ASSUME NEW i \in S, NEW j \in S, First(s, i, j) PROVE Rank(s, i) < Rank(s, j)
  <2>1. P(i) \in SUBSET P(j)
    BY <1>4, FirstFacts
  <2>2. i \in P(j) /\ i \notin P(i)
    BY <1>4, FirstFacts
  <2>3. Cardinality(P(i)) <= Cardinality(P(j)) /\ Cardinality(P(i)) # Cardinality(P(j))
    BY <1>2, <2>1, <2>2, FS_Subset
  <2>4. /\ Rank(s, i) <= Rank(s, j) /\ Rank(s, i) # Rank(s, j)
        /\ Rank(s, i) \in Nat /\ Rank(s, j) \in Nat
    BY <1>2, <2>3
  <2> QED BY <2>4
<1>5. \A k \in 0 .. Len(s) - 1 : \E i \in S : Rank(s, i) = k
  <2> DEFINE T == 0 .. Len(s) - 1
             R == [i \in S |-> Rank(s, i)]
  <2>1. IsFiniteSet(T) /\ Cardinality(T) = Len(s)
    <3>1. Len(s) - 1 \in Int /\ 0 \in Int
      BY <1>1
    <3>2. IsFiniteSet(T) /\ Cardinality(T) = (IF 0 > Len(s) - 1 THEN 0 ELSE (Len(s) - 1) - 0 + 1)
      BY <3>1, FS_Interval
    <3> QED BY <1>1, <3>2
  <2>2. R \in [S -> T]
    BY <1>3
  <2>3. \A i, j \in S : R[i] = R[j] => i = j
    <3> SUFFICES ASSUME NEW i \in S, NEW j \in S, i # j PROVE R[i] # R[j]
      OBVIOUS
    <3>1. First(s, i, j) \/ First(s, j, i)
      BY FirstFacts
    <3>2. Rank(s, i) < Rank(s, j) \/ Rank(s, j) < Rank(s, i)
      BY <1>4, <3>1
    <3>3. Rank(s, i) \in Nat /\ Rank(s, j) \in Nat
      BY <1>2
    <3>4. Rank(s, i) # Rank(s, j)
      BY <3>2, <3>3
    <3> QED BY <3>4
  <2>4. R \in Injection(S, T)
    BY <2>2, <2>3 DEF Injection, IsInjective
  <2>5. R \in Surjection(S, T)
    BY <1>1, <2>1, <2>4, FS_Injection
  <2> HIDE DEF R
  <2>6. \A k \in T : \E i \in S : R[i] = k
    BY <2>5 DEF Surjection
  <2> QED BY <2>6 DEF R
<1> QED BY <1>3, <1>4, <1>5

\* StableSort() is a permutation of the lines that puts them in order.
LEMMA StableSortFacts ==
  ASSUME job.sflag \in BOOLEAN, NEW s \in Seq(Line)
  PROVE  /\ StableSort(s) \in Seq(Line) /\ Len(StableSort(s)) = Len(s)
         /\ \E p \in [1 .. Len(s) -> 1 .. Len(s)] :
              /\ \A k \in 1 .. Len(s) : StableSort(s)[k] = s[p[k]]
              /\ \A j, k \in 1 .. Len(s) : j < k => First(s, p[j], p[k])
              /\ \A i \in 1 .. Len(s) : \E k \in 1 .. Len(s) : p[k] = i
<1> DEFINE S == 1 .. Len(s)
           Nth(k) == CHOOSE i \in DOMAIN s : Rank(s, i) = k - 1
           p == [k \in S |-> Nth(k)]
           t == [k \in DOMAIN s |-> s[Nth(k)]]
<1>1. StableSort(s) = t
  BY Zenon DEF StableSort, Rank, First
<1>2. Len(s) \in Nat /\ DOMAIN s = S
  OBVIOUS
<1>3. \A k \in S : p[k] \in S /\ Rank(s, p[k]) = k - 1
  <2> SUFFICES ASSUME NEW k \in S PROVE p[k] \in S /\ Rank(s, p[k]) = k - 1
    OBVIOUS
  <2>1. k - 1 \in 0 .. Len(s) - 1
    BY <1>2
  <2>2. \E i \in S : Rank(s, i) = k - 1
    BY <2>1, RankFacts
  <2>3. Nth(k) \in S /\ Rank(s, Nth(k)) = k - 1
    BY <1>2, <2>2
  <2> QED BY <2>3
<1>4. p \in [S -> S]
  BY <1>3
<1>5. t \in [S -> Line] /\ \A k \in S : t[k] = s[p[k]]
  <2>1. \A k \in S : p[k] = Nth(k) /\ t[k] = s[Nth(k)]
    BY <1>2
  <2>2. \A k \in S : s[p[k]] \in Line
    BY <1>3
  <2> HIDE DEF Nth, p
  <2> QED BY <1>2, <2>1, <2>2
<1> HIDE DEF t, p
<1>6. t \in Seq(Line) /\ Len(t) = Len(s)
  <2> DEFINE n == Len(s)
  <2>1. n \in Nat /\ t \in [1 .. n -> Line]
    BY <1>2, <1>5
  <2> HIDE DEF n
  <2>2. t \in Seq(Line) /\ Len(t) = n
    BY <2>1
  <2> QED BY <2>2 DEF n
<1>7. ASSUME NEW j \in S, NEW k \in S, j < k PROVE First(s, p[j], p[k])
  <2>1. Rank(s, p[j]) < Rank(s, p[k]) /\ p[j] \in S /\ p[k] \in S
    BY <1>2, <1>3, <1>7
  <2>2. Rank(s, p[j]) \in 0 .. Len(s) - 1 /\ Rank(s, p[k]) \in 0 .. Len(s) - 1
    BY <2>1, RankFacts
  <2>3. ~First(s, p[k], p[j])
    <3>1. First(s, p[k], p[j]) => Rank(s, p[k]) < Rank(s, p[j])
      BY <2>1, RankFacts
    <3> QED BY <2>1, <2>2, <3>1
  <2>4. p[j] # p[k]
    BY <2>1, <2>2
  <2> QED BY <2>1, <2>3, <2>4, FirstFacts
<1>8. ASSUME NEW i \in S PROVE \E k \in S : p[k] = i
  <2> DEFINE k == Rank(s, i) + 1
  <2>1. Rank(s, i) \in 0 .. Len(s) - 1
    BY RankFacts
  <2>2. k \in S /\ k - 1 = Rank(s, i)
    BY <1>2, <2>1
  <2> HIDE DEF k
  <2>3. Rank(s, p[k]) = Rank(s, i) /\ p[k] \in S
    BY <1>3, <2>2
  <2>4. p[k] = i
    <3> SUFFICES ASSUME p[k] # i PROVE FALSE
      OBVIOUS
    <3>1. First(s, p[k], i) \/ First(s, i, p[k])
      BY <2>3, FirstFacts
    <3>2. Rank(s, p[k]) < Rank(s, i) \/ Rank(s, i) < Rank(s, p[k])
      BY <2>3, <3>1, RankFacts
    <3> QED BY <2>1, <2>3, <3>2
  <2> QED BY <2>2, <2>4
<1> QED BY <1>1, <1>4, <1>5, <1>6, <1>7, <1>8
LEMMA CollFacts ==
  ASSUME NEW s \in BOOLEAN, NEW a \in Line, NEW b \in Line, NEW c \in Line
  PROVE  /\ Coll(s, a, b) \in Int /\ Coll(s, a, b) = -Coll(s, b, a) /\ Coll(s, a, a) = 0
         /\ Coll(s, a, b) <= 0 /\ Coll(s, b, c) <= 0 => Coll(s, a, c) <= 0
         /\ Coll(s, a, b) <= 0 /\ Coll(s, b, c) < 0 => Coll(s, a, c) < 0
         /\ Coll(s, a, b) = 0 /\ Coll(s, b, c) = 0 => Coll(s, a, c) = 0
<1>1. /\ a.key \in Nat /\ b.key \in Nat /\ c.key \in Nat
      /\ a.rest \in Nat /\ b.rest \in Nat /\ c.rest \in Nat
  BY DEF Line
<1>2. CASE s = TRUE
  BY <1>1, <1>2 DEF Coll
<1>3. CASE s = FALSE
  BY <1>1, <1>3 DEF Coll
<1> QED BY <1>2, <1>3

\* sort_list_dump() goes from one line to the next.
DumpStep(d, l) ==
  IF d # <<>> /\ Coll(job.sflag, d[Len(d)], l) = 0 THEN d ELSE Append(d, l)

LEMMA DumpRecursion ==
  ASSUME job.uflag = TRUE, job.sflag \in BOOLEAN, NEW s \in Seq(Line)
  PROVE  \E g \in [0 .. Len(s) -> Seq(Line)] :
           /\ g[0] = <<>> /\ Dump(s) = g[Len(s)]
           /\ \A n \in 1 .. Len(s) : g[n] = DumpStep(g[n - 1], s[n])
<1> DEFINE N == Len(s)
           Body(h) == [n \in 0 .. Len(s) |->
                         IF n = 0 THEN <<>>
                         ELSE IF h[n - 1] # <<>> /\ Coll(job.sflag, h[n - 1][Len(h[n - 1])], s[n]) = 0
                         THEN h[n - 1] ELSE Append(h[n - 1], s[n])]
           F == [x \in Seq(Line) \X (1 .. N) |-> DumpStep(x[1], s[x[2]])]
<1>1. N \in Nat /\ \A n \in 1 .. N : s[n] \in Line
  OBVIOUS
<1>2. F \in [Seq(Line) \X (1 .. N) -> Seq(Line)]
  <2> SUFFICES ASSUME NEW d \in Seq(Line), NEW n \in 1 .. N PROVE DumpStep(d, s[n]) \in Seq(Line)
    OBVIOUS
  <2>1. Append(d, s[n]) \in Seq(Line)
    BY <1>1
  <2> QED BY <2>1 DEF DumpStep
<1>3. PICK g \in [0 .. N -> Seq(Line)] :
        g[0] = <<>> /\ \A n \in 1 .. N : g[n] = F[<<g[n - 1], n>>]
  <2>1. PICK D, d, K, G : D = Seq(Line) /\ d = <<>> /\ K = N /\ G = F
    OBVIOUS
  <2>2. d \in D /\ K \in Nat /\ G \in [D \X (1 .. K) -> D]
    BY <1>1, <1>2, <2>1
  <2>3. Recurs(D, d, K, G)
    BY <2>2, Recursion, Zenon
  <2> HIDE DEF F, N
  <2> QED BY <2>1, <2>3, Zenon DEF Recurs
<1>4. \A n \in 1 .. N : g[n - 1] \in Seq(Line) /\ g[n] = DumpStep(g[n - 1], s[n])
  <2> SUFFICES ASSUME NEW n \in 1 .. N
               PROVE  g[n - 1] \in Seq(Line) /\ g[n] = DumpStep(g[n - 1], s[n])
    OBVIOUS
  <2>1. n - 1 \in 0 .. N
    BY <1>1
  <2>2. <<g[n - 1], n>> \in Seq(Line) \X (1 .. N)
    BY <2>1
  <2> QED BY <1>3, <2>1, <2>2
<1>5. g = Body(g)
  <2>1. \A n \in 0 .. N : n = 0 \/ n \in 1 .. N
    BY <1>1
  <2>2. \A n \in 0 .. N : g[n] = Body(g)[n]
    BY <1>3, <1>4, <2>1 DEF DumpStep
  <2> QED BY <1>3, <2>2
<1> DEFINE h == CHOOSE h : h = Body(h)
<1>6. h = Body(h)
  <2> HIDE DEF Body
  <2> QED BY <1>5
<1>7. Dump(s) = h[Len(s)]
  BY Zenon DEF Dump
<1> HIDE DEF h
<1>8. h[0] = <<>>
  BY <1>1, <1>6
<1>9. \A n \in 1 .. N : h[n] = DumpStep(h[n - 1], s[n])
  <2> SUFFICES ASSUME NEW n \in 1 .. N PROVE h[n] = DumpStep(h[n - 1], s[n])
    OBVIOUS
  <2>1. n \in 0 .. N /\ n # 0
    BY <1>1
  <2>2. PICK b : b = Body(h)
    OBVIOUS
  <2>3. b[n] = DumpStep(h[n - 1], s[n])
    BY <2>1, <2>2 DEF DumpStep
  <2>4. h = b
    BY <1>6, <2>2
  <2> QED BY <2>3, <2>4
<1>10. \A n \in 0 .. N : h[n] = g[n]
  <2> DEFINE S == {n \in Nat : n <= N => h[n] = g[n]}
  <2>1. 0 \in S
    BY <1>3, <1>8
  <2>2. ASSUME NEW n \in Nat, n \in S PROVE n + 1 \in S
    <3> SUFFICES ASSUME n + 1 <= N PROVE h[n + 1] = g[n + 1]
      OBVIOUS
    <3>1. h[n] = g[n] /\ n + 1 \in 1 .. N /\ (n + 1) - 1 = n
      BY <1>1, <2>2
    <3> HIDE DEF S
    <3> QED BY <1>4, <1>9, <3>1
  <2>3. \A n \in Nat : n \in S
    <3> HIDE DEF S
    <3> QED BY <2>1, <2>2, SetInduction
  <2> QED BY <2>3
<1>11. g[N] = h[N]
  BY <1>1, <1>10
<1> QED BY <1>3, <1>4, <1>7, <1>11

\* No line of s comes before one in front of it.
Ascending(s) ==
  \A j, k \in 1 .. Len(s) : j < k => Coll(job.sflag, s[j], s[k]) <= 0

\* d is what is left of the first n lines of s: the lines q, one at least as
\* early as each of them; if s is in order they are all different, and there is
\* one for each line that compares equal.
Keeps(s, n, d, q) ==
  /\ \A k \in 1 .. Len(d) : d[k] = s[q[k]]
  /\ \A j, k \in 1 .. Len(d) : j < k => q[j] < q[k]
  /\ Ascending(s) =>
       /\ \A j, k \in 1 .. Len(d) : j < k => Coll(job.sflag, d[j], d[k]) # 0
       /\ \A i \in 1 .. n : \E k \in 1 .. Len(d) : q[k] <= i /\ Coll(job.sflag, d[k], s[i]) = 0

LEMMA DumpStepFacts ==
  ASSUME job.sflag \in BOOLEAN, NEW s \in Seq(Line), NEW n \in Nat, n + 1 <= Len(s),
         NEW d \in Seq(Line), NEW q \in [1 .. Len(d) -> 1 .. n], Keeps(s, n, d, q),
         NEW e, e = DumpStep(d, s[n + 1])
  PROVE  \E r \in [1 .. Len(e) -> 1 .. n + 1] : Keeps(s, n + 1, e, r)
<1> DEFINE l == s[n + 1]
<1>1. /\ Len(s) \in Nat /\ Len(d) \in Nat /\ n + 1 \in 1 .. Len(s) /\ l \in Line
      /\ \A k \in 1 .. Len(d) : q[k] \in 1 .. n /\ q[k] \in 1 .. n + 1 /\ q[k] \in 1 .. Len(s)
      /\ \A k \in 1 .. Len(d) : d[k] \in Line
  OBVIOUS
<1>2. CASE d # <<>> /\ Coll(job.sflag, d[Len(d)], l) = 0
  <2>1. e = d
    BY <1>2 DEF DumpStep
  <2>2. q \in [1 .. Len(d) -> 1 .. n + 1]
    BY <1>1
  <2>3. Len(d) \in 1 .. Len(d) /\ q[Len(d)] <= n + 1
    BY <1>1, <1>2
  <2>4. Keeps(s, n + 1, d, q)
    <3>1. ASSUME Ascending(s), NEW i \in 1 .. n + 1
          PROVE  \E k \in 1 .. Len(d) : q[k] <= i /\ Coll(job.sflag, d[k], s[i]) = 0
      <4>1. CASE i \in 1 .. n
        BY <3>1, <4>1 DEF Keeps
      <4>2. CASE i = n + 1
        BY <1>2, <2>3, <4>2
      <4> QED BY <4>1, <4>2
    <3> QED BY <3>1 DEF Keeps
  <2> QED BY <2>1, <2>2, <2>4
<1>3. CASE ~(d # <<>> /\ Coll(job.sflag, d[Len(d)], l) = 0)
  <2> DEFINE m == Len(d)
             r == [k \in 1 .. m + 1 |-> IF k <= m THEN q[k] ELSE n + 1]
  <2>1. e = Append(d, l)
    BY <1>3 DEF DumpStep
  <2>2. /\ Len(e) = m + 1 /\ e[m + 1] = l
        /\ \A k \in 1 .. m : e[k] = d[k]
    BY <1>1, <2>1
  <2>3. r \in [1 .. m + 1 -> 1 .. n + 1] /\ r[m + 1] = n + 1 /\ \A k \in 1 .. m : r[k] = q[k]
    BY <1>1
  <2>4. \A k \in 1 .. m + 1 : k \in 1 .. m \/ k = m + 1
    BY <1>1
  <2> HIDE DEF r
  <2>5. \A k \in 1 .. m + 1 : e[k] = s[r[k]]
    BY <2>2, <2>3, <2>4 DEF Keeps
  <2>6. ASSUME NEW j \in 1 .. m + 1, NEW k \in 1 .. m + 1, j < k PROVE r[j] < r[k] /\ j \in 1 .. m
    <3>1. j \in 1 .. m
      BY <1>1, <2>6
    <3>2. CASE k \in 1 .. m
      BY <2>3, <2>6, <3>1, <3>2 DEF Keeps
    <3>3. CASE k = m + 1
      <4>1. q[j] \in 1 .. n
        BY <1>1, <3>1
      <4> QED BY <2>3, <3>1, <3>3, <4>1
    <3> QED BY <2>4, <3>1, <3>2, <3>3
  <2>7. ASSUME Ascending(s), NEW j \in 1 .. m PROVE Coll(job.sflag, d[j], l) # 0
    <3>1. m \in 1 .. m /\ d # <<>> /\ d[m] = s[q[m]] /\ d[j] = s[q[j]] /\ d[m] \in Line /\ d[j] \in Line
      BY SMTT(30), <1>1, <2>7 DEF Keeps
    <3>2. Coll(job.sflag, d[m], l) < 0
      <4>1. q[m] < n + 1 /\ q[m] \in 1 .. Len(s)
        BY <1>1, <3>1
      <4>2. Coll(job.sflag, d[m], l) <= 0 /\ Coll(job.sflag, d[m], l) # 0
        BY <1>1, <1>3, <2>7, <3>1, <4>1 DEF Ascending
      <4>3. Coll(job.sflag, d[m], l) \in Int
        BY <1>1, <3>1, OrderFacts
      <4> QED BY <4>2, <4>3
    <3>3. CASE j = m
      BY <3>2, <3>3
    <3>4. CASE j # m
      <4>1. j < m /\ q[j] \in 1 .. Len(s) /\ q[m] \in 1 .. Len(s)
        BY <1>1, <2>7, <3>1, <3>4
      <4>2. q[j] < q[m]
        BY <2>7, <3>1, <4>1 DEF Keeps
      <4>3. Coll(job.sflag, d[j], d[m]) <= 0
        BY <2>7, <3>1, <4>1, <4>2 DEF Ascending
      <4>4. Coll(job.sflag, d[j], l) < 0
        <5>1. d[j] \in Line /\ d[m] \in Line /\ l \in Line
          BY <1>1, <3>1
        <5> HIDE DEF l, m
        <5> QED BY <3>2, <4>3, <5>1, CollFacts
      <4>5. Coll(job.sflag, d[j], l) \in Int
        BY <1>1, <3>1, CollFacts
      <4> QED BY <4>4, <4>5
    <3> QED BY <3>3, <3>4
  <2>8. ASSUME Ascending(s), NEW j \in 1 .. m + 1, NEW k \in 1 .. m + 1, j < k
        PROVE  Coll(job.sflag, e[j], e[k]) # 0
    <3>1. j \in 1 .. m
      BY <2>6, <2>8
    <3>2. CASE k \in 1 .. m
      BY <2>2, <2>8, <3>1, <3>2 DEF Keeps
    <3>3. CASE k = m + 1
      BY <2>2, <2>7, <2>8, <3>1, <3>3
    <3> QED BY <2>4, <3>2, <3>3
  <2>9. ASSUME Ascending(s), NEW i \in 1 .. n + 1
        PROVE  \E k \in 1 .. m + 1 : r[k] <= i /\ Coll(job.sflag, e[k], s[i]) = 0
    <3>1. CASE i \in 1 .. n
      <4>1. PICK k \in 1 .. m : q[k] <= i /\ Coll(job.sflag, d[k], s[i]) = 0
        BY <2>9, <3>1 DEF Keeps
      <4>2. k \in 1 .. m + 1
        BY <1>1
      <4> QED BY <2>2, <2>3, <4>1, <4>2
    <3>2. CASE i = n + 1
      <4>1. Coll(job.sflag, l, l) = 0
        BY <1>1 DEF Coll, Line
      <4>2. m + 1 \in 1 .. m + 1 /\ r[m + 1] <= i
        BY <1>1, <2>3, <3>2
      <4> QED BY <2>2, <3>2, <4>1, <4>2
    <3> QED BY <3>1, <3>2
  <2>10. Keeps(s, n + 1, e, r)
    <3>1. Len(e) = m + 1
      BY <2>2
    <3> HIDE DEF m
    <3>2. \A j, k \in 1 .. m + 1 : j < k => r[j] < r[k]
      BY <2>6
    <3>3. Ascending(s) => \A j, k \in 1 .. m + 1 : j < k => Coll(job.sflag, e[j], e[k]) # 0
      BY <2>8
    <3>4. Ascending(s) =>
            \A i \in 1 .. n + 1 :
              \E k \in 1 .. m + 1 : r[k] <= i /\ Coll(job.sflag, e[k], s[i]) = 0
      BY <2>9
    <3> QED BY <2>5, <3>1, <3>2, <3>3, <3>4 DEF Keeps
  <2> QED BY <2>2, <2>3, <2>10
<1> QED BY <1>2, <1>3

LEMMA DumpFacts ==
  ASSUME job.uflag = TRUE, job.sflag \in BOOLEAN, NEW s \in Seq(Line)
  PROVE  /\ Dump(s) \in Seq(Line)
         /\ \E q \in [1 .. Len(Dump(s)) -> 1 .. Len(s)] : Keeps(s, Len(s), Dump(s), q)
<1> DEFINE N == Len(s)
           Kept(n, d) == \E q \in [1 .. Len(d) -> 1 .. n] : Keeps(s, n, d, q)
<1>1. PICK g \in [0 .. N -> Seq(Line)] :
        /\ g[0] = <<>> /\ Dump(s) = g[N]
        /\ \A n \in 1 .. N : g[n] = DumpStep(g[n - 1], s[n])
  BY DumpRecursion
<1> DEFINE S == {n \in Nat : n <= N => Kept(n, g[n])}
<1>2. 0 \in S
  <2> DEFINE q == [k \in 1 .. 0 |-> k]
  <2>1. Len(g[0]) = 0 /\ q \in [1 .. Len(g[0]) -> 1 .. 0]
    BY <1>1
  <2>2. Keeps(s, 0, g[0], q)
    BY <2>1 DEF Keeps
  <2> QED BY <2>1, <2>2
<1>3. ASSUME NEW n \in Nat, n \in S PROVE n + 1 \in S
  <2> SUFFICES ASSUME n + 1 <= N PROVE Kept(n + 1, g[n + 1])
    OBVIOUS
  <2>1. /\ n \in 0 .. N /\ n + 1 \in 1 .. N /\ (n + 1) - 1 = n /\ g[n] \in Seq(Line)
        /\ Kept(n, g[n])
    BY <1>1, <1>3
  <2>2. g[n + 1] = DumpStep(g[n], s[n + 1])
    BY <1>1, <2>1
  <2>3. PICK q \in [1 .. Len(g[n]) -> 1 .. n] : Keeps(s, n, g[n], q)
    BY <2>1
  <2> HIDE DEF S
  <2> QED BY <2>1, <2>2, <2>3, DumpStepFacts
<1>4. Kept(N, g[N])
  <2> HIDE DEF Kept
  <2>1. N \in Nat /\ N \in S
    <3>1. N \in Nat
      OBVIOUS
    <3> HIDE DEF S
    <3> QED BY <1>2, <1>3, <3>1, SetInduction
  <2> QED BY <2>1
<1>5. g[N] \in Seq(Line)
  BY <1>1
<1> QED BY <1>1, <1>4, <1>5
----------------------------------------------------------------------------
(***************************************************************************)
(* The inductive invariant.                                                *)
(***************************************************************************)

Merges  == {"merge_parts", "merge_group", "merge_all"}
Sorting == {"sort", "create", "join", "merge_parts"}
Passing == {"group", "new", "register", "open", "merge_group"}
Ends    == {"exit", "failed", "killed", "hung"}

\* The files a pass has yet to merge, and those it has made.
Begin   == IF pc \in Passing THEN indx ELSE 0
ToMerge == {fl[i] : i \in Begin + 1 .. Len(fl)}
Made    == IF pc \in Passing THEN {new_fl[i] : i \in 1 .. Len(new_fl)} ELSE {}

STypes ==
  /\ job \in Jobs
  /\ pc \in {"read", "shrink", "clean", "unlink", "rename"} \cup Sorting \cup Passing
             \cup Merges \cup Ends
  /\ ifile \in 1 .. Len(job.input) + 1 /\ iline \in Nat \ {0}
  /\ list \in Seq(Line) /\ Len(list) <= job.mem
  /\ fl \in Seq(IF fltmp THEN Temps ELSE Inputs) /\ fltmp \in BOOLEAN
  /\ new_fl \in Seq(Temps) /\ indx \in Nat
  /\ target \in {Outfile} \cup Temps
  /\ tmp_files \subseteq Names /\ disk \subseteq Names
  /\ data \in [Names -> Seq(Line)]
  /\ started \subseteq 1 .. job.nthreads /\ posted \subseteq started
  /\ parts \in Seq(Seq(Line))
  /\ lost \in BOOLEAN /\ code \in {-1, 0, 2, 255}

\* Where sort is decides which of its locals hold what.
Place ==
  /\ pc = "read" => Len(list) < job.mem
  /\ pc \in {"read"} \cup Sorting => fltmp /\ new_fl = <<>>
  /\ pc \in {"read", "sort", "merge_parts"} => indx = 0
  /\ pc \in {"new", "register"} =>
       IF list # <<>> THEN fltmp /\ new_fl = <<>> /\ indx = 0 ELSE indx < Len(fl)
  /\ pc \in {"open", "merge_group"} => indx < Len(fl)
  /\ pc = "group" => indx <= Len(fl)
  /\ pc \in {"group", "open", "merge_group", "shrink", "merge_all", "clean"} => list = <<>>
  /\ pc \in {"read", "new", "group", "shrink", "merge_all", "clean"} => target = Outfile
  /\ pc \in {"register", "open", "merge_group"} => target \in Temps
  /\ pc \in Sorting /\ target = Outfile => fl = <<>>
  /\ pc \in {"create", "join"} => Len(parts) = job.nthreads
  /\ pc = "create" => indx < job.nthreads
  /\ pc \in {"unlink", "rename"} => job.inplace
  /\ pc \in Merges \cup Ends \/ phase = "idle"

\* The temporary files are those that are still to be merged, each of them
\* once, and the one that is written.
TempInv ==
  /\ Running => /\ \A i, j \in Begin + 1 .. Len(fl) : fltmp /\ fl[i] = fl[j] => i = j
                /\ fltmp => ToMerge \cap (Made \cup {target}) = {}
                /\ target \notin Made
  /\ \A i, j \in 1 .. Len(new_fl) : new_fl[i] = new_fl[j] => i = j
  /\ Running /\ pc \notin {"unlink", "rename"} =>
       disk \cap Temps = (IF fltmp THEN ToMerge ELSE {}) \cup Made \cup ({target} \ {Outfile})
  /\ pc \in {"unlink", "rename"} => disk \cap Temps = {}
  /\ Running => disk \cap Temps \subseteq tmp_files \cup (IF pc = "register" THEN {target} ELSE {})
  /\ pc = "killed" => disk \cap Temps \subseteq {target}

\* What becomes of the other files.
DiskInv ==
  /\ Running /\ pc # "rename" => Inputs \subseteq disk
  /\ pc = "rename" => Inputs \ {1} \subseteq disk
  /\ pc \in {"merge_all", "clean", "unlink", "rename"} => Outfile \in disk
  /\ pc = "merge_parts" => target \in disk
  /\ pc = "exit" => disk = Inputs \cup {Result}
  /\ 1 \notin disk => pc \in {"rename", "failed", "killed"}
  /\ 1 \notin disk /\ pc # "killed" => job.inplace /\ Outfile \in disk
  /\ pc # "exit" => \A f \in Inputs : data[f] = job.input[f]

\* The merge that is going on.
MergeInv ==
  /\ MInv /\ Len(fh) = Len(task.parts)
  /\ pc \in {"merge_group", "merge_all"} => Len(fh) + 1 <= job.max_open_files

SInv == STypes /\ Place /\ TempInv /\ DiskInv /\ MergeInv
LEMMA JobFacts ==
  ASSUME job \in Jobs
  PROVE  /\ job.input \in Seq(Seq(Line)) /\ Len(job.input) \in Nat \ {0}
         /\ job.sflag \in BOOLEAN /\ job.uflag \in BOOLEAN /\ job.mflag \in BOOLEAN
         /\ job.inplace \in BOOLEAN /\ job.mem \in Nat \ {0}
         /\ job.max_open_files \in Nat /\ job.max_open_files >= 3
         /\ job.nthreads \in Nat \ {0} /\ job.threshold \in Nat
<1>1. job \in Job /\ job.input # <<>> /\ job.max_open_files >= 3
  BY JobsAssumption
<1> QED BY <1>1 DEF Job

LEMMA NameFacts ==
  ASSUME job \in Jobs
  PROVE  /\ Inputs \subseteq Nat /\ Temps \subseteq Nat /\ Names = {Outfile} \cup Inputs \cup Temps
         /\ Outfile \notin Inputs /\ Outfile \notin Temps /\ Inputs \cap Temps = {}
         /\ 1 \in Inputs /\ Outfile # 1 /\ \A i \in Inputs : job.input[i] \in Seq(Line)
         /\ Result \in {Outfile, 1}
<1>1. job.input \in Seq(Seq(Line)) /\ Len(job.input) \in Nat \ {0}
  BY JobFacts
<1>2. Inputs = 1 .. Len(job.input) /\ \A f \in Temps : f \in Nat /\ f > Len(job.input)
  BY <1>1, TempsAssumption DEF Inputs, Temps
<1>3. \A i \in Inputs : job.input[i] \in Seq(Line)
  BY <1>1, <1>2
<1> QED BY <1>1, <1>2, <1>3 DEF Names, Outfile, Result

\* The command line stays what it is.
LEMMA SameJob ==
  ASSUME job' = job
  PROVE  /\ Inputs' = Inputs /\ Temps' = Temps /\ Names' = Names /\ Result' = Result
BY DEF Inputs, Temps, Names, Result

\* Lines and files of a sequence.
LEMMA SeqFacts ==
  ASSUME NEW S, NEW s \in Seq(S), NEW e \in S
  PROVE  /\ Append(s, e) \in Seq(S) /\ Len(Append(s, e)) = Len(s) + 1 /\ Len(s) \in Nat
         /\ \A i \in 1 .. Len(s) : Append(s, e)[i] = s[i]
         /\ Append(s, e)[Len(s) + 1] = e
OBVIOUS

LEMMA MergeQuiet ==
  ASSUME MergeInv, UNCHANGED mvars, pc' \notin {"merge_group", "merge_all"}
  PROVE  MergeInv'
<1>1. MInv'
  BY NextInv DEF MergeInv
<1> QED BY <1>1 DEF MergeInv, mvars

LEMMA TempQuiet ==
  ASSUME TempInv, UNCHANGED <<job, pc, fl, fltmp, new_fl, indx, target, tmp_files, disk>>
  PROVE  TempInv'
<1>1. Temps' = Temps /\ ToMerge' = ToMerge /\ Made' = Made /\ Begin' = Begin
  BY SameJob DEF ToMerge, Made, Begin
<1> QED BY <1>1 DEF TempInv, Running

LEMMA ReadLineStep ==
  ASSUME SInv, ReadLine
  PROVE  SInv'
<1>1. /\ pc = "read" /\ ifile \in Inputs /\ iline <= Len(job.input[ifile])
      /\ list' = Append(list, data[ifile][iline]) /\ iline' = iline + 1
      /\ pc' = (IF MemoryFull(list') THEN "new" ELSE "read")
      /\ UNCHANGED <<job, ifile, fl, fltmp, new_fl, indx, target, tmp_files, disk, data, started,
                     posted, parts, lost, code, mvars>>
  BY DEF ReadLine, merging, files, threads
<1>2. job \in Jobs /\ list \in Seq(Line) /\ Len(list) < job.mem /\ iline \in Nat \ {0}
  BY <1>1 DEF SInv, STypes, Place
<1>3. data[ifile][iline] \in Line
  <2>1. data[ifile] = job.input[ifile] /\ job.input[ifile] \in Seq(Line)
    BY <1>1, <1>2, NameFacts DEF SInv, DiskInv
  <2> QED BY <1>1, <1>2, <2>1
<1>4. /\ list' \in Seq(Line) /\ Len(list') = Len(list) + 1 /\ Len(list') <= job.mem /\ list' # <<>>
      /\ Len(list) \in Nat
  <2>1. list' \in Seq(Line) /\ Len(list') = Len(list) + 1 /\ Len(list) \in Nat
    BY <1>1, <1>2, <1>3, SeqFacts
  <2> QED BY <1>2, <2>1, JobFacts
<1>5. STypes'
  BY <1>1, <1>2, <1>4, SameJob DEF SInv, STypes, Passing
<1>6. Place'
  <2>1. pc' = "new" \/ (pc' = "read" /\ Len(list') < job.mem)
    <3>1. Len(list') \in Nat /\ job.mem \in Nat
      BY <1>2, <1>4, JobFacts
    <3> QED BY <1>1, <3>1 DEF MemoryFull
  <2> QED BY <1>1, <1>4, <2>1 DEF SInv, Place, Sorting, Merges, Ends, mvars
<1>7. TempInv'
  BY <1>1, SameJob DEF SInv, TempInv, Place, ToMerge, Made, Begin, Passing, Running
<1>8. DiskInv'
  BY <1>1, SameJob DEF SInv, DiskInv, Running
<1>9. MergeInv'
  BY <1>1, MergeQuiet DEF SInv
<1> QED BY <1>5, <1>6, <1>7, <1>8, <1>9 DEF SInv

LEMMA NextInputStep ==
  ASSUME SInv, NextInput
  PROVE  SInv'
<1>1. /\ pc = "read" /\ ifile \in Inputs /\ ifile' = ifile + 1 /\ iline' = 1
      /\ UNCHANGED <<job, pc, list, fl, fltmp, new_fl, indx, target, tmp_files, disk, data,
                     started, posted, parts, lost, code, mvars>>
  BY DEF NextInput, merging, files, threads
<1>2. STypes'
  <2>1. ifile' \in 1 .. Len(job.input) + 1
    BY <1>1, JobFacts DEF Inputs, SInv, STypes
  <2> QED BY <1>1, <2>1, SameJob DEF SInv, STypes
<1>3. Place'
  BY <1>1 DEF SInv, Place, mvars
<1>4. TempInv'
  BY <1>1, TempQuiet DEF SInv
<1>5. DiskInv'
  BY <1>1, SameJob DEF SInv, DiskInv, Running
<1>6. MergeInv'
  BY <1>1, MergeQuiet DEF SInv
<1> QED BY <1>2, <1>3, <1>4, <1>5, <1>6 DEF SInv

LEMMA InputEndsStep ==
  ASSUME SInv, InputEnds
  PROVE  SInv'
<1>1. /\ pc = "read"
      /\ \/ fl = <<>> /\ pc' = "sort"
         \/ fl # <<>> /\ list # <<>> /\ pc' = "new"
         \/ fl # <<>> /\ list = <<>> /\ pc' = "shrink"
      /\ UNCHANGED <<job, ifile, iline, list, fl, fltmp, new_fl, indx, target, tmp_files, disk, data,
                     started, posted, parts, lost, code, mvars>>
  BY DEF InputEnds, input, merging, files, threads
<1>2. STypes'
  BY <1>1, SameJob DEF SInv, STypes, Passing, Sorting
<1>3. Place'
  BY <1>1 DEF SInv, Place, Sorting, Merges, Ends, mvars
<1>4. TempInv'
  BY <1>1, SameJob DEF SInv, TempInv, Place, ToMerge, Made, Begin, Passing, Running
<1>5. DiskInv'
  BY <1>1, SameJob DEF SInv, DiskInv, Running
<1>6. MergeInv'
  BY <1>1, MergeQuiet DEF SInv
<1> QED BY <1>2, <1>3, <1>4, <1>5, <1>6 DEF SInv
LEMMA MakeTempStep ==
  ASSUME SInv, MakeTemp
  PROVE  SInv'
<1>1. /\ pc = "new" /\ Temps \ disk # {} /\ pc' = "register"
      /\ target' = (CHOOSE f \in Temps \ disk : \A g \in Temps \ disk : f <= g)
      /\ disk' = disk \cup {target'} /\ data' = [data EXCEPT ![target'] = <<>>]
      /\ UNCHANGED <<job, ifile, iline, list, fl, fltmp, new_fl, indx, tmp_files,
                     started, posted, parts, lost, code, mvars>>
  BY DEF MakeTemp, input, merging, threads
<1>2. job \in Jobs
  BY DEF SInv, STypes
<1>3. target' \in Temps \ disk
  <2> DEFINE T == Temps \ disk
  <2>1. T \subseteq Nat /\ T # {}
    BY <1>1, <1>2, NameFacts
  <2>2. \E f \in T : \A g \in T : f <= g
    <3> HIDE DEF T
    <3>1. PICK x \in T : \A y \in T : ~(<<y, x>> \in OpToRel(<, Nat))
      BY <2>1, WFMin, NatLessThanWellFounded, Zenon
    <3>2. \A y \in T : ~(y < x)
      BY <2>1, <3>1 DEF OpToRel
    <3> QED BY <2>1, <3>2
  <2> QED BY <1>1, <2>2
<1>4. Inputs' = Inputs /\ Temps' = Temps /\ Names' = Names /\ Result' = Result
  BY <1>1, SameJob
<1>5. target' \in Names /\ target' \notin Inputs /\ target' # Outfile
  BY <1>2, <1>3, NameFacts
<1>6. STypes'
  <2>1. data' \in [Names -> Seq(Line)] /\ disk' \subseteq Names
    <3>1. <<>> \in Seq(Line)
      OBVIOUS
    <3>2. PICK t : t = target'
      OBVIOUS
    <3>3. data' = [data EXCEPT ![t] = <<>>] /\ t \in Names
      BY <1>1, <1>5, <3>2
    <3>4. data' \in [Names -> Seq(Line)]
      <4>1. data \in [Names -> Seq(Line)]
        BY DEF SInv, STypes
      <4> QED BY <3>1, <3>3, <4>1
    <3>5. disk' = disk \cup {t} /\ disk \subseteq Names
      BY <1>1, <3>2 DEF SInv, STypes
    <3> QED BY <3>3, <3>4, <3>5
  <2> QED BY <1>1, <1>3, <1>4, <2>1 DEF SInv, STypes, Passing
<1>7. Place'
  BY <1>1, <1>3, <1>4 DEF SInv, Place, Sorting, Merges, Ends, mvars
<1>8. TempInv'
  <2>1. ToMerge' = ToMerge /\ Made' = Made /\ Begin' = Begin
    BY <1>1 DEF ToMerge, Made, Begin, Passing
  <2>2. target = Outfile /\ disk \cap Temps = (IF fltmp THEN ToMerge ELSE {}) \cup Made
    BY <1>1 DEF SInv, Place, TempInv, Running
  <2>3. Made \subseteq Temps /\ (fltmp => ToMerge \subseteq Temps)
    BY DEF Made, ToMerge, Begin, SInv, STypes
  <2>4. target' \notin Made /\ (fltmp => target' \notin ToMerge)
    BY <1>3, <2>2, <2>3
  <2> QED BY <1>1, <1>3, <1>4, <1>5, <2>1, <2>2, <2>4 DEF SInv, TempInv, Running
<1>9. DiskInv'
  BY <1>1, <1>4, <1>5 DEF SInv, STypes, DiskInv, Running
<1>10. MergeInv'
  BY <1>1, MergeQuiet DEF SInv
<1> QED BY <1>6, <1>7, <1>8, <1>9, <1>10 DEF SInv

LEMMA RegisterStep ==
  ASSUME SInv, Register
  PROVE  SInv'
<1>1. /\ pc = "register" /\ tmp_files' = tmp_files \cup {target}
      /\ pc' = (IF list # <<>> THEN "sort" ELSE "open")
      /\ UNCHANGED <<job, ifile, iline, list, fl, fltmp, new_fl, indx, target, disk, data,
                     started, posted, parts, lost, code, mvars>>
  BY DEF Register, input, merging, files, threads
<1>2. job \in Jobs /\ target \in Temps
  BY <1>1 DEF SInv, STypes, Place
<1>3. Inputs' = Inputs /\ Temps' = Temps /\ Names' = Names /\ Result' = Result
  BY <1>1, SameJob
<1>4. target # Outfile /\ target \in Names
  BY <1>2, NameFacts
<1>5. STypes'
  BY <1>1, <1>3, <1>4 DEF SInv, STypes, Passing, Sorting
<1>6. Place'
  BY <1>1, <1>2, <1>3, <1>4 DEF SInv, Place, Sorting, Merges, Ends, mvars
<1>7. TempInv'
  <2>1. ToMerge' = ToMerge /\ Made' = Made /\ Begin' = Begin
    <3>1. pc' = "sort" => indx = 0 /\ new_fl = <<>>
      BY <1>1 DEF SInv, Place
    <3>2. Begin' = Begin
      BY <1>1, <3>1 DEF Begin, Passing
    <3>3. Made' = Made
      BY <1>1, <3>1 DEF Made, Passing
    <3> QED BY <1>1, <3>2, <3>3 DEF ToMerge
  <2> QED BY <1>1, <1>3, <2>1 DEF SInv, TempInv, Running
<1>8. DiskInv'
  BY <1>1, <1>3 DEF SInv, STypes, DiskInv, Running
<1>9. MergeInv'
  BY <1>1, MergeQuiet DEF SInv
<1> QED BY <1>5, <1>6, <1>7, <1>8, <1>9 DEF SInv
\* What is sorted and written out is a sequence of lines.
LEMMA SortedType ==
  ASSUME job \in Jobs, NEW s \in Seq(Line)
  PROVE  StableSort(s) \in Seq(Line) /\ Dump(StableSort(s)) \in Seq(Line)
<1>1. StableSort(s) \in Seq(Line)
  BY JobFacts, StableSortFacts
<1>2. CASE job.uflag = TRUE
  BY <1>1, <1>2, JobFacts, DumpFacts
<1>3. CASE job.uflag = FALSE
  BY <1>1, <1>3 DEF Dump
<1> QED BY <1>1, <1>2, <1>3, JobFacts

LEMMA WriteFacts ==
  ASSUME SInv, NEW s \in Seq(Line), Write(s)
  PROVE  /\ data' \in [Names -> Seq(Line)] /\ lost' \in BOOLEAN
         /\ \A f \in Names : f # target => data'[f] = data[f]
         /\ \A f \in Inputs : data'[f] = data[f]
         /\ lost => lost'
         /\ ~lost' => data'[target] = s
<1>1. /\ data \in [Names -> Seq(Line)] /\ lost \in BOOLEAN /\ target \in Names
      /\ target \notin Inputs /\ Inputs \subseteq Names
  BY NameFacts DEF SInv, STypes
<1>2. <<>> \in Seq(Line)
  OBVIOUS
<1>3. PICK e \in Seq(Line) : /\ data' = [data EXCEPT ![target] = e]
                             /\ (e = s /\ lost' = lost) \/ lost' = TRUE
  BY <1>2 DEF Write
<1> QED BY <1>1, <1>3

\* The list has been sorted and written: SortList and PartsMerged.
LEMMA ListWrittenStep ==
  ASSUME SInv, pc \in {"sort", "merge_parts"}, phase = "idle", NEW s \in Seq(Line), Write(s),
         disk' = disk \cup {target}, ListWritten,
         UNCHANGED <<job, input, tmp_files, threads, code, mvars>>
  PROVE  SInv'
<1>1. /\ list' = <<>> /\ target' = Outfile
      /\ UNCHANGED <<job, ifile, iline, tmp_files, started, posted, parts, code, phase,
                     fltmp, new_fl, indx>>
      /\ \/ target = Outfile /\ pc' = "clean" /\ fl' = fl
         \/ target # Outfile /\ pc' = "read" /\ fl' = Append(fl, target)
  BY DEF ListWritten, input, merging, threads, mvars
<1>2. /\ job \in Jobs /\ fltmp /\ new_fl = <<>> /\ indx = 0
      /\ fl \in Seq(Temps) /\ target \in {Outfile} \cup Temps
      /\ target = Outfile => fl = <<>>
  BY DEF SInv, STypes, Place, Sorting
<1>3. Inputs' = Inputs /\ Temps' = Temps /\ Names' = Names /\ Result' = Result
  BY <1>1, SameJob
<1>4. target \in Names /\ target' \in Names /\ Outfile \notin Temps /\ target \notin Inputs
  BY <1>1, <1>2, NameFacts
<1>5. STypes'
  <2>1. fl' \in Seq(Temps)
    <3>1. \A f \in Temps : Append(fl, f) \in Seq(Temps)
      BY <1>2
    <3> QED BY <1>1, <1>2, <3>1
  <2>2. data' \in [Names -> Seq(Line)] /\ lost' \in BOOLEAN
    BY WriteFacts
  <2>3. Len(list') <= job.mem /\ list' \in Seq(Line)
    BY <1>1, <1>2, JobFacts
  <2> QED BY <1>1, <1>2, <1>3, <1>4, <2>1, <2>2, <2>3 DEF SInv, STypes
<1>6. Place'
  <2>1. Len(list') < job.mem
    BY <1>1, <1>2, JobFacts
  <2> QED BY <1>1, <1>2, <2>1 DEF SInv, Place, Sorting, Merges, Ends
<1>7. ToMerge = {fl[i] : i \in 1 .. Len(fl)} /\ Made = {} /\ Begin = 0 /\ Made' = {} /\ Begin' = 0
  BY <1>1, <1>2 DEF ToMerge, Made, Begin, Passing
<1>8. TempInv'
  <2>1. target \notin ToMerge /\ disk \cap Temps = ToMerge \cup ({target} \ {Outfile})
    BY <1>1, <1>2, <1>7 DEF SInv, TempInv, Running
  <2>2. CASE target = Outfile
    <3>1. ToMerge' = {} /\ disk' \cap Temps = {}
      BY <1>1, <1>2, <1>4, <1>7, <2>1, <2>2 DEF ToMerge
    <3> QED BY <1>1, <1>2, <1>3, <1>7, <2>2, <3>1 DEF TempInv, Running
  <2>3. CASE target # Outfile
    <3>1. /\ Len(fl') = Len(fl) + 1 /\ fl'[Len(fl) + 1] = target /\ Len(fl) \in Nat
          /\ \A i \in 1 .. Len(fl) : fl'[i] = fl[i]
      BY <1>1, <1>2, <2>3, SeqFacts
    <3>2. ToMerge' = ToMerge \cup {target}
      <4>1. ToMerge' = {fl'[i] : i \in 1 .. Len(fl) + 1}
        BY <1>7, <3>1 DEF ToMerge
      <4>2. \A i \in 1 .. Len(fl) + 1 : i \in 1 .. Len(fl) \/ i = Len(fl) + 1
        BY <3>1
      <4>3. 1 .. Len(fl) \subseteq 1 .. Len(fl) + 1 /\ Len(fl) + 1 \in 1 .. Len(fl) + 1
        BY <3>1
      <4> QED BY <1>7, <3>1, <4>1, <4>2, <4>3
    <3>3. \A i, j \in 1 .. Len(fl) + 1 : fl'[i] = fl'[j] => i = j
      <4>1. \A i \in 1 .. Len(fl) : fl'[i] \in ToMerge /\ fl'[i] # target
        BY <1>7, <2>1, <3>1
      <4>2. \A i, j \in 1 .. Len(fl) : fl'[i] = fl'[j] => i = j
        BY <1>2, <1>7, <3>1 DEF SInv, TempInv, Running
      <4>3. \A i \in 1 .. Len(fl) + 1 : i \in 1 .. Len(fl) \/ i = Len(fl) + 1
        BY <3>1
      <4> QED BY <3>1, <4>1, <4>2, <4>3
    <3>4. disk' \cap Temps = ToMerge'
      BY <1>2, <2>1, <2>3, <3>2
    <3>5. target \in tmp_files /\ ToMerge' \subseteq tmp_files
      <4>1. disk \cap Temps \subseteq tmp_files
        BY DEF SInv, TempInv, Running
      <4> QED BY <1>2, <2>1, <2>3, <3>2, <4>1
    <3>6. Outfile \notin ToMerge'
      BY <1>4, <3>4
    <3> QED
      BY <1>1, <1>2, <1>3, <1>7, <2>3, <3>1, <3>3, <3>4, <3>5, <3>6 DEF TempInv, Running
  <2> QED BY <2>2, <2>3
<1>9. DiskInv'
  <2>1. \A f \in Inputs : data'[f] = data[f]
    BY WriteFacts
  <2>2. 1 \in Inputs
    BY <1>2, NameFacts
  <2> QED BY <1>1, <1>3, <2>1, <2>2 DEF SInv, DiskInv, Running
<1>10. MergeInv'
  BY <1>1, MergeQuiet DEF SInv
<1> QED BY <1>5, <1>6, <1>8, <1>9, <1>10 DEF SInv

LEMMA SortListStep ==
  ASSUME SInv, SortList
  PROVE  SInv'
<1>1. Dump(StableSort(list)) \in Seq(Line)
  BY SortedType DEF SInv, STypes
<1>2. phase = "idle"
  BY DEF SortList, SInv, Place, Merges, Ends
<1> QED BY <1>1, <1>2, ListWrittenStep DEF SortList

LEMMA PartsMergedStep ==
  ASSUME SInv, PartsMerged
  PROVE  SInv'
<1>1. out \in Seq(Line)
  BY DEF SInv, MergeInv, MInv, MergeTypeOK
<1>2. disk' = disk \cup {target}
  BY DEF PartsMerged, SInv, DiskInv
<1> QED BY <1>1, <1>2, ListWrittenStep DEF PartsMerged
\* The parts that threads sort lie within the list, and one begins where the
\* one before it ends.
LEMMA PartBounds ==
  ASSUME NEW n \in Nat \ {0}, NEW len \in Nat, NEW i \in 1 .. n
  PROVE  \E avg, b, e \in Int :
           /\ avg = len \div n /\ b = (i - 1) * avg + 1
           /\ e = (IF i = n THEN len ELSE i * avg)
           /\ b >= 1 /\ e <= len /\ b <= e + 1
<1>1. PICK avg \in Nat : avg = len \div n /\ n * avg <= len
  <2>1. len \div n \in Nat /\ n * (len \div n) <= len
    OBVIOUS
  <2> QED BY <2>1
<1>2. i \in Nat /\ i - 1 \in Nat /\ i >= 1 /\ i <= n
  OBVIOUS
<1>3. PICK x, y, z \in Nat : x = (i - 1) * avg /\ y = i * avg /\ z = n * avg
  BY <1>1, <1>2
<1>4. x + avg = y
  BY <1>2, <1>3
<1>5. y <= z
  <2>1. n - i \in Nat /\ (n - i) * avg \in Nat
    BY <1>2
  <2>2. (n - i) * avg = z - y
    BY <1>2, <1>3
  <2> QED BY <1>3, <2>1, <2>2
<1>6. i = n => y = z
  BY <1>3
<1> DEFINE b == x + 1
           e == IF i = n THEN len ELSE y
<1>7. b \in Int /\ e \in Int /\ b >= 1 /\ e <= len /\ b <= e + 1
  <2>1. z <= len
    BY <1>1, <1>3
  <2>2. x <= len /\ y <= len
    BY <1>1, <1>4, <1>5, <2>1
  <2> QED BY <1>1, <1>4, <2>2
<1>8. b = (i - 1) * avg + 1 /\ e = (IF i = n THEN len ELSE i * avg)
  BY <1>3
<1> QED BY <1>1, <1>7, <1>8

LEMMA SplitListStep ==
  ASSUME SInv, SplitList
  PROVE  SInv'
<1>1. /\ pc = "sort" /\ parts' = [i \in 1 .. job.nthreads |-> Part(i)]
      /\ started' = {} /\ posted' = {} /\ indx' = 0 /\ pc' = "create"
      /\ UNCHANGED <<job, ifile, iline, list, fl, fltmp, new_fl, target, tmp_files, disk, data,
                     lost, code, mvars>>
  BY DEF SplitList, input, files
<1>2. job \in Jobs /\ list \in Seq(Line) /\ job.nthreads \in Nat \ {0}
  BY JobFacts DEF SInv, STypes
<1>3. /\ parts' \in Seq(Seq(Line)) /\ Len(parts') = job.nthreads
      /\ \A i \in 1 .. job.nthreads : parts'[i] = Part(i)
  <2>1. \A i \in 1 .. job.nthreads : Part(i) \in Seq(Line)
    <3> SUFFICES ASSUME NEW i \in 1 .. job.nthreads PROVE Part(i) \in Seq(Line)
      OBVIOUS
    <3>1. PICK avg, b, e \in Int :
            /\ avg = Len(list) \div job.nthreads /\ b = (i - 1) * avg + 1
            /\ e = (IF i = job.nthreads THEN Len(list) ELSE i * avg)
            /\ b >= 1 /\ e <= Len(list)
      <4>1. PICK n, len : n = job.nthreads /\ len = Len(list)
        OBVIOUS
      <4>2. n \in Nat \ {0} /\ len \in Nat /\ i \in 1 .. n
        BY <1>2, <4>1
      <4>3. \E avg, b, e \in Int :
              /\ avg = len \div n /\ b = (i - 1) * avg + 1
              /\ e = (IF i = n THEN len ELSE i * avg)
              /\ b >= 1 /\ e <= len /\ b <= e + 1
        BY <4>2, PartBounds
      <4> QED BY <4>1, <4>3, Zenon
    <3>2. Part(i) = SubSeq(list, b, e)
      BY <3>1 DEF Part
    <3>3. SubSeq(list, b, e) \in Seq(Line)
      BY <1>2, <3>1
    <3> QED BY <3>2, <3>3
  <2> DEFINE n == job.nthreads
             P(i) == Part(i)
  <2>2. n \in Nat /\ parts' = [i \in 1 .. n |-> P(i)] /\ \A i \in 1 .. n : P(i) \in Seq(Line)
    BY <1>1, <1>2, <2>1
  <2> HIDE DEF n, P
  <2>3. /\ parts' \in Seq(Seq(Line)) /\ Len(parts') = n
        /\ \A i \in 1 .. n : parts'[i] = P(i)
    BY <2>2
  <2> QED BY <2>3 DEF n, P
<1>4. STypes'
  BY <1>1, <1>3, SameJob DEF SInv, STypes, Sorting
<1>5. Place'
  BY <1>1, <1>2, <1>3 DEF SInv, Place, Sorting, Merges, Ends, mvars
<1>6. TempInv'
  <2>1. Temps' = Temps /\ ToMerge' = ToMerge /\ Made' = Made /\ Begin' = Begin
    BY <1>1, SameJob DEF ToMerge, Made, Begin, Passing
  <2> QED BY <1>1, <2>1 DEF SInv, TempInv, Running
<1>7. DiskInv'
  BY <1>1, SameJob DEF SInv, DiskInv, Running
<1>8. MergeInv'
  BY <1>1, MergeQuiet DEF SInv
<1> QED BY <1>4, <1>5, <1>6, <1>7, <1>8 DEF SInv

LEMMA CreateThreadStep ==
  ASSUME SInv, CreateThread
  PROVE  SInv'
<1>1. /\ pc = "create" /\ indx' = indx + 1
      /\ started' \in {started, started \cup {indx + 1}}
      /\ pc' = (IF indx + 1 = job.nthreads THEN "join" ELSE "create")
      /\ UNCHANGED <<job, ifile, iline, list, fl, fltmp, new_fl, target, tmp_files, disk, data,
                     posted, parts, lost, code, mvars>>
  BY DEF CreateThread, input, files
<1>2. indx \in Nat /\ job.nthreads \in Nat /\ indx + 1 <= job.nthreads
  BY <1>1, JobFacts DEF SInv, STypes, Place
<1>3. STypes'
  BY <1>1, <1>2, SameJob DEF SInv, STypes, Sorting
<1>4. Place'
  BY <1>1, <1>2, SameJob DEF SInv, Place, Sorting, Merges, Ends, mvars
<1>5. TempInv'
  <2>1. Temps' = Temps /\ ToMerge' = ToMerge /\ Made' = Made /\ Begin' = Begin
    BY <1>1, SameJob DEF ToMerge, Made, Begin, Passing
  <2> QED BY <1>1, <2>1 DEF SInv, TempInv, Running
<1>6. DiskInv'
  BY <1>1, SameJob DEF SInv, DiskInv, Running
<1>7. MergeInv'
  BY <1>1, MergeQuiet DEF SInv
<1> QED BY <1>3, <1>4, <1>5, <1>6, <1>7 DEF SInv

LEMMA SortThreadStep ==
  ASSUME SInv, NEW i \in started, SortThread(i)
  PROVE  SInv'
<1>1. /\ pc \in {"create", "join"} /\ parts' = [parts EXCEPT ![i] = StableSort(parts[i])]
      /\ posted' = posted \cup {i}
      /\ UNCHANGED <<job, pc, ifile, iline, list, fl, fltmp, new_fl, indx, target, tmp_files, disk,
                     data, started, lost, code, mvars>>
  BY DEF SortThread, input, merging, files
<1>2. /\ job \in Jobs /\ parts \in Seq(Seq(Line)) /\ Len(parts) = job.nthreads
      /\ i \in 1 .. Len(parts)
  BY <1>1 DEF SInv, STypes, Place
<1>3. parts' \in Seq(Seq(Line)) /\ Len(parts') = Len(parts)
  <2>1. PICK p : p = StableSort(parts[i])
    OBVIOUS
  <2>2. p \in Seq(Line)
    <3>1. parts[i] \in Seq(Line)
      BY <1>2
    <3> QED BY <1>2, <2>1, <3>1, SortedType
  <2>3. parts' = [parts EXCEPT ![i] = p]
    BY <1>1, <2>1
  <2> QED BY <1>2, <2>2, <2>3
<1>4. STypes'
  BY <1>1, <1>3, SameJob DEF SInv, STypes
<1>5. Place'
  BY <1>1, <1>2, <1>3 DEF SInv, Place, mvars
<1>6. TempInv'
  BY <1>1, TempQuiet DEF SInv
<1>7. DiskInv'
  BY <1>1, SameJob DEF SInv, DiskInv, Running
<1>8. MergeInv'
  BY <1>1, MergeQuiet DEF SInv
<1> QED BY <1>4, <1>5, <1>6, <1>7, <1>8 DEF SInv
\* A merge of the parts begins.
LEMMA MergeBegins ==
  ASSUME SInv, NEW p \in Seq(Seq(Line)), MergeStart(p, job.sflag, job.uflag)
  PROVE  /\ MInv' /\ Len(fh') = Len(p) /\ Len(task'.parts) = Len(p) /\ phase' = "push"
         /\ phase = "idle"
<1>1. job.sflag \in BOOLEAN /\ job.uflag \in BOOLEAN
  BY JobFacts DEF SInv, STypes
<1>2. MInv'
  BY <1>1, StartInv
<1>3. task'.parts = p /\ fh' = [i \in 1 .. Len(p) |-> [pos |-> i, lines |-> p[i]]] /\ Len(p) \in Nat
  BY DEF MergeStart
<1>4. Len(fh') = Len(p)
  <2> DEFINE n == Len(p)
             q(i) == [pos |-> i, lines |-> p[i]]
  <2>1. fh' = [i \in 1 .. n |-> q(i)] /\ n \in Nat
    BY <1>3
  <2> HIDE DEF n, q
  <2>2. Len(fh') = n
    BY <2>1
  <2> QED BY <2>2 DEF n
<1> QED BY <1>2, <1>3, <1>4 DEF MergeStart

LEMMA JoinThreadsStep ==
  ASSUME SInv, JoinThreads
  PROVE  SInv'
<1>1. /\ pc = "join" /\ MergeStart(parts, job.sflag, job.uflag) /\ disk' = disk \cup {target}
      /\ indx' = 0 /\ pc' = "merge_parts"
      /\ UNCHANGED <<job, ifile, iline, list, fl, fltmp, new_fl, target, tmp_files, data,
                     started, posted, parts, lost, code>>
  BY DEF JoinThreads, input, threads
<1>2. job \in Jobs /\ target \in {Outfile} \cup Temps /\ parts \in Seq(Seq(Line)) /\ new_fl = <<>>
  BY <1>1 DEF SInv, STypes, Place, Sorting
<1>3. MInv' /\ Len(fh') = Len(parts) /\ Len(task'.parts) = Len(parts) /\ phase' = "push"
  BY <1>1, <1>2, MergeBegins
<1>4. target \in Names /\ Outfile \notin Temps
  BY <1>2, NameFacts
<1>5. STypes'
  BY <1>1, <1>4, SameJob DEF SInv, STypes, Merges, Sorting
<1>6. Place'
  BY <1>1, <1>3 DEF SInv, Place, Sorting, Merges, Ends
<1>7. TempInv'
  <2>1. Temps' = Temps /\ ToMerge' = ToMerge /\ Made' = Made /\ Begin' = Begin
    BY <1>1, SameJob DEF ToMerge, Made, Begin, Passing
  <2>2. target # Outfile => target \in disk
    BY <1>1, <1>2 DEF SInv, TempInv, Running
  <2>3. disk' \cap Temps = disk \cap Temps
    BY <1>1, <1>2, <1>4, <2>2
  <2> QED BY <1>1, <2>1, <2>3 DEF SInv, TempInv, Running
<1>8. DiskInv'
  BY <1>1, SameJob DEF SInv, DiskInv, Running
<1>9. MergeInv'
  BY <1>1, <1>3 DEF MergeInv
<1> QED BY <1>5, <1>6, <1>7, <1>8, <1>9 DEF SInv

LEMMA ShrinkStep ==
  ASSUME SInv, Shrink
  PROVE  SInv'
<1>1. /\ pc = "shrink" /\ indx' = 0
      /\ UNCHANGED <<job, ifile, iline, list, fl, fltmp, target, tmp_files, data,
                     started, posted, parts, lost, code>>
  BY DEF Shrink, input, threads
<1>2. /\ job \in Jobs /\ target = Outfile /\ fl \in Seq(IF fltmp THEN Temps ELSE Inputs)
      /\ data \in [Names -> Seq(Line)] /\ Len(fl) \in Nat
      /\ ToMerge = {fl[i] : i \in 1 .. Len(fl)} /\ Made = {} /\ Begin = 0
      /\ disk \cap Temps = (IF fltmp THEN ToMerge ELSE {})
  BY <1>1 DEF SInv, STypes, Place, ToMerge, Made, Begin, Passing, TempInv, Running
<1>3. Inputs' = Inputs /\ Temps' = Temps /\ Names' = Names /\ Result' = Result
  BY <1>1, SameJob
<1>4. CASE Len(fl) < job.max_open_files
  <2> DEFINE p == [i \in DOMAIN fl |-> data[fl[i]]]
  <2>1. /\ MergeStart(p, job.sflag, job.uflag) /\ disk' = disk \cup {Outfile}
        /\ pc' = "merge_all" /\ new_fl' = new_fl
    BY <1>2, <1>4 DEF Shrink
  <2>2. p \in Seq(Seq(Line)) /\ Len(p) = Len(fl)
    <3> DEFINE n == Len(fl)
               D(i) == data[fl[i]]
    <3>1. \A i \in 1 .. n : fl[i] \in Names
      BY <1>2, NameFacts
    <3>2. p = [i \in 1 .. n |-> D(i)] /\ n \in Nat /\ \A i \in 1 .. n : D(i) \in Seq(Line)
      BY <1>2, <3>1
    <3> HIDE DEF p, n, D
    <3>3. p \in Seq(Seq(Line)) /\ Len(p) = n
      BY <3>2
    <3> QED BY <3>3 DEF n
  <2> HIDE DEF p
  <2>3. MInv' /\ Len(fh') = Len(p) /\ Len(task'.parts) = Len(p) /\ phase' = "push"
    BY <2>1, <2>2, MergeBegins
  <2>4. Outfile \in Names /\ Outfile \notin Temps
    BY <1>2, NameFacts
  <2>5. STypes'
    BY <1>1, <1>3, <2>1, <2>4 DEF SInv, STypes, Merges
  <2>6. Place'
    BY <1>1, <1>3, <2>1, <2>3 DEF SInv, Place, Sorting, Merges, Ends
  <2>7. TempInv'
    <3>1. ToMerge' = ToMerge /\ Made' = Made /\ Begin' = Begin
      BY <1>1, <1>2, <2>1 DEF ToMerge, Made, Begin, Passing
    <3>2. disk' \cap Temps = disk \cap Temps
      BY <2>1, <2>4
    <3> QED BY <1>1, <1>3, <2>1, <3>1, <3>2 DEF SInv, TempInv, Running
  <2>8. DiskInv'
    BY <1>1, <1>3, <2>1 DEF SInv, DiskInv, Running
  <2>9. MergeInv'
    BY <1>1, <1>2, <1>4, <2>2, <2>3, JobFacts DEF MergeInv
  <2> QED BY <2>5, <2>6, <2>7, <2>8, <2>9 DEF SInv
<1>5. CASE ~(Len(fl) < job.max_open_files)
  <2>1. pc' = "group" /\ new_fl' = <<>> /\ UNCHANGED <<disk, mvars>>
    BY <1>5 DEF Shrink
  <2>2. STypes'
    BY <1>1, <1>3, <2>1 DEF SInv, STypes, Passing
  <2>3. Place'
    BY <1>1, <1>2, <1>3, <2>1 DEF SInv, Place, Sorting, Merges, Ends, mvars
  <2>4. TempInv'
    <3>1. ToMerge' = ToMerge /\ Made' = {} /\ Begin' = Begin
      BY <1>1, <1>2, <2>1 DEF ToMerge, Made, Begin, Passing
    <3> QED BY <1>1, <1>2, <1>3, <2>1, <3>1 DEF SInv, TempInv, Running
  <2>5. DiskInv'
    BY <1>1, <1>3, <2>1 DEF SInv, DiskInv, Running
  <2>6. MergeInv'
    BY <2>1, MergeQuiet DEF SInv
  <2> QED BY <2>2, <2>3, <2>4, <2>5, <2>6 DEF SInv
<1> QED BY <1>4, <1>5

LEMMA NextGroupStep ==
  ASSUME SInv, NextGroup
  PROVE  SInv'
<1>1. /\ pc = "group"
      /\ UNCHANGED <<job, ifile, iline, list, new_fl, indx, target, tmp_files, disk, data,
                     started, posted, parts, lost, code, mvars>>
  BY DEF NextGroup, input, files, threads
<1>2. /\ job \in Jobs /\ target = Outfile /\ Len(fl) \in Nat /\ indx \in Nat /\ indx <= Len(fl)
      /\ new_fl \in Seq(Temps) /\ list = <<>>
  BY <1>1 DEF SInv, STypes, Place
<1>3. CASE indx < Len(fl)
  <2>1. pc' = "new" /\ UNCHANGED <<fl, fltmp>>
    BY <1>3 DEF NextGroup
  <2>2. STypes'
    BY <1>1, <2>1, SameJob DEF SInv, STypes, Passing
  <2>3. Place'
    BY <1>1, <1>2, <1>3, <2>1 DEF SInv, Place, Sorting, Merges, Ends, mvars
  <2>4. TempInv'
    <3>1. Temps' = Temps /\ ToMerge' = ToMerge /\ Made' = Made /\ Begin' = Begin
      BY <1>1, <2>1, SameJob DEF ToMerge, Made, Begin, Passing
    <3> QED BY <1>1, <2>1, <3>1 DEF SInv, TempInv, Running
  <2>5. DiskInv'
    BY <1>1, <2>1, SameJob DEF SInv, DiskInv, Running
  <2>6. MergeInv'
    BY <1>1, <2>1, MergeQuiet DEF SInv
  <2> QED BY <2>2, <2>3, <2>4, <2>5, <2>6 DEF SInv
<1>4. CASE ~(indx < Len(fl))
  <2>1. pc' = "shrink" /\ fl' = new_fl /\ fltmp' = TRUE
    BY <1>4 DEF NextGroup
  <2>2. STypes'
    BY <1>1, <1>2, <2>1, SameJob DEF SInv, STypes
  <2>3. Place'
    BY <1>1, <1>2, <2>1 DEF SInv, Place, Sorting, Merges, Ends, mvars
  <2>4. TempInv'
    <3>1. indx = Len(fl) /\ ToMerge = {}
      BY <1>1, <1>2, <1>4 DEF ToMerge, Begin, Passing
    <3>2. Temps' = Temps /\ ToMerge' = Made /\ Made' = {} /\ Begin' = 0
      BY <1>1, <2>1, SameJob DEF ToMerge, Made, Begin, Passing
    <3> QED BY <1>1, <1>2, <2>1, <3>1, <3>2 DEF SInv, TempInv, Running
  <2>5. DiskInv'
    BY <1>1, <2>1, SameJob DEF SInv, DiskInv, Running
  <2>6. MergeInv'
    BY <1>1, <2>1, MergeQuiet DEF SInv
  <2> QED BY <2>2, <2>3, <2>4, <2>5, <2>6 DEF SInv
<1> QED BY <1>3, <1>4

\* A group is not empty, lies within the list, and leaves room for the output.
LEMMA GroupFacts ==
  ASSUME SInv, indx < Len(fl)
  PROVE  Group \in Nat \ {0} /\ Group + 1 <= job.max_open_files /\ indx + Group <= Len(fl)
<1>1. indx \in Nat /\ Len(fl) \in Nat /\ job.max_open_files \in Nat /\ job.max_open_files >= 3
  BY JobFacts DEF SInv, STypes
<1>2. PICK n \in Nat \ {0} : n = Len(fl) - indx
  BY <1>1
<1>3. Group = IF n >= job.max_open_files THEN job.max_open_files - 1 ELSE n
  BY <1>2 DEF Group
<1> QED BY <1>1, <1>2, <1>3

LEMMA OpenGroupStep ==
  ASSUME SInv, OpenGroup
  PROVE  SInv'
<1> DEFINE p == [i \in 1 .. Group |-> data[fl[indx + i]]]
<1>1. /\ pc = "open" /\ MergeStart(p, job.sflag, job.uflag) /\ pc' = "merge_group"
      /\ UNCHANGED <<job, ifile, iline, list, fl, fltmp, new_fl, indx, target, tmp_files, disk,
                     data, started, posted, parts, lost, code>>
  BY DEF OpenGroup, input, merging, files, threads
<1>2. /\ job \in Jobs /\ fl \in Seq(IF fltmp THEN Temps ELSE Inputs) /\ indx < Len(fl)
      /\ data \in [Names -> Seq(Line)] /\ indx \in Nat /\ Len(fl) \in Nat
  BY <1>1 DEF SInv, STypes, Place
<1>3. Group \in Nat \ {0} /\ Group + 1 <= job.max_open_files /\ indx + Group <= Len(fl)
  BY <1>2, GroupFacts
<1>4. p \in Seq(Seq(Line)) /\ Len(p) = Group
  <2> DEFINE n == Group
             D(i) == data[fl[indx + i]]
  <2>1. \A i \in 1 .. n : fl[indx + i] \in Names
    <3> SUFFICES ASSUME NEW i \in 1 .. n PROVE fl[indx + i] \in Names
      OBVIOUS
    <3>1. indx + i \in 1 .. Len(fl)
      BY <1>2, <1>3
    <3> QED BY <1>2, <3>1, NameFacts
  <2>2. p = [i \in 1 .. n |-> D(i)] /\ n \in Nat /\ \A i \in 1 .. n : D(i) \in Seq(Line)
    BY <1>2, <1>3, <2>1
  <2> HIDE DEF p, n, D
  <2>3. p \in Seq(Seq(Line)) /\ Len(p) = n
    BY <2>2
  <2> QED BY <2>3 DEF n
<1> HIDE DEF p
<1>5. MInv' /\ Len(fh') = Len(p) /\ Len(task'.parts) = Len(p) /\ phase' = "push"
  BY <1>1, <1>4, MergeBegins
<1>6. STypes'
  BY <1>1, SameJob DEF SInv, STypes, Merges
<1>7. Place'
  BY <1>1, <1>5, SameJob DEF SInv, Place, Sorting, Merges, Ends
<1>8. TempInv'
  <2>1. Temps' = Temps /\ ToMerge' = ToMerge /\ Made' = Made /\ Begin' = Begin
    BY <1>1, SameJob DEF ToMerge, Made, Begin, Passing
  <2> QED BY <1>1, <2>1 DEF SInv, TempInv, Running
<1>9. DiskInv'
  BY <1>1, SameJob DEF SInv, DiskInv, Running
<1>10. MergeInv'
  BY <1>1, <1>3, <1>4, <1>5 DEF MergeInv
<1> QED BY <1>6, <1>7, <1>8, <1>9, <1>10 DEF SInv

LEMMA GroupMergedStep ==
  ASSUME SInv, GroupMerged
  PROVE  SInv'
<1>1. /\ pc = "merge_group" /\ phase = "idle" /\ Write(out) /\ disk' = disk \ Merged
      /\ new_fl' = Append(new_fl, target) /\ indx' = indx + Group /\ target' = Outfile
      /\ pc' = "group"
      /\ UNCHANGED <<job, ifile, iline, list, fl, fltmp, tmp_files, started, posted, parts, code,
                     mvars>>
  BY DEF GroupMerged, input, threads
<1>2. /\ job \in Jobs /\ fl \in Seq(IF fltmp THEN Temps ELSE Inputs) /\ indx < Len(fl)
      /\ indx \in Nat /\ Len(fl) \in Nat /\ fltmp \in BOOLEAN
      /\ new_fl \in Seq(Temps) /\ Len(new_fl) \in Nat /\ target \in Temps /\ out \in Seq(Line)
  BY <1>1 DEF SInv, STypes, Place, MergeInv, MInv, MergeTypeOK
<1>3. Group \in Nat \ {0} /\ indx + Group <= Len(fl)
  BY <1>2, GroupFacts
<1>4. Inputs' = Inputs /\ Temps' = Temps /\ Names' = Names /\ Result' = Result
  BY <1>1, SameJob
<1>5. /\ target \in Names /\ target \notin Inputs /\ target # Outfile /\ Outfile \notin Temps
      /\ Inputs \cap Temps = {} /\ 1 \in Inputs /\ Outfile \in Names
  BY <1>2, NameFacts
<1>6. /\ data' \in [Names -> Seq(Line)] /\ lost' \in BOOLEAN
      /\ \A f \in Inputs : data'[f] = data[f]
  BY <1>1, <1>2, WriteFacts
<1>7. /\ new_fl' \in Seq(Temps) /\ Len(new_fl') = Len(new_fl) + 1
      /\ \A i \in 1 .. Len(new_fl) : new_fl'[i] = new_fl[i]
      /\ new_fl'[Len(new_fl) + 1] = target
  BY <1>1, <1>2, SeqFacts
<1>8. /\ ToMerge = {fl[i] : i \in indx + 1 .. Len(fl)} /\ Made = {new_fl[i] : i \in 1 .. Len(new_fl)}
      /\ ToMerge' = {fl[i] : i \in indx + Group + 1 .. Len(fl)}
      /\ Begin = indx /\ Begin' = indx + Group
  BY <1>1 DEF ToMerge, Made, Begin, Passing
<1>9. Made' = Made \cup {target}
  <2>1. Made' = {new_fl'[i] : i \in 1 .. Len(new_fl) + 1}
    BY <1>1, <1>7 DEF Made, Passing
  <2>2. \A i \in 1 .. Len(new_fl) + 1 : i \in 1 .. Len(new_fl) \/ i = Len(new_fl) + 1
    BY <1>2
  <2>3. 1 .. Len(new_fl) \subseteq 1 .. Len(new_fl) + 1 /\ Len(new_fl) + 1 \in 1 .. Len(new_fl) + 1
    BY <1>2
  <2> QED BY <1>7, <1>8, <2>1, <2>2, <2>3
<1>10. STypes'
  BY SMTT(30), <1>1, <1>2, <1>3, <1>4, <1>5, <1>6, <1>7 DEF SInv, STypes, Passing
<1>11. Place'
  BY <1>1, <1>2, <1>3 DEF SInv, Place, Sorting, Merges, Ends, mvars
<1>12. TempInv'
  <2>1. /\ \A i, j \in indx + 1 .. Len(fl) : fltmp /\ fl[i] = fl[j] => i = j
        /\ \A i, j \in 1 .. Len(new_fl) : new_fl[i] = new_fl[j] => i = j
        /\ fltmp => ToMerge \cap (Made \cup {target}) = {}
        /\ target \notin Made
        /\ disk \cap Temps = (IF fltmp THEN ToMerge ELSE {}) \cup Made \cup {target}
        /\ disk \cap Temps \subseteq tmp_files
    <3>1. TempInv /\ Running /\ pc \notin {"unlink", "rename", "register"}
      BY <1>1 DEF SInv, Running
    <3>2. \A i, j \in indx + 1 .. Len(fl) : fltmp /\ fl[i] = fl[j] => i = j
      BY <1>8, <3>1 DEF TempInv
    <3>3. \A i, j \in 1 .. Len(new_fl) : new_fl[i] = new_fl[j] => i = j
      BY <3>1 DEF TempInv
    <3>4. /\ fltmp => ToMerge \cap (Made \cup {target}) = {}
          /\ target \notin Made
          /\ disk \cap Temps = (IF fltmp THEN ToMerge ELSE {}) \cup Made \cup {target}
          /\ disk \cap Temps \subseteq tmp_files
      BY <1>5, <3>1 DEF TempInv
    <3> QED BY <3>2, <3>3, <3>4
  <2>2. indx + Group + 1 .. Len(fl) \subseteq indx + 1 .. Len(fl)
    BY <1>2, <1>3
  <2>3. \A i, j \in indx + Group + 1 .. Len(fl) : fltmp /\ fl[i] = fl[j] => i = j
    BY <2>1, <2>2
  <2>4. \A i, j \in 1 .. Len(new_fl) + 1 : new_fl'[i] = new_fl'[j] => i = j
    <3>1. \A i \in 1 .. Len(new_fl) : new_fl'[i] # target
      BY <1>7, <1>8, <2>1
    <3>2. \A i \in 1 .. Len(new_fl) + 1 : i \in 1 .. Len(new_fl) \/ i = Len(new_fl) + 1
      BY <1>2
    <3> QED BY <1>7, <2>1, <3>1, <3>2
  <2>5. ToMerge' \subseteq ToMerge
    BY <1>8, <2>2
  <2>6. fltmp => Merged = ToMerge \ ToMerge'
    <3> SUFFICES ASSUME fltmp PROVE Merged = ToMerge \ ToMerge'
      OBVIOUS
    <3>1. Merged = {fl[indx + i] : i \in 1 .. Group}
      BY DEF Merged
    <3>2. \A f \in Merged : f \in ToMerge /\ f \notin ToMerge'
      <4> SUFFICES ASSUME NEW f \in Merged PROVE f \in ToMerge /\ f \notin ToMerge'
        OBVIOUS
      <4>1. PICK i \in 1 .. Group : f = fl[indx + i]
        BY <3>1
      <4>2. indx + i \in indx + 1 .. Len(fl) /\ indx + i \notin indx + Group + 1 .. Len(fl)
        BY <1>2, <1>3
      <4> QED BY <1>8, <2>1, <2>2, <4>1, <4>2
    <3>3. \A f \in ToMerge : f \in ToMerge' \/ f \in Merged
      <4> SUFFICES ASSUME NEW f \in ToMerge PROVE f \in ToMerge' \/ f \in Merged
        OBVIOUS
      <4>1. PICK j \in indx + 1 .. Len(fl) : f = fl[j]
        BY <1>8
      <4>2. CASE j \in indx + Group + 1 .. Len(fl)
        BY <1>8, <4>1, <4>2
      <4>3. CASE j \notin indx + Group + 1 .. Len(fl)
        <5>1. j - indx \in 1 .. Group /\ indx + (j - indx) = j
          BY <1>2, <1>3, <4>3
        <5>2. f = fl[indx + (j - indx)]
          BY <4>1, <5>1
        <5> QED BY <3>1, <5>1, <5>2
      <4> QED BY <4>2, <4>3
    <3> QED BY <3>2, <3>3
  <2>7. ~fltmp => Merged = {}
    BY DEF Merged
  <2>8. disk' \cap Temps = (IF fltmp THEN ToMerge' ELSE {}) \cup Made \cup {target}
    BY <1>1, <1>2, <2>1, <2>5, <2>6, <2>7
  <2>9. /\ fltmp => ToMerge' \cap (Made' \cup {Outfile}) = {}
        /\ Outfile \notin Made'
    BY <1>2, <1>5, <1>9, <2>1, <2>5
  <2>10. disk' \cap Temps \subseteq tmp_files
    BY <1>1, <2>1
  <2> QED
    <3>1. \A i, j \in Begin' + 1 .. Len(fl') : fltmp' /\ fl'[i] = fl'[j] => i = j
      BY <1>1, <1>8, <2>3
    <3>2. \A i, j \in 1 .. Len(new_fl') : new_fl'[i] = new_fl'[j] => i = j
      BY <1>7, <2>4
    <3>3. disk' \cap Temps' = (IF fltmp' THEN ToMerge' ELSE {}) \cup Made' \cup ({target'} \ {Outfile})
      BY <1>1, <1>4, <1>9, <2>8
    <3>4. /\ fltmp' => ToMerge' \cap (Made' \cup {target'}) = {}
          /\ target' \notin Made' /\ disk' \cap Temps' \subseteq tmp_files'
      BY <1>1, <1>4, <2>9, <2>10
    <3> QED BY <1>1, <3>1, <3>2, <3>3, <3>4 DEF TempInv
<1>13. DiskInv'
  <2>1. Merged \subseteq Temps
    <3> SUFFICES ASSUME fltmp, NEW i \in 1 .. Group PROVE fl[indx + i] \in Temps
      BY DEF Merged
    <3>1. indx + i \in 1 .. Len(fl)
      BY <1>2, <1>3
    <3> QED BY <1>2, <3>1
  <2>2. Inputs \subseteq disk'
    <3>1. Inputs \subseteq disk
      BY <1>1 DEF SInv, DiskInv, Running
    <3> QED BY <1>1, <1>5, <2>1, <3>1
  <2> QED BY <1>1, <1>4, <1>5, <1>6, <2>2 DEF SInv, DiskInv, Running
<1>14. MergeInv'
  BY <1>1, MergeQuiet DEF SInv
<1> QED BY <1>10, <1>11, <1>12, <1>13, <1>14 DEF SInv

LEMMA AllMergedStep ==
  ASSUME SInv, AllMerged
  PROVE  SInv'
<1>1. /\ pc = "merge_all" /\ phase = "idle" /\ Write(out) /\ pc' = "clean"
      /\ UNCHANGED <<job, ifile, iline, list, fl, fltmp, new_fl, indx, target, tmp_files, disk,
                     started, posted, parts, code, mvars>>
  BY DEF AllMerged, input, merging, threads
<1>2. job \in Jobs /\ out \in Seq(Line)
  BY DEF SInv, STypes, MergeInv, MInv, MergeTypeOK
<1>3. Inputs' = Inputs /\ Temps' = Temps /\ Names' = Names /\ Result' = Result
  BY <1>1, SameJob
<1>4. /\ data' \in [Names -> Seq(Line)] /\ lost' \in BOOLEAN
      /\ \A f \in Inputs : data'[f] = data[f]
  BY <1>1, <1>2, WriteFacts
<1>5. STypes'
  BY <1>1, <1>3, <1>4 DEF SInv, STypes
<1>6. Place'
  BY <1>1 DEF SInv, Place, Sorting, Merges, Ends, mvars
<1>7. TempInv'
  <2>1. ToMerge' = ToMerge /\ Made' = Made /\ Begin' = Begin
    BY <1>1 DEF ToMerge, Made, Begin, Passing
  <2> QED BY <1>1, <1>3, <2>1 DEF SInv, TempInv, Running
<1>8. DiskInv'
  BY <1>1, <1>3, <1>4 DEF SInv, DiskInv, Running
<1>9. MergeInv'
  BY <1>1, MergeQuiet DEF SInv
<1> QED BY <1>5, <1>6, <1>7, <1>8, <1>9 DEF SInv

LEMMA MergingStep ==
  ASSUME SInv, Merging
  PROVE  SInv'
<1>1. /\ pc \in Merges /\ MergeStep
      /\ UNCHANGED <<job, pc, ifile, iline, list, fl, fltmp, new_fl, indx, target, tmp_files, disk,
                     data, started, posted, parts, lost, code>>
  BY DEF Merging, svars, Merges
<1>2. MInv'
  BY <1>1, NextInv DEF SInv, MergeInv, MergeNext
<1>3. task' = task /\ Len(fh') = Len(fh)
  <2>1. fh \in Seq(Source) /\ pushed \in 0 .. Len(fh) /\ at \in 0 .. Len(fh)
    BY DEF SInv, MergeInv, MInv, MergeTypeOK
  <2>2. \A i, j : Len(Swap(i, j)) = Len(fh)
    BY <2>1 DEF Swap
  <2> QED BY <1>1, <2>1, <2>2 DEF MergeStep, Push, Swim, PrintLine, Sink, MergeEnd
<1>4. STypes'
  BY <1>1, SameJob DEF SInv, STypes
<1>5. Place'
  BY <1>1, SameJob DEF SInv, Place, Merges
<1>6. TempInv'
  BY <1>1, TempQuiet DEF SInv
<1>7. DiskInv'
  BY <1>1, SameJob DEF SInv, DiskInv, Running
<1>8. MergeInv'
  BY <1>1, <1>2, <1>3 DEF SInv, MergeInv
<1> QED BY <1>4, <1>5, <1>6, <1>7, <1>8 DEF SInv
----------------------------------------------------------------------------
(***************************************************************************)
(* The end, errors and signals.                                            *)
(***************************************************************************)

LEMMA CleanStep ==
  ASSUME SInv, Clean
  PROVE  SInv'
<1>1. /\ pc = "clean" /\ disk' = disk \ (IF fltmp THEN {fl[i] : i \in DOMAIN fl} ELSE {})
      /\ IF job.inplace THEN pc' = "unlink" /\ code' = code ELSE pc' = "exit" /\ code' = 0
      /\ UNCHANGED <<job, ifile, iline, list, fl, fltmp, new_fl, indx, target, tmp_files, data,
                     started, posted, parts, lost, mvars>>
  BY DEF Clean, Exit, input, merging, threads
<1>2. /\ job \in Jobs /\ fl \in Seq(IF fltmp THEN Temps ELSE Inputs) /\ fltmp \in BOOLEAN
      /\ target = Outfile /\ disk \subseteq Names
  BY <1>1 DEF SInv, STypes, Place
<1>3. Inputs' = Inputs /\ Temps' = Temps /\ Names' = Names /\ Result' = Result
  BY <1>1, SameJob
<1>4. /\ ToMerge = {fl[i] : i \in 1 .. Len(fl)} /\ Made = {} /\ Begin = 0
      /\ ToMerge' = ToMerge /\ Made' = Made /\ Begin' = Begin
  BY <1>1 DEF ToMerge, Made, Begin, Passing
<1>5. /\ Outfile \notin Temps /\ Inputs \cap Temps = {} /\ 1 \in Inputs /\ Outfile \notin Inputs
      /\ Names = {Outfile} \cup Inputs \cup Temps
  BY <1>2, NameFacts
<1>6. disk' = disk \ Temps
  <2>1. disk \cap Temps = (IF fltmp THEN ToMerge ELSE {})
    BY <1>1, <1>2, <1>4 DEF SInv, TempInv, Running
  <2>2. disk' = disk \ (IF fltmp THEN ToMerge ELSE {})
    BY <1>1, <1>2, <1>4
  <2> QED BY <1>2, <2>1, <2>2
<1>7. Inputs \subseteq disk' /\ Outfile \in disk'
  BY <1>1, <1>5, <1>6 DEF SInv, DiskInv, Running
<1>8. STypes'
  BY <1>1, <1>2, <1>3, <1>6 DEF SInv, STypes, Ends
<1>9. Place'
  BY <1>1 DEF SInv, Place, Sorting, Merges, Ends, mvars
<1>10. TempInv'
  <2>1. disk' \cap Temps = {}
    BY <1>6
  <2> QED BY <1>1, <1>2, <1>3, <1>4, <2>1 DEF SInv, TempInv, Running
<1>11. DiskInv'
  <2>1. pc' = "exit" => disk' = Inputs \cup {Result}
    BY <1>1, <1>2, <1>5, <1>6, <1>7 DEF Result
  <2> QED BY <1>1, <1>3, <1>5, <1>7, <2>1 DEF SInv, DiskInv, Running
<1>12. MergeInv'
  BY <1>1, MergeQuiet DEF SInv
<1> QED BY <1>8, <1>9, <1>10, <1>11, <1>12 DEF SInv

LEMMA UnlinkRealStep ==
  ASSUME SInv, UnlinkReal
  PROVE  SInv'
<1>1. /\ pc = "unlink" /\ disk' = disk \ {1} /\ pc' = "rename"
      /\ UNCHANGED <<job, ifile, iline, list, fl, fltmp, new_fl, indx, target, tmp_files, data,
                     started, posted, parts, lost, code, mvars>>
  BY DEF UnlinkReal, input, merging, threads
<1>2. job \in Jobs /\ job.inplace /\ Outfile # 1
  BY <1>1, NameFacts DEF SInv, STypes, Place
<1>3. Inputs' = Inputs /\ Temps' = Temps /\ Names' = Names /\ Result' = Result
  BY <1>1, SameJob
<1>4. STypes'
  BY <1>1, <1>3 DEF SInv, STypes
<1>5. Place'
  BY <1>1, <1>2 DEF SInv, Place, Sorting, Merges, Ends, mvars
<1>6. TempInv'
  <2>1. ToMerge' = ToMerge /\ Made' = Made /\ Begin' = Begin
    BY <1>1 DEF ToMerge, Made, Begin, Passing
  <2> QED BY <1>1, <1>3, <2>1 DEF SInv, TempInv, Running
<1>7. DiskInv'
  BY <1>1, <1>2, <1>3 DEF SInv, DiskInv, Running
<1>8. MergeInv'
  BY <1>1, MergeQuiet DEF SInv
<1> QED BY <1>4, <1>5, <1>6, <1>7, <1>8 DEF SInv

LEMMA RenameOutputStep ==
  ASSUME SInv, RenameOutput
  PROVE  SInv'
<1>1. /\ pc = "rename" /\ disk' = (disk \ {Outfile}) \cup {1}
      /\ data' = [data EXCEPT ![1] = data[Outfile]] /\ pc' = "exit" /\ code' = 0
      /\ UNCHANGED <<job, ifile, iline, list, fl, fltmp, new_fl, indx, target, tmp_files,
                     started, posted, parts, lost, mvars>>
  BY DEF RenameOutput, Exit, input, merging, threads
<1>2. /\ job \in Jobs /\ job.inplace /\ disk \subseteq Names /\ data \in [Names -> Seq(Line)]
      /\ disk \cap Temps = {} /\ Inputs \ {1} \subseteq disk
  BY <1>1 DEF SInv, STypes, Place, TempInv, DiskInv
<1>3. Inputs' = Inputs /\ Temps' = Temps /\ Names' = Names /\ Result' = Result
  BY <1>1, SameJob
<1>4. /\ Names = {Outfile} \cup Inputs \cup Temps /\ 1 \in Inputs /\ Outfile \notin Inputs
      /\ Inputs \cap Temps = {} /\ Result = 1
  BY <1>2, NameFacts DEF Result
<1>5. disk' = Inputs
  BY <1>1, <1>2, <1>4
<1>6. STypes'
  <2>1. data' \in [Names -> Seq(Line)]
    BY <1>1, <1>2, <1>4
  <2> QED BY <1>1, <1>3, <1>4, <1>5, <2>1 DEF SInv, STypes, Ends
<1>7. Place'
  BY <1>1 DEF SInv, Place, Sorting, Merges, Ends
<1>8. TempInv'
  BY <1>1 DEF SInv, TempInv, Running
<1>9. DiskInv'
  BY <1>1, <1>3, <1>4, <1>5 DEF DiskInv, Running
<1>10. MergeInv'
  BY <1>1, MergeQuiet DEF SInv
<1> QED BY <1>6, <1>7, <1>8, <1>9, <1>10 DEF SInv

LEMMA FailStep ==
  ASSUME SInv, Fail
  PROVE  SInv'
<1>1. /\ pc \in {"read", "new", "sort", "create", "join", "merge_parts", "open", "merge_group", "merge_all", "rename"}
      /\ disk' \in {disk, disk \cup {target}} /\ pc' = "failed" /\ code' = 2
      /\ UNCHANGED <<job, ifile, iline, list, fl, fltmp, new_fl, indx, target, tmp_files, data,
                     started, posted, parts, lost, mvars>>
  BY DEF Fail, Exit, input, merging, threads
<1>2. job \in Jobs /\ disk \subseteq Names /\ target \in Names
  BY NameFacts DEF SInv, STypes
<1>3. Inputs' = Inputs /\ Temps' = Temps /\ Names' = Names /\ Result' = Result
  BY <1>1, SameJob
<1>4. STypes'
  BY <1>1, <1>2, <1>3 DEF SInv, STypes, Ends
<1>5. Place'
  BY <1>1 DEF SInv, Place, Sorting, Merges, Ends
<1>6. TempInv'
  BY <1>1 DEF SInv, TempInv, Running
<1>7. DiskInv'
  BY <1>1, <1>3 DEF SInv, DiskInv, Running
<1>8. MergeInv'
  BY <1>1, MergeQuiet DEF SInv
<1> QED BY <1>4, <1>5, <1>6, <1>7, <1>8 DEF SInv

LEMMA SignalStep ==
  ASSUME SInv, Signal
  PROVE  SInv'
<1>1. /\ Running
      /\ \/ disk' = disk \ tmp_files /\ pc' = "killed" /\ code' = 255
         \/ HoldsList /\ pc' = "hung" /\ disk' = disk /\ code' = code
      /\ UNCHANGED <<job, ifile, iline, list, fl, fltmp, new_fl, indx, target, tmp_files, data,
                     started, posted, parts, lost, mvars>>
  BY DEF Signal, Exit, input, merging, threads
<1>2. Inputs' = Inputs /\ Temps' = Temps /\ Names' = Names /\ Result' = Result
  BY <1>1, SameJob
<1>3. STypes'
  BY <1>1, <1>2 DEF SInv, STypes, Ends
<1>4. Place'
  BY <1>1 DEF SInv, Place, Sorting, Merges, Ends
<1>5. TempInv'
  <2>1. disk \cap Temps \subseteq tmp_files \cup {target}
    BY <1>1 DEF SInv, TempInv
  <2>2. \A i, j \in 1 .. Len(new_fl) : new_fl[i] = new_fl[j] => i = j
    BY DEF SInv, TempInv
  <2> QED BY <1>1, <1>2, <2>1, <2>2 DEF TempInv, Running
<1>6. DiskInv'
  <2>1. HoldsList => 1 \in disk
    BY DEF SInv, DiskInv, HoldsList
  <2> QED BY <1>1, <1>2, <2>1 DEF SInv, DiskInv, Running
<1>7. MergeInv'
  BY <1>1, MergeQuiet DEF SInv
<1> QED BY <1>3, <1>4, <1>5, <1>6, <1>7 DEF SInv

----------------------------------------------------------------------------
(***************************************************************************)
(* The invariant holds at the start and in every step.                     *)
(***************************************************************************)

LEMMA SortInit == Init => SInv
<1> SUFFICES ASSUME Init PROVE SInv
  OBVIOUS
<1>1. /\ job \in Jobs /\ pc = (IF job.mflag THEN "shrink" ELSE "read")
      /\ ifile = 1 /\ iline = 1 /\ list = <<>> /\ new_fl = <<>> /\ indx = 0
      /\ fl = (IF job.mflag THEN [i \in Inputs |-> i] ELSE <<>>) /\ fltmp = ~job.mflag
      /\ target = Outfile /\ tmp_files = (IF job.inplace THEN {Outfile} ELSE {})
      /\ disk = Inputs /\ data = [f \in Names |-> IF f \in Inputs THEN job.input[f] ELSE <<>>]
      /\ started = {} /\ posted = {} /\ parts = <<>> /\ lost = FALSE /\ code = -1 /\ MergeInit
  BY DEF Init
<1>2. job.mflag \in BOOLEAN /\ Len(job.input) \in Nat \ {0} /\ job.mem \in Nat \ {0}
  BY <1>1, JobFacts
<1>3. /\ Inputs \cap Temps = {} /\ 1 \in Inputs /\ \A i \in Inputs : job.input[i] \in Seq(Line)
      /\ Names = {Outfile} \cup Inputs \cup Temps /\ Inputs \subseteq Nat
  BY <1>1, NameFacts
<1>4. <<>> \in Seq(Line) /\ <<>> \in Seq(Seq(Line)) /\ <<>> \in Seq(Temps) /\ Len(<<>>) = 0
  OBVIOUS
<1>5. fl \in Seq(IF fltmp THEN Temps ELSE Inputs)
  <2>1. [i \in Inputs |-> i] \in Seq(Inputs)
    <3> DEFINE n == Len(job.input)
    <3>1. n \in Nat /\ Inputs = 1 .. n
      BY <1>2 DEF Inputs
    <3> HIDE DEF n
    <3>2. [i \in 1 .. n |-> i] \in Seq(1 .. n)
      BY <3>1
    <3> QED BY <3>1, <3>2
  <2> QED BY <1>1, <1>2, <1>4, <2>1
<1>6. data \in [Names -> Seq(Line)] /\ \A f \in Inputs : data[f] = job.input[f]
  BY <1>1, <1>3, <1>4
<1> DEFINE m == job.mflag
<1>12. \/ m = TRUE /\ pc = "shrink" /\ fltmp = FALSE
       \/ m = FALSE /\ pc = "read" /\ fltmp = TRUE /\ fl = <<>>
  BY <1>1, <1>2
<1>7. STypes
  <2>1. tmp_files \subseteq Names /\ disk \subseteq Names /\ started \subseteq 1 .. job.nthreads
    BY <1>1, <1>3
  <2>2. ifile \in 1 .. Len(job.input) + 1 /\ Len(list) <= job.mem
    BY <1>1, <1>2, <1>4
  <2>3. pc \in {"read", "shrink"} /\ fltmp \in BOOLEAN
    BY <1>12
  <2>4. list \in Seq(Line) /\ new_fl \in Seq(Temps) /\ parts \in Seq(Seq(Line))
    BY <1>1, <1>4, Zenon
  <2>5. iline \in Nat \ {0} /\ indx \in Nat
    BY <1>1
  <2>6. /\ target \in {Outfile} \cup Temps /\ lost \in BOOLEAN /\ posted \subseteq started
        /\ code \in {-1, 0, 2, 255}
    BY <1>1
  <2> QED BY <1>1, <1>5, <1>6, <2>1, <2>2, <2>3, <2>4, <2>5, <2>6 DEF STypes
<1>8. Place
  <2>1. Len(list) < job.mem
    BY <1>1, <1>2, <1>4
  <2> QED BY <1>1, <1>12, <2>1 DEF Place, Sorting, Merges, Ends, MergeInit
<1>9. TempInv
  <2>1. Begin = 0 /\ Made = {} /\ (fltmp = TRUE => ToMerge = {})
    BY <1>4, <1>12 DEF ToMerge, Made, Begin, Passing
  <2>2. disk \cap Temps = {} /\ target = Outfile
    BY <1>1, <1>3
  <2>3. \A i, j \in 1 .. Len(fl) : fltmp /\ fl[i] = fl[j] => i = j
    BY <1>4, <1>12
  <2>4. \A i, j \in 1 .. Len(new_fl) : new_fl[i] = new_fl[j] => i = j
    BY <1>1, <1>4
  <2>5. pc \in {"read", "shrink"} /\ fltmp \in BOOLEAN
    BY <1>12
  <2> QED BY <2>1, <2>2, <2>3, <2>4, <2>5 DEF TempInv
<1>10. DiskInv
  BY <1>1, <1>3, <1>6 DEF DiskInv, Running
<1>11. MergeInv
  BY <1>1, MergeInitInv DEF MergeInv, MergeInit
<1> QED BY <1>7, <1>8, <1>9, <1>10, <1>11 DEF SInv

LEMMA SortQuiet ==
  ASSUME SInv, UNCHANGED vars
  PROVE  SInv'
<1>1. UNCHANGED <<job, pc, ifile, iline, list, fl, fltmp, new_fl, indx, target, tmp_files, disk,
                  data, started, posted, parts, lost, code, mvars>>
  BY DEF vars, svars
<1>2. MergeInv'
  BY <1>1, NextInv DEF SInv, MergeInv, mvars
<1>3. STypes'
  BY <1>1, SameJob DEF SInv, STypes
<1>4. Place'
  BY <1>1, SameJob DEF SInv, Place, mvars
<1>5. TempInv'
  BY <1>1, TempQuiet DEF SInv
<1>6. DiskInv'
  BY <1>1, SameJob DEF SInv, DiskInv, Running
<1> QED BY <1>2, <1>3, <1>4, <1>5, <1>6 DEF SInv

LEMMA SortNext == SInv /\ [Next]_vars => SInv'
<1> SUFFICES ASSUME SInv, [Next]_vars PROVE SInv'
  OBVIOUS
<1>1. CASE Main
  BY <1>1, ReadLineStep, NextInputStep, InputEndsStep, MakeTempStep, RegisterStep, SortListStep,
     SplitListStep, CreateThreadStep, JoinThreadsStep, PartsMergedStep, ShrinkStep,
     NextGroupStep, OpenGroupStep, GroupMergedStep, AllMergedStep, MergingStep, CleanStep,
     UnlinkRealStep, RenameOutputStep DEF Main
<1>2. CASE Thread
  BY <1>2, SortThreadStep DEF Thread
<1>3. CASE Fail
  BY <1>3, FailStep
<1>4. CASE Signal
  BY <1>4, SignalStep
<1>5. CASE UNCHANGED vars
  BY <1>5, SortQuiet
<1> QED BY <1>1, <1>2, <1>3, <1>4, <1>5 DEF Next, Terminating

\* sort(1) never leaves the invariant.
THEOREM SortInvariance == Spec => []SInv
BY SortInit, SortNext, PTL DEF Spec

\* The model is well typed: fl, new_fl and target name files there are, no list is
\* longer than memory allows, and the heap is as long as the list of sources.
THEOREM SortTyped == Spec => []TypeOK
<1>1. SInv => TypeOK
  <2> SUFFICES ASSUME SInv PROVE TypeOK
    OBVIOUS
  <2>1. job \in Job /\ Inputs \subseteq Names /\ Temps \subseteq Names /\ Outfile \in Names
    BY JobsAssumption DEF SInv, STypes, Names
  <2>2. fl \in Seq(Names) /\ new_fl \in Seq(Names)
    <3>1. fl \in Seq(Temps) \/ fl \in Seq(Inputs)
      BY DEF SInv, STypes
    <3>2. \A S \in {Temps, Inputs} : \A s \in Seq(S) : s \in Seq(Names)
      <4> SUFFICES ASSUME NEW S \in {Temps, Inputs}, NEW s \in Seq(S) PROVE s \in Seq(Names)
        OBVIOUS
      <4>1. S \subseteq Names
        BY <2>1
      <4>2. s \in [1 .. Len(s) -> S] /\ Len(s) \in Nat
        OBVIOUS
      <4>3. s \in [1 .. Len(s) -> Names]
        BY <4>1, <4>2
      <4> QED BY <4>2, <4>3
    <3> QED BY <3>1, <3>2 DEF SInv, STypes
  <2>3. Len(fh) = Len(task.parts) /\ pushed \in 0 .. Len(fh) /\ at \in 0 .. Len(fh)
    BY DEF SInv, MergeInv, MInv, MergeTypeOK
  <2> QED BY <2>1, <2>2, <2>3 DEF SInv, STypes, TypeOK, Sorting, Passing, Merges, Ends
<1> QED BY <1>1, SortInvariance, PTL

\* A sort(1) that succeeds leaves no temporary file behind, one that a signal ends at
\* most the one it finds between mkstemp() and tmp_file_atexit(); of one that err(2)
\* ends nothing is said. No merge has more files open than max_open_files
\* (tmp_file_atexit(), clear_tmp_files(), shrink_file_list()).
THEOREM FilesAreAccounted == Spec => []FilesAccounted
<1>1. SInv => FilesAccounted
  <2> SUFFICES ASSUME SInv PROVE FilesAccounted
    OBVIOUS
  <2>1. pc = "exit" => disk = Inputs \cup {Result}
    BY DEF SInv, DiskInv
  <2>2. Running => (disk \cap Temps) \ tmp_files \subseteq (IF pc = "register" THEN {target} ELSE {})
    BY DEF SInv, TempInv
  <2>3. pc = "killed" => Cardinality(disk \cap Temps) <= 1
    <3>1. IsFiniteSet({target}) /\ Cardinality({target}) = 1
      BY FS_Singleton
    <3>2. disk \cap Temps \subseteq {target} => Cardinality(disk \cap Temps) <= 1
      BY <3>1, FS_Subset
    <3> QED BY <3>2 DEF SInv, TempInv
  <2>4. pc \in {"merge_group", "merge_all"} => Len(fh) + 1 <= job.max_open_files
    BY DEF SInv, MergeInv
  <2> QED BY <2>1, <2>2, <2>3, <2>4 DEF FilesAccounted
<1> QED BY <1>1, SortInvariance, PTL

\* Every merge of sort, of parts, of a group or of all, obeys what MergeHeap promises.
THEOREM SortMergeOrdered == Spec => []MergeOrdered
<1>1. SInv => MergeOrdered
  BY DEF SInv, MergeInv, MInv, HeapInv, OrderInv, MergeOrdered
<1> QED BY <1>1, SortInvariance, PTL

----------------------------------------------------------------------------
(***************************************************************************)
(* sort(1) sorts: for any command line, any input, any number of spilled   *)
(* files, passes and threads, the output is what one stable sort of all    *)
(* lines would have made.  The lines are known by their numbers in the     *)
(* whole input, and a file, a part of the list or an output is in form if  *)
(* it holds the lines of a set of numbers in order.                        *)
(***************************************************************************)

----------------------------------------------------------------------------
(***************************************************************************)
(* All lines of the input, and where those of each file begin.             *)
(***************************************************************************)

AllOf(j)   == FlattenSeq(j.input)
Numbers(j) == 1 .. Len(AllOf(j))

IsOffset(j, off) ==
  /\ off \in [0 .. Len(j.input) -> Nat]
  /\ off[0] = 0 /\ off[Len(j.input)] = Len(AllOf(j))
  /\ \A f \in 1 .. Len(j.input) :
       /\ off[f] = off[f - 1] + Len(j.input[f])
       /\ \A i \in 1 .. Len(j.input[f]) : AllOf(j)[off[f - 1] + i] = j.input[f][i]

\* The number of the last line in front of the file f + 1.
Offset(j) == CHOOSE off : IsOffset(j, off)

LEMMA Concat ==
  ASSUME NEW x \in Seq(Line), NEW y \in Seq(Line), NEW z, z = x \o y
  PROVE  /\ z \in Seq(Line) /\ Len(z) = Len(x) + Len(y) /\ Len(x) \in Nat /\ Len(y) \in Nat
         /\ \A k \in 1 .. Len(x) : z[k] = x[k]
         /\ \A k \in 1 .. Len(y) : z[Len(x) + k] = y[k]
<1>1. Len(x) \in Nat /\ Len(y) \in Nat
  OBVIOUS
<1>2. z \in Seq(Line) /\ Len(z) = Len(x) + Len(y)
  OBVIOUS
<1>3. \A k \in 1 .. Len(x) : z[k] = x[k]
  OBVIOUS
<1>4. \A k \in 1 .. Len(y) : z[Len(x) + k] = y[k]
  OBVIOUS
<1> QED BY <1>1, <1>2, <1>3, <1>4

\* What g holds of the files that it chains: each of them, where off says.
Placed(seqs, off, m, t) ==
  \A f \in 1 .. m : \A i \in 1 .. Len(seqs[f]) :
    off[f - 1] + i \in 1 .. Len(t) /\ t[off[f - 1] + i] = seqs[f][i]

LEMMA ChainFacts ==
  ASSUME NEW seqs \in Seq(Seq(Line)), seqs # <<>>, NEW g \in [1 .. Len(seqs) -> Seq(Line)],
         Chained(seqs, g)
  PROVE  \E off \in [0 .. Len(seqs) -> Nat] :
           /\ off[0] = 0 /\ off[Len(seqs)] = Len(g[Len(seqs)])
           /\ \A f \in 1 .. Len(seqs) : off[f] = off[f - 1] + Len(seqs[f])
           /\ Placed(seqs, off, Len(seqs), g[Len(seqs)])
<1>1. PICK N : N = Len(seqs)
  OBVIOUS
<1>2. N \in Nat /\ N >= 1 /\ \A f \in 1 .. N : seqs[f] \in Seq(Line) /\ g[f] \in Seq(Line)
  <2>1. N \in Nat /\ N >= 1
    BY <1>1
  <2>2. \A f \in 1 .. N : seqs[f] \in Seq(Line)
    BY <1>1
  <2>3. \A f \in 1 .. N : g[f] \in Seq(Line)
    BY <1>1
  <2> QED BY <2>1, <2>2, <2>3
<1>3. \A f \in 1 .. N : Len(g[f]) \in Nat /\ Len(seqs[f]) \in Nat
  BY <1>2
<1>4. g[1] = seqs[1] /\ \A f \in 2 .. N : g[f] = g[f - 1] \o seqs[f]
  BY <1>1 DEF Chained
<1> DEFINE off == [f \in 0 .. N |-> IF f = 0 THEN 0 ELSE Len(g[f])]
<1>5. off \in [0 .. N -> Nat] /\ off[0] = 0 /\ \A f \in 1 .. N : off[f] = Len(g[f])
  BY <1>2, <1>3
<1> HIDE DEF off
<1>6. /\ off[1] = Len(seqs[1])
      /\ \A f \in 2 .. N : /\ f - 1 \in 1 .. N /\ f \in 1 .. N
                           /\ off[f] = off[f - 1] + Len(seqs[f])
  <2>1. 1 \in 1 .. N
    BY <1>2
  <2>2. ASSUME NEW f \in 2 .. N
        PROVE  f - 1 \in 1 .. N /\ f \in 1 .. N /\ off[f] = off[f - 1] + Len(seqs[f])
    <3>1. f - 1 \in 1 .. N /\ f \in 1 .. N
      BY <1>2
    <3>2. PICK x, y, z : x = g[f - 1] /\ y = seqs[f] /\ z = g[f]
      OBVIOUS
    <3>3. x \in Seq(Line) /\ y \in Seq(Line) /\ z = x \o y
      BY <1>2, <1>4, <3>1, <3>2
    <3>4. Len(z) = Len(x) + Len(y)
      BY <3>3, Concat
    <3> QED BY <1>5, <3>1, <3>2, <3>4
  <2> QED BY <1>4, <1>5, <2>1, <2>2
<1>7. \A f \in 1 .. N : off[f] = off[f - 1] + Len(seqs[f])
  <2> SUFFICES ASSUME NEW f \in 1 .. N PROVE off[f] = off[f - 1] + Len(seqs[f])
    OBVIOUS
  <2>1. CASE f = 1
    <3>1. f - 1 = 0 /\ Len(seqs[1]) \in Nat
      BY <1>2, <1>3, <2>1
    <3> QED BY <1>5, <1>6, <2>1, <3>1
  <2>2. CASE f \in 2 .. N
    BY <1>6, <2>2
  <2>3. f = 1 \/ f \in 2 .. N
    BY <1>2
  <2> QED BY <2>1, <2>2, <2>3
<1> DEFINE S == {n \in Nat : n <= N - 1 => Placed(seqs, off, n + 1, g[n + 1])}
<1>8. 0 \in S
  <2>1. Placed(seqs, off, 1, g[1])
    <3> SUFFICES ASSUME NEW f \in 1 .. 1, NEW i \in 1 .. Len(seqs[f])
                 PROVE  off[f - 1] + i \in 1 .. Len(g[1]) /\ g[1][off[f - 1] + i] = seqs[f][i]
      BY DEF Placed
    <3>1. f = 1 /\ f - 1 = 0
      OBVIOUS
    <3>2. off[f - 1] + i = i
      BY <1>5, <3>1
    <3> QED BY <1>4, <3>1, <3>2
  <2> QED BY <2>1
<1>9. ASSUME NEW n \in Nat, n \in S PROVE n + 1 \in S
  <2> SUFFICES ASSUME n + 1 <= N - 1 PROVE Placed(seqs, off, (n + 1) + 1, g[(n + 1) + 1])
    OBVIOUS
  <2>1. Placed(seqs, off, n + 1, g[n + 1])
    BY <1>2, <1>9
  <2> HIDE DEF S
  <2>2. PICK k, m : k = n + 1 /\ m = (n + 1) + 1
    OBVIOUS
  <2>3. k \in 1 .. N /\ m \in 2 .. N /\ m - 1 = k /\ k \in Nat
    BY <1>2, <2>2
  <2>4. PICK x, y, z : x = g[k] /\ y = seqs[m] /\ z = g[m]
    OBVIOUS
  <2>5. x \in Seq(Line) /\ y \in Seq(Line) /\ z = x \o y
    BY <1>2, <1>4, <1>6, <2>3, <2>4
  <2>6. /\ Len(z) = Len(x) + Len(y) /\ Len(x) \in Nat /\ Len(y) \in Nat
        /\ \A i \in 1 .. Len(x) : z[i] = x[i]
        /\ \A i \in 1 .. Len(y) : z[Len(x) + i] = y[i]
    BY <2>5, Concat
  <2>7. ASSUME NEW f \in 1 .. m, NEW i \in 1 .. Len(seqs[f])
        PROVE  off[f - 1] + i \in 1 .. Len(z) /\ z[off[f - 1] + i] = seqs[f][i]
    <3>1. CASE f = m
      <4>1. off[f - 1] = Len(x) /\ i \in 1 .. Len(y)
        BY <1>5, <2>3, <2>4, <3>1
      <4>2. Len(x) + i \in 1 .. Len(z)
        BY SMTT(30), <2>6, <4>1
      <4> QED BY <2>4, <2>6, <3>1, <4>1, <4>2
    <3>2. CASE f # m
      <4>1. f \in 1 .. k
        BY <2>3, <3>2
      <4>2. off[f - 1] + i \in 1 .. Len(x) /\ x[off[f - 1] + i] = seqs[f][i]
        BY <2>1, <2>2, <2>4, <4>1 DEF Placed
      <4>3. off[f - 1] + i \in 1 .. Len(z)
        BY <2>6, <4>2
      <4> QED BY <2>6, <4>2, <4>3
    <3> QED BY <3>1, <3>2
  <2> QED BY <2>2, <2>4, <2>7 DEF Placed
<1>10. \A n \in Nat : n \in S
  <2> HIDE DEF S
  <2> QED BY <1>8, <1>9, SetInduction
<1>11. Placed(seqs, off, N, g[N])
  <2>1. N - 1 \in Nat /\ N - 1 <= N - 1 /\ (N - 1) + 1 = N
    BY <1>2
  <2>2. N - 1 \in S
    BY <1>10, <2>1
  <2>3. Placed(seqs, off, (N - 1) + 1, g[(N - 1) + 1])
    BY <2>1, <2>2
  <2> QED BY <2>1, <2>3
<1>12. off[N] = Len(g[N])
  <2>1. N \in 1 .. N
    BY <1>2
  <2> QED BY <1>5, <2>1
<1> QED BY <1>1, <1>5, <1>7, <1>11, <1>12

LEMMA Flattened ==
  ASSUME NEW j \in Jobs
  PROVE  /\ AllOf(j) \in Seq(Line) /\ Len(AllOf(j)) \in Nat
         /\ IsOffset(j, Offset(j))
         /\ j.sflag \in BOOLEAN /\ j.uflag \in BOOLEAN /\ (j.uflag => j.sflag)
<1>1. PICK seqs : seqs = j.input
  OBVIOUS
<1>2. /\ seqs \in Seq(Seq(Line)) /\ seqs # <<>>
      /\ j.sflag \in BOOLEAN /\ j.uflag \in BOOLEAN /\ (j.uflag => j.sflag)
  BY <1>1, JobsAssumption DEF Job
<1>3. PICK g \in [1 .. Len(seqs) -> Seq(Line)] :
        Chained(seqs, g) /\ FlattenSeq(seqs) = g[Len(seqs)]
  BY <1>2, FlattenRecursion, Zenon
<1>4. Len(seqs) \in 1 .. Len(seqs) /\ Len(seqs) \in Nat
  BY <1>2
<1>5. AllOf(j) = g[Len(seqs)] /\ AllOf(j) \in Seq(Line)
  BY <1>1, <1>3, <1>4 DEF AllOf
<1>6. PICK off \in [0 .. Len(seqs) -> Nat] :
        /\ off[0] = 0 /\ off[Len(seqs)] = Len(g[Len(seqs)])
        /\ \A f \in 1 .. Len(seqs) : off[f] = off[f - 1] + Len(seqs[f])
        /\ Placed(seqs, off, Len(seqs), g[Len(seqs)])
  BY <1>2, <1>3, ChainFacts
<1>7. IsOffset(j, off)
  <2>1. ASSUME NEW f \in 1 .. Len(seqs)
        PROVE  /\ off[f] = off[f - 1] + Len(seqs[f])
               /\ \A i \in 1 .. Len(seqs[f]) : AllOf(j)[off[f - 1] + i] = seqs[f][i]
    BY <1>5, <1>6 DEF Placed
  <2> QED BY <1>1, <1>5, <1>6, <2>1 DEF IsOffset
<1>8. IsOffset(j, Offset(j))
  BY <1>7 DEF Offset
<1>9. Len(AllOf(j)) \in Nat
  BY <1>5
<1> QED BY <1>2, <1>5, <1>8, <1>9

----------------------------------------------------------------------------
(***************************************************************************)
(* The order of the lines, by their numbers.                               *)
(***************************************************************************)

LineColl(j, x, y) == Coll(j.sflag, AllOf(j)[x], AllOf(j)[y])
Precedes(j, x, y) == LineColl(j, x, y) < 0 \/ (LineColl(j, x, y) = 0 /\ x < y)

LEMMA NumberFacts ==
  ASSUME NEW j \in Jobs, NEW x \in Numbers(j), NEW y \in Numbers(j), NEW z \in Numbers(j)
  PROVE  /\ AllOf(j)[x] \in Line /\ x \in Nat \ {0} /\ LineColl(j, x, y) \in Int
         /\ LineColl(j, x, x) = 0 /\ (LineColl(j, x, y) = 0 => LineColl(j, y, x) = 0)
         /\ LineColl(j, x, y) = 0 /\ LineColl(j, y, z) = 0 => LineColl(j, x, z) = 0
         /\ ~Precedes(j, x, x)
         /\ Precedes(j, x, y) => ~Precedes(j, y, x)
         /\ x # y => Precedes(j, x, y) \/ Precedes(j, y, x)
         /\ Precedes(j, x, y) /\ Precedes(j, y, z) => Precedes(j, x, z)
<1>1. PICK a, b, c : a = AllOf(j)[x] /\ b = AllOf(j)[y] /\ c = AllOf(j)[z]
  OBVIOUS
<1>2. /\ a \in Line /\ b \in Line /\ c \in Line /\ j.sflag \in BOOLEAN
      /\ x \in Nat \ {0} /\ y \in Nat \ {0} /\ z \in Nat \ {0}
  BY <1>1, Flattened DEF Numbers
<1>3. /\ a.key \in Nat /\ b.key \in Nat /\ c.key \in Nat
      /\ a.rest \in Nat /\ b.rest \in Nat /\ c.rest \in Nat
  BY <1>2 DEF Line
<1>4. PICK s \in BOOLEAN : s = j.sflag
  BY <1>2
<1>5. /\ LineColl(j, x, y) = Coll(s, a, b) /\ LineColl(j, y, x) = Coll(s, b, a)
      /\ LineColl(j, y, z) = Coll(s, b, c) /\ LineColl(j, x, z) = Coll(s, a, c)
      /\ LineColl(j, x, x) = Coll(s, a, a)
  BY <1>1, <1>4 DEF LineColl
<1>6. CASE s = TRUE
  BY <1>1, <1>2, <1>3, <1>5, <1>6 DEF Coll, Precedes
<1>7. CASE s = FALSE
  BY <1>1, <1>2, <1>3, <1>5, <1>7 DEF Coll, Precedes
<1> QED BY <1>6, <1>7

----------------------------------------------------------------------------
(***************************************************************************)
(* Lines in form.                                                          *)
(***************************************************************************)

\* t holds the lines p of I, in order; all of them, or with -u for each of them one
\* that compares equal and is not later.
FormBy(j, t, p, I) ==
  /\ p \in [1 .. Len(t) -> I]
  /\ \A k \in 1 .. Len(t) : t[k] = AllOf(j)[p[k]]
  /\ \A i, k \in 1 .. Len(t) : i < k => Precedes(j, p[i], p[k])
  /\ \A x \in I : \E k \in 1 .. Len(t) :
       LineColl(j, p[k], x) = 0 /\ p[k] <= x /\ (j.uflag \/ p[k] = x)

Form(j, t, I) == t \in Seq(Line) /\ I \subseteq Numbers(j) /\ \E p : FormBy(j, t, p, I)

\* With -u no line comes twice.
Distinct(j, t) == j.uflag => \A i, k \in 1 .. Len(t) : i < k => Coll(j.sflag, t[i], t[k]) # 0

\* t is the sorted input.
Right(j, t) == Form(j, t, Numbers(j)) /\ Distinct(j, t)

\* The lines that the output shows.
Shown(j) ==
  {x \in Numbers(j) : j.uflag => \A y \in Numbers(j) : y < x => LineColl(j, y, x) # 0}

LEMMA RightShows ==
  ASSUME NEW j \in Jobs, NEW t \in Seq(Line), NEW p, FormBy(j, t, p, Numbers(j)), Distinct(j, t)
  PROVE  /\ \A k \in 1 .. Len(t) : p[k] \in Shown(j)
         /\ \A x \in Shown(j) : \E k \in 1 .. Len(t) : p[k] = x
<1>1. \A k \in 1 .. Len(t) : p[k] \in Numbers(j) /\ t[k] = AllOf(j)[p[k]]
  BY DEF FormBy
<1>2. ASSUME NEW k \in 1 .. Len(t), j.uflag, NEW y \in Numbers(j), y < p[k]
      PROVE  LineColl(j, y, p[k]) # 0
  <2> SUFFICES ASSUME LineColl(j, y, p[k]) = 0 PROVE FALSE
    OBVIOUS
  <2>1. PICK i \in 1 .. Len(t) : LineColl(j, p[i], y) = 0 /\ p[i] <= y
    BY DEF FormBy
  <2>2. LineColl(j, p[i], p[k]) = 0 /\ LineColl(j, p[k], p[i]) = 0
    <3>1. p[i] \in Numbers(j) /\ p[k] \in Numbers(j)
      BY <1>1
    <3>2. LineColl(j, p[i], p[k]) = 0
      BY <2>1, <3>1, NumberFacts
    <3> QED BY <3>1, <3>2, NumberFacts
  <2>3. p[i] # p[k]
    <3>1. p[i] \in Nat /\ p[k] \in Nat /\ y \in Nat
      BY <1>1, NumberFacts
    <3> QED BY <1>2, <2>1, <3>1
  <2>4. Coll(j.sflag, t[i], t[k]) = 0 /\ Coll(j.sflag, t[k], t[i]) = 0
    BY <1>1, <2>2 DEF LineColl
  <2>5. i < k \/ k < i
    BY <2>3
  <2> QED BY <1>2, <2>4, <2>5 DEF Distinct
<1>3. ASSUME NEW x \in Shown(j) PROVE \E k \in 1 .. Len(t) : p[k] = x
  <2>1. x \in Numbers(j)
    BY DEF Shown
  <2>2. PICK k \in 1 .. Len(t) : LineColl(j, p[k], x) = 0 /\ p[k] <= x /\ (j.uflag \/ p[k] = x)
    BY <2>1 DEF FormBy
  <2>3. CASE p[k] = x
    BY <2>3
  <2>4. CASE p[k] # x
    <3>1. p[k] \in Nat /\ x \in Nat /\ p[k] \in Numbers(j)
      BY <1>1, <2>1, NumberFacts
    <3>2. p[k] < x
      BY <2>2, <2>4, <3>1
    <3> QED BY <2>2, <2>4, <3>1, <3>2 DEF Shown
  <2> QED BY <2>3, <2>4
<1> QED BY <1>1, <1>2, <1>3 DEF Shown

\* p goes through S in order, and leaves nothing out.
Lists(j, p, n, S) ==
  /\ \A k \in 1 .. n : p[k] \in S
  /\ \A i, k \in 1 .. n : i < k => Precedes(j, p[i], p[k])
  /\ \A x \in S : \E k \in 1 .. n : p[k] = x

\* There is one way to do that.
LEMMA OneWay ==
  ASSUME NEW j \in Jobs, NEW S, S \subseteq Numbers(j), NEW p, NEW n \in Nat, NEW q, NEW m \in Nat,
         Lists(j, p, n, S), Lists(j, q, m, S)
  PROVE  n <= m /\ \A k \in 1 .. n : p[k] = q[k]
<1> DEFINE T == {k \in Nat : k <= n => k <= m /\ \A i \in 1 .. k : p[i] = q[i]}
<1>1. 0 \in T
  OBVIOUS
<1>2. ASSUME NEW k \in Nat, k \in T PROVE k + 1 \in T
  <2> SUFFICES ASSUME k + 1 <= n PROVE k + 1 <= m /\ \A i \in 1 .. k + 1 : p[i] = q[i]
    OBVIOUS
  <2>1. k <= m /\ (\A i \in 1 .. k : p[i] = q[i]) /\ k + 1 \in 1 .. n /\ \A i \in 1 .. k : i \in 1 .. n /\ i \in 1 .. m
    BY <1>2
  <2> HIDE DEF T
  <2>2. PICK x, y : x = p[k + 1] /\ y = q[k + 1]
    OBVIOUS
  <2>3. x \in S /\ x \in Numbers(j)
    BY <2>1, <2>2 DEF Lists
  <2>4. PICK b \in 1 .. m : q[b] = x
    BY <2>3 DEF Lists
  <2>5. \A i \in 1 .. k : p[i] # x
    <3> SUFFICES ASSUME NEW i \in 1 .. k, p[i] = x PROVE FALSE
      OBVIOUS
    <3>1. i \in 1 .. n /\ i < k + 1
      BY <2>1
    <3>2. Precedes(j, p[i], p[k + 1])
      BY <2>1, <3>1 DEF Lists
    <3>3. Precedes(j, x, x)
      BY <2>2, <3>2
    <3> QED BY <2>3, <3>3, NumberFacts
  <2>6. b >= k + 1
    <3>1. b \notin 1 .. k
      BY <2>1, <2>4, <2>5
    <3> QED BY <3>1
  <2>7. k + 1 \in 1 .. m
    BY <2>4, <2>6
  <2>8. y \in S /\ y \in Numbers(j)
    BY <2>2, <2>7 DEF Lists
  <2>9. PICK a \in 1 .. n : p[a] = y
    BY <2>8 DEF Lists
  <2>10. \A i \in 1 .. k : q[i] # y
    <3> SUFFICES ASSUME NEW i \in 1 .. k, q[i] = y PROVE FALSE
      OBVIOUS
    <3>1. i \in 1 .. m /\ i < k + 1
      BY <2>1
    <3>2. Precedes(j, q[i], q[k + 1])
      BY <2>7, <3>1 DEF Lists
    <3>3. Precedes(j, y, y)
      BY <2>2, <3>2
    <3> QED BY <2>8, <3>3, NumberFacts
  <2>11. a >= k + 1
    <3>1. a \notin 1 .. k
      BY <2>1, <2>9, <2>10
    <3> QED BY <3>1
  <2>12. x = y
    <3>1. x = y \/ Precedes(j, x, y)
      <4>1. CASE a = k + 1
        BY <2>2, <2>9, <4>1
      <4>2. CASE a > k + 1
        <5>1. Precedes(j, p[k + 1], p[a])
          BY <2>1, <4>2 DEF Lists
        <5> QED BY <2>2, <2>9, <5>1
      <4> QED BY <2>11, <4>1, <4>2
    <3>2. x = y \/ Precedes(j, y, x)
      <4>1. CASE b = k + 1
        BY <2>2, <2>4, <4>1
      <4>2. CASE b > k + 1
        <5>1. Precedes(j, q[k + 1], q[b])
          BY <2>7, <4>2 DEF Lists
        <5> QED BY <2>2, <2>4, <5>1
      <4> QED BY <2>6, <4>1, <4>2
    <3> QED BY <2>3, <2>8, <3>1, <3>2, NumberFacts
  <2>13. \A i \in 1 .. k + 1 : i \in 1 .. k \/ i = k + 1
    OBVIOUS
  <2>14. k + 1 <= m
    BY <2>7
  <2>15. \A i \in 1 .. k + 1 : p[i] = q[i]
    BY <2>1, <2>2, <2>12, <2>13
  <2> QED BY <2>14, <2>15
<1>3. n \in T
  <2> HIDE DEF T
  <2> QED BY <1>1, <1>2, SetInduction
<1> QED BY <1>3

\* The sorted input is unique.
LEMMA RightUnique ==
  ASSUME NEW j \in Jobs, NEW t, NEW s, Right(j, t), Right(j, s)
  PROVE  t = s
<1>1. t \in Seq(Line) /\ s \in Seq(Line) /\ Len(t) \in Nat /\ Len(s) \in Nat
  BY DEF Right, Form
<1>2. PICK p : FormBy(j, t, p, Numbers(j))
  BY DEF Right, Form
<1>3. PICK q : FormBy(j, s, q, Numbers(j))
  BY DEF Right, Form
<1>4. PICK n, m \in Nat : n = Len(t) /\ m = Len(s)
  BY <1>1
<1>5. Lists(j, p, n, Shown(j))
  <2>1. Distinct(j, t)
    BY DEF Right
  <2>2. /\ \A k \in 1 .. Len(t) : p[k] \in Shown(j)
        /\ \A x \in Shown(j) : \E k \in 1 .. Len(t) : p[k] = x
    BY <1>1, <1>2, <2>1, RightShows
  <2> QED BY <1>2, <1>4, <2>2 DEF FormBy, Lists
<1>6. Lists(j, q, m, Shown(j))
  <2>1. Distinct(j, s)
    BY DEF Right
  <2>2. /\ \A k \in 1 .. Len(s) : q[k] \in Shown(j)
        /\ \A x \in Shown(j) : \E k \in 1 .. Len(s) : q[k] = x
    BY <1>1, <1>3, <2>1, RightShows
  <2> QED BY <1>3, <1>4, <2>2 DEF FormBy, Lists
<1>7. Shown(j) \subseteq Numbers(j)
  BY DEF Shown
<1>8. n <= m /\ (\A k \in 1 .. n : p[k] = q[k]) /\ m <= n
  <2>1. PICK S : S = Shown(j)
    OBVIOUS
  <2>2. S \subseteq Numbers(j) /\ Lists(j, p, n, S) /\ Lists(j, q, m, S)
    BY <1>5, <1>6, <1>7, <2>1
  <2>3. n <= m /\ \A k \in 1 .. n : p[k] = q[k]
    BY <2>2, OneWay
  <2>4. m <= n
    BY <2>2, OneWay
  <2> QED BY <2>3, <2>4
<1>9. n = m
  BY <1>8
<1>10. \A k \in 1 .. n : t[k] = s[k]
  BY <1>2, <1>3, <1>4, <1>8, <1>9 DEF FormBy
<1>11. t \in [1 .. n -> Line] /\ s \in [1 .. n -> Line]
  <2>1. t \in [1 .. Len(t) -> Line] /\ s \in [1 .. Len(s) -> Line]
    BY <1>1
  <2> QED BY <1>4, <1>9, <2>1
<1> QED BY <1>10, <1>11

----------------------------------------------------------------------------
(***************************************************************************)
(* Sorting a list brings it into form.                                     *)
(***************************************************************************)

\* s is the lines after the number base up to the number to.
Slice(j, s, base, to) ==
  /\ s \in Seq(Line) /\ base \in Nat
  /\ to = base + Len(s) /\ to <= Len(AllOf(j))
  /\ \A i \in 1 .. Len(s) : s[i] = AllOf(j)[base + i]

LEMMA FormAscends ==
  ASSUME NEW j \in Jobs, NEW t, NEW I, NEW p, I \subseteq Numbers(j), FormBy(j, t, p, I),
         NEW i \in 1 .. Len(t), NEW k \in 1 .. Len(t), i < k
  PROVE  Coll(j.sflag, t[i], t[k]) <= 0
<1>1. /\ p[i] \in Numbers(j) /\ p[k] \in Numbers(j)
      /\ t[i] = AllOf(j)[p[i]] /\ t[k] = AllOf(j)[p[k]] /\ Precedes(j, p[i], p[k])
  BY DEF FormBy
<1>2. PICK c : c = LineColl(j, p[i], p[k])
  OBVIOUS
<1>3. c \in Int /\ (c < 0 \/ c = 0)
  BY <1>1, <1>2, NumberFacts DEF Precedes
<1>4. c = Coll(j.sflag, t[i], t[k])
  BY <1>1, <1>2 DEF LineColl
<1> QED BY <1>3, <1>4

LEMMA StableSortForm ==
  ASSUME NEW j \in Jobs, j = job, NEW s, NEW base, NEW to, Slice(j, s, base, to)
  PROVE  Form(j, StableSort(s), base + 1 .. to)
<1>1. /\ j.sflag \in BOOLEAN /\ AllOf(j) \in Seq(Line) /\ Len(AllOf(j)) \in Nat
      /\ s \in Seq(Line) /\ base \in Nat /\ to = base + Len(s) /\ to <= Len(AllOf(j))
      /\ Len(s) \in Nat
  BY Flattened DEF Slice
<1> DEFINE t == StableSort(s)
           n == Len(s)
<1>2. n = Len(s) /\ t = StableSort(s)
  OBVIOUS
<1>3. /\ t \in Seq(Line) /\ Len(t) = n
      /\ \E p \in [1 .. n -> 1 .. n] :
           /\ \A k \in 1 .. n : t[k] = s[p[k]]
           /\ \A i, k \in 1 .. n : i < k => First(s, p[i], p[k])
           /\ \A i \in 1 .. n : \E k \in 1 .. n : p[k] = i
  <2>1. job.sflag \in BOOLEAN
    BY <1>1
  <2> QED BY <1>1, <2>1, StableSortFacts, Zenon
<1> HIDE DEF t, n
<1>4. PICK p \in [1 .. n -> 1 .. n] :
        /\ \A k \in 1 .. n : t[k] = s[p[k]]
        /\ \A i, k \in 1 .. n : i < k => First(s, p[i], p[k])
        /\ \A i \in 1 .. n : \E k \in 1 .. n : p[k] = i
  BY <1>3
<1>5. n \in Nat /\ \A k \in 1 .. n : p[k] \in 1 .. n /\ s[p[k]] = AllOf(j)[base + p[k]]
  BY <1>1, <1>2, <1>4 DEF Slice
<1> DEFINE q == [k \in 1 .. n |-> base + p[k]]
           I == base + 1 .. to
<1>6. q \in [1 .. n -> I] /\ \A k \in 1 .. n : q[k] = base + p[k]
  BY <1>1, <1>2, <1>5
<1> HIDE DEF q
<1>7. I \subseteq Numbers(j)
  BY <1>1 DEF Numbers
<1>8. \A k \in 1 .. n : t[k] = AllOf(j)[q[k]]
  BY <1>4, <1>5, <1>6
<1>9. ASSUME NEW i \in 1 .. n, NEW k \in 1 .. n, i < k PROVE Precedes(j, q[i], q[k])
  <2>1. First(s, p[i], p[k])
    BY <1>4, <1>9
  <2>2. s[p[i]] = AllOf(j)[q[i]] /\ s[p[k]] = AllOf(j)[q[k]]
    BY <1>5, <1>6
  <2>3. p[i] < p[k] => q[i] < q[k]
    <3>1. p[i] \in Nat /\ p[k] \in Nat
      BY <1>5
    <3>2. q[i] = base + p[i] /\ q[k] = base + p[k]
      BY <1>6
    <3> QED BY <1>1, <3>1, <3>2
  <2> QED BY <2>1, <2>2, <2>3 DEF First, Precedes, LineColl
<1>10. ASSUME NEW x \in I
       PROVE  \E k \in 1 .. n : LineColl(j, q[k], x) = 0 /\ q[k] <= x /\ (j.uflag \/ q[k] = x)
  <2>1. x - base \in 1 .. n /\ base + (x - base) = x /\ x \in Numbers(j)
    BY <1>1, <1>2, <1>7
  <2>2. PICK k \in 1 .. n : p[k] = x - base
    BY <1>4, <2>1
  <2>3. q[k] = x
    BY <1>6, <2>1, <2>2
  <2>4. LineColl(j, x, x) = 0 /\ x <= x
    BY <2>1, NumberFacts
  <2> QED BY <2>3, <2>4
<1>11. FormBy(j, t, q, I)
  <2> HIDE DEF I
  <2> QED BY <1>3, <1>6, <1>8, <1>9, <1>10 DEF FormBy
<1> QED BY <1>2, <1>3, <1>7, <1>11 DEF Form

LEMMA DumpForm ==
  ASSUME NEW j \in Jobs, j = job, NEW t, NEW I, Form(j, t, I)
  PROVE  Form(j, Dump(t), I) /\ Distinct(j, Dump(t))
<1>1. j.sflag \in BOOLEAN /\ j.uflag \in BOOLEAN /\ t \in Seq(Line) /\ I \subseteq Numbers(j)
  BY Flattened DEF Form
<1>2. PICK p : FormBy(j, t, p, I)
  BY DEF Form
<1>3. CASE j.uflag = FALSE
  <2>1. Dump(t) = t
    BY <1>3 DEF Dump
  <2> QED BY <1>3, <2>1 DEF Distinct
<1>4. CASE j.uflag = TRUE
  <2>1. PICK d : d = Dump(t)
    OBVIOUS
  <2>2. d \in Seq(Line) /\ \E q \in [1 .. Len(d) -> 1 .. Len(t)] : Keeps(t, Len(t), d, q)
    BY <1>1, <1>4, <2>1, DumpFacts
  <2>3. PICK q \in [1 .. Len(d) -> 1 .. Len(t)] : Keeps(t, Len(t), d, q)
    BY <2>2
  <2>4. Ascending(t)
    <3>1. \A i, k \in 1 .. Len(t) : i < k => Coll(j.sflag, t[i], t[k]) <= 0
      BY <1>1, <1>2, FormAscends
    <3> QED BY <3>1 DEF Ascending
  <2>5. /\ \A k \in 1 .. Len(d) : d[k] = t[q[k]] /\ q[k] \in 1 .. Len(t)
        /\ \A i, k \in 1 .. Len(d) : i < k => q[i] < q[k]
        /\ \A i, k \in 1 .. Len(d) : i < k => Coll(j.sflag, d[i], d[k]) # 0
        /\ \A i \in 1 .. Len(t) : \E k \in 1 .. Len(d) : q[k] <= i /\ Coll(j.sflag, d[k], t[i]) = 0
    BY <2>3, <2>4 DEF Keeps
  <2> DEFINE r == [k \in 1 .. Len(d) |-> p[q[k]]]
  <2>6. \A i \in 1 .. Len(t) : p[i] \in I /\ p[i] \in Numbers(j) /\ t[i] = AllOf(j)[p[i]]
    BY <1>1, <1>2 DEF FormBy
  <2>7. r \in [1 .. Len(d) -> I] /\ \A k \in 1 .. Len(d) : r[k] = p[q[k]]
    BY <2>5, <2>6
  <2> HIDE DEF r
  <2>8. \A k \in 1 .. Len(d) : d[k] = AllOf(j)[r[k]]
    BY <2>5, <2>6, <2>7
  <2>9. \A i, k \in 1 .. Len(d) : i < k => Precedes(j, r[i], r[k])
    BY <1>2, <2>5, <2>7 DEF FormBy
  <2>10. ASSUME NEW x \in I
         PROVE  \E k \in 1 .. Len(d) : LineColl(j, r[k], x) = 0 /\ r[k] <= x /\ (j.uflag \/ r[k] = x)
    <3>1. PICK i \in 1 .. Len(t) : LineColl(j, p[i], x) = 0 /\ p[i] <= x
      BY <1>2 DEF FormBy
    <3>2. PICK k \in 1 .. Len(d) : q[k] <= i /\ Coll(j.sflag, d[k], t[i]) = 0
      BY <2>5
    <3>3. LineColl(j, r[k], p[i]) = 0 /\ r[k] \in Numbers(j) /\ p[i] \in Numbers(j) /\ x \in Numbers(j)
      BY <1>1, <2>5, <2>6, <2>7, <2>8, <3>2 DEF LineColl
    <3>4. LineColl(j, r[k], x) = 0
      BY <3>1, <3>3, NumberFacts
    <3>5. r[k] <= p[i]
      <4>1. CASE q[k] = i
        <5>1. p[i] \in Nat
          BY <3>3, NumberFacts
        <5> QED BY <2>7, <4>1, <5>1
      <4>2. CASE q[k] # i
        <5>1. q[k] < i /\ q[k] \in 1 .. Len(t)
          BY <2>5, <3>2, <4>2
        <5>2. Precedes(j, r[k], p[i])
          BY <1>2, <2>7, <5>1 DEF FormBy
        <5>3. r[k] < p[i] /\ r[k] \in Nat /\ p[i] \in Nat
          BY <3>3, <5>2, NumberFacts DEF Precedes
        <5> QED BY <5>3
      <4> QED BY <4>1, <4>2
    <3>6. r[k] <= x
      <4>1. r[k] \in Nat /\ p[i] \in Nat /\ x \in Nat
        BY <3>3, NumberFacts
      <4> QED BY <3>1, <3>5, <4>1
    <3> QED BY <1>4, <3>4, <3>6
  <2>11. FormBy(j, d, r, I)
    BY <2>7, <2>8, <2>9, <2>10 DEF FormBy
  <2> QED BY <1>1, <2>1, <2>2, <2>5, <2>11 DEF Form, Distinct
<1> QED BY <1>1, <1>3, <1>4

\* What the specification expects is the sorted input.
LEMMA ExpectedRight ==
  ASSUME NEW j \in Jobs, j = job
  PROVE  Right(j, Expected)
<1>1. PICK s : s = AllOf(j)
  OBVIOUS
<1>2. Slice(j, s, 0, Len(s))
  BY <1>1, Flattened DEF Slice
<1>3. Form(j, StableSort(s), 0 + 1 .. Len(s))
  BY <1>2, StableSortForm
<1>4. 0 + 1 .. Len(s) = Numbers(j)
  BY <1>1 DEF Numbers
<1>5. PICK t : t = StableSort(s)
  OBVIOUS
<1>6. Form(j, t, Numbers(j))
  BY <1>3, <1>4, <1>5
<1>7. Right(j, Dump(t))
  BY <1>6, DumpForm DEF Right
<1>8. Expected = Dump(t)
  BY <1>1, <1>5 DEF Expected, AllOf
<1> QED BY <1>7, <1>8

----------------------------------------------------------------------------
(***************************************************************************)
(* Runs: what is in form, one after the other.                             *)
(***************************************************************************)

AllBefore(U, V) == \A x \in U, y \in V : x < y

\* The first n of f hold the lines of U: f[m] those of I[m], all of them in front of
\* those of the ones that follow.
TiledBy(j, f, n, U, I) ==
  /\ I \in [1 .. n -> SUBSET Nat]
  /\ \A m \in 1 .. n : Form(j, f[m], I[m])
  /\ \A i, k \in 1 .. n : i < k => AllBefore(I[i], I[k])
  /\ U = UNION {I[m] : m \in 1 .. n}

Tiled(j, f, n, U) == \E I : TiledBy(j, f, n, U, I)

LEMMA TileNone ==
  ASSUME NEW j, NEW f, NEW U
  PROVE  Tiled(j, f, 0, U) <=> U = {}
<1>1. ASSUME U = {} PROVE Tiled(j, f, 0, U)
  <2> DEFINE I == [m \in 1 .. 0 |-> {}]
  <2>1. TiledBy(j, f, 0, U, I)
    BY <1>1 DEF TiledBy
  <2> QED BY <2>1 DEF Tiled
<1>2. ASSUME Tiled(j, f, 0, U) PROVE U = {}
  BY <1>2 DEF Tiled, TiledBy
<1> QED BY <1>1, <1>2

LEMMA TileSame ==
  ASSUME NEW j, NEW f, NEW g, NEW n, NEW U, \A m \in 1 .. n : f[m] = g[m], Tiled(j, f, n, U)
  PROVE  Tiled(j, g, n, U)
<1>1. PICK I : TiledBy(j, f, n, U, I)
  BY DEF Tiled
<1>2. TiledBy(j, g, n, U, I)
  BY <1>1 DEF TiledBy
<1> QED BY <1>2 DEF Tiled

LEMMA TileNumbers ==
  ASSUME NEW j, NEW f, NEW n, NEW U, Tiled(j, f, n, U)
  PROVE  U \subseteq Numbers(j)
<1>1. PICK I : TiledBy(j, f, n, U, I)
  BY DEF Tiled
<1>2. \A m \in 1 .. n : I[m] \subseteq Numbers(j)
  BY <1>1 DEF TiledBy, Form
<1> QED BY <1>1, <1>2 DEF TiledBy

LEMMA TileAdd ==
  ASSUME NEW j, NEW f, NEW n \in Nat, NEW U, Tiled(j, f, n, U),
         NEW g, NEW V, \A m \in 1 .. n : g[m] = f[m], Form(j, g[n + 1], V), AllBefore(U, V)
  PROVE  Tiled(j, g, n + 1, U \cup V)
<1>1. PICK I : TiledBy(j, f, n, U, I)
  BY DEF Tiled
<1>2. I \in [1 .. n -> SUBSET Nat] /\ U = UNION {I[m] : m \in 1 .. n}
  BY <1>1 DEF TiledBy
<1>3. V \subseteq Nat
  BY DEF Form, Numbers
<1> DEFINE J == [m \in 1 .. n + 1 |-> IF m <= n THEN I[m] ELSE V]
<1>4. /\ J \in [1 .. n + 1 -> SUBSET Nat] /\ J[n + 1] = V /\ \A m \in 1 .. n : J[m] = I[m]
  BY <1>2, <1>3
<1> HIDE DEF J
<1>5. /\ \A m \in 1 .. n + 1 : m \in 1 .. n \/ m = n + 1
      /\ \A m \in 1 .. n : m \in 1 .. n + 1
      /\ n + 1 \in 1 .. n + 1
  OBVIOUS
<1>6. \A m \in 1 .. n + 1 : Form(j, g[m], J[m])
  <2>1. \A m \in 1 .. n : Form(j, f[m], I[m])
    BY <1>1 DEF TiledBy
  <2> QED BY <1>4, <1>5, <2>1
<1>7. ASSUME NEW i \in 1 .. n + 1, NEW k \in 1 .. n + 1, i < k PROVE AllBefore(J[i], J[k])
  <2>1. i \in 1 .. n
    BY <1>7
  <2>2. CASE k \in 1 .. n
    BY <1>1, <1>4, <1>7, <2>1, <2>2 DEF TiledBy
  <2>3. CASE k = n + 1
    <3>1. I[i] \subseteq U
      BY <1>2, <2>1
    <3> QED BY <1>4, <2>1, <2>3, <3>1 DEF AllBefore
  <2> QED BY <1>5, <2>2, <2>3
<1>8. U \cup V = UNION {J[m] : m \in 1 .. n + 1}
  <2>1. ASSUME NEW x \in U \cup V PROVE x \in UNION {J[m] : m \in 1 .. n + 1}
    BY <1>2, <1>4, <1>5
  <2>2. ASSUME NEW m \in 1 .. n + 1 PROVE J[m] \subseteq U \cup V
    BY <1>2, <1>4, <1>5
  <2> QED BY <2>1, <2>2
<1>9. TiledBy(j, g, n + 1, U \cup V, J)
  BY <1>4, <1>6, <1>7, <1>8 DEF TiledBy
<1> QED BY <1>9 DEF Tiled

\* g is what follows the first k of f, to the last one, n.
Rest(f, k, n, g) == \A m \in 1 .. n - k : g[m] = f[k + m]

SplitAt(j, f, k, n, g, U) ==
  \E V, W : Tiled(j, f, k, V) /\ Tiled(j, g, n - k, W) /\ AllBefore(V, W) /\ V \cup W = U

LEMMA TileSplit ==
  ASSUME NEW j, NEW f, NEW n \in Nat, NEW U, Tiled(j, f, n, U), NEW k \in 0 .. n,
         NEW g, Rest(f, k, n, g)
  PROVE  SplitAt(j, f, k, n, g, U)
<1> USE DEF Rest
<1>1. PICK I : TiledBy(j, f, n, U, I)
  BY DEF Tiled
<1>2. /\ I \in [1 .. n -> SUBSET Nat] /\ U = UNION {I[m] : m \in 1 .. n}
      /\ \A m \in 1 .. n : Form(j, f[m], I[m])
      /\ \A i, l \in 1 .. n : i < l => AllBefore(I[i], I[l])
  BY <1>1 DEF TiledBy
<1> DEFINE P == [m \in 1 .. k |-> I[m]]
           Q == [m \in 1 .. n - k |-> I[k + m]]
           V == UNION {P[m] : m \in 1 .. k}
           W == UNION {Q[m] : m \in 1 .. n - k}
<1>3. /\ \A m \in 1 .. k : m \in 1 .. n
      /\ \A m \in 1 .. n - k : k + m \in 1 .. n
      /\ \A m \in 1 .. n : m \in 1 .. k \/ (m - k \in 1 .. n - k /\ k + (m - k) = m)
      /\ \A i \in 1 .. k, m \in 1 .. n - k : i < k + m
      /\ \A i, m \in 1 .. n - k : i < m => k + i < k + m
  OBVIOUS
<1>4. P \in [1 .. k -> SUBSET Nat] /\ \A m \in 1 .. k : P[m] = I[m]
  BY <1>2, <1>3
<1>5. Q \in [1 .. n - k -> SUBSET Nat] /\ \A m \in 1 .. n - k : Q[m] = I[k + m]
  BY <1>2, <1>3
<1> HIDE DEF P, Q
<1>6. TiledBy(j, f, k, V, P)
  BY <1>2, <1>3, <1>4 DEF TiledBy
<1>7. TiledBy(j, g, n - k, W, Q)
  <2>1. \A m \in 1 .. n - k : Form(j, g[m], Q[m])
    BY <1>2, <1>3, <1>5
  <2>2. ASSUME NEW i \in 1 .. n - k, NEW l \in 1 .. n - k, i < l PROVE AllBefore(Q[i], Q[l])
    BY <1>2, <1>3, <1>5, <2>2
  <2> QED BY <1>5, <2>1, <2>2 DEF TiledBy
<1>8. AllBefore(V, W)
  <2> SUFFICES ASSUME NEW i \in 1 .. k, NEW m \in 1 .. n - k, NEW x \in P[i], NEW y \in Q[m]
               PROVE  x < y
    BY DEF AllBefore
  <2> QED BY <1>2, <1>3, <1>4, <1>5 DEF AllBefore
<1>9. V \cup W = U
  <2>1. ASSUME NEW x \in U PROVE x \in V \cup W
    <3>1. PICK m \in 1 .. n : x \in I[m]
      BY <1>2
    <3>2. CASE m \in 1 .. k
      BY <1>4, <3>1, <3>2
    <3>3. CASE m - k \in 1 .. n - k /\ k + (m - k) = m
      <4>1. x \in Q[m - k]
        BY <1>5, <3>1, <3>3
      <4> QED BY <3>3, <4>1
    <3> QED BY <1>3, <3>2, <3>3
  <2>2. V \subseteq U
    BY <1>2, <1>3, <1>4
  <2>3. W \subseteq U
    BY <1>2, <1>3, <1>5
  <2> QED BY <2>1, <2>2, <2>3
<1> HIDE DEF V, W
<1>10. Tiled(j, f, k, V) /\ Tiled(j, g, n - k, W)
  BY <1>6, <1>7 DEF Tiled
<1> QED BY <1>8, <1>9, <1>10 DEF SplitAt

\* Runs that lie between the bounds c.
LEMMA TileBounds ==
  ASSUME NEW j, NEW f, NEW n \in Nat, NEW c \in [0 .. n -> Nat],
         \A i, k \in 0 .. n : i <= k => c[i] <= c[k],
         \A m \in 1 .. n : Form(j, f[m], c[m - 1] + 1 .. c[m])
  PROVE  Tiled(j, f, n, c[0] + 1 .. c[n])
<1> DEFINE I == [m \in 1 .. n |-> c[m - 1] + 1 .. c[m]]
           U == c[0] + 1 .. c[n]
<1>1. \A m \in 1 .. n : m - 1 \in 0 .. n /\ m \in 0 .. n /\ c[m - 1] \in Nat /\ c[m] \in Nat
  OBVIOUS
<1>2. I \in [1 .. n -> SUBSET Nat] /\ \A m \in 1 .. n : I[m] = c[m - 1] + 1 .. c[m]
  BY <1>1
<1> HIDE DEF I
<1>3. ASSUME NEW i \in 1 .. n, NEW k \in 1 .. n, i < k PROVE AllBefore(I[i], I[k])
  <2>1. i <= k - 1 /\ k - 1 \in 0 .. n /\ i \in 0 .. n
    BY <1>3
  <2>2. c[i] <= c[k - 1] /\ c[i] \in Nat /\ c[k - 1] \in Nat
    BY <2>1
  <2>3. I[i] = c[i - 1] + 1 .. c[i] /\ I[k] = c[k - 1] + 1 .. c[k]
    BY <1>2
  <2>4. c[i - 1] \in Nat /\ c[k] \in Nat
    BY <1>1
  <2> QED BY <2>2, <2>3, <2>4 DEF AllBefore
<1>4. ASSUME NEW x \in U PROVE \E m \in 1 .. n : x \in I[m]
  <2>1. 0 \in 0 .. n /\ n \in 0 .. n /\ c[0] \in Nat /\ c[n] \in Nat
    OBVIOUS
  <2>2. x \in Nat /\ c[0] < x /\ x <= c[n]
    BY <2>1
  <2> DEFINE S == {m \in Nat : m <= n => c[m] < x}
  <2> SUFFICES ASSUME \A m \in 1 .. n : x \notin I[m] PROVE FALSE
    OBVIOUS
  <2>3. 0 \in S
    BY <2>2
  <2>4. ASSUME NEW m \in Nat, m \in S PROVE m + 1 \in S
    <3> SUFFICES ASSUME m + 1 <= n PROVE c[m + 1] < x
      OBVIOUS
    <3>1. c[m] < x /\ m + 1 \in 1 .. n /\ (m + 1) - 1 = m
      BY <2>4
    <3>2. x \notin c[m] + 1 .. c[m + 1]
      BY <1>2, <3>1
    <3>3. c[m] \in Nat /\ c[m + 1] \in Nat
      BY <1>1, <3>1
    <3> QED BY <2>2, <3>1, <3>2, <3>3
  <2>5. n \in S
    <3> HIDE DEF S
    <3> QED BY <2>3, <2>4, SetInduction
  <2> QED BY <2>1, <2>2, <2>5
<1>5. ASSUME NEW m \in 1 .. n PROVE I[m] \subseteq U
  <2>1. 0 \in 0 .. n /\ n \in 0 .. n /\ m - 1 \in 0 .. n /\ m \in 0 .. n /\ 0 <= m - 1 /\ m <= n
    OBVIOUS
  <2>2. c[0] <= c[m - 1] /\ c[m] <= c[n]
    BY <2>1
  <2>3. c[0] \in Nat /\ c[m - 1] \in Nat /\ c[m] \in Nat /\ c[n] \in Nat
    BY <2>1
  <2> QED BY <1>2, <2>2, <2>3
<1>6. U = UNION {I[m] : m \in 1 .. n}
  <2> HIDE DEF U
  <2> QED BY <1>4, <1>5
<1>7. \A m \in 1 .. n : Form(j, f[m], I[m])
  BY <1>2
<1>8. TiledBy(j, f, n, U, I)
  <2> HIDE DEF U
  <2> QED BY <1>2, <1>3, <1>6, <1>7 DEF TiledBy
<1> QED BY <1>8 DEF Tiled

----------------------------------------------------------------------------
(***************************************************************************)
(* The merge of runs is in form.                                           *)
(***************************************************************************)

LEMMA MergeForm ==
  ASSUME NEW j \in Jobs, MInv, OriginInv, phase = "idle",
         task.sflag = j.sflag, task.uflag = j.uflag,
         NEW U, Tiled(j, task.parts, Len(task.parts), U)
  PROVE  Form(j, out, U) /\ Distinct(j, out)
<1>1. PICK P, n, o, r, N : /\ P = task.parts /\ n = Len(task.parts) /\ o = out /\ r = from
                           /\ N = Len(out)
  OBVIOUS
<1>2. /\ o \in Seq(Line) /\ N \in Nat /\ N = Len(o) /\ n \in Nat
      /\ DOMAIN P = 1 .. n /\ \A m \in 1 .. n : P[m] \in Seq(Line) /\ Len(P[m]) \in Nat
  <2>1. task.parts \in Seq(Seq(Line)) /\ out \in Seq(Line)
    BY DEF MInv, MergeTypeOK
  <2>2. DOMAIN task.parts = 1 .. Len(task.parts) /\ Len(task.parts) \in Nat
    BY <2>1
  <2>3. \A m \in 1 .. n : P[m] \in Seq(Line)
    BY <1>1, <2>1
  <2>4. Len(out) \in Nat
    BY <2>1
  <2> QED BY <1>1, <2>1, <2>2, <2>3, <2>4
<1>3. PICK I : TiledBy(j, P, n, U, I)
  BY <1>1 DEF Tiled
<1>4. /\ I \in [1 .. n -> SUBSET Nat] /\ U = UNION {I[m] : m \in 1 .. n}
      /\ \A i, k \in 1 .. n : i < k => AllBefore(I[i], I[k])
      /\ \A m \in 1 .. n : Form(j, P[m], I[m])
  BY <1>3 DEF TiledBy
<1> DEFINE Q == [m \in 1 .. n |-> CHOOSE p : FormBy(j, P[m], p, I[m])]
<1>5. \A m \in 1 .. n : FormBy(j, P[m], Q[m], I[m]) /\ I[m] \subseteq Numbers(j)
  BY <1>4 DEF Form
<1> HIDE DEF Q
<1>6. U \subseteq Numbers(j)
  BY <1>4, <1>5
<1>7. \A m \in 1 .. n : Sorted(j.sflag, P[m])
  <2> SUFFICES ASSUME NEW m \in 1 .. n, NEW i \in 1 .. Len(P[m]) - 1
               PROVE  Coll(j.sflag, P[m][i], P[m][i + 1]) <= 0
    BY DEF Sorted
  <2>1. i \in 1 .. Len(P[m]) /\ i + 1 \in 1 .. Len(P[m]) /\ i < i + 1
    BY <1>2
  <2> QED BY <1>5, <2>1, FormAscends
<1>8. SourcesSorted
  BY <1>1, <1>2, <1>7 DEF SourcesSorted
<1>9. \A i, k \in 1 .. N : i < k =>
        /\ InOrder(j.sflag, o[i], r[i], o[k], r[k])
        /\ j.uflag => Coll(j.sflag, o[i], o[k]) # 0
  <2>1. OutputOrdered
    BY <1>8 DEF MInv, OrderInv
  <2> QED BY <1>1, <2>1 DEF OutputOrdered
<1>10. PICK w \in [1 .. N -> Nat] :
         /\ \A k \in 1 .. N : r[k] \in 1 .. n /\ w[k] \in 1 .. Len(P[r[k]]) /\ o[k] = P[r[k]][w[k]]
         /\ \A i, k \in 1 .. N : i < k /\ r[i] = r[k] => w[i] < w[k]
         /\ \A m \in 1 .. n : \A q \in 1 .. Len(P[m]) : IsOut(task, o, r, w, m, q)
  <2>1. Complete
    BY OriginComplete
  <2>2. PICK w \in [1 .. Len(out) -> Nat] :
          /\ \A k \in 1 .. Len(out) : /\ from[k] \in 1 .. Len(task.parts)
                                      /\ w[k] \in 1 .. Len(task.parts[from[k]])
                                      /\ out[k] = task.parts[from[k]][w[k]]
          /\ \A i, k \in 1 .. Len(out) : i < k /\ from[i] = from[k] => w[i] < w[k]
          /\ \A m \in 1 .. Len(task.parts) : \A q \in 1 .. Len(task.parts[m]) :
               IsOut(task, out, from, w, m, q)
    BY <1>8, <2>1 DEF Complete
  <2> QED BY <1>1, <2>2
<1> DEFINE q == [k \in 1 .. N |-> Q[r[k]][w[k]]]
<1>11. \A m \in 1 .. n : \A i \in 1 .. Len(P[m]) :
         /\ Q[m][i] \in I[m] /\ Q[m][i] \in U /\ Q[m][i] \in Numbers(j) /\ Q[m][i] \in Nat
         /\ P[m][i] = AllOf(j)[Q[m][i]]
  <2> SUFFICES ASSUME NEW m \in 1 .. n, NEW i \in 1 .. Len(P[m])
               PROVE  /\ Q[m][i] \in I[m] /\ Q[m][i] \in U /\ Q[m][i] \in Numbers(j)
                      /\ Q[m][i] \in Nat /\ P[m][i] = AllOf(j)[Q[m][i]]
    OBVIOUS
  <2>1. Q[m][i] \in I[m] /\ P[m][i] = AllOf(j)[Q[m][i]]
    BY <1>5 DEF FormBy
  <2>2. Q[m][i] \in U /\ Q[m][i] \in Numbers(j)
    BY <1>4, <1>6, <2>1
  <2> QED BY <2>1, <2>2, NumberFacts
<1>12. q \in [1 .. N -> U] /\ \A k \in 1 .. N : q[k] = Q[r[k]][w[k]]
  BY <1>10, <1>11
<1> HIDE DEF q
<1>13. \A k \in 1 .. N : /\ o[k] = AllOf(j)[q[k]] /\ q[k] \in I[r[k]] /\ q[k] \in Numbers(j)
                         /\ q[k] \in Nat
  BY <1>10, <1>11, <1>12
<1>14. ASSUME NEW i \in 1 .. N, NEW k \in 1 .. N, i < k PROVE Precedes(j, q[i], q[k])
  <2>1. InOrder(j.sflag, o[i], r[i], o[k], r[k])
    BY <1>9, <1>14
  <2>2. Coll(j.sflag, o[i], o[k]) = LineColl(j, q[i], q[k])
    BY <1>13 DEF LineColl
  <2>3. CASE LineColl(j, q[i], q[k]) < 0
    BY <2>3 DEF Precedes
  <2>4. CASE LineColl(j, q[i], q[k]) = 0 /\ r[i] <= r[k]
    <3>1. CASE r[i] = r[k]
      <4>1. w[i] < w[k] /\ r[i] \in 1 .. n /\ w[i] \in 1 .. Len(P[r[i]]) /\ w[k] \in 1 .. Len(P[r[i]])
        BY <1>10, <1>14, <3>1
      <4>2. Precedes(j, Q[r[i]][w[i]], Q[r[i]][w[k]])
        BY <1>5, <4>1 DEF FormBy
      <4> QED BY <1>12, <3>1, <4>2
    <3>2. CASE r[i] # r[k]
      <4>1. r[i] \in 1 .. n /\ r[k] \in 1 .. n /\ r[i] < r[k]
        BY <1>10, <2>4, <3>2
      <4>2. AllBefore(I[r[i]], I[r[k]])
        BY <1>4, <4>1
      <4>3. q[i] < q[k]
        BY <1>13, <4>2 DEF AllBefore
      <4> QED BY <2>4, <4>3 DEF Precedes
    <3> QED BY <3>1, <3>2
  <2> QED BY <2>1, <2>2, <2>3, <2>4 DEF InOrder
<1>15. ASSUME NEW x \in U
       PROVE  \E k \in 1 .. N : LineColl(j, q[k], x) = 0 /\ q[k] <= x /\ (j.uflag \/ q[k] = x)
  <2>1. PICK m \in 1 .. n : x \in I[m]
    BY <1>4
  <2>2. x \in Numbers(j) /\ x \in Nat
    BY <1>6, NumberFacts
  <2>3. PICK a \in 1 .. Len(P[m]) : /\ LineColl(j, Q[m][a], x) = 0 /\ Q[m][a] <= x
                                    /\ j.uflag \/ Q[m][a] = x
    BY <1>5, <2>1 DEF FormBy
  <2>4. PICK k \in 1 .. N : /\ Coll(j.sflag, o[k], P[m][a]) = 0
                            /\ r[k] < m \/ (r[k] = m /\ w[k] <= a)
                            /\ j.uflag \/ (r[k] = m /\ w[k] = a)
    <3>1. IsOut(task, o, r, w, m, a)
      BY <1>10
    <3>2. /\ task.parts = P /\ task.sflag = j.sflag /\ task.uflag = j.uflag /\ Len(o) = N
          /\ j.uflag \in BOOLEAN
      BY <1>1, <1>2, Flattened
    <3>3. PICK k \in 1 .. Len(o) : /\ Coll(task.sflag, o[k], task.parts[m][a]) = 0
                                   /\ r[k] < m \/ (r[k] = m /\ w[k] <= a)
                                   /\ task.uflag \/ (r[k] = m /\ w[k] = a)
      BY <3>1 DEF IsOut
    <3>4. k \in 1 .. N /\ Coll(j.sflag, o[k], P[m][a]) = 0
      BY <3>2, <3>3
    <3>5. j.uflag \/ (r[k] = m /\ w[k] = a)
      BY <3>2, <3>3
    <3> QED BY <3>3, <3>4, <3>5
  <2>5. PICK y : y = Q[m][a]
    OBVIOUS
  <2>6. y \in I[m] /\ y \in Numbers(j) /\ y \in Nat /\ P[m][a] = AllOf(j)[y]
    BY <1>11, <2>5
  <2>7. LineColl(j, q[k], y) = 0
    BY <1>13, <2>4, <2>6 DEF LineColl
  <2>8. LineColl(j, q[k], x) = 0
    BY <1>13, <2>2, <2>3, <2>5, <2>6, <2>7, NumberFacts
  <2>9. q[k] <= y
    <3>1. CASE r[k] < m
      <4>1. AllBefore(I[r[k]], I[m])
        BY <1>4, <1>10, <3>1
      <4>2. q[k] < y
        BY <1>13, <2>6, <4>1 DEF AllBefore
      <4> QED BY <1>13, <2>6, <4>2
    <3>2. CASE r[k] = m /\ w[k] = a
      BY <1>12, <1>13, <2>5, <3>2
    <3>3. CASE r[k] = m /\ w[k] < a
      <4>1. w[k] \in 1 .. Len(P[m])
        BY <1>10, <3>3
      <4>2. Precedes(j, Q[m][w[k]], Q[m][a])
        BY <1>5, <3>3, <4>1 DEF FormBy
      <4>3. Precedes(j, q[k], y)
        BY <1>12, <2>5, <3>3, <4>2
      <4>4. q[k] < y
        BY <2>7, <4>3 DEF Precedes
      <4> QED BY <1>13, <2>6, <4>4
    <3>4. w[k] \in Nat /\ a \in Nat
      OBVIOUS
    <3> QED BY <2>4, <3>1, <3>2, <3>3, <3>4
  <2>10. q[k] <= x
    BY <1>13, <2>2, <2>3, <2>5, <2>6, <2>9
  <2>11. j.uflag \/ q[k] = x
    BY <1>12, <2>3, <2>4
  <2> QED BY <2>8, <2>10, <2>11
<1>16. FormBy(j, o, q, U)
  BY <1>2, <1>12, <1>13, <1>14, <1>15 DEF FormBy
<1>17. Form(j, o, U)
  BY <1>2, <1>6, <1>16 DEF Form
<1>18. Distinct(j, o)
  BY <1>2, <1>9 DEF Distinct
<1> QED BY <1>1, <1>17, <1>18
----------------------------------------------------------------------------
(***************************************************************************)
(* The files that are still to be merged.                                  *)
(***************************************************************************)

\* What d holds under the names f, those after the first k.
Held(d, f, k) == [i \in 1 .. Len(f) - k |-> d[f[k + i]]]

\* These files are runs of the lines of U.
Runs(j, d, f, k, U) == Tiled(j, Held(d, f, k), Len(f) - k, U)

LEMMA RunsSame ==
  ASSUME NEW j, NEW d, NEW e, NEW f, NEW k \in Nat, NEW U, Len(f) \in Nat, Runs(j, d, f, k, U),
         \A i \in k + 1 .. Len(f) : e[f[i]] = d[f[i]]
  PROVE  Runs(j, e, f, k, U)
<1>1. PICK n : n = Len(f) - k
  OBVIOUS
<1>2. \A m \in 1 .. n : Held(d, f, k)[m] = Held(e, f, k)[m]
  <2> SUFFICES ASSUME NEW m \in 1 .. n PROVE Held(d, f, k)[m] = Held(e, f, k)[m]
    OBVIOUS
  <2>1. Held(d, f, k)[m] = d[f[k + m]] /\ Held(e, f, k)[m] = e[f[k + m]]
    BY <1>1 DEF Held
  <2>2. k + m \in k + 1 .. Len(f)
    BY <1>1
  <2> QED BY <2>1, <2>2
<1>3. Tiled(j, Held(d, f, k), n, U)
  BY <1>1 DEF Runs
<1>4. Tiled(j, Held(e, f, k), n, U)
  BY <1>2, <1>3, TileSame
<1> QED BY <1>1, <1>4 DEF Runs

LEMMA RunsNumbers ==
  ASSUME NEW j, NEW d, NEW f, NEW k, NEW U, Runs(j, d, f, k, U)
  PROVE  U \subseteq Numbers(j)
BY TileNumbers DEF Runs

\* No file, no line.
LEMMA RunsNone ==
  ASSUME NEW j, NEW d, NEW f, NEW k \in Nat, NEW U, Len(f) = k
  PROVE  Runs(j, d, f, k, U) <=> U = {}
<1>1. Len(f) - k = 0
  OBVIOUS
<1>2. Tiled(j, Held(d, f, k), 0, U) <=> U = {}
  BY TileNone
<1> QED BY <1>1, <1>2 DEF Runs

LEMMA RunsAdd ==
  ASSUME NEW j, NEW d, NEW e, NEW S, NEW f \in Seq(S), NEW x \in S, NEW U, NEW V, NEW g,
         g = Append(f, x), Runs(j, d, f, 0, U), Form(j, e[x], V), AllBefore(U, V),
         \A i \in 1 .. Len(f) : e[f[i]] = d[f[i]]
  PROVE  Runs(j, e, g, 0, U \cup V)
<1>1. PICK n : n = Len(f)
  OBVIOUS
<1>2. /\ n \in Nat /\ Len(g) = n + 1 /\ Len(g) - 0 = n + 1 /\ Len(f) - 0 = n
      /\ \A i \in 1 .. n : g[i] = f[i]
      /\ g[n + 1] = x
  BY <1>1, SeqFacts
<1>3. \A m \in 1 .. n : Held(e, g, 0)[m] = Held(d, f, 0)[m]
  <2> SUFFICES ASSUME NEW m \in 1 .. n PROVE Held(e, g, 0)[m] = Held(d, f, 0)[m]
    OBVIOUS
  <2>1. 0 + m = m /\ m \in 1 .. n + 1
    BY <1>2
  <2>2. Held(e, g, 0)[m] = e[g[m]] /\ Held(d, f, 0)[m] = d[f[m]]
    BY <1>2, <2>1 DEF Held
  <2> QED BY <1>1, <1>2, <2>2
<1>4. Held(e, g, 0)[n + 1] = e[x]
  <2>1. 0 + (n + 1) = n + 1 /\ n + 1 \in 1 .. n + 1
    BY <1>2
  <2>2. Held(e, g, 0)[n + 1] = e[g[n + 1]]
    BY <1>2, <2>1 DEF Held
  <2> QED BY <1>2, <2>2
<1>5. Tiled(j, Held(d, f, 0), n, U)
  BY <1>2 DEF Runs
<1>6. PICK h, w : h = Held(e, g, 0) /\ w = Held(d, f, 0)
  OBVIOUS
<1>7. Form(j, h[n + 1], V)
  BY <1>4, <1>6
<1>8. Tiled(j, h, n + 1, U \cup V)
  BY <1>2, <1>3, <1>5, <1>6, <1>7, TileAdd
<1> QED BY <1>2, <1>6, <1>8 DEF Runs

\* The next n of the files are the parts p of a merge.
Takes(d, f, k, n, p) ==
  /\ Len(f) \in Nat /\ k + n <= Len(f)
  /\ Len(p) = n /\ \A i \in 1 .. n : p[i] = d[f[k + i]]

Taken(j, d, f, k, n, p, U) ==
  \E V, W : /\ Tiled(j, p, Len(p), V) /\ Runs(j, d, f, k + n, W)
            /\ AllBefore(V, W) /\ V \cup W = U

LEMMA RunsTaken ==
  ASSUME NEW j, NEW d, NEW f, NEW k \in Nat, NEW U, Runs(j, d, f, k, U),
         NEW n \in Nat, NEW p, Takes(d, f, k, n, p)
  PROVE  Taken(j, d, f, k, n, p, U)
<1> USE DEF Takes
<1>1. PICK m, h, g : m = Len(f) - k /\ h = Held(d, f, k) /\ g = Held(d, f, k + n)
  OBVIOUS
<1>2. m \in Nat /\ n \in 0 .. m /\ m - n = Len(f) - (k + n)
  BY <1>1
<1>3. \A i \in 1 .. m : h[i] = d[f[k + i]]
  BY <1>1 DEF Held
<1>4. \A i \in 1 .. m - n : g[i] = h[n + i]
  <2> SUFFICES ASSUME NEW i \in 1 .. m - n PROVE g[i] = h[n + i]
    OBVIOUS
  <2>1. n + i \in 1 .. m /\ (k + n) + i = k + (n + i)
    BY <1>2
  <2>2. g[i] = d[f[(k + n) + i]]
    BY <1>1, <1>2 DEF Held
  <2> QED BY <1>3, <2>1, <2>2
<1>5. Tiled(j, h, m, U)
  BY <1>1 DEF Runs
<1>6. PICK V, W : /\ Tiled(j, h, n, V) /\ Tiled(j, g, m - n, W)
                  /\ AllBefore(V, W) /\ V \cup W = U
  <2>1. m \in Nat /\ n \in 0 .. m
    BY <1>2
  <2>2. \E V, W : /\ Tiled(j, h, n, V) /\ Tiled(j, g, m - n, W)
                  /\ AllBefore(V, W) /\ V \cup W = U
    <3>1. Rest(h, n, m, g)
      BY <1>4 DEF Rest
    <3>2. SplitAt(j, h, n, m, g, U)
      BY <1>5, <2>1, <3>1, TileSplit, Zenon
    <3> QED BY <3>2 DEF SplitAt
  <2> QED BY <2>2
<1>7. ASSUME NEW i \in 1 .. n PROVE h[i] = p[i]
  <2>1. i \in 1 .. m /\ p[i] = d[f[k + i]]
    BY <1>2
  <2> QED BY <1>3, <2>1
<1>8. Tiled(j, p, n, V)
  BY <1>6, <1>7, TileSame
<1>9. Runs(j, d, f, k + n, W)
  BY <1>1, <1>2, <1>6 DEF Runs
<1> QED BY <1>6, <1>8, <1>9 DEF Taken
----------------------------------------------------------------------------
(***************************************************************************)
(* What is sorted to begin with, and the bounds of the files.              *)
(***************************************************************************)

LEMMA SortedPairs ==
  ASSUME NEW stable \in BOOLEAN, NEW s \in Seq(Line), Sorted(stable, s)
  PROVE  \A i, k \in 1 .. Len(s) : i < k => Coll(stable, s[i], s[k]) <= 0
<1> DEFINE N == Len(s)
           S == {d \in Nat : \A i \in 1 .. N : i + d + 1 \in 1 .. N =>
                                Coll(stable, s[i], s[i + d + 1]) <= 0}
<1>1. N \in Nat /\ \A i \in 1 .. N : s[i] \in Line
  OBVIOUS
<1>2. \A i \in 1 .. N : i + 1 \in 1 .. N => Coll(stable, s[i], s[i + 1]) <= 0
  BY DEF Sorted
<1>3. 0 \in S
  BY <1>2
<1>4. ASSUME NEW d \in Nat, d \in S PROVE d + 1 \in S
  <2> SUFFICES ASSUME NEW i \in 1 .. N, i + (d + 1) + 1 \in 1 .. N
               PROVE  Coll(stable, s[i], s[i + (d + 1) + 1]) <= 0
    OBVIOUS
  <2>1. PICK m, e : m = i + d + 1 /\ e = i + (d + 1) + 1
    OBVIOUS
  <2>2. m \in 1 .. N /\ e = m + 1 /\ e \in 1 .. N
    BY <1>1, <2>1
  <2>3. Coll(stable, s[i], s[m]) <= 0
    BY <1>4, <2>1, <2>2
  <2>4. Coll(stable, s[m], s[e]) <= 0
    BY <1>2, <2>2
  <2>5. s[i] \in Line /\ s[m] \in Line /\ s[e] \in Line
    BY <1>1, <2>2
  <2> HIDE DEF S, N
  <2>6. Coll(stable, s[i], s[e]) <= 0
    BY <2>3, <2>4, <2>5, CollFacts
  <2> QED BY <2>1, <2>6
<1>5. \A d \in Nat : d \in S
  <2> HIDE DEF S
  <2> QED BY <1>3, <1>4, SetInduction
<1> SUFFICES ASSUME NEW i \in 1 .. N, NEW k \in 1 .. N, i < k
             PROVE  Coll(stable, s[i], s[k]) <= 0
  OBVIOUS
<1>6. PICK d \in Nat : d = k - i - 1 /\ i + d + 1 = k
  BY <1>1
<1> QED BY <1>5, <1>6

LEMMA SortedForm ==
  ASSUME NEW j \in Jobs, NEW s, NEW base, NEW to, Slice(j, s, base, to), Sorted(j.sflag, s)
  PROVE  Form(j, s, base + 1 .. to)
<1>1. /\ j.sflag \in BOOLEAN /\ AllOf(j) \in Seq(Line) /\ Len(AllOf(j)) \in Nat
      /\ s \in Seq(Line) /\ base \in Nat /\ to = base + Len(s) /\ to <= Len(AllOf(j))
      /\ Len(s) \in Nat /\ \A i \in 1 .. Len(s) : s[i] = AllOf(j)[base + i]
  BY Flattened DEF Slice
<1> DEFINE I == base + 1 .. to
           p == [k \in 1 .. Len(s) |-> base + k]
<1>2. p \in [1 .. Len(s) -> I] /\ \A k \in 1 .. Len(s) : p[k] = base + k
  BY <1>1
<1> HIDE DEF p
<1>3. I \subseteq Numbers(j)
  BY <1>1 DEF Numbers
<1>4. \A k \in 1 .. Len(s) : s[k] = AllOf(j)[p[k]]
  BY <1>1, <1>2
<1>5. ASSUME NEW i \in 1 .. Len(s), NEW k \in 1 .. Len(s), i < k PROVE Precedes(j, p[i], p[k])
  <2>1. Coll(j.sflag, s[i], s[k]) <= 0
    BY <1>1, <1>5, SortedPairs
  <2>2. p[i] \in Numbers(j) /\ p[k] \in Numbers(j)
    BY <1>2, <1>3
  <2>3. LineColl(j, p[i], p[k]) \in Int
    BY <2>2, NumberFacts
  <2>4. LineColl(j, p[i], p[k]) <= 0
    BY <1>4, <2>1 DEF LineColl
  <2>5. p[i] < p[k]
    <3>1. p[i] = base + i /\ p[k] = base + k
      BY <1>2
    <3> QED BY <1>1, <1>5, <3>1
  <2>6. LineColl(j, p[i], p[k]) < 0 \/ LineColl(j, p[i], p[k]) = 0
    BY <2>3, <2>4
  <2> QED BY <2>5, <2>6 DEF Precedes
<1>6. ASSUME NEW x \in I
      PROVE  \E k \in 1 .. Len(s) : LineColl(j, p[k], x) = 0 /\ p[k] <= x /\ (j.uflag \/ p[k] = x)
  <2>1. x - base \in 1 .. Len(s) /\ base + (x - base) = x /\ x \in Numbers(j) /\ x <= x
    <3>1. x \in Numbers(j)
      BY <1>3
    <3>2. x \in base + 1 .. to
      OBVIOUS
    <3> QED BY <1>1, <3>1, <3>2
  <2>2. p[x - base] = x
    BY <1>2, <2>1
  <2>3. LineColl(j, x, x) = 0
    BY <2>1, NumberFacts
  <2> QED BY <2>1, <2>2, <2>3
<1>7. FormBy(j, s, p, I)
  <2> HIDE DEF I
  <2> QED BY <1>2, <1>4, <1>5, <1>6 DEF FormBy
<1> QED BY <1>1, <1>3, <1>7 DEF Form

LEMMA OffsetMonotone ==
  ASSUME NEW n \in Nat, NEW off \in [0 .. n -> Nat], \A f \in 1 .. n : off[f - 1] <= off[f]
  PROVE  \A i, k \in 0 .. n : i <= k => off[i] <= off[k]
<1> DEFINE S == {d \in Nat : \A i \in 0 .. n : i + d <= n => off[i] <= off[i + d]}
<1>1. 0 \in S
  OBVIOUS
<1>2. ASSUME NEW d \in Nat, d \in S PROVE d + 1 \in S
  <2> SUFFICES ASSUME NEW i \in 0 .. n, i + (d + 1) <= n PROVE off[i] <= off[i + (d + 1)]
    OBVIOUS
  <2>1. PICK m, e : m = i + d /\ e = i + (d + 1)
    OBVIOUS
  <2>2. m \in 0 .. n /\ e \in 1 .. n /\ e - 1 = m /\ e \in 0 .. n
    BY <2>1
  <2>3. off[i] <= off[m] /\ off[m] <= off[e]
    BY <1>2, <2>1, <2>2
  <2>4. off[i] \in Nat /\ off[m] \in Nat /\ off[e] \in Nat
    BY <2>2
  <2> QED BY <2>1, <2>3, <2>4
<1>3. \A d \in Nat : d \in S
  <2> HIDE DEF S
  <2> QED BY <1>1, <1>2, SetInduction
<1> SUFFICES ASSUME NEW i \in 0 .. n, NEW k \in 0 .. n, i <= k PROVE off[i] <= off[k]
  OBVIOUS
<1>4. PICK d \in Nat : d = k - i /\ i + d = k /\ i + d <= n
  OBVIOUS
<1>5. off[i] <= off[i + d]
  BY <1>3, <1>4
<1> QED BY <1>4, <1>5

\* Where the files begin and end.
LEMMA OffsetFacts ==
  ASSUME NEW j \in Jobs, NEW off, off = Offset(j), NEW n, n = Len(j.input)
  PROVE  /\ n \in Nat \ {0} /\ off \in [0 .. n -> Nat] /\ off[0] = 0 /\ off[n] = Len(AllOf(j))
         /\ \A i, k \in 0 .. n : i <= k => off[i] <= off[k]
         /\ \A f \in 1 .. n : Slice(j, j.input[f], off[f - 1], off[f])
<1>1. IsOffset(j, off) /\ AllOf(j) \in Seq(Line) /\ Len(AllOf(j)) \in Nat
  BY Flattened
<1>2. j.input \in Seq(Seq(Line)) /\ j.input # <<>>
  BY JobsAssumption DEF Job
<1>3. n \in Nat \ {0} /\ \A f \in 1 .. n : j.input[f] \in Seq(Line) /\ Len(j.input[f]) \in Nat
  BY <1>2
<1>4. /\ off \in [0 .. n -> Nat] /\ off[0] = 0 /\ off[n] = Len(AllOf(j))
      /\ \A f \in 1 .. n : off[f] = off[f - 1] + Len(j.input[f])
      /\ \A f \in 1 .. n : \A i \in 1 .. Len(j.input[f]) :
           AllOf(j)[off[f - 1] + i] = j.input[f][i]
  BY <1>1 DEF IsOffset
<1>5. \A f \in 1 .. n : off[f - 1] \in Nat /\ off[f] \in Nat /\ off[f - 1] <= off[f]
  <2> SUFFICES ASSUME NEW f \in 1 .. n
               PROVE  off[f - 1] \in Nat /\ off[f] \in Nat /\ off[f - 1] <= off[f]
    OBVIOUS
  <2>1. f - 1 \in 0 .. n /\ f \in 0 .. n
    BY <1>3
  <2>2. off[f - 1] \in Nat /\ off[f] = off[f - 1] + Len(j.input[f]) /\ Len(j.input[f]) \in Nat
    BY <1>3, <1>4, <2>1
  <2> QED BY <2>2
<1>6. \A i, k \in 0 .. n : i <= k => off[i] <= off[k]
  BY <1>3, <1>4, <1>5, OffsetMonotone
<1>7. ASSUME NEW f \in 1 .. n PROVE Slice(j, j.input[f], off[f - 1], off[f])
  <2>1. f \in 0 .. n /\ n \in 0 .. n /\ f <= n
    BY <1>3
  <2>2. off[f] <= Len(AllOf(j))
    BY <1>4, <1>6, <2>1
  <2>3. \A i \in 1 .. Len(j.input[f]) : j.input[f][i] = AllOf(j)[off[f - 1] + i]
    BY <1>4
  <2> QED BY <1>3, <1>4, <1>5, <2>2, <2>3 DEF Slice
<1> QED BY <1>3, <1>4, <1>6, <1>7
----------------------------------------------------------------------------
(***************************************************************************)
(* Where the lines are: in memory, in the files still to be merged, in the *)
(* parts of the threads, in the merge that is going on, or in the output.  *)
(* j is the command line, d what the files hold, f the list of files, l    *)
(* the list of lines, and t the task of the merge.                         *)
(***************************************************************************)

\* The list ends with the line read last, what comes before it has been spilled.
Reading(j, d, f, l, to) == \E base : Slice(j, l, base, to) /\ Runs(j, d, f, 0, 1 .. base)

\* The parts p of the list; those of the threads that have ended are sorted.
Cut(j, p, done, n, c) ==
  /\ c \in [0 .. n -> Nat] /\ \A i, k \in 0 .. n : i <= k => c[i] <= c[k]
  /\ \A m \in 1 .. n : IF m \in done THEN Form(j, p[m], c[m - 1] + 1 .. c[m])
                       ELSE Slice(j, p[m], c[m - 1], c[m])

Threading(j, d, f, p, done, n, to) ==
  \E c : Cut(j, p, done, n, c) /\ c[n] = to /\ Runs(j, d, f, 0, 1 .. c[0])

FlagsOf(j, t) == t.sflag = j.sflag /\ t.uflag = j.uflag

Joining(j, d, f, t, to) ==
  /\ FlagsOf(j, t)
  /\ \E base \in 0 .. to : /\ Runs(j, d, f, 0, 1 .. base)
                           /\ Tiled(j, t.parts, Len(t.parts), base + 1 .. to)

\* A pass has made the files g, and has yet to merge those of f after the first k.
Between(j, d, f, k, g) ==
  \E U, V : /\ Runs(j, d, g, 0, U) /\ Runs(j, d, f, k, V)
            /\ AllBefore(U, V) /\ U \cup V = Numbers(j)

\* The same, while others are merged.
Grouping(j, d, f, k, g, t) ==
  /\ FlagsOf(j, t)
  /\ \E U, V, W : /\ Runs(j, d, g, 0, U) /\ Tiled(j, t.parts, Len(t.parts), V)
                  /\ Runs(j, d, f, k, W)
                  /\ AllBefore(U, V) /\ AllBefore(U, W) /\ AllBefore(V, W)
                  /\ U \cup V \cup W = Numbers(j)

Finishing(j, t) == FlagsOf(j, t) /\ Tiled(j, t.parts, Len(t.parts), Numbers(j))

\* The number of the line read last.
Read == Offset(job)[ifile - 1] + iline - 1

Spills == pc \in {"read", "sort"} \/ (pc \in {"new", "register"} /\ list # <<>>)
Passes == pc \in {"group", "open"} \/ (pc \in {"new", "register"} /\ list = <<>>)
HasOutput == pc \in {"clean", "unlink", "rename"} \/ (pc = "failed" /\ 1 \notin disk)

Whereabouts ==
  /\ Spills => Reading(job, data, fl, list, Read)
  /\ pc \in {"create", "join"} => Threading(job, data, fl, parts, posted, job.nthreads, Read)
  /\ pc = "merge_parts" => Joining(job, data, fl, task, Read)
  /\ pc = "shrink" => Runs(job, data, fl, 0, Numbers(job))
  /\ Passes => Between(job, data, fl, indx, new_fl)
  /\ pc = "merge_group" => Grouping(job, data, fl, indx + Group, new_fl, task)
  /\ pc = "merge_all" => Finishing(job, task)
  /\ HasOutput => Right(job, data[Outfile])
  /\ pc = "exit" => Right(job, data[Result])

\* What is read next; outfile is sorted into only at the end of the input.
Position ==
  /\ IF ifile \in Inputs THEN iline <= Len(job.input[ifile]) + 1 ELSE iline = 1
  /\ pc \in Sorting /\ target = Outfile => ifile \notin Inputs

NothingLost == ~lost /\ InputsFit

OInv == SInv /\ OriginInv /\ Position /\ (NothingLost => Whereabouts)

----------------------------------------------------------------------------
(***************************************************************************)
(* What the steps have in common.                                          *)
(***************************************************************************)

LEMMA SameNumbers ==
  ASSUME job' = job
  PROVE  InputsFit' = InputsFit /\ Inputs' = Inputs
BY SameJob DEF InputsFit

\* The line read last is a line, or there is none yet.
LEMMA ReadFacts ==
  ASSUME SInv, Position
  PROVE  /\ Read \in Nat /\ Read <= Len(AllOf(job)) /\ Len(AllOf(job)) \in Nat
         /\ ifile \notin Inputs => Read = Len(AllOf(job))
<1>1. /\ job \in Jobs /\ ifile \in 1 .. Len(job.input) + 1 /\ iline \in Nat \ {0}
      /\ Inputs = 1 .. Len(job.input)
  BY DEF SInv, STypes, Inputs
<1>2. PICK off, n : off = Offset(job) /\ n = Len(job.input)
  OBVIOUS
<1>3. /\ n \in Nat \ {0} /\ off \in [0 .. n -> Nat] /\ off[n] = Len(AllOf(job))
      /\ \A i, k \in 0 .. n : i <= k => off[i] <= off[k]
      /\ \A f \in 1 .. n : Slice(job, job.input[f], off[f - 1], off[f])
  BY <1>1, <1>2, OffsetFacts
<1>4. Len(AllOf(job)) \in Nat
  BY <1>1, Flattened
<1>5. CASE ifile \in Inputs
  <2>1. ifile \in 1 .. n /\ ifile - 1 \in 0 .. n /\ ifile \in 0 .. n /\ n \in 0 .. n
    BY <1>1, <1>2, <1>3, <1>5
  <2>2. /\ off[ifile - 1] \in Nat /\ off[ifile] \in Nat /\ off[ifile] <= off[n]
        /\ Len(job.input[ifile]) \in Nat /\ off[ifile] = off[ifile - 1] + Len(job.input[ifile])
    <3>1. off[ifile - 1] \in Nat /\ off[ifile] \in Nat /\ off[ifile] <= off[n]
      BY <1>3, <2>1
    <3>2. Slice(job, job.input[ifile], off[ifile - 1], off[ifile])
      BY <1>3, <2>1
    <3> QED BY <3>1, <3>2 DEF Slice
  <2>3. iline <= Len(job.input[ifile]) + 1
    BY <1>5 DEF Position
  <2>4. Read = off[ifile - 1] + iline - 1
    BY <1>2 DEF Read
  <2>5. PICK a, b, l, N \in Nat : /\ a = off[ifile - 1] /\ b = off[ifile] /\ N = Len(AllOf(job))
                                  /\ l = Len(job.input[ifile])
    BY <1>4, <2>2
  <2>6. b <= N
    <3>1. off[n] = N
      BY <1>3, <2>5
    <3> QED BY <2>2, <2>5, <3>1
  <2>7. Read = a + iline - 1 /\ iline <= l + 1 /\ iline \in Nat \ {0} /\ b = a + l
    BY <1>1, <2>2, <2>3, <2>4, <2>5
  <2>8. Read \in Nat /\ Read <= N
    BY <2>6, <2>7
  <2> QED BY <1>4, <1>5, <2>5, <2>8
<1>6. CASE ifile \notin Inputs
  <2>1. iline = 1 /\ ifile = n + 1 /\ ifile - 1 = n
    BY <1>1, <1>2, <1>3, <1>6 DEF Position
  <2>2. Read = off[n] + 1 - 1
    BY <1>2, <2>1 DEF Read
  <2>3. Read = Len(AllOf(job))
    BY <1>3, <1>4, <2>2
  <2> QED BY <1>4, <2>3
<1> QED BY <1>5, <1>6

\* The file that is written is none of those still to be merged.
LEMMA TargetFree ==
  ASSUME SInv, Running
  PROVE  /\ \A i \in Begin + 1 .. Len(fl) : fl[i] # target
         /\ pc \in Passing => \A i \in 1 .. Len(new_fl) : new_fl[i] # target
<1>1. ASSUME NEW i \in Begin + 1 .. Len(fl) PROVE fl[i] # target
  <2>1. /\ job \in Jobs /\ fl \in Seq(IF fltmp THEN Temps ELSE Inputs) /\ fltmp \in BOOLEAN
        /\ target \in {Outfile} \cup Temps /\ Begin \in Nat
    BY DEF SInv, STypes, Begin
  <2>2. CASE fltmp = FALSE
    <3>1. i \in 1 .. Len(fl)
      BY <2>1
    <3>2. fl[i] \in Inputs
      BY <2>1, <2>2, <3>1
    <3> QED BY <2>1, <3>2, NameFacts
  <2>3. CASE fltmp = TRUE
    <3>1. fl[i] \in ToMerge
      BY DEF ToMerge
    <3>2. ToMerge \cap (Made \cup {target}) = {}
      BY <2>3 DEF SInv, TempInv
    <3> QED BY <3>1, <3>2
  <2> QED BY <2>1, <2>2, <2>3
<1>2. ASSUME pc \in Passing, NEW i \in 1 .. Len(new_fl) PROVE new_fl[i] # target
  <2>1. target \notin Made
    BY DEF SInv, TempInv
  <2> QED BY <1>2, <2>1 DEF Made
<1> QED BY <1>1, <1>2

\* Nor is a new temporary file.
LEMMA TempFree ==
  ASSUME SInv, pc = "new", NEW x \in Temps \ disk
  PROVE  /\ \A i \in indx + 1 .. Len(fl) : fl[i] # x
         /\ \A i \in 1 .. Len(new_fl) : new_fl[i] # x
<1>1. Begin = indx /\ pc \in Passing /\ Running
  BY DEF Begin, Passing, Running
<1>2. /\ job \in Jobs /\ fl \in Seq(IF fltmp THEN Temps ELSE Inputs) /\ fltmp \in BOOLEAN
      /\ indx \in Nat
  BY DEF SInv, STypes
<1>3. /\ disk \cap Temps = (IF fltmp THEN ToMerge ELSE {}) \cup Made \cup ({target} \ {Outfile})
  BY <1>1 DEF SInv, TempInv
<1>4. ASSUME NEW i \in indx + 1 .. Len(fl) PROVE fl[i] # x
  <2>1. CASE fltmp = FALSE
    <3>1. i \in 1 .. Len(fl)
      BY <1>2
    <3>2. fl[i] \in Inputs
      BY <1>2, <2>1, <3>1
    <3> QED BY <1>2, <3>2, NameFacts
  <2>2. CASE fltmp = TRUE
    <3>1. fl[i] \in ToMerge
      BY <1>1 DEF ToMerge
    <3> QED BY <1>3, <2>2, <3>1
  <2> QED BY <1>2, <2>1, <2>2
<1>5. ASSUME NEW i \in 1 .. Len(new_fl) PROVE new_fl[i] # x
  <2>1. new_fl[i] \in Made
    BY <1>1 DEF Made
  <2> QED BY <1>3, <2>1
<1> QED BY <1>4, <1>5

----------------------------------------------------------------------------
(***************************************************************************)
(* Reading and spilling.                                                   *)
(***************************************************************************)

LEMMA SliceAdd ==
  ASSUME NEW j, NEW s, NEW base, NEW to, Slice(j, s, base, to), NEW e \in Line,
         Len(AllOf(j)) \in Nat, to + 1 <= Len(AllOf(j)), AllOf(j)[to + 1] = e, NEW t, t = Append(s, e)
  PROVE  Slice(j, t, base, to + 1)
<1>1. /\ s \in Seq(Line) /\ base \in Nat /\ to = base + Len(s)
      /\ \A i \in 1 .. Len(s) : s[i] = AllOf(j)[base + i]
  BY DEF Slice
<1>2. /\ t \in Seq(Line) /\ Len(t) = Len(s) + 1 /\ Len(s) \in Nat /\ t[Len(s) + 1] = e
      /\ \A i \in 1 .. Len(s) : t[i] = s[i]
  BY <1>1, SeqFacts
<1>3. to + 1 = base + Len(t)
  BY <1>1, <1>2
<1>4. ASSUME NEW i \in 1 .. Len(t) PROVE t[i] = AllOf(j)[base + i]
  <2>1. CASE i \in 1 .. Len(s)
    BY <1>1, <1>2, <2>1
  <2>2. CASE i = Len(s) + 1
    <3>1. base + i = to + 1
      BY <1>1, <1>2, <2>2
    <3> QED BY <1>2, <2>2, <3>1
  <2>3. i \in 1 .. Len(s) \/ i = Len(s) + 1
    BY <1>2
  <2> QED BY <2>1, <2>2, <2>3
<1> QED BY <1>1, <1>2, <1>3, <1>4 DEF Slice

LEMMA ReadLineKeeps ==
  ASSUME OInv, SInv', ReadLine
  PROVE  Position' /\ (NothingLost' => Whereabouts')
<1>1. /\ pc = "read" /\ ifile \in Inputs /\ iline <= Len(job.input[ifile])
      /\ list' = Append(list, data[ifile][iline]) /\ iline' = iline + 1
      /\ pc' = (IF MemoryFull(list') THEN "new" ELSE "read")
      /\ UNCHANGED <<job, ifile, fl, fltmp, new_fl, indx, target, data, lost>>
  BY DEF ReadLine, merging, files
<1>2. /\ SInv /\ Position /\ job \in Jobs /\ list \in Seq(Line) /\ iline \in Nat \ {0}
      /\ ifile \in 1 .. Len(job.input) + 1
  BY DEF OInv, SInv, STypes
<1>3. data[ifile] = job.input[ifile] /\ job.input[ifile] \in Seq(Line) /\ Len(job.input[ifile]) \in Nat
  <2>1. data[ifile] = job.input[ifile] /\ job.input[ifile] \in Seq(Line)
    BY <1>1, <1>2, NameFacts DEF SInv, DiskInv
  <2> QED BY <2>1
<1>4. Position'
  <2>1. Inputs' = Inputs /\ iline + 1 <= Len(job.input[ifile]) + 1
    BY <1>1, <1>2, <1>3, SameJob
  <2>2. pc' \notin Sorting
    BY <1>1 DEF Sorting
  <2> QED BY <1>1, <2>1, <2>2 DEF Position
<1>5. PICK a, n, N, off : /\ off = Offset(job) /\ n = Len(job.input) /\ N = Len(AllOf(job))
                          /\ a = off[ifile - 1]
  OBVIOUS
<1>6. /\ Slice(job, job.input[ifile], off[ifile - 1], off[ifile])
  <2>1. ifile \in 1 .. n
    BY <1>1, <1>5 DEF Inputs
  <2> QED BY <1>2, <1>5, <2>1, OffsetFacts
<1>7. /\ a \in Nat /\ a + iline <= N /\ AllOf(job)[a + iline] = job.input[ifile][iline] /\ N \in Nat
  <2>1. /\ a \in Nat /\ off[ifile] = a + Len(job.input[ifile]) /\ off[ifile] <= N
        /\ \A i \in 1 .. Len(job.input[ifile]) : job.input[ifile][i] = AllOf(job)[a + i]
    BY <1>5, <1>6 DEF Slice
  <2>2. N \in Nat
    BY <1>2, <1>5, Flattened
  <2>3. iline \in 1 .. Len(job.input[ifile])
    BY <1>1, <1>2, <1>3
  <2> QED BY <1>3, <2>1, <2>2, <2>3
<1>8. Read = a + iline - 1 /\ Read' = a + (iline + 1) - 1
  BY <1>1, <1>5 DEF Read
<1>9. Read + 1 = a + iline /\ Read' = Read + 1
  BY <1>2, <1>7, <1>8
<1>10. PICK e : e = data[ifile][iline]
  OBVIOUS
<1>11. e \in Line /\ AllOf(job)[Read + 1] = e /\ list' = Append(list, e) /\ Read + 1 <= N
  <2>1. iline \in 1 .. Len(job.input[ifile])
    BY <1>1, <1>2, <1>3
  <2> QED BY <1>1, <1>3, <1>7, <1>9, <1>10, <2>1
<1>12. list' # <<>>
  BY <1>1, <1>2, <1>10, <1>11
<1>13. ASSUME NothingLost' PROVE Whereabouts'
  <2>1. Whereabouts
    BY <1>1, <1>13, SameNumbers DEF OInv, NothingLost
  <2>2. PICK base : Slice(job, list, base, Read) /\ Runs(job, data, fl, 0, 1 .. base)
    BY <1>1, <2>1 DEF Whereabouts, Spills, Reading
  <2>3. Slice(job, list', base, Read + 1)
    BY <1>5, <1>7, <1>11, <2>2, SliceAdd
  <2>4. Reading(job, data, fl, list', Read')
    BY <1>9, <2>2, <2>3 DEF Reading
  <2>5. pc' \in {"new", "read"}
    BY <1>1
  <2> QED BY <1>1, <1>12, <2>4, <2>5 DEF Whereabouts, Spills, Passes, HasOutput
<1> QED BY <1>4, <1>13

LEMMA NextInputKeeps ==
  ASSUME OInv, SInv', NextInput
  PROVE  Position' /\ (NothingLost' => Whereabouts')
<1>1. /\ pc = "read" /\ ifile \in Inputs /\ iline > Len(job.input[ifile])
      /\ ifile' = ifile + 1 /\ iline' = 1
      /\ UNCHANGED <<job, pc, list, fl, fltmp, new_fl, indx, target, data, lost>>
  BY DEF NextInput, merging, files
<1>2. /\ SInv /\ Position /\ job \in Jobs /\ iline \in Nat \ {0}
  BY DEF OInv, SInv, STypes
<1>3. Position'
  <2>1. Inputs' = Inputs
    BY <1>1, SameJob
  <2>2. ifile' \in Inputs => 1 <= Len(job.input[ifile']) + 1
    <3>1. ASSUME ifile' \in Inputs PROVE Len(job.input[ifile']) \in Nat
      BY <1>2, <3>1, NameFacts
    <3> QED BY <3>1
  <2> QED BY <1>1, <2>1, <2>2 DEF Position, Sorting
<1>4. Read' = Read
  <2>1. PICK off, n : off = Offset(job) /\ n = Len(job.input)
    OBVIOUS
  <2>2. ifile \in 1 .. n /\ n \in Nat
    BY <1>1, <1>2, <2>1, JobFacts DEF Inputs
  <2>3. Slice(job, job.input[ifile], off[ifile - 1], off[ifile])
    BY <1>2, <2>1, <2>2, OffsetFacts
  <2>4. PICK a, b, l : a = off[ifile - 1] /\ b = off[ifile] /\ l = Len(job.input[ifile])
    OBVIOUS
  <2>5. a \in Nat /\ b = a + l /\ l \in Nat
    <3>1. a \in Nat /\ b = a + l /\ job.input[ifile] \in Seq(Line)
      BY <2>3, <2>4 DEF Slice
    <3> QED BY <2>4, <3>1
  <2>6. iline = l + 1
    <3>1. iline <= l + 1 /\ iline > l
      BY <1>1, <1>2, <2>4 DEF Position
    <3> QED BY <1>2, <2>5, <3>1
  <2>7. Read = a + iline - 1 /\ Read' = b + 1 - 1
    <3>1. (ifile + 1) - 1 = ifile
      BY <2>2
    <3> QED BY <1>1, <2>1, <2>4, <3>1 DEF Read
  <2> QED BY <2>5, <2>6, <2>7
<1>5. ASSUME NothingLost' PROVE Whereabouts'
  <2>1. Whereabouts
    BY <1>1, <1>5, SameNumbers DEF OInv, NothingLost
  <2>2. Reading(job, data, fl, list, Read)
    BY <1>1, <2>1 DEF Whereabouts, Spills
  <2> QED BY <1>1, <1>4, <2>2 DEF Whereabouts, Spills, Passes, HasOutput
<1> QED BY <1>3, <1>5

LEMMA InputEndsKeeps ==
  ASSUME OInv, SInv', InputEnds
  PROVE  Position' /\ (NothingLost' => Whereabouts')
<1>1. /\ pc = "read" /\ ifile \notin Inputs
      /\ \/ fl = <<>> /\ pc' = "sort"
         \/ fl # <<>> /\ list # <<>> /\ pc' = "new"
         \/ fl # <<>> /\ list = <<>> /\ pc' = "shrink"
      /\ UNCHANGED <<job, ifile, iline, list, fl, fltmp, new_fl, indx, target, data, lost>>
  BY DEF InputEnds, input, merging, files
<1>2. SInv /\ Position /\ job \in Jobs
  BY DEF OInv, SInv, STypes
<1>3. Position'
  BY <1>1, <1>2, SameJob DEF Position
<1>4. Read' = Read /\ Read = Len(AllOf(job)) /\ Read \in Nat
  BY <1>1, <1>2, ReadFacts DEF Read
<1>5. ASSUME NothingLost' PROVE Whereabouts'
  <2>1. Whereabouts
    BY <1>1, <1>5, SameNumbers DEF OInv, NothingLost
  <2>2. Reading(job, data, fl, list, Read)
    BY <1>1, <2>1 DEF Whereabouts, Spills
  <2>3. CASE pc' # "shrink"
    <3>1. pc' = "sort" \/ (pc' = "new" /\ list' # <<>>)
      BY <1>1, <2>3
    <3> QED BY <1>1, <1>4, <2>2, <3>1 DEF Whereabouts, Spills, Passes, HasOutput
  <2>4. CASE pc' = "shrink"
    <3>1. PICK base : Slice(job, list, base, Read) /\ Runs(job, data, fl, 0, 1 .. base)
      BY <2>2 DEF Reading
    <3>2. list = <<>>
      BY <1>1, <2>4
    <3>3. base = Read
      BY <3>1, <3>2 DEF Slice
    <3>4. Runs(job, data, fl, 0, Numbers(job))
      BY <1>4, <3>1, <3>3 DEF Numbers
    <3> QED BY <1>1, <2>4, <3>4 DEF Whereabouts, Spills, Passes, HasOutput
  <2> QED BY <2>3, <2>4
<1> QED BY <1>3, <1>5

LEMMA MakeTempKeeps ==
  ASSUME OInv, SInv', MakeTemp
  PROVE  Position' /\ (NothingLost' => Whereabouts')
<1>1. /\ pc = "new" /\ pc' = "register" /\ disk' = disk \cup {target'}
      /\ data' = [data EXCEPT ![target'] = <<>>]
      /\ UNCHANGED <<job, ifile, iline, list, fl, fltmp, new_fl, indx, lost>>
  BY DEF MakeTemp, input, merging
<1>2. SInv /\ Position /\ job \in Jobs
  BY DEF OInv, SInv, STypes
<1>3. /\ data \in [Names -> Seq(Line)] /\ fl \in Seq(IF fltmp THEN Temps ELSE Inputs)
      /\ fltmp \in BOOLEAN /\ new_fl \in Seq(Temps) /\ indx \in Nat
      /\ Len(fl) \in Nat /\ Len(new_fl) \in Nat
  BY <1>2 DEF SInv, STypes
<1>4. target' \in Temps \ disk
  <2> DEFINE T == Temps \ disk
  <2>1. T \subseteq Nat /\ T # {} /\ target' = CHOOSE f \in T : \A g \in T : f <= g
    BY <1>2, NameFacts DEF MakeTemp
  <2>2. \E f \in T : \A g \in T : f <= g
    <3> HIDE DEF T
    <3>1. PICK x \in T : \A y \in T : ~(<<y, x>> \in OpToRel(<, Nat))
      BY <2>1, WFMin, NatLessThanWellFounded, Zenon
    <3>2. \A y \in T : ~(y < x)
      BY <2>1, <3>1 DEF OpToRel
    <3>3. \A y \in T : x <= y
      BY <2>1, <3>2
    <3> QED BY <3>3
  <2> HIDE DEF T
  <2>3. target' \in T
    BY <2>1, <2>2
  <2> QED BY <2>3 DEF T
<1>5. Position'
  BY <1>1, <1>2, SameJob DEF Position, Sorting
<1>6. Read' = Read
  BY <1>1 DEF Read
<1>7. \A f \in Names : f # target' => data'[f] = data[f]
  BY <1>1, <1>3
<1>8. ASSUME NEW i \in indx + 1 .. Len(fl) PROVE data'[fl[i]] = data[fl[i]]
  <2>1. i \in 1 .. Len(fl)
    BY <1>3
  <2>2. fl[i] \in Names /\ fl[i] # target'
    BY <1>1, <1>2, <1>3, <1>4, <2>1, TempFree, NameFacts
  <2> QED BY <1>7, <2>2
<1>9. ASSUME NEW i \in 1 .. Len(new_fl) PROVE data'[new_fl[i]] = data[new_fl[i]]
  <2>1. new_fl[i] \in Names /\ new_fl[i] # target'
    BY <1>1, <1>2, <1>3, <1>4, TempFree, NameFacts
  <2> QED BY <1>7, <2>1
<1>10. ASSUME NothingLost' PROVE Whereabouts'
  <2>1. Whereabouts
    BY <1>1, <1>10, SameNumbers DEF OInv, NothingLost
  <2>2. CASE list # <<>>
    <3>1. PICK base : Slice(job, list, base, Read) /\ Runs(job, data, fl, 0, 1 .. base)
      BY <1>1, <2>1, <2>2 DEF Whereabouts, Spills, Reading
    <3>2. indx = 0
      BY <1>1, <1>2, <2>2 DEF SInv, Place
    <3>3. Runs(job, data', fl, 0, 1 .. base)
      BY <1>3, <1>8, <3>1, <3>2, RunsSame
    <3>4. Reading(job, data', fl, list, Read)
      BY <3>1, <3>3 DEF Reading
    <3> QED BY <1>1, <1>6, <2>2, <3>4 DEF Whereabouts, Spills, Passes, HasOutput
  <2>3. CASE list = <<>>
    <3>1. PICK U, V : /\ Runs(job, data, new_fl, 0, U) /\ Runs(job, data, fl, indx, V)
                      /\ AllBefore(U, V) /\ U \cup V = Numbers(job)
      BY <1>1, <2>1, <2>3 DEF Whereabouts, Passes, Between
    <3>2. Runs(job, data', fl, indx, V)
      BY <1>3, <1>8, <3>1, RunsSame
    <3>3. Runs(job, data', new_fl, 0, U)
      BY <1>3, <1>9, <3>1, RunsSame
    <3>4. Between(job, data', fl, indx, new_fl)
      BY <3>1, <3>2, <3>3 DEF Between
    <3> QED BY <1>1, <2>3, <3>4 DEF Whereabouts, Spills, Passes, HasOutput
  <2> QED BY <2>2, <2>3
<1> QED BY <1>5, <1>10

LEMMA RegisterKeeps ==
  ASSUME OInv, SInv', Register
  PROVE  Position' /\ (NothingLost' => Whereabouts')
<1>1. /\ pc = "register" /\ pc' = (IF list # <<>> THEN "sort" ELSE "open")
      /\ UNCHANGED <<job, ifile, iline, list, fl, fltmp, new_fl, indx, target, data, lost>>
  BY DEF Register, input, merging, files
<1>2. SInv /\ Position /\ job \in Jobs /\ target # Outfile
  <2>1. SInv /\ Position /\ job \in Jobs /\ target \in Temps
    BY <1>1 DEF OInv, SInv, STypes, Place
  <2> QED BY <2>1, NameFacts
<1>3. Position'
  BY <1>1, <1>2, SameJob DEF Position, Outfile
<1>4. Read' = Read
  BY <1>1 DEF Read
<1>5. ASSUME NothingLost' PROVE Whereabouts'
  <2>1. Whereabouts
    BY <1>1, <1>5, SameNumbers DEF OInv, NothingLost
  <2>2. CASE list # <<>>
    <3>1. Reading(job, data, fl, list, Read)
      BY <1>1, <2>1, <2>2 DEF Whereabouts, Spills
    <3> QED BY <1>1, <1>4, <2>2, <3>1 DEF Whereabouts, Spills, Passes, HasOutput
  <2>3. CASE list = <<>>
    <3>1. Between(job, data, fl, indx, new_fl)
      BY <1>1, <2>1, <2>3 DEF Whereabouts, Passes
    <3> QED BY <1>1, <2>3, <3>1 DEF Whereabouts, Spills, Passes, HasOutput
  <2> QED BY <2>2, <2>3
<1> QED BY <1>3, <1>5

----------------------------------------------------------------------------
(***************************************************************************)
(* Sorting the list.                                                       *)
(***************************************************************************)

\* What is written is sorted: go on reading, or to the end.
LEMMA WrittenKeeps ==
  ASSUME OInv, SInv', pc \in {"sort", "merge_parts"}, NEW s \in Seq(Line), Write(s), ListWritten,
         UNCHANGED <<job, ifile, iline>>, NEW base \in Nat, NEW to, to = Read,
         Runs(job, data, fl, 0, 1 .. base), Form(job, s, base + 1 .. to), Distinct(job, s),
         base <= to, NothingLost'
  PROVE  Whereabouts'
<1>1. SInv /\ Position /\ job \in Jobs /\ Begin = 0 /\ Running
  BY DEF OInv, SInv, STypes, Begin, Passing, Running
<1>2. /\ data' \in [Names -> Seq(Line)] /\ data'[target] = s
      /\ \A f \in Names : f # target => data'[f] = data[f]
  BY <1>1, WriteFacts DEF NothingLost
<1>3. Read' = Read /\ to \in Nat /\ to <= Len(AllOf(job)) /\ Len(AllOf(job)) \in Nat
  BY <1>1, ReadFacts DEF Read
<1>4. CASE target = Outfile
  <2>1. pc' = "clean"
    BY <1>4 DEF ListWritten
  <2>2. fl = <<>> /\ ifile \notin Inputs
    BY <1>1, <1>4 DEF SInv, Place, Position, Sorting
  <2>3. to = Len(AllOf(job))
    BY <1>1, <2>2, ReadFacts
  <2>4. 1 .. base = {}
    <3>1. PICK U, j, d, f : U = 1 .. base /\ j = job /\ d = data /\ f = fl
      OBVIOUS
    <3>2. Len(f) = 0 /\ 0 \in Nat /\ Runs(j, d, f, 0, U)
      BY <2>2, <3>1
    <3> QED BY <3>1, <3>2, RunsNone
  <2>5. base = 0
    BY <2>4
  <2>6. Form(job, s, Numbers(job))
    BY <2>3, <2>5 DEF Numbers
  <2>7. Right(job, data'[Outfile])
    BY <1>2, <1>4, <2>6 DEF Right
  <2> QED BY <2>1, <2>7 DEF Whereabouts, Spills, Passes, HasOutput
<1>5. CASE target # Outfile
  <2>1. pc' = "read" /\ list' = <<>> /\ fl' = Append(fl, target)
    BY <1>5 DEF ListWritten
  <2>2. fltmp = TRUE /\ fl \in Seq(Temps) /\ target \in Temps /\ Len(fl) \in Nat
    <3>1. fltmp = TRUE
      BY <1>1 DEF SInv, STypes, Place, Sorting
    <3> QED BY <1>1, <1>5, <3>1 DEF SInv, STypes
  <2>3. \A i \in 1 .. Len(fl) : data'[fl[i]] = data[fl[i]]
    <3> SUFFICES ASSUME NEW i \in 1 .. Len(fl) PROVE data'[fl[i]] = data[fl[i]]
      OBVIOUS
    <3>1. fl[i] # target
      BY <1>1, TargetFree
    <3>2. fl[i] \in Names
      BY <1>1, <2>2, NameFacts
    <3> QED BY <1>2, <3>1, <3>2
  <2>4. AllBefore(1 .. base, base + 1 .. to) /\ (1 .. base) \cup (base + 1 .. to) = 1 .. to
    BY <1>3 DEF AllBefore
  <2>5. PICK U, V, g, d, e : /\ U = 1 .. base /\ V = base + 1 .. to /\ g = Append(fl, target)
                             /\ d = data /\ e = data'
    OBVIOUS
  <2>6. Form(job, e[target], V)
    BY <1>2, <2>5
  <2>7. Runs(job, e, g, 0, U \cup V)
    BY <2>2, <2>3, <2>4, <2>5, <2>6, RunsAdd
  <2>8. Runs(job, data', fl', 0, 1 .. to)
    BY <2>1, <2>4, <2>5, <2>7
  <2>9. Slice(job, <<>>, to, to)
    BY <1>3 DEF Slice
  <2>10. Reading(job, data', fl', list', Read')
    BY <1>3, <2>1, <2>8, <2>9 DEF Reading
  <2> QED BY <2>1, <2>10 DEF Whereabouts, Spills, Passes, HasOutput
<1> QED BY <1>4, <1>5

LEMMA WrittenPosition ==
  ASSUME OInv, pc \in {"sort", "merge_parts"}, ListWritten, UNCHANGED <<job, ifile, iline>>
  PROVE  Position'
<1>1. pc' \in {"clean", "read"}
  BY DEF ListWritten
<1> QED BY <1>1, SameJob DEF OInv, Position, Sorting

LEMMA SortListKeeps ==
  ASSUME OInv, SInv', SortList
  PROVE  Position' /\ (NothingLost' => Whereabouts')
<1>1. /\ pc = "sort" /\ Write(Dump(StableSort(list))) /\ ListWritten
      /\ UNCHANGED <<job, ifile, iline>>
  BY DEF SortList, input
<1>2. SInv /\ Position /\ job \in Jobs /\ list \in Seq(Line)
  BY DEF OInv, SInv, STypes
<1>3. PICK s : s = Dump(StableSort(list))
  OBVIOUS
<1>4. s \in Seq(Line) /\ Write(s)
  BY <1>1, <1>2, <1>3, SortedType
<1>5. ASSUME NothingLost' PROVE Whereabouts'
  <2>1. lost' = lost
    BY <1>1, <1>5 DEF NothingLost, Write
  <2>2. Whereabouts
    BY <1>1, <1>5, <2>1, SameNumbers DEF OInv, NothingLost
  <2>3. PICK base : Slice(job, list, base, Read) /\ Runs(job, data, fl, 0, 1 .. base)
    BY <1>1, <2>2 DEF Whereabouts, Spills, Reading
  <2>4. PICK j, to, t : j = job /\ to = Read /\ t = StableSort(list)
    OBVIOUS
  <2>5. Form(j, t, base + 1 .. to)
    BY <1>2, <2>3, <2>4, StableSortForm
  <2>6. Form(j, s, base + 1 .. to) /\ Distinct(j, s)
    BY <1>2, <1>3, <2>4, <2>5, DumpForm
  <2>7. base \in Nat /\ base <= to
    <3>1. base \in Nat /\ to = base + Len(list) /\ Len(list) \in Nat
      BY <1>2, <2>3, <2>4 DEF Slice
    <3> QED BY <3>1
  <2> QED BY <1>1, <1>4, <1>5, <2>3, <2>4, <2>6, <2>7, WrittenKeeps
<1> QED BY <1>1, <1>5, WrittenPosition

LEMMA PartsMergedKeeps ==
  ASSUME OInv, SInv', PartsMerged
  PROVE  Position' /\ (NothingLost' => Whereabouts')
<1>1. /\ pc = "merge_parts" /\ phase = "idle" /\ Write(out) /\ ListWritten
      /\ UNCHANGED <<job, ifile, iline>>
  BY DEF PartsMerged, input
<1>2. SInv /\ Position /\ OriginInv /\ MInv /\ job \in Jobs /\ out \in Seq(Line)
  BY DEF OInv, SInv, STypes, MergeInv, MInv, MergeTypeOK
<1>3. ASSUME NothingLost' PROVE Whereabouts'
  <2>1. lost' = lost
    BY <1>1, <1>3 DEF NothingLost, Write
  <2>2. Whereabouts
    BY <1>1, <1>3, <2>1, SameNumbers DEF OInv, NothingLost
  <2>3. FlagsOf(job, task) /\ \E base \in 0 .. Read :
          /\ Runs(job, data, fl, 0, 1 .. base)
          /\ Tiled(job, task.parts, Len(task.parts), base + 1 .. Read)
    BY <1>1, <2>2 DEF Whereabouts, Joining
  <2>4. PICK to : to = Read
    OBVIOUS
  <2>5. PICK base \in 0 .. to : /\ Runs(job, data, fl, 0, 1 .. base)
                                /\ Tiled(job, task.parts, Len(task.parts), base + 1 .. to)
    BY <2>3, <2>4
  <2>6. PICK j, U : j = job /\ U = base + 1 .. to
    OBVIOUS
  <2>7. task.sflag = j.sflag /\ task.uflag = j.uflag /\ Tiled(j, task.parts, Len(task.parts), U)
    BY <2>3, <2>5, <2>6 DEF FlagsOf
  <2>8. Form(j, out, U) /\ Distinct(j, out)
    BY <1>1, <1>2, <2>6, <2>7, MergeForm
  <2>9. base \in Nat /\ base <= to
    BY <1>2, <2>4, ReadFacts
  <2> QED BY <1>1, <1>2, <1>3, <2>4, <2>5, <2>6, <2>8, <2>9, WrittenKeeps
<1> QED BY <1>1, <1>3, WrittenPosition

----------------------------------------------------------------------------
(***************************************************************************)
(* Threads.                                                                *)
(***************************************************************************)

LEMMA SliceSub ==
  ASSUME NEW j, NEW s, NEW base, NEW to, Slice(j, s, base, to), Len(AllOf(j)) \in Nat,
         NEW b \in Int, NEW e \in Int, b >= 1, e <= Len(s), b <= e + 1,
         NEW lo, lo = base + b - 1, NEW hi, hi = base + e, NEW t, t = SubSeq(s, b, e)
  PROVE  Slice(j, t, lo, hi)
<1>1. /\ s \in Seq(Line) /\ base \in Nat /\ to = base + Len(s) /\ to <= Len(AllOf(j))
      /\ Len(s) \in Nat /\ \A i \in 1 .. Len(s) : s[i] = AllOf(j)[base + i]
  BY DEF Slice
<1>2. PICK n \in Nat : n = e - b + 1
  OBVIOUS
<1>3. t \in Seq(Line) /\ Len(t) = n /\ \A i \in 1 .. n : t[i] = s[b + i - 1]
  <2>1. IF b <= e THEN Len(t) = e - b + 1 ELSE Len(t) = 0
    BY <1>1
  <2>2. t \in Seq(Line) /\ Len(t) = n
    BY <1>1, <1>2, <2>1
  <2>3. \A i \in b .. e : s[i] \in Line
    BY <1>1
  <2>4. \A i \in 1 .. e - b + 1 : t[i] = s[b + i - 1]
    BY <2>3, SubSeqProperties
  <2> QED BY <1>2, <2>2, <2>4
<1>4. lo \in Nat /\ hi = lo + n /\ hi <= Len(AllOf(j))
  BY <1>1, <1>2
<1>5. ASSUME NEW i \in 1 .. n PROVE t[i] = AllOf(j)[lo + i]
  <2>1. b + i - 1 \in 1 .. Len(s) /\ base + (b + i - 1) = lo + i
    <3>1. base \in Nat /\ Len(s) \in Nat
      BY <1>1
    <3>2. i \in Nat /\ i >= 1 /\ i <= e - b + 1
      BY <1>2
    <3> QED BY <3>1, <3>2
  <2>2. s[b + i - 1] = AllOf(j)[base + (b + i - 1)]
    BY <1>1, <2>1
  <2> QED BY <1>3, <2>1, <2>2
<1> QED BY <1>3, <1>4, <1>5 DEF Slice

\* The bounds of the parts of len lines, base being in front of them.
SplitAtBounds(n, len, base, c) ==
  /\ \A i, k \in 0 .. n : i <= k => c[i] <= c[k]
  /\ c[0] = base /\ c[n] = base + len
  /\ \A m \in 1 .. n : \E avg, b, e \in Int :
       /\ avg = len \div n /\ b = (m - 1) * avg + 1
       /\ e = (IF m = n THEN len ELSE m * avg)
       /\ b >= 1 /\ e <= len /\ b <= e + 1
       /\ c[m - 1] = base + b - 1 /\ c[m] = base + e

LEMMA SplitBounds ==
  ASSUME NEW n \in Nat \ {0}, NEW len \in Nat, NEW base \in Nat
  PROVE  \E c \in [0 .. n -> Nat] : SplitAtBounds(n, len, base, c)
<1>1. PICK a \in Nat : a = len \div n
  OBVIOUS
<1> DEFINE c == [m \in 0 .. n |-> base + (IF m = n THEN len ELSE m * a)]
<1>2. \A m \in 0 .. n : m * a \in Nat
  BY <1>1
<1>3. /\ c \in [0 .. n -> Nat] /\ c[n] = base + len
      /\ \A m \in 0 .. n : c[m] = base + (IF m = n THEN len ELSE m * a)
  BY <1>2
<1>4. c[0] = base
  <2>1. 0 \in 0 .. n /\ 0 * a = 0 /\ 0 # n
    BY <1>1
  <2> QED BY <1>3, <2>1
<1> HIDE DEF c
<1>5. ASSUME NEW m \in 1 .. n
      PROVE  \E avg, b, e \in Int :
               /\ avg = len \div n /\ b = (m - 1) * avg + 1
               /\ e = (IF m = n THEN len ELSE m * avg)
               /\ b >= 1 /\ e <= len /\ b <= e + 1
               /\ c[m - 1] = base + b - 1 /\ c[m] = base + e
  <2>1. PICK avg, b, e \in Int :
          /\ avg = len \div n /\ b = (m - 1) * avg + 1
          /\ e = (IF m = n THEN len ELSE m * avg)
          /\ b >= 1 /\ e <= len /\ b <= e + 1
    BY PartBounds
  <2>2. m - 1 \in 0 .. n /\ m - 1 # n /\ m \in 0 .. n /\ avg = a
    BY <1>1, <2>1
  <2>3. c[m - 1] = base + (m - 1) * a
    BY <1>3, <2>2
  <2>4. c[m - 1] = base + b - 1
    <3>1. PICK x \in Int : x = (m - 1) * a
      BY <1>1
    <3>2. b = x + 1
      BY <2>1, <2>2, <3>1
    <3>3. c[m - 1] = base + x
      BY <2>3, <3>1
    <3> QED BY <3>2, <3>3
  <2>5. c[m] = base + e
    BY <1>3, <2>1, <2>2
  <2> QED BY <2>1, <2>4, <2>5
<1>6. \A m \in 1 .. n : c[m - 1] <= c[m]
  <2> SUFFICES ASSUME NEW m \in 1 .. n PROVE c[m - 1] <= c[m]
    OBVIOUS
  <2>1. PICK b, e \in Int : b <= e + 1 /\ c[m - 1] = base + b - 1 /\ c[m] = base + e
    BY <1>5
  <2> QED BY <2>1
<1>7. \A i, k \in 0 .. n : i <= k => c[i] <= c[k]
  BY <1>3, <1>6, OffsetMonotone
<1>8. SplitAtBounds(n, len, base, c)
  BY <1>3, <1>4, <1>5, <1>7 DEF SplitAtBounds
<1> QED BY <1>3, <1>8

LEMMA SplitListKeeps ==
  ASSUME OInv, SInv', SplitList
  PROVE  Position' /\ (NothingLost' => Whereabouts')
<1>1. /\ pc = "sort" /\ parts' = [i \in 1 .. job.nthreads |-> Part(i)] /\ posted' = {}
      /\ pc' = "create"
      /\ UNCHANGED <<job, ifile, iline, list, fl, fltmp, new_fl, target, data, lost>>
  BY DEF SplitList, input, files
<1>2. /\ SInv /\ Position /\ job \in Jobs /\ list \in Seq(Line) /\ job.nthreads \in Nat \ {0}
      /\ Len(AllOf(job)) \in Nat
  BY JobFacts, Flattened DEF OInv, SInv, STypes
<1>3. Position'
  BY <1>1, <1>2, SameJob DEF Position, Sorting
<1>4. Read' = Read
  BY <1>1 DEF Read
<1>5. ASSUME NothingLost' PROVE Whereabouts'
  <2>1. Whereabouts
    BY <1>1, <1>5, SameNumbers DEF OInv, NothingLost
  <2>2. PICK base : Slice(job, list, base, Read) /\ Runs(job, data, fl, 0, 1 .. base)
    BY <1>1, <2>1 DEF Whereabouts, Spills, Reading
  <2>3. PICK n, len, l, to : n = job.nthreads /\ len = Len(list) /\ l = list /\ to = Read
    OBVIOUS
  <2>4. base \in Nat /\ to = base + len /\ n \in Nat \ {0} /\ len \in Nat
    BY <1>2, <2>2, <2>3 DEF Slice
  <2>5. PICK c \in [0 .. n -> Nat] :
          /\ \A i, k \in 0 .. n : i <= k => c[i] <= c[k]
          /\ c[0] = base /\ c[n] = base + len
          /\ \A m \in 1 .. n : \E avg, b, e \in Int :
               /\ avg = len \div n /\ b = (m - 1) * avg + 1
               /\ e = (IF m = n THEN len ELSE m * avg)
               /\ b >= 1 /\ e <= len /\ b <= e + 1
               /\ c[m - 1] = base + b - 1 /\ c[m] = base + e
    <3>1. \E c \in [0 .. n -> Nat] : SplitAtBounds(n, len, base, c)
      BY <2>4, SplitBounds
    <3> QED BY <3>1 DEF SplitAtBounds
  <2>6. ASSUME NEW m \in 1 .. n PROVE Slice(job, parts'[m], c[m - 1], c[m])
    <3>1. PICK avg, b, e \in Int :
            /\ avg = len \div n /\ b = (m - 1) * avg + 1
            /\ e = (IF m = n THEN len ELSE m * avg)
            /\ b >= 1 /\ e <= len /\ b <= e + 1
            /\ c[m - 1] = base + b - 1 /\ c[m] = base + e
      BY <2>5
    <3>2. Part(m) = SubSeq(l, b, e)
      BY <2>3, <3>1 DEF Part
    <3>3. parts'[m] = SubSeq(l, b, e)
      BY <1>1, <2>3, <3>2
    <3>4. PICK j, lo, hi, t : j = job /\ lo = c[m - 1] /\ hi = c[m] /\ t = parts'[m]
      OBVIOUS
    <3>5. Slice(j, l, base, to) /\ Len(AllOf(j)) \in Nat /\ e <= Len(l)
      BY <1>2, <2>2, <2>3, <3>1, <3>4
    <3>6. lo = base + b - 1 /\ hi = base + e /\ t = SubSeq(l, b, e)
      BY <3>1, <3>3, <3>4
    <3>7. Slice(j, t, lo, hi)
      BY <3>1, <3>5, <3>6, SliceSub
    <3> QED BY <3>4, <3>7
  <2>7. Cut(job, parts', {}, n, c)
    BY <2>5, <2>6 DEF Cut
  <2>8. Threading(job, data, fl, parts', {}, n, to)
    BY <2>2, <2>4, <2>5, <2>7 DEF Threading
  <2>9. Threading(job, data, fl, parts', posted', job.nthreads, Read)
    BY <1>1, <2>3, <2>8
  <2> QED BY <1>1, <1>4, <2>9 DEF Whereabouts, Spills, Passes, HasOutput
<1> QED BY <1>3, <1>5

LEMMA CreateThreadKeeps ==
  ASSUME OInv, SInv', CreateThread
  PROVE  Position' /\ (NothingLost' => Whereabouts')
<1>1. /\ pc = "create" /\ pc' \in {"create", "join"}
      /\ UNCHANGED <<job, ifile, iline, list, fl, fltmp, new_fl, target, data, posted, parts, lost>>
  BY DEF CreateThread, input, files
<1>2. Position'
  BY <1>1, SameJob DEF OInv, Position, Sorting
<1>3. Read' = Read
  BY <1>1 DEF Read
<1>4. ASSUME NothingLost' PROVE Whereabouts'
  <2>1. Whereabouts
    BY <1>1, <1>4, SameNumbers DEF OInv, NothingLost
  <2>2. Threading(job, data, fl, parts, posted, job.nthreads, Read)
    BY <1>1, <2>1 DEF Whereabouts
  <2> QED BY <1>1, <1>3, <2>2 DEF Whereabouts, Spills, Passes, HasOutput
<1> QED BY <1>2, <1>4

LEMMA SortThreadKeeps ==
  ASSUME OInv, SInv', NEW i \in started, SortThread(i)
  PROVE  Position' /\ (NothingLost' => Whereabouts')
<1>1. /\ pc \in {"create", "join"} /\ i \in started \ posted
      /\ parts' = [parts EXCEPT ![i] = StableSort(@)] /\ posted' = posted \cup {i}
      /\ UNCHANGED <<job, pc, ifile, iline, list, fl, fltmp, new_fl, target, data, lost>>
  BY DEF SortThread, input, merging, files
<1>2. /\ SInv /\ Position /\ job \in Jobs /\ parts \in Seq(Seq(Line)) /\ Len(parts) = job.nthreads
      /\ i \in 1 .. job.nthreads
  BY <1>1 DEF OInv, SInv, STypes, Place
<1>3. Position'
  BY <1>1, <1>2, SameJob DEF Position
<1>4. Read' = Read
  BY <1>1 DEF Read
<1>5. /\ parts'[i] = StableSort(parts[i])
      /\ \A m \in 1 .. job.nthreads : m # i => parts'[m] = parts[m]
  BY <1>1, <1>2
<1>6. ASSUME NothingLost' PROVE Whereabouts'
  <2>1. Whereabouts
    BY <1>1, <1>6, SameNumbers DEF OInv, NothingLost
  <2>2. Threading(job, data, fl, parts, posted, job.nthreads, Read)
    BY <1>1, <2>1 DEF Whereabouts
  <2>3. PICK n, to, p, q, j : /\ n = job.nthreads /\ to = Read /\ p = parts /\ q = parts' /\ j = job
    OBVIOUS
  <2>4. PICK c : Cut(j, p, posted, n, c) /\ c[n] = to /\ Runs(j, data, fl, 0, 1 .. c[0])
    BY <2>2, <2>3 DEF Threading
  <2>5. Form(j, q[i], c[i - 1] + 1 .. c[i])
    <3>1. PICK s, lo, hi : s = p[i] /\ lo = c[i - 1] /\ hi = c[i]
      OBVIOUS
    <3>2. Slice(j, s, lo, hi)
      BY <1>1, <1>2, <2>3, <2>4, <3>1 DEF Cut
    <3>3. Form(j, StableSort(s), lo + 1 .. hi)
      BY <1>2, <2>3, <3>2, StableSortForm
    <3> QED BY <1>5, <2>3, <3>1, <3>3
  <2>6. ASSUME NEW m \in 1 .. n
        PROVE  IF m \in posted' THEN Form(j, q[m], c[m - 1] + 1 .. c[m])
               ELSE Slice(j, q[m], c[m - 1], c[m])
    <3>1. CASE m = i
      BY <1>1, <2>5, <3>1
    <3>2. CASE m # i
      <4>1. q[m] = p[m] /\ (m \in posted' <=> m \in posted)
        BY <1>1, <1>5, <2>3, <3>2
      <4>2. IF m \in posted THEN Form(j, p[m], c[m - 1] + 1 .. c[m])
            ELSE Slice(j, p[m], c[m - 1], c[m])
        BY <2>4 DEF Cut
      <4> QED BY <4>1, <4>2
    <3> QED BY <3>1, <3>2
  <2>7. Cut(j, q, posted', n, c)
    BY <2>4, <2>6 DEF Cut
  <2>8. Threading(job, data, fl, parts', posted', job.nthreads, Read)
    BY <2>3, <2>4, <2>7 DEF Threading
  <2> QED BY <1>1, <1>4, <2>8 DEF Whereabouts, Spills, Passes, HasOutput
<1> QED BY <1>3, <1>6

LEMMA JoinThreadsKeeps ==
  ASSUME OInv, SInv', JoinThreads
  PROVE  Position' /\ (NothingLost' => Whereabouts')
<1>1. /\ pc = "join" /\ AllPosted /\ MergeStart(parts, job.sflag, job.uflag)
      /\ pc' = "merge_parts"
      /\ UNCHANGED <<job, ifile, iline, list, fl, fltmp, new_fl, target, data, posted, parts, lost>>
  BY DEF JoinThreads, input, threads
<1>2. /\ SInv /\ Position /\ job \in Jobs /\ parts \in Seq(Seq(Line)) /\ Len(parts) = job.nthreads
      /\ posted \subseteq 1 .. job.nthreads /\ job.nthreads \in Nat \ {0}
  BY <1>1, JobFacts DEF OInv, SInv, STypes, Place
<1>3. Position'
  BY <1>1, <1>2, SameJob DEF Position, Sorting
<1>4. Read' = Read
  BY <1>1 DEF Read
<1>5. posted = 1 .. job.nthreads
  <2>1. PICK n, S : n = job.nthreads /\ S = 1 .. n
    OBVIOUS
  <2>2. n \in Nat \ {0} /\ posted \in SUBSET S /\ Cardinality(posted) = n
    BY <1>1, <1>2, <2>1 DEF AllPosted
  <2>3. IsFiniteSet(S) /\ Cardinality(S) = n
    <3>1. IsFiniteSet(1 .. n) /\ Cardinality(1 .. n) = IF 1 > n THEN 0 ELSE n - 1 + 1
      BY <2>2, FS_Interval
    <3> QED BY <2>1, <2>2, <3>1
  <2>4. S = posted
    BY <2>2, <2>3, FS_Subset
  <2> QED BY <2>1, <2>4
<1>6. ASSUME NothingLost' PROVE Whereabouts'
  <2>1. Whereabouts
    BY <1>1, <1>6, SameNumbers DEF OInv, NothingLost
  <2>2. PICK n, to, p, j, t : n = job.nthreads /\ to = Read /\ p = parts /\ j = job /\ t = task'
    OBVIOUS
  <2>3. PICK c : Cut(j, p, posted, n, c) /\ c[n] = to /\ Runs(j, data, fl, 0, 1 .. c[0])
    BY <1>1, <2>1, <2>2 DEF Whereabouts, Threading
  <2>4. n \in Nat /\ c \in [0 .. n -> Nat] /\ \A i, k \in 0 .. n : i <= k => c[i] <= c[k]
    BY <1>2, <2>2, <2>3 DEF Cut
  <2>5. \A m \in 1 .. n : Form(j, p[m], c[m - 1] + 1 .. c[m])
    BY <1>5, <2>2, <2>3 DEF Cut
  <2>6. Tiled(j, p, n, c[0] + 1 .. c[n])
    BY <2>4, <2>5, TileBounds
  <2>7. t.parts = p /\ t.sflag = j.sflag /\ t.uflag = j.uflag /\ Len(p) = n
    BY <1>1, <1>2, <2>2 DEF MergeStart
  <2>8. c[0] \in 0 .. to
    <3>1. 0 \in 0 .. n /\ n \in 0 .. n /\ 0 <= n
      BY <2>4
    <3>2. c[0] \in Nat /\ c[n] \in Nat /\ c[0] <= c[n]
      BY <2>4, <3>1
    <3> QED BY <2>3, <3>2
  <2>9. Tiled(j, t.parts, Len(t.parts), c[0] + 1 .. to)
    BY <2>3, <2>6, <2>7
  <2>10. Joining(j, data, fl, t, to)
    BY <2>3, <2>7, <2>8, <2>9 DEF Joining, FlagsOf
  <2> QED BY <1>1, <1>4, <2>2, <2>10 DEF Whereabouts, Spills, Passes, HasOutput
<1> QED BY <1>3, <1>6

----------------------------------------------------------------------------
(***************************************************************************)
(* Merging what was spilled, in passes.                                    *)
(***************************************************************************)

LEMMA ShrinkKeeps ==
  ASSUME OInv, SInv', Shrink
  PROVE  Position' /\ (NothingLost' => Whereabouts')
<1> DEFINE q == [i \in DOMAIN fl |-> data[fl[i]]]
<1>1. /\ pc = "shrink" /\ indx' = 0
      /\ \/ /\ MergeStart(q, job.sflag, job.uflag) /\ pc' = "merge_all"
         \/ pc' = "group" /\ new_fl' = <<>>
      /\ UNCHANGED <<job, ifile, iline, list, fl, fltmp, target, data, lost>>
  BY DEF Shrink, input
<1>2. /\ SInv /\ job \in Jobs /\ fl \in Seq(IF fltmp THEN Temps ELSE Inputs) /\ Len(fl) \in Nat
      /\ DOMAIN fl = 1 .. Len(fl)
  <2>1. SInv
    BY DEF OInv
  <2>2. job \in Jobs /\ fl \in Seq(IF fltmp THEN Temps ELSE Inputs)
    BY <2>1 DEF SInv, STypes
  <2>3. Len(fl) \in Nat /\ DOMAIN fl = 1 .. Len(fl)
    BY <2>2
  <2> QED BY <2>1, <2>2, <2>3
<1>3. Position'
  BY <1>1, SameJob DEF OInv, Position, Sorting
<1>4. ASSUME NothingLost' PROVE Whereabouts'
  <2>1. Whereabouts
    BY <1>1, <1>4, SameNumbers DEF OInv, NothingLost
  <2>2. PICK j, d, f, N : j = job /\ d = data /\ f = fl /\ N = Numbers(job)
    OBVIOUS
  <2>3. Runs(j, d, f, 0, N)
    BY <1>1, <2>1, <2>2 DEF Whereabouts
  <2>4. CASE pc' = "merge_all"
    <3>1. MergeStart(q, job.sflag, job.uflag)
      BY <1>1, <2>4
    <3>2. PICK p : p = q
      OBVIOUS
    <3>3. PICK n \in Nat : n = Len(f)
      BY <1>2, <2>2
    <3>4. p = [i \in 1 .. n |-> d[f[i]]]
      BY <1>2, <2>2, <3>2, <3>3
    <3>5. PICK k \in Nat : k = 0
      OBVIOUS
    <3>6. Len(f) \in Nat /\ k + n = n /\ k + n <= Len(f) /\ Runs(j, d, f, k, N)
      BY <2>3, <3>3, <3>5
    <3>7. PICK V, W : /\ Tiled(j, p, Len(p), V) /\ Runs(j, d, f, n, W) /\ V \cup W = N
      <4>1. Len(p) = n
        BY <3>4
      <4>2. \A i \in 1 .. n : p[i] = d[f[k + i]]
        BY <3>4, <3>5
      <4>3. PICK V, W : /\ Tiled(j, p, Len(p), V) /\ Runs(j, d, f, k + n, W)
                        /\ AllBefore(V, W) /\ V \cup W = N
        <5>1. Takes(d, f, k, n, p)
          BY <3>6, <4>1, <4>2 DEF Takes
        <5>2. Taken(j, d, f, k, n, p, N)
          BY <3>6, <5>1, RunsTaken, Zenon
        <5> QED BY <5>2 DEF Taken
      <4> QED BY <3>6, <4>3
    <3>8. W = {}
      BY <3>3, <3>7, RunsNone
    <3>9. Tiled(j, p, Len(p), N)
      BY <3>7, <3>8
    <3>10. task'.parts = p /\ task'.sflag = j.sflag /\ task'.uflag = j.uflag
      <4> HIDE DEF q
      <4> QED BY <2>2, <3>1, <3>2 DEF MergeStart
    <3>11. Finishing(job, task')
      BY <2>2, <3>9, <3>10 DEF Finishing, FlagsOf
    <3> QED BY <1>1, <2>4, <3>11 DEF Whereabouts, Spills, Passes, HasOutput
  <2>5. CASE pc' = "group" /\ new_fl' = <<>>
    <3>1. PICK g, U : g = new_fl' /\ U = {}
      OBVIOUS
    <3>2. Len(g) = 0 /\ AllBefore(U, N) /\ U \cup N = N
      BY <2>5, <3>1 DEF AllBefore
    <3>3. Runs(j, d, g, 0, U)
      BY <3>1, <3>2, RunsNone
    <3>4. Between(j, d, f, 0, g)
      BY <2>2, <2>3, <3>2, <3>3 DEF Between
    <3> QED BY <1>1, <2>2, <2>5, <3>1, <3>4 DEF Whereabouts, Spills, Passes, HasOutput
  <2> QED BY <1>1, <2>4, <2>5
<1> QED BY <1>3, <1>4

LEMMA NextGroupKeeps ==
  ASSUME OInv, SInv', NextGroup
  PROVE  Position' /\ (NothingLost' => Whereabouts')
<1>1. /\ pc = "group"
      /\ \/ indx < Len(fl) /\ pc' = "new" /\ fl' = fl
         \/ ~(indx < Len(fl)) /\ pc' = "shrink" /\ fl' = new_fl
      /\ UNCHANGED <<job, ifile, iline, list, new_fl, indx, target, data, lost>>
  BY DEF NextGroup, input, files
<1>2. /\ SInv /\ job \in Jobs /\ indx \in Nat /\ Len(fl) \in Nat /\ indx <= Len(fl) /\ list = <<>>
  BY <1>1 DEF OInv, SInv, STypes, Place
<1>3. Position'
  BY <1>1, SameJob DEF OInv, Position, Sorting
<1>4. ASSUME NothingLost' PROVE Whereabouts'
  <2>1. Whereabouts
    BY <1>1, <1>4, SameNumbers DEF OInv, NothingLost
  <2>2. Between(job, data, fl, indx, new_fl)
    BY <1>1, <2>1 DEF Whereabouts, Passes
  <2>3. CASE pc' = "new" /\ fl' = fl
    BY <1>1, <1>2, <2>2, <2>3 DEF Whereabouts, Spills, Passes, HasOutput
  <2>4. CASE ~(indx < Len(fl)) /\ pc' = "shrink" /\ fl' = new_fl
    <3>1. PICK U, V : /\ Runs(job, data, new_fl, 0, U) /\ Runs(job, data, fl, indx, V)
                      /\ U \cup V = Numbers(job)
      BY <2>2 DEF Between
    <3>2. Len(fl) = indx
      BY <1>2, <2>4
    <3>3. V = {}
      BY <1>2, <3>1, <3>2, RunsNone
    <3>4. Runs(job, data, new_fl, 0, Numbers(job))
      BY <3>1, <3>3
    <3> QED BY <1>1, <2>4, <3>4 DEF Whereabouts, Spills, Passes, HasOutput
  <2> QED BY <1>1, <2>3, <2>4
<1> QED BY <1>3, <1>4

LEMMA OpenGroupKeeps ==
  ASSUME OInv, SInv', OpenGroup
  PROVE  Position' /\ (NothingLost' => Whereabouts')
<1> DEFINE q == [i \in 1 .. Group |-> data[fl[indx + i]]]
<1>1. /\ pc = "open" /\ MergeStart(q, job.sflag, job.uflag) /\ pc' = "merge_group"
      /\ UNCHANGED <<job, ifile, iline, list, fl, new_fl, indx, target, data, lost>>
  BY DEF OpenGroup, input, merging, files
<1>2. SInv /\ job \in Jobs /\ indx \in Nat /\ Len(fl) \in Nat /\ indx < Len(fl)
  BY <1>1 DEF OInv, SInv, STypes, Place
<1>3. Group \in Nat \ {0} /\ indx + Group <= Len(fl) /\ Group' = Group
  <2>1. Group' = Group
    BY <1>1 DEF Group
  <2> QED BY <1>2, <2>1, GroupFacts
<1>4. Position'
  BY <1>1, SameJob DEF OInv, Position, Sorting
<1>5. ASSUME NothingLost' PROVE Whereabouts'
  <2>1. Whereabouts
    BY <1>1, <1>5, SameNumbers DEF OInv, NothingLost
  <2>2. PICK j, d, f, g, p : j = job /\ d = data /\ f = fl /\ g = new_fl /\ p = q
    OBVIOUS
  <2>3. PICK k \in Nat, n \in Nat : k = indx /\ n = Group
    BY <1>2, <1>3
  <2>4. PICK U, X : /\ Runs(j, d, g, 0, U) /\ Runs(j, d, f, k, X)
                    /\ AllBefore(U, X) /\ U \cup X = Numbers(j)
    BY <1>1, <2>1, <2>2, <2>3 DEF Whereabouts, Passes, Between
  <2>5. p = [i \in 1 .. n |-> d[f[k + i]]]
    BY <2>2, <2>3
  <2>6. Len(p) = n /\ \A i \in 1 .. n : p[i] = d[f[k + i]]
    BY <2>5
  <2>7. Len(f) \in Nat /\ k + n <= Len(f)
    BY <1>2, <1>3, <2>2, <2>3
  <2>8. PICK V, W : /\ Tiled(j, p, Len(p), V) /\ Runs(j, d, f, k + n, W)
                    /\ AllBefore(V, W) /\ V \cup W = X
    <3>1. Takes(d, f, k, n, p)
      BY <2>6, <2>7 DEF Takes
    <3>2. Taken(j, d, f, k, n, p, X)
      BY <2>4, <3>1, RunsTaken, Zenon
    <3> QED BY <3>2 DEF Taken
  <2>9. AllBefore(U, V) /\ AllBefore(U, W) /\ U \cup V \cup W = Numbers(j)
    BY <2>4, <2>8 DEF AllBefore
  <2>10. task'.parts = p /\ task'.sflag = j.sflag /\ task'.uflag = j.uflag
    <3> HIDE DEF q
    <3> QED BY <1>1, <2>2 DEF MergeStart
  <2>11. PICK t : t = task'
    OBVIOUS
  <2>12. Tiled(j, t.parts, Len(t.parts), V) /\ FlagsOf(j, t)
    BY <2>8, <2>10, <2>11 DEF FlagsOf
  <2>13. Grouping(j, d, f, k + n, g, t)
    BY <2>4, <2>8, <2>9, <2>12 DEF Grouping
  <2> QED BY <1>1, <1>3, <2>2, <2>3, <2>11, <2>13 DEF Whereabouts, Spills, Passes, HasOutput
<1> QED BY <1>4, <1>5

LEMMA GroupMergedKeeps ==
  ASSUME OInv, SInv', GroupMerged
  PROVE  Position' /\ (NothingLost' => Whereabouts')
<1>1. /\ pc = "merge_group" /\ phase = "idle" /\ Write(out)
      /\ new_fl' = Append(new_fl, target) /\ indx' = indx + Group /\ pc' = "group"
      /\ UNCHANGED <<job, ifile, iline, list, fl>>
  BY DEF GroupMerged, input
<1>2. /\ SInv /\ OriginInv /\ MInv /\ job \in Jobs /\ out \in Seq(Line)
      /\ indx \in Nat /\ Len(fl) \in Nat /\ indx < Len(fl)
      /\ fl \in Seq(IF fltmp THEN Temps ELSE Inputs) /\ fltmp \in BOOLEAN
      /\ new_fl \in Seq(Temps) /\ Len(new_fl) \in Nat /\ target \in Temps
  <2>1. SInv /\ OriginInv /\ MInv /\ out \in Seq(Line)
    BY DEF OInv, SInv, MergeInv, MInv, MergeTypeOK
  <2>2. /\ job \in Jobs /\ indx \in Nat /\ fltmp \in BOOLEAN /\ new_fl \in Seq(Temps)
        /\ fl \in Seq(IF fltmp THEN Temps ELSE Inputs)
    BY <2>1 DEF SInv, STypes
  <2>3. indx < Len(fl) /\ target \in Temps
    BY <1>1, <2>1 DEF SInv, Place
  <2>4. Len(fl) \in Nat /\ Len(new_fl) \in Nat
    BY <2>2
  <2> QED BY <2>1, <2>2, <2>3, <2>4
<1>3. Group \in Nat /\ indx + Group <= Len(fl)
  BY <1>2, GroupFacts
<1>4. Begin = indx /\ Running /\ pc \in Passing
  BY <1>1 DEF Begin, Running, Passing
<1>5. Position'
  BY <1>1, SameJob DEF OInv, Position, Sorting
<1>6. ASSUME NothingLost' PROVE Whereabouts'
  <2>1. lost' = lost
    BY <1>1, <1>6 DEF NothingLost, Write
  <2>2. Whereabouts
    BY <1>1, <1>6, <2>1, SameNumbers DEF OInv, NothingLost
  <2>3. data'[target] = out /\ \A f \in Names : f # target => data'[f] = data[f]
    BY <1>1, <1>2, <1>6, WriteFacts DEF NothingLost
  <2>4. \A i \in (indx + Group) + 1 .. Len(fl) : data'[fl[i]] = data[fl[i]]
    <3> SUFFICES ASSUME NEW i \in (indx + Group) + 1 .. Len(fl) PROVE data'[fl[i]] = data[fl[i]]
      OBVIOUS
    <3>1. i \in indx + 1 .. Len(fl) /\ i \in 1 .. Len(fl)
      BY <1>2, <1>3
    <3>2. fl[i] # target
      BY <1>2, <1>4, <3>1, TargetFree
    <3>3. fl[i] \in Names
      BY <1>2, <3>1, NameFacts
    <3> QED BY <2>3, <3>2, <3>3
  <2>5. \A i \in 1 .. Len(new_fl) : data'[new_fl[i]] = data[new_fl[i]]
    <3> SUFFICES ASSUME NEW i \in 1 .. Len(new_fl) PROVE data'[new_fl[i]] = data[new_fl[i]]
      OBVIOUS
    <3>1. new_fl[i] # target
      BY <1>2, <1>4, TargetFree
    <3>2. new_fl[i] \in Names
      BY <1>2, NameFacts
    <3> QED BY <2>3, <3>1, <3>2
  <2>6. PICK j, d, e, f, g, t, x, h : /\ j = job /\ d = data /\ e = data' /\ f = fl /\ g = new_fl
                                      /\ t = task /\ x = target /\ h = new_fl'
    OBVIOUS
  <2>7. PICK k \in Nat : k = indx + Group
    BY <1>2, <1>3
  <2>8. Grouping(j, d, f, k, g, t)
    BY <1>1, <2>2, <2>6, <2>7 DEF Whereabouts
  <2>9. PICK U, V, W : /\ Runs(j, d, g, 0, U) /\ Tiled(j, t.parts, Len(t.parts), V)
                       /\ Runs(j, d, f, k, W)
                       /\ AllBefore(U, V) /\ AllBefore(U, W) /\ AllBefore(V, W)
                       /\ U \cup V \cup W = Numbers(j)
    BY <2>8 DEF Grouping
  <2>10. task.sflag = j.sflag /\ task.uflag = j.uflag /\ Tiled(j, task.parts, Len(task.parts), V)
    BY <2>6, <2>8, <2>9 DEF Grouping, FlagsOf
  <2>11. Form(j, out, V)
    BY <1>1, <1>2, <2>6, <2>10, MergeForm
  <2>12. Form(j, e[x], V)
    BY <2>3, <2>6, <2>11
  <2>13. h = Append(g, x) /\ g \in Seq(Temps) /\ x \in Temps
         /\ \A i \in 1 .. Len(g) : e[g[i]] = d[g[i]]
    BY <1>1, <1>2, <2>5, <2>6
  <2>14. Runs(j, e, h, 0, U \cup V)
    BY <2>9, <2>12, <2>13, RunsAdd
  <2>15. Len(f) \in Nat /\ \A i \in k + 1 .. Len(f) : e[f[i]] = d[f[i]]
    BY <1>2, <2>4, <2>6, <2>7
  <2>16. Runs(j, e, f, k, W)
    BY <2>9, <2>15, RunsSame
  <2>17. AllBefore(U \cup V, W) /\ (U \cup V) \cup W = Numbers(j)
    BY <2>9 DEF AllBefore
  <2>18. Between(j, e, f, k, h)
    BY <2>14, <2>16, <2>17 DEF Between
  <2> QED BY <1>1, <2>6, <2>7, <2>18 DEF Whereabouts, Spills, Passes, HasOutput
<1> QED BY <1>5, <1>6

LEMMA AllMergedKeeps ==
  ASSUME OInv, SInv', AllMerged
  PROVE  Position' /\ (NothingLost' => Whereabouts')
<1>1. /\ pc = "merge_all" /\ phase = "idle" /\ Write(out) /\ pc' = "clean"
      /\ UNCHANGED <<job, ifile, iline>>
  BY DEF AllMerged, input
<1>2. /\ SInv /\ OriginInv /\ MInv /\ job \in Jobs /\ out \in Seq(Line) /\ target = Outfile
  BY <1>1 DEF OInv, SInv, STypes, Place, MergeInv, MInv, MergeTypeOK
<1>3. Position'
  BY <1>1, SameJob DEF OInv, Position, Sorting
<1>4. ASSUME NothingLost' PROVE Whereabouts'
  <2>1. lost' = lost
    BY <1>1, <1>4 DEF NothingLost, Write
  <2>2. Whereabouts
    BY <1>1, <1>4, <2>1, SameNumbers DEF OInv, NothingLost
  <2>3. data'[Outfile] = out
    BY <1>1, <1>2, <1>4, WriteFacts DEF NothingLost
  <2>4. PICK j, N : j = job /\ N = Numbers(job)
    OBVIOUS
  <2>5. task.sflag = j.sflag /\ task.uflag = j.uflag /\ Tiled(j, task.parts, Len(task.parts), N)
    BY <1>1, <2>2, <2>4 DEF Whereabouts, Finishing, FlagsOf
  <2>6. Form(j, out, N) /\ Distinct(j, out)
    BY <1>1, <1>2, <2>4, <2>5, MergeForm
  <2>7. Right(job, data'[Outfile])
    BY <2>3, <2>4, <2>6 DEF Right
  <2> QED BY <1>1, <2>7 DEF Whereabouts, Spills, Passes, HasOutput
<1> QED BY <1>3, <1>4

LEMMA MergingKeeps ==
  ASSUME OInv, SInv', Merging
  PROVE  Position' /\ (NothingLost' => Whereabouts')
<1>1. /\ pc \in {"merge_parts", "merge_group", "merge_all"} /\ MergeStep
      /\ UNCHANGED <<job, pc, ifile, iline, list, fl, fltmp, new_fl, indx, target, disk, data,
                     posted, parts, lost>>
  BY DEF Merging, svars
<1>2. task' = task
  BY <1>1 DEF MergeStep, Push, Swim, PrintLine, Sink, MergeEnd
<1>3. Position'
  BY <1>1, SameJob DEF OInv, Position
<1>4. Read' = Read /\ Group' = Group
  BY <1>1 DEF Read, Group
<1>5. ASSUME NothingLost' PROVE Whereabouts'
  <2>1. Whereabouts
    BY <1>1, <1>5, SameNumbers DEF OInv, NothingLost
  <2> QED BY <1>1, <1>2, <1>4, <2>1 DEF Whereabouts, Spills, Passes, HasOutput
<1> QED BY <1>3, <1>5

----------------------------------------------------------------------------
(***************************************************************************)
(* The end, errors and signals.                                            *)
(***************************************************************************)

LEMMA CleanKeeps ==
  ASSUME OInv, SInv', Clean
  PROVE  Position' /\ (NothingLost' => Whereabouts')
<1>1. /\ pc = "clean" /\ pc' = (IF job.inplace THEN "unlink" ELSE "exit")
      /\ UNCHANGED <<job, ifile, iline, data, lost>>
  BY DEF Clean, input, Exit
<1>2. Position'
  BY <1>1, SameJob DEF OInv, Position, Sorting
<1>3. ASSUME NothingLost' PROVE Whereabouts'
  <2>1. Whereabouts
    BY <1>1, <1>3, SameNumbers DEF OInv, NothingLost
  <2>2. Right(job, data[Outfile])
    BY <1>1, <2>1 DEF Whereabouts, HasOutput
  <2>3. CASE job.inplace
    BY <1>1, <2>2, <2>3 DEF Whereabouts, Spills, Passes, HasOutput
  <2>4. CASE ~job.inplace
    <3>1. Result' = Outfile
      BY <1>1, <2>4 DEF Result
    <3> QED BY <1>1, <2>2, <2>4, <3>1 DEF Whereabouts, Spills, Passes, HasOutput
  <2> QED BY <2>3, <2>4
<1> QED BY <1>2, <1>3

LEMMA UnlinkRealKeeps ==
  ASSUME OInv, SInv', UnlinkReal
  PROVE  Position' /\ (NothingLost' => Whereabouts')
<1>1. pc = "unlink" /\ pc' = "rename" /\ UNCHANGED <<job, ifile, iline, data, lost>>
  BY DEF UnlinkReal, input
<1>2. Position'
  BY <1>1, SameJob DEF OInv, Position, Sorting
<1>3. ASSUME NothingLost' PROVE Whereabouts'
  <2>1. Whereabouts
    BY <1>1, <1>3, SameNumbers DEF OInv, NothingLost
  <2>2. Right(job, data[Outfile])
    BY <1>1, <2>1 DEF Whereabouts, HasOutput
  <2> QED BY <1>1, <2>2 DEF Whereabouts, Spills, Passes, HasOutput
<1> QED BY <1>2, <1>3

LEMMA RenameOutputKeeps ==
  ASSUME OInv, SInv', RenameOutput
  PROVE  Position' /\ (NothingLost' => Whereabouts')
<1>1. /\ pc = "rename" /\ pc' = "exit" /\ data' = [data EXCEPT ![1] = data[Outfile]]
      /\ UNCHANGED <<job, ifile, iline, lost>>
  BY DEF RenameOutput, input, Exit
<1>2. SInv /\ job \in Jobs /\ job.inplace /\ data \in [Names -> Seq(Line)] /\ 1 \in Names
  <2>1. SInv /\ job \in Jobs /\ job.inplace /\ data \in [Names -> Seq(Line)]
    BY <1>1 DEF OInv, SInv, STypes, Place
  <2> QED BY <2>1, NameFacts
<1>3. Position'
  BY <1>1, SameJob DEF OInv, Position, Sorting
<1>4. ASSUME NothingLost' PROVE Whereabouts'
  <2>1. Whereabouts
    BY <1>1, <1>4, SameNumbers DEF OInv, NothingLost
  <2>2. Right(job, data[Outfile])
    BY <1>1, <2>1 DEF Whereabouts, HasOutput
  <2>3. Result' = 1 /\ data'[1] = data[Outfile]
    BY <1>1, <1>2 DEF Result
  <2> QED BY <1>1, <2>2, <2>3 DEF Whereabouts, Spills, Passes, HasOutput
<1> QED BY <1>3, <1>4

LEMMA FailKeeps ==
  ASSUME OInv, SInv', Fail
  PROVE  Position' /\ (NothingLost' => Whereabouts')
<1>1. /\ pc \notin Ends /\ pc' = "failed" /\ disk \subseteq disk'
      /\ UNCHANGED <<job, ifile, iline, data, lost>>
  BY DEF Fail, input, Exit, Ends
<1>2. Position'
  BY <1>1, SameJob DEF OInv, Position, Sorting
<1>3. ASSUME NothingLost' PROVE Whereabouts'
  <2>1. Whereabouts
    BY <1>1, <1>3, SameNumbers DEF OInv, NothingLost
  <2>2. ASSUME 1 \notin disk' PROVE Right(job, data[Outfile])
    <3>1. pc = "rename"
      BY <1>1, <2>2 DEF OInv, SInv, DiskInv, Ends
    <3> QED BY <2>1, <3>1 DEF Whereabouts, HasOutput
  <2> QED BY <1>1, <2>2 DEF Whereabouts, Spills, Passes, HasOutput
<1> QED BY <1>2, <1>3

LEMMA SignalKeeps ==
  ASSUME OInv, SInv', Signal
  PROVE  Position' /\ (NothingLost' => Whereabouts')
<1>1. pc' \in {"killed", "hung"} /\ UNCHANGED <<job, ifile, iline>>
  BY DEF Signal, input, Exit
<1>2. Position'
  BY <1>1, SameJob DEF OInv, Position, Sorting
<1> QED BY <1>1, <1>2 DEF Whereabouts, Spills, Passes, HasOutput

LEMMA QuietKeeps ==
  ASSUME OInv, UNCHANGED vars
  PROVE  Position' /\ (NothingLost' => Whereabouts')
<1>1. /\ UNCHANGED <<job, pc, ifile, iline, list, fl, new_fl, indx, target, disk, data,
                     posted, parts, lost, task>>
  BY DEF vars, svars, mvars
<1>2. Read' = Read /\ Group' = Group /\ Result' = Result
  BY <1>1 DEF Read, Group, Result
<1>3. Position'
  BY <1>1, SameJob DEF OInv, Position
<1>4. ASSUME NothingLost' PROVE Whereabouts'
  <2>1. Whereabouts
    BY <1>1, <1>4, SameNumbers DEF OInv, NothingLost
  <2> QED BY <1>1, <1>2, <2>1 DEF Whereabouts, Spills, Passes, HasOutput
<1> QED BY <1>3, <1>4

\* To the merge, every step of sort is one of its own.
LEMMA MergeSees ==
  ASSUME SInv, [Next]_vars
  PROVE  [MergeNext]_mvars
<1> USE DEF MergeNext
<1>1. job \in Jobs /\ job.sflag \in BOOLEAN /\ job.uflag \in BOOLEAN /\ data \in [Names -> Seq(Line)]
  BY JobFacts DEF SInv, STypes
<1>2. CASE JoinThreads
  <2>1. parts \in Seq(Seq(Line)) /\ MergeStart(parts, job.sflag, job.uflag)
    BY <1>2 DEF JoinThreads, SInv, STypes
  <2> QED BY <1>1, <2>1
<1>3. CASE Shrink
  <2>1. CASE UNCHANGED mvars
    BY <2>1
  <2>2. CASE MergeStart([i \in DOMAIN fl |-> data[fl[i]]], job.sflag, job.uflag)
    <3> DEFINE n == Len(fl)
               D(i) == data[fl[i]]
               p == [i \in 1 .. n |-> D(i)]
    <3>1. fl \in Seq(IF fltmp THEN Temps ELSE Inputs) /\ fltmp \in BOOLEAN
      BY DEF SInv, STypes
    <3>2. n \in Nat /\ DOMAIN fl = 1 .. n
      BY <3>1
    <3>3. \A i \in 1 .. n : D(i) \in Seq(Line)
      BY <1>1, <3>1, NameFacts
    <3>4. MergeStart(p, job.sflag, job.uflag)
      BY <2>2, <3>2
    <3> HIDE DEF n, D
    <3>5. p \in Seq(Seq(Line))
      BY <3>2, <3>3
    <3> HIDE DEF p
    <3> QED BY <1>1, <3>4, <3>5
  <2> QED BY <1>3, <2>1, <2>2 DEF Shrink
<1>4. CASE OpenGroup
  <2> DEFINE n == Group
             D(i) == data[fl[indx + i]]
             p == [i \in 1 .. n |-> D(i)]
  <2>1. fl \in Seq(IF fltmp THEN Temps ELSE Inputs) /\ fltmp \in BOOLEAN /\ indx \in Nat
    BY DEF SInv, STypes
  <2>2. Len(fl) \in Nat /\ n \in Nat /\ indx + n <= Len(fl)
    <3>1. indx < Len(fl)
      BY <1>4 DEF OpenGroup, SInv, Place
    <3> QED BY <2>1, <3>1, GroupFacts
  <2>3. \A i \in 1 .. n : D(i) \in Seq(Line)
    <3> SUFFICES ASSUME NEW i \in 1 .. n PROVE D(i) \in Seq(Line)
      OBVIOUS
    <3>1. indx + i \in 1 .. Len(fl)
      BY <2>1, <2>2
    <3> QED BY <1>1, <2>1, <3>1, NameFacts
  <2>4. MergeStart(p, job.sflag, job.uflag)
    BY <1>4 DEF OpenGroup
  <2> HIDE DEF n, D
  <2>5. p \in Seq(Seq(Line))
    BY <2>2, <2>3
  <2> HIDE DEF p
  <2> QED BY <1>1, <2>4, <2>5
<1>5. CASE Merging
  BY <1>5 DEF Merging
<1>6. CASE UNCHANGED mvars
  BY <1>6
<1>7. CASE ReadLine \/ NextInput \/ InputEnds \/ MakeTemp \/ Register
  BY <1>6, <1>7 DEF ReadLine, NextInput, InputEnds, MakeTemp, Register
<1>8. CASE SortList \/ SplitList \/ CreateThread \/ PartsMerged \/ Thread
  BY <1>6, <1>8 DEF SortList, SplitList, CreateThread, PartsMerged, Thread, SortThread
<1>9. CASE NextGroup \/ GroupMerged \/ AllMerged
  BY <1>6, <1>9 DEF NextGroup, GroupMerged, AllMerged
<1>10. CASE Clean \/ UnlinkReal \/ RenameOutput \/ Fail \/ Signal
  BY <1>6, <1>10 DEF Clean, UnlinkReal, RenameOutput, Fail, Signal
<1>11. CASE UNCHANGED vars
  BY <1>6, <1>11 DEF vars
<1> QED BY <1>2, <1>3, <1>4, <1>5, <1>7, <1>8, <1>9, <1>10, <1>11 DEF Next, Main, Terminating

LEMMA OutputInit == Init => OInv
<1> SUFFICES ASSUME Init PROVE OInv
  OBVIOUS
<1>1. SInv /\ OriginInv /\ job \in Jobs
  BY SortInit, OriginInit DEF Init
<1>2. PICK j, n, off : j = job /\ n = Len(job.input) /\ off = Offset(job)
  OBVIOUS
<1>3. /\ n \in Nat \ {0} /\ off \in [0 .. n -> Nat] /\ off[0] = 0 /\ off[n] = Len(AllOf(j))
      /\ \A i, k \in 0 .. n : i <= k => off[i] <= off[k]
      /\ \A f \in 1 .. n : Slice(j, j.input[f], off[f - 1], off[f])
  BY <1>1, <1>2, OffsetFacts
<1>4. Position
  <2>1. ifile = 1 /\ iline = 1 /\ pc \notin Sorting
    BY DEF Init, Sorting
  <2>2. 1 \in Inputs /\ Len(job.input[1]) \in Nat
    BY <1>1, NameFacts
  <2> QED BY <2>1, <2>2 DEF Position
<1>5. Len(AllOf(j)) \in Nat /\ j.mflag \in BOOLEAN
  BY <1>1, <1>2, JobFacts, Flattened
<1>6. ASSUME NothingLost PROVE Whereabouts
  <2>1. CASE j.mflag = TRUE
    <3>1. pc = "shrink" /\ fl = [i \in Inputs |-> i]
      BY <1>2, <2>1 DEF Init
    <3>2. Inputs = 1 .. n
      BY <1>2 DEF Inputs
    <3>3. PICK f, d : f = fl /\ d = data
      OBVIOUS
    <3>4. f \in Seq(Nat) /\ Len(f) = n /\ \A i \in 1 .. n : f[i] = i
      BY <1>3, <3>1, <3>2, <3>3
    <3>5. \A i \in 1 .. n : d[i] = j.input[i]
      BY <1>1, <1>2, <3>1, <3>2, <3>3 DEF SInv, DiskInv
    <3>6. PICK h : h = Held(d, f, 0)
      OBVIOUS
    <3>7. \A m \in 1 .. n : h[m] = j.input[m]
      <4> SUFFICES ASSUME NEW m \in 1 .. n PROVE h[m] = j.input[m]
        OBVIOUS
      <4>1. 0 + m = m /\ m \in 1 .. Len(f) - 0
        BY <1>3, <3>4
      <4>2. h[m] = d[f[m]]
        BY <3>6, <4>1 DEF Held
      <4> QED BY <3>4, <3>5, <4>2
    <3>8. \A m \in 1 .. n : Form(j, h[m], off[m - 1] + 1 .. off[m])
      <4> SUFFICES ASSUME NEW m \in 1 .. n PROVE Form(j, h[m], off[m - 1] + 1 .. off[m])
        OBVIOUS
      <4>1. PICK s, a, b : s = h[m] /\ a = off[m - 1] /\ b = off[m]
        OBVIOUS
      <4>2. Slice(j, s, a, b)
        BY <1>3, <3>7, <4>1
      <4>3. Sorted(j.sflag, s)
        BY <1>2, <1>6, <2>1, <3>2, <3>7, <4>1 DEF NothingLost, InputsFit
      <4>4. Form(j, s, a + 1 .. b)
        BY <1>1, <1>2, <4>2, <4>3, SortedForm
      <4> QED BY <4>1, <4>4
    <3>9. Tiled(j, h, n, off[0] + 1 .. off[n])
      BY <1>3, <3>8, TileBounds
    <3>10. off[0] + 1 .. off[n] = Numbers(j)
      BY <1>3, <1>5 DEF Numbers
    <3>11. Len(f) - 0 = n
      BY <1>3, <3>4
    <3>12. Runs(j, d, f, 0, Numbers(j))
      BY <3>6, <3>9, <3>10, <3>11 DEF Runs
    <3> QED BY <1>2, <3>1, <3>3, <3>12 DEF Whereabouts, Spills, Passes, HasOutput
  <2>2. CASE j.mflag = FALSE
    <3>1. pc = "read" /\ fl = <<>> /\ list = <<>> /\ ifile = 1 /\ iline = 1
      BY <1>2, <2>2 DEF Init
    <3>2. Read = 0
      <4>1. Read = off[1 - 1] + 1 - 1
        BY <1>2, <3>1 DEF Read
      <4> QED BY <1>3, <4>1
    <3>3. Slice(j, <<>>, 0, 0)
      BY <1>5 DEF Slice
    <3>4. PICK U, f, d : U = 1 .. 0 /\ f = fl /\ d = data
      OBVIOUS
    <3>5. U = {} /\ Len(f) = 0
      BY <3>1, <3>4
    <3>6. Runs(j, d, f, 0, U)
      BY <3>5, RunsNone
    <3>7. Reading(j, d, f, <<>>, 0)
      BY <3>3, <3>4, <3>6 DEF Reading
    <3> QED BY <1>2, <3>1, <3>2, <3>4, <3>7 DEF Whereabouts, Spills, Passes, HasOutput
  <2> QED BY <1>5, <2>1, <2>2
<1> QED BY <1>1, <1>4, <1>6 DEF OInv

LEMMA OutputNext == OInv /\ [Next]_vars => OInv'
<1> SUFFICES ASSUME OInv, [Next]_vars PROVE OInv'
  OBVIOUS
<1>1. SInv /\ OriginInv /\ MInv
  BY DEF OInv, SInv, MergeInv
<1>2. SInv'
  BY <1>1, SortNext
<1>3. OriginInv'
  BY <1>1, MergeSees, NextOrigin
<1>4. Position' /\ (NothingLost' => Whereabouts')
  <2>1. CASE Main
    BY <1>2, <2>1, ReadLineKeeps, NextInputKeeps, InputEndsKeeps, MakeTempKeeps, RegisterKeeps,
       SortListKeeps, SplitListKeeps, CreateThreadKeeps, JoinThreadsKeeps, PartsMergedKeeps,
       ShrinkKeeps, NextGroupKeeps, OpenGroupKeeps, GroupMergedKeeps, AllMergedKeeps,
       MergingKeeps, CleanKeeps, UnlinkRealKeeps, RenameOutputKeeps DEF Main
  <2>2. CASE Thread
    BY <1>2, <2>2, SortThreadKeeps DEF Thread
  <2>3. CASE Fail
    BY <1>2, <2>3, FailKeeps
  <2>4. CASE Signal
    BY <1>2, <2>4, SignalKeeps
  <2>5. CASE UNCHANGED vars
    BY <2>5, QuietKeeps
  <2> QED BY <2>1, <2>2, <2>3, <2>4, <2>5 DEF Next, Terminating
<1> QED BY <1>2, <1>3, <1>4 DEF OInv

\* sort(1) never loses sight of a line: at every moment each line of the input is
\* still to be read, in memory, in exactly one file to be merged, in a part of a
\* thread, in the merge, or in the output (procfile(), mt_sort(), merge_files()).
THEOREM OutputInvariance == Spec => []OInv
<1> QED BY OutputInit, OutputNext, PTL DEF Spec

\* Whatever fits into memory, is spilled, split among threads and merged in passes,
\* the output is the sorted input: stable, and unique with -u (main()).
THEOREM SortSorts == Spec => []SortedOutput
<1>1. OInv => SortedOutput
  <2> SUFFICES ASSUME OInv, pc = "exit", ~lost, InputsFit PROVE data[Result] = Expected
    BY DEF SortedOutput
  <2>1. PICK j : j = job
    OBVIOUS
  <2>2. j \in Jobs /\ Right(j, data[Result])
    BY <2>1 DEF OInv, NothingLost, Whereabouts, SInv, STypes
  <2>3. Right(j, Expected)
    BY <2>1, <2>2, ExpectedRight
  <2> QED BY <2>2, <2>3, RightUnique
<1> QED BY <1>1, OutputInvariance, PTL

\* A sort(1) that succeeds leaves no temporary file, one that is ended by a signal at most one;
\* one that err(2) ends may leave them all. However it ends, an input that -o names is there,
\* or all of the output is, unless a signal comes between unlink() and rename() (main(),
\* sig_handler(), file_list_clean()).
THEOREM FilesAreSafe == Spec => []FilesSafe
<1>1. OInv => InPlaceSafe
  <2> SUFFICES ASSUME OInv, job.inplace
               PROVE  IF 1 \in disk THEN data[1] = job.input[1] \/ pc = "exit"
                      ELSE \/ pc = "killed"
                           \/ /\ pc \in {"rename", "failed"} /\ Outfile \in disk
                              /\ lost \/ ~InputsFit \/ data[Outfile] = Expected
    BY DEF InPlaceSafe
  <2>1. SInv /\ job \in Jobs /\ 1 \in Inputs
    <3>1. SInv /\ job \in Jobs
      BY DEF OInv, SInv, STypes
    <3> QED BY <3>1, NameFacts
  <2>2. CASE 1 \in disk
    BY <2>1, <2>2 DEF SInv, DiskInv
  <2>3. CASE 1 \notin disk /\ pc # "killed"
    <3>1. pc \in {"rename", "failed"} /\ Outfile \in disk
      BY <2>1, <2>3 DEF SInv, DiskInv
    <3>2. ASSUME ~lost, InputsFit PROVE data[Outfile] = Expected
      <4>1. PICK j : j = job
        OBVIOUS
      <4>2. j \in Jobs /\ Right(j, data[Outfile])
        BY <2>1, <2>3, <3>1, <3>2, <4>1 DEF OInv, NothingLost, Whereabouts, HasOutput
      <4>3. Right(j, Expected)
        BY <4>1, <4>2, ExpectedRight
      <4> QED BY <4>2, <4>3, RightUnique
    <3> QED BY <2>3, <3>1, <3>2
  <2> QED BY <2>2, <2>3
<1>2. Spec => []InPlaceSafe
  BY <1>1, OutputInvariance, PTL
<1> QED BY <1>2, FilesAreAccounted, PTL DEF FilesSafe
==============================================================================
