----------------------------- MODULE FileProofs -----------------------------
(***************************************************************************)
(* Proofs about the commands on files, for any tree of files, any operands *)
(* and any options: what a path leads to as files come and go, what mv,    *)
(* ln, rm, rmdir and mkdir keep wherever they are killed, and what they    *)
(* have done when they end with 0. mv and ln have one operand.             *)
(***************************************************************************)
EXTENDS FileMeaning, Induction, FiniteSetTheorems, FunctionTheorems

-----------------------------------------------------------------------------
(* Sequences and functions.                                                  *)

LEMMA SnocFacts ==
  ASSUME NEW B, NEW s \in Seq(B), NEW b \in B
  PROVE  /\ Append(s, b) \in Seq(B) /\ Append(s, b) # <<>> /\ Len(Append(s, b)) = Len(s) + 1
         /\ Front(Append(s, b)) = s /\ Last(Append(s, b)) = b
         /\ Append(s, b)[Len(s) + 1] = b /\ \A i \in 1 .. Len(s) : Append(s, b)[i] = s[i]
<1> DEFINE t == Append(s, b)
<1>1. t \in Seq(B) /\ t # <<>> /\ Len(t) = Len(s) + 1 /\ t[Len(s) + 1] = b /\ \A i \in 1 .. Len(s) : t[i] = s[i]
  OBVIOUS
<1>2. Front(t) = s
  <2>1. SubSeq(t, 1, Len(s)) \in Seq(B) /\ Len(SubSeq(t, 1, Len(s))) = Len(s)
        /\ \A i \in 1 .. Len(s) : SubSeq(t, 1, Len(s))[i] = t[i]
    BY <1>1
  <2>2. SubSeq(t, 1, Len(s)) = s
    BY <1>1, <2>1, SeqEqual, Zenon
  <2>3. Len(t) - 1 = Len(s)
    BY <1>1
  <2> QED BY <2>2, <2>3 DEF Front
<1> QED BY <1>1, <1>2 DEF Last

LEMMA FrontFacts ==
  ASSUME NEW B, NEW s \in Seq(B), s # <<>>
  PROVE  /\ Front(s) \in Seq(B) /\ Last(s) \in B /\ Append(Front(s), Last(s)) = s
         /\ Len(Front(s)) = Len(s) - 1 /\ Len(s) > 0
<1>1. Len(s) \in Nat /\ Len(s) > 0 /\ Len(s) - 1 \in Nat
  OBVIOUS
<1>2. Front(s) \in Seq(B) /\ Len(Front(s)) = Len(s) - 1 /\ \A i \in 1 .. Len(s) - 1 : Front(s)[i] = s[i]
  <2>0. PICK n \in Nat : n = Len(s) - 1
    BY <1>1
  <2>1. n = Len(s) - 1 /\ n <= Len(s)
    BY <1>1, <2>0
  <2>2. SubSeq(s, 1, n) \in Seq(B) /\ Len(SubSeq(s, 1, n)) = n
    <3>1. \A i \in 1 .. n : i \in 1 .. Len(s)
      BY <2>1
    <3>2. SubSeq(s, 1, n) \in Seq(B) /\ Len(SubSeq(s, 1, n)) = IF 1 <= n THEN n - 1 + 1 ELSE 0
      BY <3>1, SubSeqProperties
    <3> QED BY <3>2
  <2>4. \A i \in 1 .. n : SubSeq(s, 1, n)[i] = s[i]
    BY <2>1, <1>1
  <2>3. Front(s) = SubSeq(s, 1, n)
    BY <2>1 DEF Front
  <2> QED BY <2>1, <2>2, <2>3, <2>4
<1>3. Last(s) \in B
  BY <1>1 DEF Last
<1> DEFINE f == Front(s)
           b == Last(s)
           t == Append(f, b)
<1>4. b = s[Len(s)]
  BY DEF Last
<1> HIDE DEF f, b
<1>5. f \in Seq(B) /\ b \in B /\ Len(f) = Len(s) - 1 /\ \A i \in 1 .. Len(s) - 1 : f[i] = s[i]
  BY <1>2, <1>3 DEF f, b
<1>6. t \in Seq(B) /\ Len(t) = Len(s)
  BY <1>1, <1>5
<1>7. \A i \in 1 .. Len(s) : t[i] = s[i]
  BY <1>1, <1>4, <1>5
<1>8. t = s
  BY <1>6, <1>7, SeqEqual, Zenon
<1> QED BY <1>1, <1>2, <1>3, <1>8 DEF f, b

-----------------------------------------------------------------------------
(* Where a path leads.                                                       *)

LEMMA PathSnoc ==
  ASSUME NEW s \in Path, NEW b \in STRING
  PROVE  /\ Append(s, b) \in Path /\ Append(s, b) # <<>> /\ Len(Append(s, b)) = Len(s) + 1
         /\ Front(Append(s, b)) = s /\ Last(Append(s, b)) = b
         /\ Append(s, b)[Len(s) + 1] = b /\ \A i \in 1 .. Len(s) : Append(s, b)[i] = s[i]
BY SnocFacts, Zenon DEF Path

LEMMA PathFront ==
  ASSUME NEW s \in Path, s # <<>>
  PROVE  /\ Front(s) \in Path /\ Last(s) \in STRING /\ Append(Front(s), Last(s)) = s
         /\ Len(Front(s)) = Len(s) - 1 /\ Len(s) > 0
BY FrontFacts, Zenon DEF Path

\* What a path may lead to
Place == Path \cup {None}

\* g are the paths that the beginnings of p lead to.
Walks(fs, p, leads, g) ==
  g \in [0 .. Len(p) -> Place] /\ g[0] = <<>> /\ \A i \in 1 .. Len(p) : g[i] = Lookup(fs, g[i - 1], p[i], leads)

LEMMA NoneDiffers == None # <<>>
<1>1. \A x : <<x>> # <<>>
  OBVIOUS
<1> QED BY <1>1, Zenon DEF None

LEMMA LookupType ==
  ASSUME NEW fs, IsTree(fs), NEW d \in Place, NEW name \in STRING, NEW leads \in [Path -> Place]
  PROVE  Lookup(fs, d, name, leads) \in Place
<1>1. CASE TypeAt(fs, d) # "dir"
  BY <1>1 DEF Lookup, Place
<1>2. CASE TypeAt(fs, d) = "dir"
  <2>1. d \in Path
    BY <1>2 DEF TypeAt, IsTree
  <2>2. Append(d, name) \in Path
    BY <2>1, SnocFacts, Zenon DEF Path
  <2>3. ASSUME TypeAt(fs, Append(d, name)) = "link" PROVE leads[Node(fs, Append(d, name)).data] \in Place
    <3>1. Append(d, name) \in DOMAIN fs.at
      BY <2>3 DEF TypeAt
    <3>2. Node(fs, Append(d, name)).data \in Path
      BY <2>3, <3>1 DEF IsTree
    <3> QED BY <3>2
  <2> QED BY <1>2, <2>2, <2>3 DEF Lookup, Place
<1> QED BY <1>1, <1>2

LEMMA WalkedBy ==
  ASSUME NEW fs, IsTree(fs), NEW p \in Path, NEW leads \in [Path -> Place]
  PROVE  \E g : Walks(fs, p, leads, g) /\ Walked(fs, p, leads) = g[Len(p)]
<1> DEFINE N == Len(p)
           F == [x \in Place \X (1 .. N) |-> Lookup(fs, x[1], p[x[2]], leads)]
           Body(h) == [i \in 0 .. Len(p) |-> IF i = 0 THEN <<>>
                                             ELSE CHOOSE q \in {Lookup(fs, d, p[i], leads) : d \in {h[i - 1]}} : TRUE]
<1>1. N \in Nat /\ \A i \in 1 .. N : p[i] \in STRING
  BY DEF Path
<1>2. <<>> \in Place
  BY DEF Place, Path
<1>3. F \in [Place \X (1 .. N) -> Place]
  <2>1. \A x \in Place \X (1 .. N) : Lookup(fs, x[1], p[x[2]], leads) \in Place
    BY <1>1, LookupType
  <2> QED BY <2>1
<1>4. PICK g \in [0 .. N -> Place] : g[0] = <<>> /\ \A n \in 1 .. N : g[n] = F[<<g[n - 1], n>>]
  <2> HIDE DEF N, F
  <2>1. Recurs(Place, <<>>, N, F)
    BY <1>1, <1>2, <1>3, Recursion, Zenon
  <2> QED BY <2>1 DEF Recurs
<1>5. \A n \in 1 .. N : g[n] = Lookup(fs, g[n - 1], p[n], leads)
  <2> TAKE n \in 1 .. N
  <2>1. n - 1 \in 0 .. N /\ g[n - 1] \in Place
    BY <1>1, <1>4
  <2> QED BY <1>4, <2>1
<1>6. \A h, i : (CHOOSE q \in {Lookup(fs, d, p[i], leads) : d \in {h[i - 1]}} : TRUE) = Lookup(fs, h[i - 1], p[i], leads)
  OBVIOUS
<1>7. g = Body(g)
  BY <1>1, <1>4, <1>5, <1>6
<1> DEFINE at == CHOOSE h : h = Body(h)
<1>8. at = Body(at)
  BY <1>7
<1>9. Walked(fs, p, leads) = at[N]
  BY DEF Walked
<1> HIDE DEF at
<1>10. \A n \in Nat : n <= N => at[n] = g[n]
  <2> DEFINE S == {n \in Nat : n <= N => at[n] = g[n]}
  <2>1. 0 \in S
    BY <1>1, <1>4, <1>8
  <2>2. ASSUME NEW n \in Nat, n \in S PROVE n + 1 \in S
    <3> SUFFICES ASSUME n + 1 <= N PROVE at[n + 1] = g[n + 1]
      OBVIOUS
    <3>1. n + 1 \in 1 .. N /\ (n + 1) - 1 = n /\ n <= N /\ n + 1 # 0 /\ n + 1 \in 0 .. Len(p)
      BY <1>1
    <3>2. at[n] = g[n]
      BY <2>2, <3>1
    <3>3. at[n + 1] = CHOOSE q \in {Lookup(fs, d, p[n + 1], leads) : d \in {at[(n + 1) - 1]}} : TRUE
      BY <1>8, <3>1
    <3>4. at[n + 1] = Lookup(fs, at[(n + 1) - 1], p[n + 1], leads)
      BY <1>6, <3>3
    <3> QED BY <1>5, <3>1, <3>2, <3>4
  <2> HIDE DEF S
  <2>3. \A n \in Nat : n \in S
    BY <2>1, <2>2, SetInduction
  <2> QED BY <2>3 DEF S
<1>11. Walks(fs, p, leads, g)
  BY <1>1, <1>4, <1>5 DEF Walks
<1> QED BY <1>1, <1>9, <1>10, <1>11

\* The way of a path is that of its beginning, and a name more.
LEMMA WalkStep ==
  ASSUME NEW fs, IsTree(fs), NEW leads \in [Path -> Place]
  PROVE  /\ Walked(fs, <<>>, leads) = <<>>
         /\ \A p \in Path : Walked(fs, p, leads) \in Place
         /\ \A p \in Path, b \in STRING :
              Walked(fs, Append(p, b), leads) = Lookup(fs, Walked(fs, p, leads), b, leads)
<1>1. Walked(fs, <<>>, leads) = <<>>
  <2>1. <<>> \in Path /\ Len(<<>>) = 0
    BY DEF Path
  <2>2. PICK g : Walks(fs, <<>>, leads, g) /\ Walked(fs, <<>>, leads) = g[Len(<<>>)]
    BY <2>1, WalkedBy
  <2> QED BY <2>1, <2>2 DEF Walks
<1>2. ASSUME NEW p \in Path PROVE Walked(fs, p, leads) \in Place
  <2>1. PICK g : Walks(fs, p, leads, g) /\ Walked(fs, p, leads) = g[Len(p)]
    BY WalkedBy
  <2>2. Len(p) \in 0 .. Len(p)
    BY DEF Path
  <2> QED BY <2>1, <2>2 DEF Walks
<1>3. ASSUME NEW p \in Path, NEW b \in STRING
      PROVE  Walked(fs, Append(p, b), leads) = Lookup(fs, Walked(fs, p, leads), b, leads)
  <2>1. PICK t : t = Append(p, b)
    OBVIOUS
  <2>2. /\ t \in Path /\ Len(t) = Len(p) + 1 /\ t[Len(p) + 1] = b
        /\ \A i \in 1 .. Len(p) : t[i] = p[i]
    BY <2>1, PathSnoc
  <2>3. PICK h : Walks(fs, t, leads, h) /\ Walked(fs, t, leads) = h[Len(t)]
    BY <2>2, WalkedBy
  <2>4. PICK g : Walks(fs, p, leads, g) /\ Walked(fs, p, leads) = g[Len(p)]
    BY WalkedBy
  <2>5. PICK N \in Nat : N = Len(p)
    BY DEF Path
  <2> DEFINE S == {n \in Nat : n <= N => h[n] = g[n]}
  <2>6. 0 \in S
    BY <2>3, <2>4 DEF Walks
  <2>7. ASSUME NEW n \in Nat, n \in S PROVE n + 1 \in S
    <3> SUFFICES ASSUME n + 1 <= N PROVE h[n + 1] = g[n + 1]
      OBVIOUS
    <3>1. n + 1 \in 1 .. Len(p) /\ n + 1 \in 1 .. Len(t) /\ (n + 1) - 1 = n /\ n <= N
      BY <2>2, <2>5
    <3>2. h[n + 1] = Lookup(fs, h[(n + 1) - 1], t[n + 1], leads)
      BY <2>3, <3>1 DEF Walks
    <3>3. g[n + 1] = Lookup(fs, g[(n + 1) - 1], p[n + 1], leads)
      BY <2>4, <3>1 DEF Walks
    <3>4. h[n] = g[n] /\ t[n + 1] = p[n + 1]
      BY <2>2, <2>7, <3>1
    <3> QED BY <3>1, <3>2, <3>3, <3>4
  <2>8. \A n \in Nat : n \in S
    <3> HIDE DEF S
    <3> QED BY <2>6, <2>7, SetInduction
  <2>9. h[N] = g[N]
    BY <2>8
  <2>10. N + 1 \in 1 .. Len(t) /\ (N + 1) - 1 = N /\ Len(t) = N + 1
    BY <2>2, <2>5
  <2>11. h[N + 1] = Lookup(fs, h[(N + 1) - 1], t[N + 1], leads)
    BY <2>3, <2>10 DEF Walks
  <2> QED BY <2>1, <2>2, <2>3, <2>4, <2>5, <2>9, <2>10, <2>11
<1> QED BY <1>1, <1>2, <1>3

\* leads[n][p]: where p leads by links in a chain of fewer than n.
Leads(fs, leads) ==
  /\ leads \in [0 .. 4 -> [Path -> Place]] /\ leads[0] = [q \in Path |-> None]
  /\ \A n \in 1 .. 4 : leads[n] = [q \in Path |-> Walked(fs, q, leads[n - 1])]

LEMMA FollowBy ==
  ASSUME NEW fs, IsTree(fs)
  PROVE  \E leads : Leads(fs, leads) /\ \A p \in Path : Follow(fs, p) = leads[4][p]
<1> DEFINE D == [Path -> Place]
           F == [x \in D \X (1 .. 4) |-> [q \in Path |-> Walked(fs, q, x[1])]]
           Body(h) == [n \in 0 .. 4 |-> [q \in Path |-> IF n = 0 THEN None ELSE Walked(fs, q, h[n - 1])]]
           none == [q \in Path |-> None]
<1>1. \A x \in D \X (1 .. 4) : [q \in Path |-> Walked(fs, q, x[1])] \in D
  <2> TAKE x \in D \X (1 .. 4)
  <2>1. x[1] \in D
    OBVIOUS
  <2>2. \A q \in Path : Walked(fs, q, x[1]) \in Place
    BY <2>1, WalkStep
  <2> QED BY <2>2
<1>2. F \in [D \X (1 .. 4) -> D] /\ none \in D /\ 4 \in Nat
  BY <1>1 DEF Place
<1>3. PICK g \in [0 .. 4 -> D] : g[0] = none /\ \A n \in 1 .. 4 : g[n] = F[<<g[n - 1], n>>]
  <2> HIDE DEF D, F, none
  <2>1. Recurs(D, none, 4, F)
    BY <1>2, Recursion, Zenon
  <2> QED BY <2>1 DEF Recurs
<1>4. \A n \in 1 .. 4 : g[n] = [q \in Path |-> Walked(fs, q, g[n - 1])]
  <2> TAKE n \in 1 .. 4
  <2>1. n - 1 \in 0 .. 4 /\ <<g[n - 1], n>> \in D \X (1 .. 4)
    BY <1>3
  <2> QED BY <1>3, <2>1
<1>5. g = Body(g)
  <2>1. \A n \in 0 .. 4 : g[n] = Body(g)[n]
    <3> TAKE n \in 0 .. 4
    <3>1. CASE n = 0
      BY <1>3, <3>1
    <3>2. CASE n \in 1 .. 4
      BY <1>4, <3>2
    <3> QED BY <3>1, <3>2
  <2> QED BY <1>3, <2>1
<1> DEFINE leads == CHOOSE h : h = Body(h)
<1>6. leads = Body(leads)
  BY <1>5
<1>7. \A p \in Path : Follow(fs, p) = leads[4][p]
  BY DEF Follow
<1> HIDE DEF leads
<1>8. leads[0] = none
  BY <1>6
<1>9. \A n \in 1 .. 4 : leads[n] = [q \in Path |-> Walked(fs, q, leads[n - 1])]
  BY <1>6
<1>10. \A n \in 1 .. 4 : leads[n - 1] \in D => leads[n] \in D
  <2> TAKE n \in 1 .. 4
  <2>1. leads[n - 1] \in D => \A q \in Path : Walked(fs, q, leads[n - 1]) \in Place
    BY WalkStep
  <2> QED BY <1>9, <2>1
<1>11. \A n \in 0 .. 4 : leads[n] \in D
  <2>1. leads[0] \in D
    BY <1>2, <1>8
  <2>2. leads[1] \in D
    BY <1>10, <2>1
  <2>3. leads[2] \in D
    BY <1>10, <2>2
  <2>4. leads[3] \in D
    BY <1>10, <2>3
  <2>5. leads[4] \in D
    BY <1>10, <2>4
  <2> QED BY <2>1, <2>2, <2>3, <2>4, <2>5
<1>12. Leads(fs, leads)
  BY <1>6, <1>8, <1>9, <1>11 DEF Leads
<1> QED BY <1>7, <1>12

-----------------------------------------------------------------------------
(* As files come and go, what there is stays where it is.                    *)

\* The files D are in both trees, and the others of B are neither directories nor links.
Agree(B, A, D) ==
  /\ IsTree(A) /\ IsTree(B) /\ D \subseteq DOMAIN B.at /\ D \subseteq DOMAIN A.at
  /\ \A p \in D : TypeAt(B, p) = TypeAt(A, p) /\ (TypeAt(B, p) = "link" => Node(B, p).data = Node(A, p).data)
  /\ \A p \in DOMAIN B.at \ D : TypeAt(B, p) \notin {"dir", "link"}

LeadsAgree(lB, lA, D) == \A q \in Path : lB[q] \in D => lA[q] = lB[q]

LEMMA LookupAgrees ==
  ASSUME NEW B, NEW A, NEW D, Agree(B, A, D), NEW lB, NEW lA, LeadsAgree(lB, lA, D)
  PROVE  \A d, b : Lookup(B, d, b, lB) \in D => d \in D /\ Lookup(A, d, b, lA) = Lookup(B, d, b, lB)
<1> SUFFICES ASSUME NEW d, NEW b, Lookup(B, d, b, lB) \in D
             PROVE  d \in D /\ Lookup(A, d, b, lA) = Lookup(B, d, b, lB)
  OBVIOUS
<1> DEFINE q == Append(d, b)
<1>1. None \notin D
  BY DEF Agree, IsTree
<1>2. TypeAt(B, d) = "dir"
  BY <1>1 DEF Lookup
<1>3. d \in DOMAIN B.at
  BY <1>2 DEF TypeAt
<1>4. d \in D /\ TypeAt(A, d) = "dir"
  BY <1>2, <1>3 DEF Agree
<1>5. CASE TypeAt(B, q) = "link"
  <2>1. q \in D /\ q \in DOMAIN B.at
    BY <1>5 DEF Agree, TypeAt
  <2>2. TypeAt(A, q) = "link" /\ Node(B, q).data = Node(A, q).data
    BY <1>5, <2>1 DEF Agree
  <2>3. Node(B, q).data \in Path
    BY <1>5, <2>1 DEF Agree, IsTree
  <2>4. Lookup(B, d, b, lB) = lB[Node(B, q).data] /\ Lookup(A, d, b, lA) = lA[Node(A, q).data]
    BY <1>2, <1>4, <1>5, <2>2 DEF Lookup
  <2> QED BY <1>4, <2>2, <2>3, <2>4 DEF LeadsAgree
<1>6. CASE TypeAt(B, q) # "link"
  <2>1. Lookup(B, d, b, lB) = q
    BY <1>2, <1>6 DEF Lookup
  <2>2. TypeAt(A, q) # "link"
    BY <1>6, <2>1 DEF Agree
  <2> QED BY <1>4, <2>1, <2>2 DEF Lookup
<1> QED BY <1>5, <1>6

LEMMA WalkAgrees ==
  ASSUME NEW B, NEW A, NEW D, Agree(B, A, D), NEW lB \in [Path -> Place], NEW lA \in [Path -> Place],
         LeadsAgree(lB, lA, D)
  PROVE  \A p \in Path : Walked(B, p, lB) \in D => Walked(A, p, lA) = Walked(B, p, lB)
<1> DEFINE Q == {p \in Path : Walked(B, p, lB) \in D => Walked(A, p, lA) = Walked(B, p, lB)}
<1>0. \A d, b : Lookup(B, d, b, lB) \in D => d \in D /\ Lookup(A, d, b, lA) = Lookup(B, d, b, lB)
  BY LookupAgrees
<1>1. IsTree(A) /\ IsTree(B)
  BY DEF Agree
<1>2. <<>> \in Q
  <2>1. <<>> \in Path
    BY DEF Path
  <2> QED BY <1>1, <2>1, WalkStep
<1>3. \A p \in Path, b \in STRING : p \in Q => Append(p, b) \in Q
  <2> TAKE p \in Path, b \in STRING
  <2> HAVE p \in Q
  <2>1. Append(p, b) \in Path
    BY PathSnoc
  <2>2. Walked(B, Append(p, b), lB) = Lookup(B, Walked(B, p, lB), b, lB)
    BY <1>1, WalkStep
  <2>3. Walked(A, Append(p, b), lA) = Lookup(A, Walked(A, p, lA), b, lA)
    BY <1>1, WalkStep
  <2>4. ASSUME Lookup(B, Walked(B, p, lB), b, lB) \in D
        PROVE  Walked(A, Append(p, b), lA) = Walked(B, Append(p, b), lB)
    <3>1. PICK d : d = Walked(B, p, lB)
      OBVIOUS
    <3>2. d \in D /\ Lookup(A, d, b, lA) = Lookup(B, d, b, lB)
      BY <1>0, <2>4, <3>1
    <3> QED BY <2>2, <2>3, <3>1, <3>2
  <2> QED BY <2>1, <2>2, <2>4
<1> HIDE DEF Q
<1>4. \A p \in Path : p \in Q
  BY <1>2, <1>3, SnocInduction, Zenon DEF Path
<1> QED BY <1>4 DEF Q

LEMMA FollowAgrees ==
  ASSUME NEW B, NEW A, NEW D, Agree(B, A, D)
  PROVE  \A p \in Path : Follow(B, p) \in D => Follow(A, p) = Follow(B, p)
<1>1. IsTree(A) /\ IsTree(B) /\ None \notin D
  BY DEF Agree, IsTree
<1>2. PICK lB : Leads(B, lB) /\ \A p \in Path : Follow(B, p) = lB[4][p]
  BY <1>1, FollowBy
<1>3. PICK lA : Leads(A, lA) /\ \A p \in Path : Follow(A, p) = lA[4][p]
  BY <1>1, FollowBy
<1> DEFINE S(n) == LeadsAgree(lB[n], lA[n], D)
<1>4. S(0)
  BY <1>1, <1>2 DEF Leads, LeadsAgree
<1>5. ASSUME NEW n \in 1 .. 4, S(n - 1) PROVE S(n)
  <2>1. n - 1 \in 0 .. 4
    OBVIOUS
  <2>2. lB[n - 1] \in [Path -> Place] /\ lA[n - 1] \in [Path -> Place]
    BY <1>2, <1>3, <2>1 DEF Leads
  <2>3. PICK mB, mA : mB = lB[n - 1] /\ mA = lA[n - 1]
    OBVIOUS
  <2>4. \A p \in Path : Walked(B, p, mB) \in D => Walked(A, p, mA) = Walked(B, p, mB)
    BY <1>5, <2>2, <2>3, WalkAgrees
  <2> QED BY <1>2, <1>3, <2>3, <2>4 DEF Leads, LeadsAgree
<1> HIDE DEF S
<1>6. S(1)
  BY <1>4, <1>5
<1>7. S(2)
  BY <1>5, <1>6
<1>8. S(3)
  BY <1>5, <1>7
<1>9. S(4)
  BY <1>5, <1>8
<1> QED BY <1>2, <1>3, <1>9 DEF S, LeadsAgree

\* What is there is found by its own path.
LEMMA OwnWalk ==
  ASSUME NEW fs, IsTree(fs), NEW leads \in [Path -> Place]
  PROVE  \A p \in DOMAIN fs.at : TypeAt(fs, p) # "link" => Walked(fs, p, leads) = p
<1> DEFINE Q == {p \in Path : (p \in DOMAIN fs.at /\ TypeAt(fs, p) # "link") => Walked(fs, p, leads) = p}
<1>1. <<>> \in Q
  BY WalkStep DEF Path
<1>2. \A p \in Path, b \in STRING : p \in Q => Append(p, b) \in Q
  <2> TAKE p \in Path, b \in STRING
  <2> HAVE p \in Q
  <2>1. PICK t : t = Append(p, b)
    OBVIOUS
  <2>2. t \in Path /\ t # <<>> /\ Front(t) = p
    BY <2>1, PathSnoc
  <2>3. Walked(fs, t, leads) = Lookup(fs, Walked(fs, p, leads), b, leads)
    BY <2>1, WalkStep
  <2>4. ASSUME t \in DOMAIN fs.at, TypeAt(fs, t) # "link" PROVE Walked(fs, t, leads) = t
    <3>1. TypeAt(fs, p) = "dir"
      BY <2>2, <2>4 DEF IsTree
    <3>2. p \in DOMAIN fs.at
      BY <3>1 DEF TypeAt
    <3>3. Walked(fs, p, leads) = p
      BY <3>1, <3>2
    <3> QED BY <2>1, <2>3, <2>4, <3>1, <3>3 DEF Lookup
  <2> QED BY <2>1, <2>2, <2>4
<1> HIDE DEF Q
<1>3. \A p \in Path : p \in Q
  BY <1>1, <1>2, SnocInduction, Zenon DEF Path
<1> QED BY <1>3 DEF Q, IsTree

LEMMA FollowFacts ==
  ASSUME NEW fs, IsTree(fs)
  PROVE  /\ Follow(fs, <<>>) = <<>>
         /\ \A p \in Path : Follow(fs, p) \in Place
         /\ \A p \in DOMAIN fs.at : TypeAt(fs, p) # "link" => Follow(fs, p) = p
<1>1. PICK leads : Leads(fs, leads) /\ \A p \in Path : Follow(fs, p) = leads[4][p]
  BY FollowBy
<1>2. PICK l : l = leads[3]
  OBVIOUS
<1>3. l \in [Path -> Place] /\ \A p \in Path : Follow(fs, p) = Walked(fs, p, l)
  BY <1>1, <1>2 DEF Leads
<1>4. <<>> \in Path /\ DOMAIN fs.at \subseteq Path
  BY DEF Path, IsTree
<1> QED BY <1>3, <1>4, WalkStep, OwnWalk

\* The entry of a path, and where the path leads when the entry is no link.
LEMMA EntryFacts ==
  ASSUME NEW fs, IsTree(fs), NEW p \in Path
  PROVE  /\ Entry(fs, p) \in Place
         /\ p = <<>> => Entry(fs, p) = <<>>
         /\ p # <<>> => Entry(fs, p) = IF TypeAt(fs, Follow(fs, Front(p))) # "dir" THEN None
                                       ELSE Append(Follow(fs, Front(p)), Last(p))
         /\ TypeAt(fs, Entry(fs, p)) # "link" => Follow(fs, p) = Entry(fs, p)
         /\ Entry(fs, p) # None => Entry(fs, p) \in Path
<1>1. CASE p = <<>>
  <2>1. Entry(fs, p) = <<>> /\ <<>> \in Path
    BY <1>1 DEF Entry, Path
  <2> QED BY <1>1, <2>1, FollowFacts DEF Place
<1>2. CASE p # <<>>
  <2>1. PICK s, b, d : s = Front(p) /\ b = Last(p) /\ d = Follow(fs, s)
    OBVIOUS
  <2>2. s \in Path /\ b \in STRING /\ Append(s, b) = p
    BY <1>2, <2>1, PathFront
  <2>3. d \in Place
    BY <2>1, <2>2, FollowFacts
  <2>4. PICK z : z = IF TypeAt(fs, d) # "dir" THEN None ELSE Append(d, b)
    OBVIOUS
  <2>5. Entry(fs, p) = IF TypeAt(fs, d) # "dir" THEN None ELSE Append(d, b)
    <3> DEFINE E == {IF TypeAt(fs, y) # "dir" THEN None ELSE Append(y, Last(p)) : y \in {Follow(fs, Front(p))}}
    <3>1. \A x : x \in E <=> x = z
      BY <2>1, <2>4
    <3>2. Entry(fs, p) = CHOOSE x \in E : TRUE
      BY <1>2 DEF Entry
    <3> HIDE DEF E
    <3> QED BY <2>4, <3>1, <3>2
  <2>6. TypeAt(fs, d) = "dir" => Append(d, b) \in Path
    <3> SUFFICES ASSUME TypeAt(fs, d) = "dir" PROVE Append(d, b) \in Path
      OBVIOUS
    <3>1. d \in Path
      BY DEF TypeAt, IsTree
    <3> QED BY <2>2, <3>1, PathSnoc
  <2>7. PICK leads : Leads(fs, leads) /\ \A q \in Path : Follow(fs, q) = leads[4][q]
    BY FollowBy
  <2>8. PICK l : l = leads[3]
    OBVIOUS
  <2>9. l \in [Path -> Place] /\ \A q \in Path : Follow(fs, q) = Walked(fs, q, l)
    BY <2>7, <2>8 DEF Leads
  <2>10. Follow(fs, p) = Lookup(fs, d, b, l)
    BY <2>1, <2>2, <2>9, WalkStep
  <2>11. TypeAt(fs, Entry(fs, p)) # "link" => Follow(fs, p) = Entry(fs, p)
    BY <2>5, <2>10 DEF Lookup
  <2> QED BY <1>2, <2>1, <2>5, <2>6, <2>11 DEF Place
<1> QED BY <1>1, <1>2

LEMMA EntryInDir ==
  ASSUME NEW fs, IsTree(fs), NEW p \in Path, p # <<>>, Entry(fs, p) # None
  PROVE  /\ Entry(fs, p) \in Path /\ Entry(fs, p) # <<>> /\ Last(Entry(fs, p)) = Last(p)
         /\ Front(Entry(fs, p)) = Follow(fs, Front(p)) /\ TypeAt(fs, Front(Entry(fs, p))) = "dir"
<1>1. PICK s, b, d : s = Front(p) /\ b = Last(p) /\ d = Follow(fs, s)
  OBVIOUS
<1>2. b \in STRING
  BY <1>1, PathFront
<1>3. TypeAt(fs, d) = "dir" /\ Entry(fs, p) = Append(d, b)
  BY <1>1, EntryFacts
<1>4. d \in Path
  BY <1>3 DEF TypeAt, IsTree
<1>5. Append(d, b) \in Path /\ Append(d, b) # <<>> /\ Front(Append(d, b)) = d /\ Last(Append(d, b)) = b
  BY <1>2, <1>4, PathSnoc
<1> QED BY <1>1, <1>3, <1>5

\* The path of what is there, and of what can be made, is its own entry.
LEMMA OwnEntry ==
  ASSUME NEW fs, IsTree(fs), NEW e \in Path, e = <<>> \/ TypeAt(fs, Front(e)) = "dir"
  PROVE  Entry(fs, e) = e
<1>1. CASE e = <<>>
  BY <1>1, EntryFacts
<1>2. CASE e # <<>>
  <2>1. PICK s, b : s = Front(e) /\ b = Last(e)
    OBVIOUS
  <2>2. Append(s, b) = e
    BY <1>2, <2>1, PathFront
  <2>3. TypeAt(fs, s) = "dir" /\ s \in DOMAIN fs.at
    BY <1>2, <2>1 DEF TypeAt
  <2>4. Follow(fs, s) = s
    BY <2>3, FollowFacts
  <2> QED BY <1>2, <2>1, <2>2, <2>3, <2>4, EntryFacts
<1> QED BY <1>1, <1>2

LEMMA EntryOfEntry ==
  ASSUME NEW fs, IsTree(fs), NEW p \in Path, Entry(fs, p) # None
  PROVE  Entry(fs, Entry(fs, p)) = Entry(fs, p)
<1>1. CASE p = <<>>
  BY <1>1, EntryFacts
<1>2. CASE p # <<>>
  <2>1. PICK e : e = Entry(fs, p)
    OBVIOUS
  <2>2. e \in Path /\ TypeAt(fs, Front(e)) = "dir"
    BY <1>2, <2>1, EntryInDir
  <2>3. Entry(fs, e) = e
    BY <2>2, OwnEntry
  <2> QED BY <2>1, <2>3
<1> QED BY <1>1, <1>2

LEMMA EntryThere ==
  ASSUME NEW fs, IsTree(fs), NEW p \in DOMAIN fs.at
  PROVE  Entry(fs, p) = p /\ p \in Path
<1>1. p \in Path /\ (p = <<>> \/ TypeAt(fs, Front(p)) = "dir")
  BY DEF IsTree
<1> QED BY <1>1, OwnEntry

LEMMA EntryAgrees ==
  ASSUME NEW B, NEW A, NEW D, Agree(B, A, D), NEW p \in Path, Entry(B, p) # None
  PROVE  Entry(A, p) = Entry(B, p)
<1>1. IsTree(A) /\ IsTree(B)
  BY DEF Agree
<1>2. CASE p = <<>>
  BY <1>1, <1>2, EntryFacts
<1>3. CASE p # <<>>
  <2>1. PICK s, d : s = Front(p) /\ d = Follow(B, s)
    OBVIOUS
  <2>2. s \in Path
    BY <1>3, <2>1, PathFront
  <2>3. TypeAt(B, d) = "dir"
    BY <1>1, <1>3, <2>1, EntryFacts
  <2>4. d \in D /\ TypeAt(A, d) = "dir"
    BY <2>3 DEF Agree, TypeAt
  <2>5. Follow(A, s) = d
    BY <2>1, <2>2, <2>4, FollowAgrees
  <2>6. Entry(B, p) = Append(d, Last(p))
    BY <1>1, <1>3, <2>1, <2>3, EntryFacts
  <2>7. Entry(A, p) = Append(d, Last(p))
    BY <1>1, <1>3, <2>1, <2>4, <2>5, EntryFacts
  <2> QED BY <2>6, <2>7
<1> QED BY <1>2, <1>3

-----------------------------------------------------------------------------
(* What the system calls make of a tree.                                     *)

\* One path begins with the other, name by name.
LEMMA PrefixIs ==
  ASSUME NEW B, NEW s \in Seq(B), NEW t \in Seq(B)
  PROVE  IsPrefix(s, t) <=> Len(s) <= Len(t) /\ \A i \in 1 .. Len(s) : s[i] = t[i]
<1>1. PICK n \in Nat, m \in Nat : n = Len(s) /\ m = Len(t)
  OBVIOUS
<1>2. ASSUME n <= m
      PROVE  SubSeq(s, 1, n) = SubSeq(t, 1, n) <=> \A i \in 1 .. n : s[i] = t[i]
  <2> DEFINE u == SubSeq(s, 1, n)
             v == SubSeq(t, 1, n)
  <2>1. u \in Seq(B) /\ Len(u) = n /\ \A i \in 1 .. n : u[i] = s[i]
    <3>1. \A i \in 1 .. n : s[i] \in B
      BY <1>1
    <3>2. u \in Seq(B) /\ (Len(u) = IF 1 <= n THEN n - 1 + 1 ELSE 0) /\ \A i \in 1 .. n - 1 + 1 : u[i] = s[1 + i - 1]
      BY <3>1, SubSeqProperties
    <3> QED BY <3>2
  <2>2. v \in Seq(B) /\ Len(v) = n /\ \A i \in 1 .. n : v[i] = t[i]
    <3>1. \A i \in 1 .. n : t[i] \in B
      BY <1>1, <1>2
    <3>2. v \in Seq(B) /\ (Len(v) = IF 1 <= n THEN n - 1 + 1 ELSE 0) /\ \A i \in 1 .. n - 1 + 1 : v[i] = t[1 + i - 1]
      BY <3>1, SubSeqProperties
    <3> QED BY <3>2
  <2> HIDE DEF u, v
  <2>3. (\A i \in 1 .. n : u[i] = v[i]) => u = v
    BY <2>1, <2>2, SeqEqual
  <2>4. u = v <=> \A i \in 1 .. n : s[i] = t[i]
    BY <2>1, <2>2, <2>3
  <2> QED BY <2>4 DEF u, v
<1> QED BY <1>1, <1>2 DEF IsPrefix

LEMMA PrefixFacts ==
  ASSUME NEW s \in Path, NEW t \in Path, NEW u \in Path
  PROVE  /\ IsPrefix(s, s) /\ IsPrefix(<<>>, s)
         /\ IsPrefix(s, t) /\ IsPrefix(t, u) => IsPrefix(s, u)
         /\ IsPrefix(s, t) /\ IsPrefix(t, s) => s = t
         /\ t # <<>> => IsPrefix(Front(t), t)
         /\ t # <<>> /\ IsPrefix(s, t) /\ s # t => IsPrefix(s, Front(t))
<1> DEFINE Is(x, y) == Len(x) <= Len(y) /\ \A i \in 1 .. Len(x) : x[i] = y[i]
<1>1. \A x \in Path, y \in Path : IsPrefix(x, y) <=> Is(x, y)
  BY PrefixIs DEF Path
<1>2. \A x \in Path : Len(x) \in Nat
  BY DEF Path
<1>3. <<>> \in Path
  BY DEF Path
<1>4. Is(s, t) /\ Is(t, u) => Is(s, u)
  BY <1>2
<1>5. Is(s, t) /\ Is(t, s) => s = t
  BY <1>2, SeqEqual DEF Path
<1>6. ASSUME t # <<>> PROVE Is(Front(t), t) /\ Front(t) \in Path /\ (Is(s, t) /\ s # t => Is(s, Front(t)))
  <2>1. PICK f, b : f = Front(t) /\ b = Last(t)
    OBVIOUS
  <2>2. f \in Path /\ b \in STRING /\ Append(f, b) = t /\ Len(f) = Len(t) - 1
    BY <1>6, <2>1, PathFront
  <2>3. \A i \in 1 .. Len(f) : t[i] = f[i]
    BY <2>2, PathSnoc
  <2>4. Is(s, t) /\ Len(s) = Len(t) => s = t
    BY <1>2, SeqEqual DEF Path
  <2>5. Is(s, t) /\ s # t => Len(s) <= Len(f)
    BY <1>2, <2>2, <2>4
  <2>6. Is(f, t) /\ (Is(s, t) /\ s # t => Is(s, f))
    BY <1>2, <2>2, <2>3, <2>5
  <2> QED BY <2>1, <2>2, <2>6
<1>7. Is(s, s) /\ Is(<<>>, s)
  BY <1>2
<1> HIDE DEF Is
<1>8. IsPrefix(s, s) /\ IsPrefix(<<>>, s)
  BY <1>1, <1>3, <1>7
<1>9. t # <<>> => IsPrefix(Front(t), t) /\ (IsPrefix(s, t) /\ s # t => IsPrefix(s, Front(t)))
  BY <1>1, <1>6
<1>10. IsPrefix(s, t) /\ IsPrefix(t, u) => IsPrefix(s, u)
  BY <1>1, <1>4
<1>11. IsPrefix(s, t) /\ IsPrefix(t, s) => s = t
  BY <1>1, <1>5
<1> QED BY <1>8, <1>9, <1>10, <1>11

\* What is below a path are the longer paths that begin with it.
LEMMA BelowIs ==
  ASSUME NEW fs, IsTree(fs), NEW p \in Path, NEW q \in DOMAIN fs.at
  PROVE  q \in Below(fs, p) <=> IsPrefix(p, q) /\ q # p
<1>1. q \in Path
  BY DEF IsTree
<1>2. Len(p) \in Nat /\ Len(q) \in Nat
  BY <1>1 DEF Path
<1>3. SubSeq(p, 1, Len(p)) = p
  BY SubSeqFull DEF Path
<1>4. IsPrefix(p, q) <=> Len(p) <= Len(q) /\ SubSeq(q, 1, Len(p)) = p
  BY <1>3 DEF IsPrefix
<1>5. IsPrefix(p, q) /\ Len(p) = Len(q) => p = q
  <2>1. SubSeq(q, 1, Len(q)) = q
    BY <1>1, SubSeqFull DEF Path
  <2> QED BY <1>4, <2>1
<1> QED BY <1>2, <1>4, <1>5 DEF Below

LEMMA WithoutIs ==
  ASSUME NEW fs, IsTree(fs), NEW X
  PROVE  LET w == Without(fs, X)
         IN  /\ DOMAIN w.at = DOMAIN fs.at \ X /\ \A p \in DOMAIN w.at : w.at[p] = fs.at[p]
             /\ w.node = fs.node /\ w.next = fs.next /\ w.dev = fs.dev /\ w.fixed = fs.fixed
             /\ w = [at |-> w.at, node |-> w.node, next |-> w.next, dev |-> w.dev, fixed |-> w.fixed,
                     unwritable |-> w.unwritable]
             /\ \A p \in DOMAIN fs.at \ X : TypeAt(w, p) = TypeAt(fs, p) /\ Node(w, p) = Node(fs, p)
<1> DEFINE a == [q \in DOMAIN fs.at \ X |-> fs.at[q]]
           w == Without(fs, X)
<1>1. w = [fs EXCEPT !.at = a]
  BY DEF Without
<1> HIDE DEF a
<1>2. w = [at |-> a, node |-> fs.node, next |-> fs.next, dev |-> fs.dev, fixed |-> fs.fixed, unwritable |-> fs.unwritable]
  BY <1>1 DEF IsTree
<1> HIDE DEF w
<1>3. w.at = a /\ w.node = fs.node /\ w.next = fs.next /\ w.dev = fs.dev /\ w.fixed = fs.fixed /\ w.unwritable = fs.unwritable
  BY <1>2
<1>4. DOMAIN a = DOMAIN fs.at \ X /\ \A p \in DOMAIN fs.at \ X : a[p] = fs.at[p]
  BY DEF a
<1>5. \A p \in DOMAIN fs.at \ X : TypeAt(w, p) = TypeAt(fs, p) /\ Node(w, p) = Node(fs, p)
  BY <1>3, <1>4 DEF TypeAt, Node
<1> QED BY <1>2, <1>3, <1>4, <1>5 DEF w

\* A part of a tree is a tree if it has the directory of everything in it.
LEMMA TreeWithout ==
  ASSUME NEW fs, IsTree(fs), NEW X, <<>> \notin X, \A p \in DOMAIN fs.at \ X : p = <<>> \/ Front(p) \notin X
  PROVE  IsTree(Without(fs, X))
<1>1. PICK w : w = Without(fs, X)
  OBVIOUS
<1>2. /\ DOMAIN w.at = DOMAIN fs.at \ X /\ \A p \in DOMAIN w.at : w.at[p] = fs.at[p]
      /\ w.node = fs.node /\ w.next = fs.next
      /\ w = [at |-> w.at, node |-> w.node, next |-> w.next, dev |-> w.dev, fixed |-> w.fixed,
              unwritable |-> w.unwritable]
      /\ \A p \in DOMAIN fs.at \ X : TypeAt(w, p) = TypeAt(fs, p) /\ Node(w, p) = Node(fs, p)
  BY <1>1, WithoutIs
<1>3. w.at \in [DOMAIN w.at -> DOMAIN w.node]
  <2>1. fs.at \in [DOMAIN fs.at -> DOMAIN fs.node]
    BY DEF IsTree
  <2>2. w.at = [p \in DOMAIN fs.at \ X |-> fs.at[p]]
    BY <1>1, <1>2 DEF Without, IsTree
  <2> QED BY <1>2, <2>1, <2>2
<1>4. IsFiniteSet(DOMAIN w.at)
  BY <1>2, FS_Subset DEF IsTree
<1>5. TypeAt(w, <<>>) = "dir"
  <2>1. TypeAt(fs, <<>>) = "dir"
    BY DEF IsTree
  <2>2. <<>> \in DOMAIN fs.at
    BY <2>1 DEF TypeAt
  <2> QED BY <1>2, <2>1, <2>2
<1>6. ASSUME NEW p \in DOMAIN w.at
      PROVE  /\ p # <<>> => TypeAt(w, Front(p)) = "dir"
             /\ TypeAt(w, p) = "link" => Node(w, p).data \in Path
             /\ TypeAt(w, p) # "none"
  <2>1. p \in DOMAIN fs.at /\ p \notin X
    BY <1>2
  <2>2. p # <<>> => TypeAt(fs, Front(p)) = "dir" /\ Front(p) \notin X
    BY <2>1 DEF IsTree
  <2>3. p # <<>> => Front(p) \in DOMAIN fs.at \ X
    BY <2>2 DEF TypeAt
  <2> QED BY <1>2, <2>1, <2>2, <2>3 DEF IsTree
<1>7. DOMAIN w.at \subseteq Path /\ None \notin DOMAIN w.at
  BY <1>2 DEF IsTree
<1>8. /\ w.node = [i \in DOMAIN w.node |-> w.node[i]] /\ w.next \in Int /\ \A i \in DOMAIN w.node : i \in Int /\ i < w.next
      /\ \A i \in DOMAIN w.node : w.node[i] = [type |-> w.node[i].type, data |-> w.node[i].data, mode |-> w.node[i].mode]
  BY <1>2 DEF IsTree
<1> QED BY <1>1, <1>2, <1>3, <1>4, <1>5, <1>6, <1>7, <1>8 DEF IsTree

\* One name gone, that is not a directory with something in it
LEMMA TreeWithoutOne ==
  ASSUME NEW fs, IsTree(fs), NEW e \in DOMAIN fs.at, e # <<>>, TypeAt(fs, e) # "dir" \/ Below(fs, e) = {}
  PROVE  IsTree(Without(fs, {e}))
<1>1. ASSUME NEW p \in DOMAIN fs.at, p # <<>>, Front(p) = e PROVE FALSE
  <2>1. TypeAt(fs, e) = "dir" /\ p \in Path /\ e \in Path
    BY <1>1 DEF IsTree
  <2>2. Len(Front(p)) = Len(p) - 1 /\ Len(p) > 0 /\ IsPrefix(Front(p), p)
    BY <1>1, <2>1, PathFront, PrefixFacts
  <2>3. e # p
    BY <1>1, <2>1, <2>2 DEF Path
  <2>4. p \in Below(fs, e)
    BY <1>1, <2>1, <2>2, <2>3, BelowIs
  <2> QED BY <2>1, <2>4
<1> QED BY <1>1, TreeWithout

\* What is left of a tree
Left(now, was) ==
  /\ IsTree(now) /\ IsTree(was) /\ DOMAIN now.at \subseteq DOMAIN was.at /\ now.node = was.node
  /\ \A p \in DOMAIN now.at : now.at[p] = was.at[p]

LEMMA LeftAgrees ==
  ASSUME NEW now, NEW was, Left(now, was)
  PROVE  /\ Agree(now, was, DOMAIN now.at)
         /\ \A p \in DOMAIN now.at : TypeAt(now, p) = TypeAt(was, p)
         /\ \A p \in Path : Entry(now, p) # None => Entry(was, p) = Entry(now, p)
<1>1. Agree(now, was, DOMAIN now.at)
  BY DEF Left, Agree, TypeAt, Node
<1>2. \A p \in Path : Entry(now, p) # None => Entry(was, p) = Entry(now, p)
  BY <1>1, EntryAgrees
<1> QED BY <1>1, <1>2 DEF Agree

\* unlink(2) and rmdir(2) take the entry of the path or nothing.
Taken(r, fs, e, type) ==
  \/ r.err # "" /\ r.fs = fs
  \/ r.err = "" /\ e \in DOMAIN fs.at /\ e # <<>> /\ r.fs = Without(fs, {e}) /\ IsTree(r.fs)
     /\ (TypeAt(fs, e) = "dir" <=> type = "dir")

LEMMA UnlinkTakes ==
  ASSUME NEW fs, IsTree(fs), NEW p \in Path
  PROVE  Taken(Unlink(fs, p), fs, Entry(fs, p), "file")
<1>1. PICK e : e = Entry(fs, p)
  OBVIOUS
<1>2. TypeAt(fs, <<>>) = "dir"
  BY DEF IsTree
<1>3. TypeAt(fs, e) \notin {"none", "dir"} => e \in DOMAIN fs.at /\ e # <<>> /\ IsTree(Without(fs, {e}))
  <2> SUFFICES ASSUME TypeAt(fs, e) \notin {"none", "dir"}
               PROVE  e \in DOMAIN fs.at /\ e # <<>> /\ IsTree(Without(fs, {e}))
    OBVIOUS
  <2>1. e \in DOMAIN fs.at /\ e # <<>>
    BY <1>2 DEF TypeAt
  <2> QED BY <2>1, TreeWithoutOne
<1>4. \A x : Ok(x).err = "" /\ Ok(x).fs = x
  BY DEF Ok
<1>5. \A x : Err(fs, x).err = x /\ Err(fs, x).fs = fs
  BY DEF Err
<1> QED BY <1>1, <1>3, <1>4, <1>5 DEF Unlink, Taken

LEMMA RmdirTakes ==
  ASSUME NEW fs, IsTree(fs), NEW p \in Path
  PROVE  /\ Taken(Rmdir(fs, p), fs, Entry(fs, p), "dir")
         /\ Rmdir(fs, p).err = "" => Below(fs, Entry(fs, p)) = {}
<1>1. PICK e : e = Entry(fs, p)
  OBVIOUS
<1>3. TypeAt(fs, e) = "dir" /\ e # <<>> /\ Below(fs, e) = {} => e \in DOMAIN fs.at /\ IsTree(Without(fs, {e}))
  <2> SUFFICES ASSUME TypeAt(fs, e) = "dir", e # <<>>, Below(fs, e) = {}
               PROVE  e \in DOMAIN fs.at /\ IsTree(Without(fs, {e}))
    OBVIOUS
  <2>1. e \in DOMAIN fs.at
    BY DEF TypeAt
  <2> QED BY <2>1, TreeWithoutOne
<1>4. \A x : Ok(x).err = "" /\ Ok(x).fs = x
  BY DEF Ok
<1>5. \A x : Err(fs, x).err = x /\ Err(fs, x).fs = fs
  BY DEF Err
<1>0. PICK r : r = Rmdir(fs, p)
  OBVIOUS
<1>6. \/ \E x \in {"ENOENT", "ENOTDIR", "EBUSY", "ENOTEMPTY", "EACCES"} : r = Err(fs, x)
      \/ TypeAt(fs, e) = "dir" /\ e # <<>> /\ Below(fs, e) = {} /\ r = Ok(Without(fs, {e}))
  BY <1>0, <1>1 DEF Rmdir
<1>7. CASE \E x \in {"ENOENT", "ENOTDIR", "EBUSY", "ENOTEMPTY", "EACCES"} : r = Err(fs, x)
  <2>1. r.err # "" /\ r.fs = fs
    <3>1. r.fs = fs
      BY <1>5, <1>7
    <3>2. r.err \in {"ENOENT", "ENOTDIR", "EBUSY", "ENOTEMPTY", "EACCES"}
      BY <1>5, <1>7
    <3>3. \A x \in {"ENOENT", "ENOTDIR", "EBUSY", "ENOTEMPTY", "EACCES"} : x # ""
      OBVIOUS
    <3> QED BY <3>1, <3>2, <3>3
  <2> QED BY <1>0, <1>1, <2>1 DEF Taken
<1>8. CASE TypeAt(fs, e) = "dir" /\ e # <<>> /\ Below(fs, e) = {} /\ r = Ok(Without(fs, {e}))
  <2>1. r.err = "" /\ r.fs = Without(fs, {e})
    BY <1>4, <1>8
  <2> QED BY <1>0, <1>1, <1>3, <1>8, <2>1 DEF Taken
<1> QED BY <1>6, <1>7, <1>8

LEMMA TakenLeft ==
  ASSUME NEW now, NEW was, Left(now, was), NEW r, NEW e, NEW type, Taken(r, now, e, type)
  PROVE  /\ Left(r.fs, was)
         /\ r.err = "" => DOMAIN r.fs.at = DOMAIN now.at \ {e} /\ e \in DOMAIN now.at
         /\ r.err # "" => r.fs = now
<1>1. CASE r.err # "" /\ r.fs = now
  BY <1>1
<1>2. CASE r.err = "" /\ e \in DOMAIN now.at /\ r.fs = Without(now, {e}) /\ IsTree(r.fs)
  <2>1. IsTree(now) /\ IsTree(was)
    BY DEF Left
  <2>2. PICK w : w = r.fs /\ w = Without(now, {e})
    BY <1>2
  <2>3. DOMAIN w.at = DOMAIN now.at \ {e} /\ (\A p \in DOMAIN w.at : w.at[p] = now.at[p]) /\ w.node = now.node
    BY <2>1, <2>2, WithoutIs
  <2>4. Left(w, was)
    BY <1>2, <2>2, <2>3 DEF Left
  <2> QED BY <1>2, <2>2, <2>3, <2>4
<1> QED BY <1>1, <1>2 DEF Taken

-----------------------------------------------------------------------------
(* rm.                                                                       *)

AllowedOf(j) == {Entry(j.fs, f) : f \in Operands(j)} \ {None}
\* The paths that are nowhere else than under an operand
Inside(j) == {p \in Path \ {<<>>} : Entry(j.fs, p) # None => \E a \in AllowedOf(j) : IsPrefix(a, Entry(j.fs, p))}
Visit(j) == [p : Inside(j), post : BOOLEAN]
Nobody == <<>>
Rm(fs, at, rval, walk) == [fs |-> fs, others |-> Nobody, at |-> at, rval |-> rval, walk |-> walk]

\* What is gone was under an operand, and so is what rm has still to visit.
RmFiles(j, fs) ==
  /\ Left(fs, j.fs)
  /\ \A p \in DOMAIN j.fs.at \ DOMAIN fs.at : \E a \in AllowedOf(j) : IsPrefix(a, p)
RmState(j, m, i) ==
  /\ m = Rm(m.fs, m.at, m.rval, m.walk)
  /\ RmFiles(j, m.fs) /\ i \in Seq(Operands(j)) /\ m.walk \in Seq(Visit(j))
  /\ m.at = "remove" => i # <<>>

LEMMA CheckedIs ==
  ASSUME NEW s \in Seq(Path), NEW G, G = {f \in Range(s) : ~Refused(f)}
  PROVE  Checked(s) \in Seq(G) /\ \A f \in G : f \in Range(Checked(s))
<1> DEFINE N == Len(s)
           D == Seq(G)
           F == [x \in D \X (1 .. N) |-> IF Refused(s[x[2]]) THEN x[1] ELSE Append(x[1], s[x[2]])]
           Body(h) == [i \in 0 .. Len(s) |-> IF i = 0 THEN <<>> ELSE IF Refused(s[i]) THEN h[i - 1] ELSE Append(h[i - 1], s[i])]
<1>1. N \in Nat /\ \A i \in 1 .. N : s[i] \in Path /\ s[i] \in Range(s)
  BY RangeOfSeq DEF Range
<1>2. F \in [D \X (1 .. N) -> D] /\ <<>> \in D
  <2>1. \A x \in D \X (1 .. N) : (IF Refused(s[x[2]]) THEN x[1] ELSE Append(x[1], s[x[2]])) \in D
    <3> TAKE x \in D \X (1 .. N)
    <3>1. x[1] \in D /\ x[2] \in 1 .. N
      OBVIOUS
    <3>2. ~Refused(s[x[2]]) => s[x[2]] \in G
      BY <1>1, <3>1
    <3> QED BY <3>1, <3>2
  <2> QED BY <2>1
<1>3. PICK g \in [0 .. N -> D] : g[0] = <<>> /\ \A n \in 1 .. N : g[n] = F[<<g[n - 1], n>>]
  <2> HIDE DEF D, F, N
  <2>1. Recurs(D, <<>>, N, F)
    BY <1>1, <1>2, Recursion, Zenon
  <2> QED BY <2>1 DEF Recurs
<1>4. \A n \in 1 .. N : g[n] = IF Refused(s[n]) THEN g[n - 1] ELSE Append(g[n - 1], s[n])
  <2> TAKE n \in 1 .. N
  <2>1. n - 1 \in 0 .. N /\ <<g[n - 1], n>> \in D \X (1 .. N)
    BY SMTT(30), <1>1, <1>3
  <2> QED BY <1>3, <2>1
<1>5. g = Body(g)
  <2>1. \A n \in 0 .. N : g[n] = Body(g)[n]
    <3> TAKE n \in 0 .. N
    <3>1. CASE n = 0
      BY <1>3, <3>1
    <3>2. CASE n \in 1 .. N
      <4>1. n # 0 /\ n \in 0 .. Len(s)
        BY <3>2
      <4> QED BY <1>4, <3>2, <4>1
    <3> QED BY <3>1, <3>2
  <2> QED BY <1>3, <2>1
<1> DEFINE kept == CHOOSE h : h = Body(h)
<1>6. kept = Body(kept)
  BY <1>5
<1>7. Checked(s) = kept[N]
  BY DEF Checked
<1> HIDE DEF kept
<1> DEFINE Good(n) == kept[n] \in D /\ \A i \in 1 .. n : s[i] \in G => s[i] \in Range(kept[n])
           S == {n \in Nat : n <= N => Good(n)}
<1>8. 0 \in S
  BY <1>2, <1>6
<1>9. ASSUME NEW n \in Nat, n \in S PROVE n + 1 \in S
  <2> SUFFICES ASSUME n + 1 <= N PROVE Good(n + 1)
    OBVIOUS
  <2>1. n + 1 \in 1 .. N /\ n + 1 \in 0 .. Len(s) /\ (n + 1) - 1 = n /\ n <= N /\ n + 1 # 0
    BY <1>1
  <2>2. Good(n)
    BY <1>9, <2>1
  <2>3. PICK u, v, x : u = kept[n] /\ v = kept[n + 1] /\ x = s[n + 1]
    OBVIOUS
  <2>4. v = IF Refused(x) THEN u ELSE Append(u, x)
    BY <1>6, <2>1, <2>3
  <2>5. x \in Range(s) /\ (x \in G <=> ~Refused(x))
    BY <1>1, <2>1, <2>3
  <2>6. u \in Seq(G) /\ \A i \in 1 .. n : s[i] \in G => s[i] \in Range(u)
    BY <2>2, <2>3
  <2>7. CASE Refused(x)
    <3>1. \A i \in 1 .. n + 1 : i \in 1 .. n \/ i = n + 1
      OBVIOUS
    <3> QED BY <2>3, <2>4, <2>5, <2>6, <2>7, <3>1
  <2>8. CASE ~Refused(x)
    <3>1. v \in Seq(G) /\ Range(v) = Range(u) \cup {x}
      <4>1. v = Append(u, x) /\ x \in G
        BY <2>4, <2>5, <2>8
      <4>2. Len(v) = Len(u) + 1 /\ v[Len(u) + 1] = x /\ (\A i \in 1 .. Len(u) : v[i] = u[i]) /\ v \in Seq(G)
        BY <2>6, <4>1
      <4>3. DOMAIN u = 1 .. Len(u) /\ DOMAIN v = 1 .. Len(u) + 1 /\ Len(u) \in Nat
        BY <2>6, <4>2
      <4>4. x \in Range(v) /\ \A y \in Range(u) : y \in Range(v)
        <5>1. Len(u) + 1 \in DOMAIN v /\ \A i \in 1 .. Len(u) : i \in DOMAIN v
          BY <4>3
        <5>2. x \in Range(v)
          BY <4>2, <5>1 DEF Range
        <5> QED BY <4>2, <4>3, <5>1, <5>2 DEF Range
      <4>5. \A y \in Range(v) : y = x \/ y \in Range(u)
        BY <4>2, <4>3 DEF Range
      <4> QED BY <4>2, <4>4, <4>5
    <3>2. \A i \in 1 .. n + 1 : i \in 1 .. n \/ i = n + 1
      OBVIOUS
    <3> QED BY <2>3, <2>6, <3>1, <3>2
  <2> QED BY <2>7, <2>8
<1>10. Good(N)
  <2> HIDE DEF Good
  <2>1. \A n \in Nat : n \in S
    <3> HIDE DEF S
    <3> QED BY <1>8, <1>9, SetInduction
  <2> QED BY <1>1, <2>1
<1>11. \A f \in G : \E i \in 1 .. N : f = s[i]
  BY RangeOfSeq DEF Range
<1> QED BY <1>7, <1>10, <1>11

LEMMA RmFilesTaken ==
  ASSUME NEW j, NEW fs, RmFiles(j, fs), NEW p \in Inside(j), NEW r,
         r = Unlink(fs, p) \/ r = Rmdir(fs, p)
  PROVE  RmFiles(j, r.fs)
<1>1. p \in Path /\ p # <<>> /\ (Entry(j.fs, p) # None => \E a \in AllowedOf(j) : IsPrefix(a, Entry(j.fs, p)))
  BY DEF Inside
<1>2. Left(fs, j.fs) /\ IsTree(fs) /\ IsTree(j.fs)
  BY DEF RmFiles, Left
<1>3. PICK e : e = Entry(fs, p)
  OBVIOUS
<1>4. Taken(r, fs, e, "file") \/ Taken(r, fs, e, "dir")
  BY <1>1, <1>2, <1>3, UnlinkTakes, RmdirTakes
<1>5. /\ Left(r.fs, j.fs)
      /\ r.err = "" => DOMAIN r.fs.at = DOMAIN fs.at \ {e} /\ e \in DOMAIN fs.at
      /\ r.err # "" => r.fs = fs
  BY <1>2, <1>4, TakenLeft
<1>6. e \in DOMAIN fs.at => e # None /\ e = Entry(j.fs, p)
  BY <1>1, <1>2, <1>3, LeftAgrees DEF IsTree
<1>7. \A q \in DOMAIN j.fs.at \ DOMAIN r.fs.at : q \notin DOMAIN fs.at \/ (r.err = "" /\ q = e)
  BY <1>5
<1>8. \A q \in DOMAIN j.fs.at \ DOMAIN r.fs.at : \E a \in AllowedOf(j) : IsPrefix(a, q)
  BY <1>1, <1>5, <1>6, <1>7 DEF RmFiles
<1> QED BY <1>5, <1>8 DEF RmFiles

LEMMA SetToSeqIs ==
  ASSUME NEW S, IsFiniteSet(S)
  PROVE  /\ SetToSeq(S) \in Seq(S) /\ Cardinality(S) \in Nat
         /\ SetToSeq(S) \in [1 .. Cardinality(S) -> S] /\ IsInjective(SetToSeq(S))
<1>1. PICK n \in Nat : ExistsBijection(1 .. n, S)
  BY FS_NatBijection
<1>2. Cardinality(S) = n
  BY <1>1, FS_CountingElements
<1>3. PICK f \in Bijection(1 .. n, S) : TRUE
  BY <1>1 DEF ExistsBijection
<1>4. f \in [1 .. n -> S] /\ IsInjective(f)
  BY <1>3 DEF Bijection, Injection, IsInjective
<1>5. SetToSeq(S) \in [1 .. n -> S] /\ IsInjective(SetToSeq(S))
  BY <1>2, <1>4 DEF SetToSeq
<1> QED BY <1>2, <1>5

\* What is in a directory that rm has to visit is inside as well.
LEMMA ChildrenInside ==
  ASSUME NEW j, j.files \in Seq(Path), NEW fs, RmFiles(j, fs), NEW p \in Inside(j), TypeAt(fs, Entry(fs, p)) = "dir"
  PROVE  /\ IsFiniteSet(Children(fs, Entry(fs, p)))
         /\ Children(fs, Entry(fs, p)) \subseteq Inside(j)
<1>1. p \in Path /\ (Entry(j.fs, p) # None => \E a \in AllowedOf(j) : IsPrefix(a, Entry(j.fs, p)))
  BY DEF Inside
<1>2. Left(fs, j.fs) /\ IsTree(fs) /\ IsTree(j.fs)
  BY DEF RmFiles, Left
<1>3. PICK e : e = Entry(fs, p)
  OBVIOUS
<1>4. Children(fs, e) \subseteq DOMAIN fs.at
  BY DEF Children, Below
<1>5. IsFiniteSet(Children(fs, e))
  BY <1>2, <1>4, FS_Subset DEF IsTree
<1>6. e \in DOMAIN fs.at /\ e \in Path /\ e # None
  BY <1>2, <1>3 DEF TypeAt, IsTree
<1>7. Entry(j.fs, p) = e
  BY <1>1, <1>2, <1>3, <1>6, LeftAgrees
<1>8. PICK a \in AllowedOf(j) : IsPrefix(a, e)
  BY <1>1, <1>6, <1>7
<1>9. a \in Path
  <2>1. PICK f \in Operands(j) : a = Entry(j.fs, f) /\ a # None
    BY DEF AllowedOf
  <2>2. f \in Path
    BY RangeOfSeq DEF Operands, Range
  <2> QED BY <1>2, <2>1, <2>2, EntryFacts
<1>10. ASSUME NEW q \in Children(fs, e) PROVE q \in Inside(j)
  <2>1. q \in DOMAIN fs.at /\ q \in DOMAIN j.fs.at /\ q \in Path
    BY <1>2, <1>4 DEF Left, IsTree
  <2>2. Entry(j.fs, q) = q
    BY <1>2, <2>1, EntryThere
  <2>3. q \in Below(fs, e)
    BY DEF Children
  <2>4. IsPrefix(e, q) /\ q # e
    BY <1>2, <1>6, <2>1, <2>3, BelowIs
  <2>5. IsPrefix(a, q)
    BY <1>6, <1>8, <1>9, <2>1, <2>4, PrefixFacts
  <2>6. q # <<>>
    <3>1. <<>> \in Path
      BY DEF Path
    <3>2. q = <<>> => IsPrefix(q, e)
      BY <1>6, PrefixFacts
    <3> QED BY <1>6, <2>1, <2>4, <3>2, PrefixFacts
  <2> QED BY <2>1, <2>2, <2>5, <2>6 DEF Inside
<1> QED BY <1>3, <1>5, <1>10

LEMMA RmFields ==
  ASSUME NEW fs, NEW at, NEW rval, NEW walk
  PROVE  LET m == Rm(fs, at, rval, walk)
         IN  /\ m.fs = fs /\ m.at = at /\ m.rval = rval /\ m.walk = walk /\ m.others = Nobody /\ m # <<>>
             /\ \A x : [m EXCEPT !.fs = x] = Rm(x, at, rval, walk)
             /\ \A x : [m EXCEPT !.at = x] = Rm(fs, x, rval, walk)
             /\ \A x : [m EXCEPT !.walk = x] = Rm(fs, at, rval, x)
             /\ Failed(m) = Rm(fs, at, 1, walk)
BY DEF Rm, Failed

LEMMA RmMakes ==
  ASSUME NEW j, NEW i, NEW fs, NEW at, NEW rval, NEW walk,
         RmFiles(j, fs), i \in Seq(Operands(j)), walk \in Seq(Visit(j)), at = "remove" => i # <<>>
  PROVE  RmState(j, Rm(fs, at, rval, walk), i)
BY RmFields DEF RmState

LEMMA RmSets ==
  ASSUME NEW m, NEW fs, NEW at, NEW rval, NEW walk, m = Rm(fs, at, rval, walk), NEW x
  PROVE  /\ [m EXCEPT !.fs = x] = Rm(x, at, rval, walk) /\ [m EXCEPT !.at = x] = Rm(fs, x, rval, walk)
         /\ [m EXCEPT !.walk = x] = Rm(fs, at, rval, x) /\ Failed(m) = Rm(fs, at, 1, walk)
BY DEF Rm, Failed

\* A call that fails changes nothing.
Harmless(r, fs) == r.err # "" => r.fs = fs
Passed(r) == r.err = "" \/ (job.f /\ r.err = "ENOENT")
Answer(r, rval) == IF Passed(r) THEN rval ELSE 1

\* What a removal leaves, noticed or not
LEMMA GoneIs ==
  ASSUME NEW r, NEW fs, NEW at, NEW rval, NEW walk, Harmless(r, fs)
  PROVE  Gone(r, Rm(fs, at, rval, walk))
           = Rm(r.fs, at, Answer(r, rval), walk)
<1>1. PICK m : m = Rm(fs, at, rval, walk)
  OBVIOUS
<1>2. [m EXCEPT !.fs = r.fs] = Rm(r.fs, at, rval, walk) /\ Failed(m) = Rm(fs, at, 1, walk)
  <2>1. PICK x : x = r.fs
    OBVIOUS
  <2>2. [m EXCEPT !.fs = x] = Rm(x, at, rval, walk) /\ Failed(m) = Rm(fs, at, 1, walk)
    BY <1>1 DEF Rm, Failed
  <2> QED BY <2>1, <2>2
<1>3. CASE Passed(r)
  <2>1. Gone(r, m) = [m EXCEPT !.fs = r.fs]
    BY <1>3 DEF Gone, Passed
  <2> QED BY <1>1, <1>2, <1>3, <2>1 DEF Answer
<1>4. CASE ~Passed(r)
  <2>1. Gone(r, m) = Failed(m)
    BY <1>4 DEF Gone, Passed
  <2>2. r.fs = fs
    BY <1>4 DEF Harmless, Passed
  <2> QED BY <1>1, <1>2, <1>4, <2>1, <2>2 DEF Answer
<1> QED BY <1>3, <1>4

LEMMA GoneSome ==
  ASSUME NEW r, NEW fs, NEW at, NEW rval, NEW walk, NEW m, m = Rm(fs, at, rval, walk), Harmless(r, fs)
  PROVE  \E v : Gone(r, m) = Rm(r.fs, at, v, walk)
<1>1. PICK v : v = Answer(r, rval)
  OBVIOUS
<1>2. Gone(r, Rm(fs, at, rval, walk))
        = Rm(r.fs, at, Answer(r, rval), walk)
  BY GoneIs
<1>3. Gone(r, m) = Rm(r.fs, at, v, walk)
  BY <1>1, <1>2, Zenon
<1> QED BY <1>3, Zenon

LEMMA RmTakes ==
  ASSUME NEW j, NEW fs, RmFiles(j, fs), NEW p \in Inside(j), NEW r, r = Unlink(fs, p) \/ r = Rmdir(fs, p)
  PROVE  /\ RmFiles(j, r.fs) /\ Harmless(r, fs) /\ DOMAIN r.fs.at \subseteq DOMAIN fs.at
         /\ r.err = "" => Entry(j.fs, p) \notin DOMAIN r.fs.at
         /\ r.err = "ENOENT" => TypeAt(fs, Entry(fs, p)) = "none"
<1>1. p \in Path /\ p # <<>>
  BY DEF Inside
<1>2. Left(fs, j.fs) /\ IsTree(fs) /\ IsTree(j.fs)
  BY DEF RmFiles, Left
<1>3. PICK e : e = Entry(fs, p)
  OBVIOUS
<1>4. Taken(r, fs, e, "file") \/ Taken(r, fs, e, "dir")
  BY <1>1, <1>2, <1>3, UnlinkTakes, RmdirTakes
<1>5. /\ r.err = "" => DOMAIN r.fs.at = DOMAIN fs.at \ {e} /\ e \in DOMAIN fs.at
      /\ r.err # "" => r.fs = fs
  BY <1>2, <1>4, TakenLeft
<1>6. e \in DOMAIN fs.at => e # None /\ e = Entry(j.fs, p)
  BY <1>1, <1>2, <1>3, LeftAgrees DEF IsTree
<1>7. r.err = "ENOENT" => TypeAt(fs, e) = "none"
  <2>1. Unlink(fs, p).err = "ENOENT" => TypeAt(fs, e) = "none"
    BY <1>3 DEF Unlink, Ok, Err
  <2>2. Rmdir(fs, p).err = "ENOENT" => TypeAt(fs, e) = "none"
    BY <1>3 DEF Rmdir, Ok, Err
  <2> QED BY <2>1, <2>2
<1> QED BY <1>3, <1>5, <1>6, <1>7, RmFilesTaken DEF Harmless

LEMMA OperandsInside ==
  ASSUME NEW j, IsJob(j)
  PROVE  Operands(j) \subseteq Inside(j)
<1> SUFFICES ASSUME NEW f \in Operands(j) PROVE f \in Inside(j)
  OBVIOUS
<1>1. f \in Path /\ f # <<>>
  <2>1. f \in Range(j.files) /\ ~Refused(f)
    BY DEF Operands
  <2> QED BY <2>1, RangeOfSeq DEF Range, IsJob, Refused
<1>2. PICK e : e = Entry(j.fs, f)
  OBVIOUS
<1>3. e # None => e \in AllowedOf(j) /\ e \in Path
  BY <1>1, <1>2, EntryFacts DEF AllowedOf, IsJob
<1>4. e # None => IsPrefix(e, e)
  BY <1>3, PrefixFacts
<1> QED BY <1>1, <1>2, <1>3, <1>4 DEF Inside

LEMMA NotThere ==
  ASSUME NEW j, IsJob(j), Straight(j), j.f, NEW fs, RmFiles(j, fs), NEW f \in Operands(j),
         TypeAt(fs, Entry(fs, f)) = "none"
  PROVE  Entry(j.fs, f) \notin DOMAIN fs.at
<1>1. IsTree(fs)
  BY DEF RmFiles, Left
<1>2. Entry(j.fs, f) \in {None, f}
  BY DEF Straight
<1>3. None \notin DOMAIN fs.at
  BY <1>1 DEF IsTree
<1>4. ASSUME f \in DOMAIN fs.at PROVE FALSE
  <2>1. Entry(fs, f) = f /\ TypeAt(fs, f) # "none"
    BY <1>1, <1>4, EntryThere DEF IsTree
  <2> QED BY <2>1
<1> QED BY <1>2, <1>3, <1>4

LEMMA GoneFor ==
  ASSUME NEW j, IsJob(j), Straight(j), NEW fs, RmFiles(j, fs), NEW f \in Operands(j),
         NEW r, r = Unlink(fs, f) \/ r = Rmdir(fs, f), r.err = "" \/ (j.f /\ r.err = "ENOENT")
  PROVE  Entry(j.fs, f) \notin DOMAIN r.fs.at
<1>1. f \in Inside(j)
  BY OperandsInside
<1>2. /\ r.err = "" => Entry(j.fs, f) \notin DOMAIN r.fs.at
      /\ r.err = "ENOENT" => TypeAt(fs, Entry(fs, f)) = "none"
      /\ DOMAIN r.fs.at \subseteq DOMAIN fs.at
  BY <1>1, RmTakes
<1>3. CASE r.err = ""
  BY <1>2, <1>3
<1>4. CASE j.f /\ r.err = "ENOENT"
  BY <1>2, <1>4, NotThere
<1> QED BY <1>3, <1>4

-----------------------------------------------------------------------------
(* The steps of rm.                                                          *)

LEMMA RmFileDoes ==
  ASSUME NEW fs, NEW at, NEW rval, NEW walk, mem = Rm(fs, at, rval, walk), RmFile
  PROVE  /\ inp # <<>>
         /\ \/ mem' = Rm(fs, "next", 1, walk) /\ inp' = Tail(inp)
            \/ /\ mem' = Rm(fs, "next", rval, walk) /\ inp' = Tail(inp)
               /\ job.i \/ job.tty \/ (job.f /\ TypeAt(fs, Entry(fs, Head(inp))) = "none")
            \/ mem' = Rm(fs, "remove", rval, walk) /\ inp' = inp
<1>1. PICK none, dir : none = (Lstat(mem.fs, Head(inp)) = "none") /\ dir = (Lstat(mem.fs, Head(inp)) = "dir" /\ ~job.d)
  OBVIOUS
<1>2. mem.fs = fs /\ Failed(mem) = Rm(fs, at, 1, walk) /\ [mem EXCEPT !.at = "remove"] = Rm(fs, "remove", rval, walk)
      /\ [mem EXCEPT !.at = "next"] = Rm(fs, "next", rval, walk)
  BY DEF Rm, Failed
<1>3. [Failed(mem) EXCEPT !.at = "next"] = Rm(fs, "next", 1, walk)
  BY <1>2 DEF Rm
<1>4. Asked(Head(inp)) => job.i \/ job.tty
  BY DEF Asked
<1>5. \/ DoneWith(Failed(mem))
      \/ DoneWith(mem) /\ job.f /\ Lstat(mem.fs, Head(inp)) = "none"
      \/ DoneWith(mem) /\ Asked(Head(inp))
      \/ Goes(mem, "remove") /\ inp' = inp
  BY DEF RmFile
<1>6. inp # <<>>
  BY DEF RmFile
<1> QED BY <1>2, <1>3, <1>4, <1>5, <1>6 DEF DoneWith, Goes, Lstat

LEMMA RmRemoveDoes ==
  ASSUME NEW fs, NEW at, NEW rval, NEW walk, mem = Rm(fs, at, rval, walk), RmRemove
  PROVE  \E r : /\ r = Unlink(fs, Head(inp)) \/ r = Rmdir(fs, Head(inp))
                /\ mem' = [Gone(r, mem) EXCEPT !.at = "next"] /\ inp' = Tail(inp) /\ at = "remove"
<1>1. mem.fs = fs /\ mem.at = at
  BY DEF Rm
<1>2. DoneWith(Gone(RemovedEntry(Head(inp)), mem)) /\ mem.at = "remove"
  BY DEF RmRemove, At
<1>3. RemovedEntry(Head(inp)) = Unlink(fs, Head(inp)) \/ RemovedEntry(Head(inp)) = Rmdir(fs, Head(inp))
  BY <1>1 DEF RemovedEntry
<1> QED BY <1>1, <1>2, <1>3 DEF DoneWith

\* The visit in hand, and the visits after it
Fresh(walk) == walk = <<>>
InHand(walk, i) == IF Fresh(walk) THEN [p |-> Head(i), post |-> FALSE] ELSE Head(walk)
Rest(walk) == IF Fresh(walk) THEN <<>> ELSE Tail(walk)
Visits(kids) == [n \in DOMAIN kids |-> [p |-> kids[n], post |-> FALSE]]
Entered(fs, p, rest) == Visits(SetToSeq(Children(fs, Entry(fs, p)))) \o <<[p |-> p, post |-> TRUE]>> \o rest

LEMMA RmWalkDoes ==
  ASSUME NEW fs, NEW at, NEW rval, NEW walk, mem = Rm(fs, at, rval, walk), RmWalk
  PROVE  LET e == InHand(walk, inp)
             rest == Rest(walk)
         IN  /\ inp # <<>> \/ walk # <<>>
             /\ inp' = IF Fresh(walk) THEN Tail(inp) ELSE inp
             /\ at = "next"
             /\ \/ e.post /\ mem' = Gone(Rmdir(fs, e.p), Rm(fs, at, rval, rest))
                \/ ~e.post /\ mem' = Rm(fs, at, 1, rest)
                \/ ~e.post /\ mem' = Rm(fs, at, rval, rest)
                   /\ (job.i \/ job.tty \/ (job.f /\ TypeAt(fs, Entry(fs, e.p)) = "none"))
                \/ ~e.post /\ TypeAt(fs, Entry(fs, e.p)) = "dir" /\ mem' = Rm(fs, at, rval, Entered(fs, e.p, rest))
                \/ ~e.post /\ mem' = Gone(Unlink(fs, e.p), Rm(fs, at, rval, rest))
<1>1. PICK e, rest, kids, R : /\ e = InHand(walk, inp) /\ rest = Rest(walk) /\ R = Rm(fs, at, rval, rest)
                              /\ kids = SetToSeq(Children(fs, Entry(fs, e.p)))
  OBVIOUS
<1>2. mem.fs = fs /\ mem.walk = walk /\ mem.at = at
  BY DEF Rm
<1>3. PICK p, post : p = e.p /\ post = e.post
  OBVIOUS
<1>4. RmVisit = e
  BY <1>1, <1>2 DEF RmVisit, InHand, Fresh
<1>5. RmRest = R
  <2>1. (IF mem.walk = <<>> THEN <<>> ELSE Tail(mem.walk)) = rest
    BY <1>1, <1>2 DEF Rest, Fresh
  <2>2. [mem EXCEPT !.walk = rest] = R
    BY <1>1 DEF Rm
  <2> QED BY <2>1, <2>2 DEF RmRest
<1>6. Failed(R) = Rm(fs, at, 1, rest)
  BY <1>1 DEF Rm, Failed
<1>7. RmInto(p) = Rm(fs, at, rval, Entered(fs, p, rest))
  <2>1. PICK v : v = Visits(kids) \o <<[p |-> p, post |-> TRUE]>> \o rest
    OBVIOUS
  <2>2. v = Entered(fs, p, rest)
    BY <1>1, <1>3, <2>1 DEF Entered
  <2>3. RmInto(p) = [R EXCEPT !.walk = Visits(kids) \o <<[p |-> p, post |-> TRUE]>> \o R.walk]
    BY <1>1, <1>2, <1>3, <1>5 DEF RmInto, Visits
  <2>4. R.walk = rest
    BY <1>1 DEF Rm
  <2>5. [R EXCEPT !.walk = v] = Rm(fs, at, rval, v)
    BY <1>1 DEF Rm
  <2> QED BY <2>1, <2>2, <2>3, <2>4, <2>5
<1>8. Asked(p) => job.i \/ job.tty
  BY DEF Asked
<1>9. PICK T : T = TypeAt(fs, Entry(fs, p))
  OBVIOUS
<1>10. /\ inp # <<>> \/ mem.walk # <<>>
       /\ inp' = IF mem.walk = <<>> THEN Tail(inp) ELSE inp
       /\ mem.at = "next"
       /\ \/ RmVisit.post /\ mem' = Gone(Rmdir(mem.fs, RmVisit.p), RmRest)
          \/ ~RmVisit.post /\ Lstat(mem.fs, RmVisit.p) = "none" /\ mem' = IF job.f THEN RmRest ELSE Failed(RmRest)
          \/ ~RmVisit.post /\ Asked(RmVisit.p) /\ mem' = RmRest
          \/ ~RmVisit.post /\ Lstat(mem.fs, RmVisit.p) = "dir" /\ mem' = RmInto(RmVisit.p)
          \/ ~RmVisit.post /\ mem' = Gone(Unlink(mem.fs, RmVisit.p), RmRest)
  BY DEF RmWalk, At
<1>11. /\ inp # <<>> \/ walk # <<>>
       /\ inp' = IF walk = <<>> THEN Tail(inp) ELSE inp
       /\ at = "next"
       /\ \/ post /\ mem' = Gone(Rmdir(fs, p), R)
          \/ ~post /\ T = "none" /\ mem' = IF job.f THEN R ELSE Failed(R)
          \/ ~post /\ Asked(p) /\ mem' = R
          \/ ~post /\ T = "dir" /\ mem' = RmInto(p)
          \/ ~post /\ mem' = Gone(Unlink(fs, p), R)
  BY <1>2, <1>3, <1>4, <1>5, <1>9, <1>10 DEF Lstat
<1>12. \/ post /\ mem' = Gone(Rmdir(fs, p), R)
       \/ ~post /\ mem' = Rm(fs, at, 1, rest)
       \/ ~post /\ mem' = R /\ (job.i \/ job.tty \/ (job.f /\ T = "none"))
       \/ ~post /\ T = "dir" /\ mem' = Rm(fs, at, rval, Entered(fs, p, rest))
       \/ ~post /\ mem' = Gone(Unlink(fs, p), R)
  BY <1>6, <1>7, <1>8, <1>11
<1> QED BY <1>1, <1>3, <1>9, <1>11, <1>12 DEF Fresh

-----------------------------------------------------------------------------
(* rm takes nothing but what is under its operands.                          *)

LEMMA VisitsIn ==
  ASSUME NEW j, IsJob(j), NEW fs, RmFiles(j, fs), NEW p \in Inside(j), TypeAt(fs, Entry(fs, p)) = "dir",
         NEW rest \in Seq(Visit(j))
  PROVE  /\ Entered(fs, p, rest) \in Seq(Visit(j)) /\ Entered(fs, p, rest) # <<>>
         /\ rest = <<>> => Last(Entered(fs, p, rest)) = [p |-> p, post |-> TRUE]
         /\ rest # <<>> => Last(Entered(fs, p, rest)) = Last(rest)
<1>1. PICK kids : kids = SetToSeq(Children(fs, Entry(fs, p)))
  OBVIOUS
<1>2. kids \in Seq(Inside(j))
  <2>1. PICK C : C = Children(fs, Entry(fs, p))
    OBVIOUS
  <2>2. IsFiniteSet(C) /\ C \subseteq Inside(j)
    BY <2>1, ChildrenInside DEF IsJob
  <2>3. kids \in Seq(C)
    BY <1>1, <2>1, <2>2, SetToSeqIs
  <2> QED BY <2>2, <2>3
<1>3. PICK V : V = Visit(j)
  OBVIOUS
<1>4. PICK k, t, r : k = Visits(kids) /\ t = [p |-> p, post |-> TRUE] /\ r = rest
  OBVIOUS
<1>5. k \in Seq(V) /\ t \in V /\ r \in Seq(V)
  <2>1. k \in Seq(V)
    <3>1. Len(kids) \in Nat /\ DOMAIN kids = 1 .. Len(kids) /\ \A n \in 1 .. Len(kids) : kids[n] \in Inside(j)
      BY <1>2
    <3>2. k = [n \in 1 .. Len(kids) |-> [p |-> kids[n], post |-> FALSE]]
      BY <1>4, <3>1 DEF Visits
    <3>3. \A n \in 1 .. Len(kids) : [p |-> kids[n], post |-> FALSE] \in V
      BY <1>3, <3>1 DEF Visit
    <3> QED BY <3>1, <3>2, <3>3
  <2>2. t \in V
    BY <1>3, <1>4 DEF Visit
  <2> QED BY <1>3, <1>4, <2>1, <2>2
<1>6. Entered(fs, p, rest) = k \o <<t>> \o r
  BY <1>1, <1>4 DEF Entered
<1>7. PICK n \in Nat, m \in Nat : n = Len(k) /\ m = Len(r)
  BY <1>5
<1>8. PICK s : s = k \o <<t>> \o r
  OBVIOUS
<1>9. s \in Seq(V) /\ Len(s) = n + 1 + m /\ s[n + 1] = t /\ \A i \in 1 .. m : s[n + 1 + i] = r[i]
  <2>1. PICK u : u = k \o <<t>>
    OBVIOUS
  <2>2. u \in Seq(V) /\ Len(u) = n + 1 /\ u[n + 1] = t
    BY <1>5, <1>7, <2>1
  <2>3. s = u \o r
    BY <1>8, <2>1
  <2>4. /\ u \o r \in Seq(V) /\ Len(u \o r) = Len(u) + Len(r)
        /\ \A i \in 1 .. Len(u) + Len(r) : (u \o r)[i] = IF i <= Len(u) THEN u[i] ELSE r[i - Len(u)]
    BY <1>5, <2>2, ConcatProperties, Zenon
  <2>5. s \in Seq(V) /\ Len(s) = n + 1 + m
    BY <1>7, <2>2, <2>3, <2>4
  <2>6. \A i \in 1 .. n + 1 + m : s[i] = IF i <= n + 1 THEN u[i] ELSE r[i - (n + 1)]
    BY <1>7, <2>2, <2>3, <2>4
  <2>7. \A i \in 1 .. m : n + 1 + i \in 1 .. n + 1 + m /\ ~(n + 1 + i <= n + 1) /\ (n + 1 + i) - (n + 1) = i
    BY <1>7
  <2>8. \A i \in 1 .. m : s[n + 1 + i] = r[i]
    BY <2>6, <2>7
  <2>9. s[n + 1] = u[n + 1]
    BY <1>7, <2>6
  <2> QED BY <2>2, <2>5, <2>8, <2>9
<1>10. s # <<>>
  BY <1>7, <1>9
<1>11. Last(s) = IF r = <<>> THEN t ELSE Last(r)
  <2>1. CASE r = <<>>
    <3>1. m = 0
      BY <1>7, <2>1
    <3>2. Len(s) = n + 1
      BY <1>7, <1>9, <3>1
    <3> QED BY <1>9, <2>1, <3>2 DEF Last
  <2>2. CASE r # <<>>
    <3>1. m \in 1 .. m
      BY <1>5, <1>7, <2>2
    <3>2. s[n + 1 + m] = r[m]
      BY <1>9, <3>1
    <3> QED BY <1>7, <1>9, <2>2, <3>2 DEF Last
  <2> QED BY <2>1, <2>2
<1> QED BY <1>3, <1>4, <1>6, <1>8, <1>9, <1>10, <1>11

LEMMA HeadTail ==
  ASSUME NEW B, NEW s \in Seq(B), s # <<>>
  PROVE  /\ Head(s) \in B /\ Tail(s) \in Seq(B) /\ Head(s) \in Range(s)
         /\ \A x \in Range(s) : x = Head(s) \/ x \in Range(Tail(s))
         /\ Tail(s) # <<>> => Last(Tail(s)) = Last(s)
         /\ Tail(s) = <<>> => Last(s) = Head(s)
<1>1. PICK n \in Nat : n = Len(s) /\ n > 0
  OBVIOUS
<1>2. PICK h, t : h = Head(s) /\ t = Tail(s)
  OBVIOUS
<1>3. h \in B /\ t \in Seq(B) /\ Len(t) = n - 1 /\ h = s[1] /\ \A i \in 1 .. n - 1 : t[i] = s[i + 1]
  BY <1>1, <1>2
<1>4. DOMAIN s = 1 .. n /\ DOMAIN t = 1 .. n - 1
  BY <1>1, <1>3
<1>5. h \in Range(s)
  BY <1>1, <1>3, <1>4 DEF Range
<1>6. ASSUME NEW x \in Range(s) PROVE x = h \/ x \in Range(t)
  <2>1. PICK i \in 1 .. n : x = s[i]
    BY <1>4 DEF Range
  <2>2. CASE i = 1
    BY <1>3, <2>1, <2>2
  <2>3. CASE i # 1
    <3>1. i - 1 \in 1 .. n - 1 /\ (i - 1) + 1 = i
      BY <2>3
    <3>2. t[i - 1] = x
      BY <1>3, <2>1, <3>1
    <3> QED BY <1>4, <3>1, <3>2 DEF Range
  <2> QED BY <2>2, <2>3
<1>7. t # <<>> => Last(t) = Last(s)
  <2>0. t # <<>> => Len(t) > 0
    BY <1>3
  <2>1. t # <<>> => n - 1 \in 1 .. n - 1 /\ (n - 1) + 1 = n
    BY <1>1, <1>3, <2>0
  <2> QED BY <1>1, <1>3, <2>1 DEF Last
<1>8. t = <<>> => Last(s) = h
  <2>1. PICK k \in Int : k = Len(t)
    BY <1>3
  <2>2. t = <<>> => k = 0
    BY <2>1
  <2>3. k = n - 1
    BY <1>3, <2>1
  <2>4. k = 0 /\ k = n - 1 => n = 1
    OBVIOUS
  <2> QED BY <1>1, <1>3, <2>2, <2>3, <2>4 DEF Last
<1> QED BY <1>2, <1>3, <1>5, <1>6, <1>7, <1>8

LEMMA RmStateIs ==
  ASSUME NEW j, NEW m, NEW i, RmState(j, m, i)
  PROVE  \E fs, at, rval, walk :
           /\ m = Rm(fs, at, rval, walk) /\ RmFiles(j, fs) /\ i \in Seq(Operands(j)) /\ walk \in Seq(Visit(j))
           /\ at = "remove" => i # <<>>
BY DEF RmState

LEMMA RmFileKeeps ==
  ASSUME IsJob(job), RmState(job, mem, inp), RmFile
  PROVE  RmState(job, mem', inp')
<1>1. PICK fs, at, rval, walk :
           /\ mem = Rm(fs, at, rval, walk) /\ RmFiles(job, fs) /\ inp \in Seq(Operands(job)) /\ walk \in Seq(Visit(job))
  BY RmStateIs
<1>2. inp # <<>> /\ (\/ mem' = Rm(fs, "next", 1, walk) /\ inp' = Tail(inp)
                     \/ mem' = Rm(fs, "next", rval, walk) /\ inp' = Tail(inp)
                     \/ mem' = Rm(fs, "remove", rval, walk) /\ inp' = inp)
  BY <1>1, RmFileDoes
<1>3. Tail(inp) \in Seq(Operands(job))
  BY <1>1, <1>2, HeadTail
<1> QED BY <1>1, <1>2, <1>3, RmMakes

LEMMA RmRemoveKeeps ==
  ASSUME IsJob(job), RmState(job, mem, inp), RmRemove
  PROVE  RmState(job, mem', inp')
<1>1. PICK fs, at, rval, walk :
           /\ mem = Rm(fs, at, rval, walk) /\ RmFiles(job, fs) /\ inp \in Seq(Operands(job)) /\ walk \in Seq(Visit(job))
           /\ at = "remove" => inp # <<>>
  BY RmStateIs
<1>2. PICK r : /\ r = Unlink(fs, Head(inp)) \/ r = Rmdir(fs, Head(inp))
               /\ mem' = [Gone(r, mem) EXCEPT !.at = "next"] /\ inp' = Tail(inp) /\ at = "remove"
  BY <1>1, RmRemoveDoes
<1>3. Tail(inp) \in Seq(Operands(job)) /\ Head(inp) \in Operands(job)
  BY <1>1, <1>2, HeadTail
<1>4. Head(inp) \in Inside(job)
  BY <1>3, OperandsInside
<1>5. RmFiles(job, r.fs) /\ Harmless(r, fs)
  BY <1>1, <1>2, <1>4, RmTakes
<1>6. PICK v : Gone(r, mem) = Rm(r.fs, at, v, walk)
  BY <1>1, <1>5, GoneSome
<1>7. mem' = Rm(r.fs, "next", v, walk)
  BY <1>2, <1>6, RmFields
<1>8. PICK x : x = r.fs
  OBVIOUS
<1>9. RmFiles(job, x) /\ mem' = Rm(x, "next", v, walk) /\ "next" # "remove"
  BY <1>5, <1>7, <1>8
<1>10. PICK i : i = inp' /\ i \in Seq(Operands(job))
  BY <1>2, <1>3
<1>11. RmState(job, Rm(x, "next", v, walk), i)
  BY <1>1, <1>9, <1>10, RmMakes
<1> QED BY <1>9, <1>10, <1>11

LEMMA RmWalkKeeps ==
  ASSUME IsJob(job), RmState(job, mem, inp), RmWalk
  PROVE  RmState(job, mem', inp')
<1>1. PICK fs, at, rval, walk :
           /\ mem = Rm(fs, at, rval, walk) /\ RmFiles(job, fs) /\ inp \in Seq(Operands(job)) /\ walk \in Seq(Visit(job))
  BY RmStateIs
<1>2. PICK e, rest : e = InHand(walk, inp) /\ rest = Rest(walk)
  OBVIOUS
<1>3. /\ inp # <<>> \/ walk # <<>>
      /\ inp' = IF Fresh(walk) THEN Tail(inp) ELSE inp
      /\ at = "next"
      /\ \/ mem' = Gone(Rmdir(fs, e.p), Rm(fs, at, rval, rest))
         \/ mem' = Rm(fs, at, 1, rest)
         \/ mem' = Rm(fs, at, rval, rest)
         \/ TypeAt(fs, Entry(fs, e.p)) = "dir" /\ mem' = Rm(fs, at, rval, Entered(fs, e.p, rest))
         \/ mem' = Gone(Unlink(fs, e.p), Rm(fs, at, rval, rest))
  BY <1>1, <1>2, RmWalkDoes
<1>4. e \in Visit(job) /\ rest \in Seq(Visit(job)) /\ inp' \in Seq(Operands(job))
  <2>1. CASE walk = <<>>
    <3>1. inp # <<>> /\ rest = <<>> /\ e = [p |-> Head(inp), post |-> FALSE] /\ inp' = Tail(inp)
      BY <1>2, <1>3, <2>1 DEF InHand, Rest, Fresh
    <3>2. Head(inp) \in Operands(job) /\ Tail(inp) \in Seq(Operands(job))
      BY <1>1, <3>1, HeadTail
    <3>3. Head(inp) \in Inside(job)
      BY <3>2, OperandsInside
    <3> QED BY <3>1, <3>2, <3>3 DEF Visit
  <2>2. CASE walk # <<>>
    <3>1. rest = Tail(walk) /\ e = Head(walk) /\ inp' = inp
      BY <1>2, <1>3, <2>2 DEF InHand, Rest, Fresh
    <3> QED BY <1>1, <2>2, <3>1, HeadTail
  <2> QED BY <2>1, <2>2
<1>5. PICK p : p = e.p /\ p \in Inside(job)
  BY <1>4 DEF Visit
<1>6. ASSUME NEW r, r = Rmdir(fs, p) \/ r = Unlink(fs, p), mem' = Gone(r, Rm(fs, at, rval, rest))
      PROVE  RmState(job, mem', inp')
  <2>1. RmFiles(job, r.fs) /\ Harmless(r, fs)
    BY <1>1, <1>5, <1>6, RmTakes
  <2>2. PICK v : mem' = Rm(r.fs, at, v, rest)
    BY <1>6, <2>1, GoneSome
  <2> QED BY <1>3, <1>4, <2>1, <2>2, RmMakes
<1>7. ASSUME TypeAt(fs, Entry(fs, p)) = "dir", mem' = Rm(fs, at, rval, Entered(fs, p, rest))
      PROVE  RmState(job, mem', inp')
  <2>1. Entered(fs, p, rest) \in Seq(Visit(job))
    BY <1>1, <1>4, <1>5, <1>7, VisitsIn
  <2> QED BY <1>1, <1>3, <1>4, <1>7, <2>1, RmMakes
<1>8. ASSUME NEW v, mem' = Rm(fs, at, v, rest) PROVE RmState(job, mem', inp')
  BY <1>1, <1>3, <1>4, <1>8, RmMakes
<1> QED BY <1>3, <1>5, <1>6, <1>7, <1>8

LEMMA RmStartMakes ==
  ASSUME IsJob(job), inp = job.files, Quiet, RmStart
  PROVE  /\ RmState(job, mem', inp') /\ mem'.walk = <<>> /\ \A f \in Operands(job) : f \in Range(inp')
         /\ status' # 0
<1>1. Checked(inp) \in Seq(Operands(job)) /\ \A f \in Operands(job) : f \in Range(Checked(inp))
  BY CheckedIs DEF Operands, IsJob
<1>2. mem' = Rm(job.fs, "next", 0, <<>>)
  BY DEF RmStart, Start, Quiet, Rm, Nobody
<1>3. inp' = Checked(inp) /\ (status' = 1 \/ status' = status) /\ status = -1
  BY DEF RmStart, Exit, Running
<1>4. RmFiles(job, job.fs)
  BY DEF RmFiles, Left, IsJob
<1>5. <<>> \in Seq(Visit(job))
  OBVIOUS
<1>6. RmState(job, mem', inp')
  BY <1>1, <1>2, <1>3, <1>4, <1>5, RmMakes
<1> QED BY <1>1, <1>2, <1>3, <1>6, RmFields

-----------------------------------------------------------------------------
(* What rm answers for.                                                      *)

Pending(walk, f) == walk # <<>> /\ Last(walk) = [p |-> f, post |-> TRUE]
\* While no failure was noticed, an operand is still to do, or in hand, or gone.
Settled(j, fs, walk, i, f) == f \in Range(i) \/ Pending(walk, f) \/ Entry(j.fs, f) \notin DOMAIN fs.at
Did(j, fs, rval, walk, i) == rval = 0 => \A f \in Operands(j) : Settled(j, fs, walk, i, f)
RmDid(j, m, i) == Did(j, m.fs, m.rval, m.walk, i)

LEMMA RmDidIs ==
  ASSUME NEW j, NEW i, NEW fs, NEW at, NEW rval, NEW walk
  PROVE  RmDid(j, Rm(fs, at, rval, walk), i) <=> Did(j, fs, rval, walk, i)
BY RmFields DEF RmDid

\* One operand is done with, the others are as they were.
LEMMA DidOne ==
  ASSUME NEW j, NEW fs, NEW rval, NEW walk, NEW i \in Seq(Operands(j)), i # <<>>, Did(j, fs, rval, walk, i),
         NEW now, DOMAIN now.at \subseteq DOMAIN fs.at,
         NEW v, v = 0 => rval = 0 /\ Entry(j.fs, Head(i)) \notin DOMAIN now.at
  PROVE  Did(j, now, v, walk, Tail(i))
<1> SUFFICES ASSUME v = 0, NEW f \in Operands(j) PROVE Settled(j, now, walk, Tail(i), f)
  BY DEF Did
<1>1. Settled(j, fs, walk, i, f)
  BY DEF Did
<1>2. f \in Range(i) => f = Head(i) \/ f \in Range(Tail(i))
  BY HeadTail
<1> QED BY <1>1, <1>2 DEF Settled

LEMMA RmFileSettles ==
  ASSUME IsJob(job), Straight(job), ~job.i, ~job.tty, RmState(job, mem, inp), RmDid(job, mem, inp), RmFile
  PROVE  RmDid(job, mem', inp')
<1>1. PICK fs, at, rval, walk :
           /\ mem = Rm(fs, at, rval, walk) /\ RmFiles(job, fs) /\ inp \in Seq(Operands(job)) /\ walk \in Seq(Visit(job))
  BY RmStateIs
<1>2. /\ inp # <<>>
      /\ \/ mem' = Rm(fs, "next", 1, walk) /\ inp' = Tail(inp)
         \/ /\ mem' = Rm(fs, "next", rval, walk) /\ inp' = Tail(inp)
            /\ job.i \/ job.tty \/ (job.f /\ TypeAt(fs, Entry(fs, Head(inp))) = "none")
         \/ mem' = Rm(fs, "remove", rval, walk) /\ inp' = inp
  BY <1>1, RmFileDoes
<1>3. Did(job, fs, rval, walk, inp)
  BY <1>1, RmDidIs
<1>4. CASE mem' = Rm(fs, "next", 1, walk) /\ inp' = Tail(inp)
  BY <1>4, RmDidIs DEF Did
<1>5. CASE mem' = Rm(fs, "next", rval, walk) /\ inp' = Tail(inp) /\ job.f /\ TypeAt(fs, Entry(fs, Head(inp))) = "none"
  <2>1. Head(inp) \in Operands(job)
    BY <1>1, <1>2, HeadTail
  <2>2. Entry(job.fs, Head(inp)) \notin DOMAIN fs.at
    BY <1>1, <1>5, <2>1, NotThere
  <2>3. Did(job, fs, rval, walk, Tail(inp))
    BY <1>1, <1>2, <1>3, <2>2, DidOne
  <2> QED BY <1>5, <2>3, RmDidIs
<1>6. CASE mem' = Rm(fs, "remove", rval, walk) /\ inp' = inp
  BY <1>3, <1>6, RmDidIs
<1> QED BY <1>2, <1>4, <1>5, <1>6

LEMMA RmRemoveSettles ==
  ASSUME IsJob(job), Straight(job), RmState(job, mem, inp), RmDid(job, mem, inp), RmRemove
  PROVE  RmDid(job, mem', inp')
<1>1. PICK fs, at, rval, walk :
           /\ mem = Rm(fs, at, rval, walk) /\ RmFiles(job, fs) /\ inp \in Seq(Operands(job)) /\ walk \in Seq(Visit(job))
           /\ at = "remove" => inp # <<>>
  BY RmStateIs
<1>2. PICK r : /\ r = Unlink(fs, Head(inp)) \/ r = Rmdir(fs, Head(inp))
               /\ mem' = [Gone(r, mem) EXCEPT !.at = "next"] /\ inp' = Tail(inp) /\ at = "remove"
  BY <1>1, RmRemoveDoes
<1>3. Head(inp) \in Operands(job)
  BY <1>1, <1>2, HeadTail
<1>4. Head(inp) \in Inside(job)
  BY <1>3, OperandsInside
<1>5. Harmless(r, fs) /\ DOMAIN r.fs.at \subseteq DOMAIN fs.at
  BY <1>1, <1>2, <1>4, RmTakes
<1>6. PICK v : v = Answer(r, rval)
  OBVIOUS
<1>7. Gone(r, mem) = Rm(r.fs, at, v, walk)
  <2>1. Gone(r, Rm(fs, at, rval, walk)) = Rm(r.fs, at, Answer(r, rval), walk)
    BY <1>5, GoneIs
  <2> QED BY <1>1, <1>6, <2>1, Zenon
<1>8. PICK x : x = r.fs
  OBVIOUS
<1>9. mem' = Rm(x, "next", v, walk)
  BY <1>2, <1>7, <1>8, RmFields
<1>10. Passed(r) => Entry(job.fs, Head(inp)) \notin DOMAIN x.at
  BY <1>1, <1>2, <1>3, <1>8, GoneFor DEF Passed
<1>11. v = 0 => rval = 0 /\ Passed(r)
  BY <1>6 DEF Answer
<1>12. Did(job, fs, rval, walk, inp)
  BY <1>1, RmDidIs
<1>13. Did(job, x, v, walk, Tail(inp))
  BY <1>1, <1>2, <1>5, <1>8, <1>10, <1>11, <1>12, DidOne
<1> QED BY <1>2, <1>9, <1>13, RmDidIs

\* A visit that is made: what was pending is, or was the directory left last.
LEMMA PendingRest ==
  ASSUME NEW j, NEW walk \in Seq(Visit(j)), walk # <<>>, NEW f, Pending(walk, f)
  PROVE  \/ Tail(walk) # <<>> /\ Last(Tail(walk)) = [p |-> f, post |-> TRUE]
         \/ Head(walk) = [p |-> f, post |-> TRUE]
BY HeadTail DEF Pending

\* Before a visit, an operand is the one in hand, or after it, or pending, or gone.
LEMMA SettledVisit ==
  ASSUME NEW j, NEW fs, NEW walk \in Seq(Visit(j)), NEW i \in Seq(Operands(j)), i # <<>> \/ walk # <<>>,
         NEW f, Settled(j, fs, walk, i, f)
  PROVE  LET e == InHand(walk, i)
             rest == Rest(walk)
         IN  \/ f \in Range(IF Fresh(walk) THEN Tail(i) ELSE i)
             \/ rest # <<>> /\ Last(rest) = [p |-> f, post |-> TRUE]
             \/ e.p = f /\ (e.post \/ rest = <<>>)
             \/ Entry(j.fs, f) \notin DOMAIN fs.at
<1>1. CASE walk = <<>>
  <2>1. /\ InHand(walk, i) = [p |-> Head(i), post |-> FALSE] /\ Rest(walk) = <<>> /\ Fresh(walk) /\ i # <<>>
        /\ ~Pending(walk, f)
    BY <1>1 DEF InHand, Rest, Fresh, Pending
  <2>2. f \in Range(i) => f = Head(i) \/ f \in Range(Tail(i))
    BY <2>1, HeadTail
  <2> QED BY <2>1, <2>2 DEF Settled
<1>2. CASE walk # <<>>
  <2>1. InHand(walk, i) = Head(walk) /\ Rest(walk) = Tail(walk) /\ ~Fresh(walk)
    BY <1>2 DEF InHand, Rest, Fresh
  <2>2. Pending(walk, f) => \/ Tail(walk) # <<>> /\ Last(Tail(walk)) = [p |-> f, post |-> TRUE]
                            \/ Head(walk) = [p |-> f, post |-> TRUE]
    BY <1>2, PendingRest
  <2> QED BY <2>1, <2>2 DEF Settled
<1> QED BY <1>1, <1>2

LEMMA RmWalkSettles ==
  ASSUME IsJob(job), Straight(job), ~job.i, ~job.tty, RmState(job, mem, inp), RmDid(job, mem, inp), RmWalk
  PROVE  RmDid(job, mem', inp')
<1>1. PICK fs, at, rval, walk :
           /\ mem = Rm(fs, at, rval, walk) /\ RmFiles(job, fs) /\ inp \in Seq(Operands(job)) /\ walk \in Seq(Visit(job))
  BY RmStateIs
<1>2. PICK e, rest, i : e = InHand(walk, inp) /\ rest = Rest(walk) /\ i = IF Fresh(walk) THEN Tail(inp) ELSE inp
  OBVIOUS
<1>3. /\ inp # <<>> \/ walk # <<>>
      /\ inp' = i
      /\ \/ e.post /\ mem' = Gone(Rmdir(fs, e.p), Rm(fs, at, rval, rest))
         \/ ~e.post /\ mem' = Rm(fs, at, 1, rest)
         \/ ~e.post /\ mem' = Rm(fs, at, rval, rest) /\ job.f /\ TypeAt(fs, Entry(fs, e.p)) = "none"
         \/ ~e.post /\ TypeAt(fs, Entry(fs, e.p)) = "dir" /\ mem' = Rm(fs, at, rval, Entered(fs, e.p, rest))
         \/ ~e.post /\ mem' = Gone(Unlink(fs, e.p), Rm(fs, at, rval, rest))
  BY <1>1, <1>2, RmWalkDoes
<1>4. e \in Visit(job) /\ rest \in Seq(Visit(job))
  <2>1. CASE walk = <<>>
    <3>1. inp # <<>> /\ rest = <<>> /\ e = [p |-> Head(inp), post |-> FALSE]
      BY <1>2, <1>3, <2>1 DEF InHand, Rest, Fresh
    <3>2. Head(inp) \in Inside(job)
      BY <1>1, <3>1, HeadTail, OperandsInside
    <3> QED BY <3>1, <3>2 DEF Visit
  <2>2. CASE walk # <<>>
    <3>1. rest = Tail(walk) /\ e = Head(walk)
      BY <1>2, <2>2 DEF InHand, Rest, Fresh
    <3> QED BY <1>1, <2>2, <3>1, HeadTail
  <2> QED BY <2>1, <2>2
<1>5. PICK p : p = e.p /\ p \in Inside(job)
  BY <1>4 DEF Visit
<1>6. ASSUME NEW f \in Operands(job), Did(job, fs, rval, walk, inp), rval = 0
      PROVE  \/ f \in Range(i)
             \/ rest # <<>> /\ Last(rest) = [p |-> f, post |-> TRUE]
             \/ p = f /\ (e.post \/ rest = <<>>)
             \/ Entry(job.fs, f) \notin DOMAIN fs.at
  <2>1. Settled(job, fs, walk, inp, f)
    BY <1>6 DEF Did
  <2> QED BY <1>1, <1>2, <1>3, <1>5, <2>1, SettledVisit
<1>7. Did(job, fs, rval, walk, inp)
  BY <1>1, RmDidIs
<1>8. ASSUME NEW r, r = Rmdir(fs, p) \/ r = Unlink(fs, p), mem' = Gone(r, Rm(fs, at, rval, rest))
      PROVE  RmDid(job, mem', i)
  <2>1. Harmless(r, fs) /\ DOMAIN r.fs.at \subseteq DOMAIN fs.at
    BY <1>1, <1>5, <1>8, RmTakes
  <2>2. Gone(r, Rm(fs, at, rval, rest)) = Rm(r.fs, at, Answer(r, rval), rest)
    BY <2>1, GoneIs
  <2>3. PICK v, x : v = Answer(r, rval) /\ x = r.fs
    OBVIOUS
  <2>4. mem' = Rm(x, at, v, rest)
    BY <1>8, <2>2, <2>3
  <2>5. v = 0 => rval = 0 /\ Passed(r)
    BY <2>3 DEF Answer
  <2>6. ASSUME v = 0, NEW f \in Operands(job) PROVE Settled(job, x, rest, i, f)
    <3>1. p = f => Entry(job.fs, f) \notin DOMAIN x.at
      BY <1>1, <1>8, <2>3, <2>5, <2>6, GoneFor DEF Passed
    <3>2. \/ f \in Range(i)
          \/ rest # <<>> /\ Last(rest) = [p |-> f, post |-> TRUE]
          \/ p = f
          \/ Entry(job.fs, f) \notin DOMAIN fs.at
      BY <1>6, <1>7, <2>5, <2>6
    <3> QED BY <2>1, <2>3, <3>1, <3>2 DEF Settled, Pending
  <2>7. Did(job, x, v, rest, i)
    BY <2>6 DEF Did
  <2> QED BY <2>4, <2>7, RmDidIs
<1>9. ASSUME mem' = Rm(fs, at, 1, rest) PROVE RmDid(job, mem', i)
  <2>1. Did(job, fs, 1, rest, i)
    BY DEF Did
  <2> QED BY <1>9, <2>1, RmDidIs
<1>10. ASSUME mem' = Rm(fs, at, rval, rest), job.f, TypeAt(fs, Entry(fs, p)) = "none"
       PROVE  RmDid(job, mem', i)
  <2>1. ASSUME rval = 0, NEW f \in Operands(job) PROVE Settled(job, fs, rest, i, f)
    <3>1. p = f => Entry(job.fs, f) \notin DOMAIN fs.at
      BY <1>1, <1>10, <2>1, NotThere
    <3> QED BY <1>6, <1>7, <2>1, <3>1 DEF Settled, Pending
  <2>2. Did(job, fs, rval, rest, i)
    BY <2>1 DEF Did
  <2> QED BY <1>10, <2>2, RmDidIs
<1>11. ASSUME ~e.post, TypeAt(fs, Entry(fs, p)) = "dir", mem' = Rm(fs, at, rval, Entered(fs, p, rest))
       PROVE  RmDid(job, mem', i)
  <2>1. PICK walk2 : walk2 = Entered(fs, p, rest)
    OBVIOUS
  <2>2. /\ Entered(fs, p, rest) # <<>>
        /\ rest = <<>> => Last(Entered(fs, p, rest)) = [p |-> p, post |-> TRUE]
        /\ rest # <<>> => Last(Entered(fs, p, rest)) = Last(rest)
    <3>1. IsJob(job) /\ RmFiles(job, fs) /\ p \in Inside(job) /\ rest \in Seq(Visit(job)) /\ TypeAt(fs, Entry(fs, p)) = "dir"
      BY <1>1, <1>4, <1>5, <1>11
    <3> QED BY ONLY <3>1, VisitsIn
  <2>3. ASSUME rval = 0, NEW f \in Operands(job) PROVE Settled(job, fs, walk2, i, f)
    BY <1>6, <1>7, <1>11, <2>1, <2>2, <2>3 DEF Settled, Pending
  <2>4. Did(job, fs, rval, walk2, i)
    BY <2>3 DEF Did
  <2> QED BY <1>11, <2>1, <2>4, RmDidIs
<1> QED BY <1>3, <1>5, <1>8, <1>9, <1>10, <1>11

-----------------------------------------------------------------------------
(* rmdir.                                                                    *)

LEMMA PathBegins ==
  ASSUME NEW s \in Path, NEW n \in 0 .. Len(s)
  PROVE  /\ SubSeq(s, 1, n) \in Path /\ Len(SubSeq(s, 1, n)) = n /\ \A i \in 1 .. n : SubSeq(s, 1, n)[i] = s[i]
         /\ n = 0 => SubSeq(s, 1, n) = <<>>
         /\ n = Len(s) => SubSeq(s, 1, n) = s
         /\ n > 0 => SubSeq(s, 1, n) # <<>> /\ Front(SubSeq(s, 1, n)) = SubSeq(s, 1, n - 1)
         /\ \A m \in 0 .. n : SubSeq(SubSeq(s, 1, n), 1, m) = SubSeq(s, 1, m)
<1>1. PICK N \in Nat : N = Len(s)
  BY DEF Path
<1>2. ASSUME NEW t \in Path, NEW m \in 0 .. Len(t)
      PROVE  SubSeq(t, 1, m) \in Path /\ Len(SubSeq(t, 1, m)) = m /\ \A i \in 1 .. m : SubSeq(t, 1, m)[i] = t[i]
  <2>1. Len(t) \in Nat
    BY DEF Path
  <2>2. \A i \in 1 .. m : i \in 1 .. Len(t) /\ t[i] \in STRING
    BY <2>1 DEF Path
  <2>3. /\ SubSeq(t, 1, m) \in Seq(STRING) /\ Len(SubSeq(t, 1, m)) = IF 1 <= m THEN m - 1 + 1 ELSE 0
        /\ \A i \in 1 .. m - 1 + 1 : SubSeq(t, 1, m)[i] = t[1 + i - 1]
    BY <2>2, SubSeqProperties
  <2> QED BY <2>3 DEF Path
<1>3. PICK u : u = SubSeq(s, 1, n)
  OBVIOUS
<1>4. u \in Path /\ Len(u) = n /\ \A i \in 1 .. n : u[i] = s[i]
  BY <1>2, <1>3
<1>5. ASSUME NEW m \in 0 .. n PROVE SubSeq(u, 1, m) = SubSeq(s, 1, m)
  <2>1. SubSeq(u, 1, m) \in Path /\ Len(SubSeq(u, 1, m)) = m /\ \A i \in 1 .. m : SubSeq(u, 1, m)[i] = u[i]
    BY <1>2, <1>4
  <2>2. SubSeq(s, 1, m) \in Path /\ Len(SubSeq(s, 1, m)) = m /\ \A i \in 1 .. m : SubSeq(s, 1, m)[i] = s[i]
    <3>1. m \in 0 .. Len(s)
      BY <1>1
    <3> QED BY <1>2, <3>1
  <2>3. PICK v, w : v = SubSeq(u, 1, m) /\ w = SubSeq(s, 1, m)
    OBVIOUS
  <2>4. \A i \in 1 .. m : v[i] = w[i]
    BY <1>4, <2>1, <2>2, <2>3
  <2>5. v \in Seq(STRING) /\ w \in Seq(STRING) /\ Len(v) = Len(w) /\ \A i \in 1 .. Len(v) : v[i] = w[i]
    BY <2>1, <2>2, <2>3, <2>4 DEF Path
  <2> QED BY <2>3, <2>5, SeqEqual, Zenon
<1>6. n = 0 => u = <<>>
  BY <1>4 DEF Path
<1>7. n = Len(s) => u = s
  BY <1>3, SubSeqFull DEF Path
<1>8. ASSUME n > 0 PROVE u # <<>> /\ Front(u) = SubSeq(s, 1, n - 1)
  <2>1. n - 1 \in 0 .. n
    BY <1>8
  <2>2. SubSeq(u, 1, n - 1) = SubSeq(s, 1, n - 1)
    BY <1>5, <2>1
  <2>3. u # <<>>
    <3>1. PICK k \in Int : k = Len(u)
      BY <1>4
    <3>2. u = <<>> => k = 0
      BY <3>1
    <3> QED BY <1>4, <1>8, <3>1, <3>2
  <2> QED BY <1>4, <2>2, <2>3 DEF Front
<1> QED BY <1>3, <1>4, <1>5, <1>6, <1>7, <1>8

PartsOf(j, f) == IF j.p THEN {SubSeq(f, 1, n) : n \in DOMAIN f} ELSE {f}
AllParts(j) == UNION {PartsOf(j, f) : f \in Range(j.files)}

LEMMA PartFacts ==
  ASSUME NEW j, NEW f \in Path
  PROVE  /\ PartsOf(j, f) \subseteq Path
         /\ f # <<>> => f \in PartsOf(j, f)
         /\ ~j.p => PartsOf(j, f) = {f}
         /\ j.p => /\ <<>> \notin PartsOf(j, f)
                   /\ \A q \in PartsOf(j, f) : Len(q) > 1 => Front(q) \in PartsOf(j, f)
                   /\ Len(f) <= 1 => PartsOf(j, f) \subseteq {f}
                   /\ Len(f) > 1 => PartsOf(j, f) \subseteq {f} \cup PartsOf(j, Front(f))
<1>1. PICK N \in Nat : N = Len(f) /\ DOMAIN f = 1 .. N
  BY DEF Path
<1>2. \A n \in 1 .. N : SubSeq(f, 1, n) \in Path /\ SubSeq(f, 1, n) # <<>> /\ Len(SubSeq(f, 1, n)) = n
                        /\ Front(SubSeq(f, 1, n)) = SubSeq(f, 1, n - 1)
  <2> TAKE n \in 1 .. N
  <2>1. n \in 0 .. Len(f) /\ n > 0
    BY <1>1
  <2> QED BY <2>1, PathBegins
<1>3. CASE ~j.p
  BY <1>3 DEF PartsOf
<1>4. CASE j.p
  <2>1. \A q : q \in PartsOf(j, f) <=> \E n \in 1 .. N : q = SubSeq(f, 1, n)
    BY <1>1, <1>4 DEF PartsOf
  <2>2. PartsOf(j, f) \subseteq Path /\ <<>> \notin PartsOf(j, f)
    <3>1. ASSUME NEW q \in PartsOf(j, f) PROVE q \in Path /\ q # <<>>
      <4>1. PICK n \in 1 .. N : q = SubSeq(f, 1, n)
        BY <2>1
      <4> QED BY <1>2, <4>1
    <3> QED BY <3>1
  <2>3. SubSeq(f, 1, N) = f
    <3>1. N \in 0 .. Len(f)
      BY <1>1
    <3> QED BY <1>1, <3>1, PathBegins
  <2>4. f # <<>> => f \in PartsOf(j, f)
    <3>1. f # <<>> => N \in 1 .. N
      BY <1>1 DEF Path
    <3> QED BY <2>1, <2>3, <3>1
  <2>5. ASSUME NEW q \in PartsOf(j, f), Len(q) > 1 PROVE Front(q) \in PartsOf(j, f)
    <3>1. PICK n \in 1 .. N : q = SubSeq(f, 1, n)
      BY <2>1
    <3>2. Len(q) = n /\ Front(q) = SubSeq(f, 1, n - 1)
      BY <1>2, <3>1
    <3>3. n - 1 \in 1 .. N
      BY <2>5, <3>2
    <3> QED BY <2>1, <3>2, <3>3
  <2>6. ASSUME Len(f) <= 1 PROVE PartsOf(j, f) \subseteq {f}
    <3>1. \A n \in 1 .. N : n = N
      BY <1>1, <2>6
    <3> QED BY <2>1, <2>3, <3>1
  <2>7. ASSUME Len(f) > 1 PROVE PartsOf(j, f) \subseteq {f} \cup PartsOf(j, Front(f))
    <3>1. PICK g : g = Front(f)
      OBVIOUS
    <3>2. g = SubSeq(f, 1, N - 1) /\ N - 1 \in 0 .. Len(f)
      <4>1. N \in 1 .. N /\ N - 1 \in 0 .. Len(f)
        BY <1>1, <2>7
      <4> QED BY <1>2, <2>3, <3>1, <4>1
    <3>3. g \in Path /\ Len(g) = N - 1 /\ \A m \in 0 .. N - 1 : SubSeq(g, 1, m) = SubSeq(f, 1, m)
      BY <3>2, PathBegins
    <3>4. DOMAIN g = 1 .. N - 1
      BY <3>3 DEF Path
    <3>5. ASSUME NEW q \in PartsOf(j, f), q # f PROVE q \in PartsOf(j, g)
      <4>1. PICK n \in 1 .. N : q = SubSeq(f, 1, n)
        BY <2>1
      <4>2. n # N
        BY <2>3, <3>5, <4>1
      <4>3. n \in 1 .. N - 1 /\ n \in 0 .. N - 1
        BY <4>2
      <4>4. q = SubSeq(g, 1, n)
        BY <3>3, <4>1, <4>3
      <4> QED BY <1>4, <3>4, <4>3, <4>4 DEF PartsOf
    <3> QED BY <3>1, <3>5
  <2> QED BY <1>4, <2>2, <2>4, <2>5, <2>6, <2>7
<1> QED BY <1>3, <1>4

\* The variables of rmdir and of mkdir
Dir(fs, at, rval, part) == [fs |-> fs, others |-> Nobody, at |-> at, rval |-> rval, part |-> part]
NoPart == <<>>

LEMMA DirSets ==
  ASSUME NEW m, NEW fs, NEW at, NEW rval, NEW part, m = Dir(fs, at, rval, part), NEW x
  PROVE  /\ [m EXCEPT !.fs = x] = Dir(x, at, rval, part) /\ [m EXCEPT !.at = x] = Dir(fs, x, rval, part)
         /\ [m EXCEPT !.part = x] = Dir(fs, at, rval, x) /\ Failed(m) = Dir(fs, at, 1, part)
BY DEF Dir, Failed

LEMMA DirFields ==
  ASSUME NEW m, NEW fs, NEW at, NEW rval, NEW part, m = Dir(fs, at, rval, part)
  PROVE  m.fs = fs /\ m.at = at /\ m.rval = rval /\ m.part = part /\ m.others = Nobody /\ m # <<>>
BY DEF Dir

Parted(m, t) == [m EXCEPT !.part = t]
Going(m, at) == [m EXCEPT !.at = at]

LEMMA DirBack ==
  ASSUME NEW a, NEW b, NEW c, NEW part, NEW t, NEW w
  PROVE  /\ Parted(Dir(a, b, c, part), t) = Dir(a, b, c, t)
         /\ Going(Dir(a, b, c, part), w) = Dir(a, w, c, part)
<1>1. PICK m : m = Dir(a, b, c, part)
  OBVIOUS
<1>2. [m EXCEPT !.part = t] = Dir(a, b, c, t) /\ [m EXCEPT !.at = w] = Dir(a, w, c, part)
  BY <1>1 DEF Dir
<1> QED BY <1>1, <1>2 DEF Parted, Going

\* What is gone were empty directories that were to go.
RmdirFiles(j, fs) ==
  /\ Left(fs, j.fs)
  /\ \A p \in DOMAIN j.fs.at \ DOMAIN fs.at : TypeAt(j.fs, p) = "dir" /\ \E q \in AllParts(j) : Entry(j.fs, q) = p
RmdirState(j, m, i) ==
  /\ m = Dir(m.fs, m.at, m.rval, m.part)
  /\ RmdirFiles(j, m.fs) /\ i \in Seq(Range(j.files))
  /\ m.part = NoPart \/ (j.p /\ m.part \in AllParts(j))

\* The part in hand; what is still to go: its parts, and those of the operands after it.
PartInHand(part, i) == IF part = NoPart THEN Head(i) ELSE part
Owed(j, part, i, q) ==
  i # <<>> /\ (q \in PartsOf(j, PartInHand(part, i)) \/ \E f \in Range(Tail(i)) : q \in PartsOf(j, f))
RmdirDid(j, m, i) == m.rval = 0 => \A q \in AllParts(j) : Owed(j, m.part, i, q) \/ Entry(j.fs, q) \notin DOMAIN m.fs.at

LEMMA RmdirStateIs ==
  ASSUME NEW j, NEW m, NEW i, RmdirState(j, m, i)
  PROVE  \E fs, at, rval, part :
           /\ m = Dir(fs, at, rval, part) /\ RmdirFiles(j, fs) /\ i \in Seq(Range(j.files))
           /\ part = NoPart \/ (j.p /\ part \in AllParts(j))
BY DEF RmdirState

LEMMA RmdirMakes ==
  ASSUME NEW j, NEW i \in Seq(Range(j.files)), NEW fs, NEW at, NEW rval, NEW part, RmdirFiles(j, fs),
         part = NoPart \/ (j.p /\ part \in AllParts(j))
  PROVE  /\ RmdirState(j, Dir(fs, at, rval, part), i)
         /\ RmdirDid(j, Dir(fs, at, rval, part), i)
              <=> (rval = 0 => \A q \in AllParts(j) : Owed(j, part, i, q) \/ Entry(j.fs, q) \notin DOMAIN fs.at)
<1>1. PICK m : m = Dir(fs, at, rval, part)
  OBVIOUS
<1>2. m.fs = fs /\ m.at = at /\ m.rval = rval /\ m.part = part
  BY <1>1, DirFields
<1> QED BY <1>1, <1>2 DEF RmdirState, RmdirDid

LEMMA RmdirDoDoes ==
  ASSUME NEW fs, NEW at, NEW rval, NEW part, mem = Dir(fs, at, rval, part), RmdirDo
  PROVE  \E p, r :
           /\ inp # <<>> /\ at = "next" /\ p = PartInHand(part, inp) /\ r = Rmdir(fs, p)
           /\ \/ r.err = "" /\ job.p /\ Len(p) > 1 /\ mem' = Dir(r.fs, at, rval, Front(p)) /\ inp' = inp
              \/ r.err = "" /\ ~(job.p /\ Len(p) > 1) /\ mem' = Dir(r.fs, at, rval, NoPart) /\ inp' = Tail(inp)
              \/ r.err # "" /\ mem' = Dir(fs, at, 1, NoPart) /\ inp' = Tail(inp)
<1>1. PICK p, r : p = PartInHand(part, inp) /\ r = Rmdir(fs, p)
  OBVIOUS
<1>2. mem.fs = fs /\ mem.at = at /\ mem.part = part
  BY DirFields
<1>3. p = IF mem.part = <<>> THEN Head(inp) ELSE mem.part
  BY <1>1, <1>2 DEF PartInHand, NoPart
<1>4. PICK x, t : x = r.fs /\ t = Front(p)
  OBVIOUS
<1>5. PICK m : m = IF r.err = "" THEN [mem EXCEPT !.fs = x] ELSE Failed(mem)
  OBVIOUS
<1>6. /\ inp # <<>> /\ at = "next"
      /\ IF r.err = "" /\ job.p /\ Len(p) > 1 THEN mem' = Parted(m, t) /\ inp' = inp
         ELSE mem' = Going(Parted(m, NoPart), "next") /\ inp' = Tail(inp)
  <2>1. mem.at = "next" /\ inp # <<>>
    BY DEF RmdirDo, At
  <2>2. m = IF r.err = "" THEN [mem EXCEPT !.fs = r.fs] ELSE Failed(mem)
    BY <1>4, <1>5
  <2>3. IF r.err = "" /\ job.p /\ Len(p) > 1 THEN mem' = [m EXCEPT !.part = Front(p)] /\ inp' = inp
        ELSE DoneWith([m EXCEPT !.part = <<>>])
    BY <1>1, <1>2, <1>3, <2>2 DEF RmdirDo
  <2> QED BY <1>2, <1>4, <2>1, <2>3 DEF DoneWith, NoPart, Parted, Going
<1>7. [mem EXCEPT !.fs = x] = Dir(x, at, rval, part) /\ Failed(mem) = Dir(fs, at, 1, part)
  BY DEF Dir, Failed
<1>8. \A a, b, c : /\ Parted(Dir(a, b, c, part), t) = Dir(a, b, c, t)
                   /\ Going(Parted(Dir(a, b, c, part), NoPart), "next") = Dir(a, "next", c, NoPart)
  BY DirBack
<1>9. CASE r.err = "" /\ job.p /\ Len(p) > 1
  <2>1. m = Dir(x, at, rval, part)
    BY <1>5, <1>7, <1>9
  <2>2. mem' = Dir(x, at, rval, t) /\ inp' = inp
    BY <1>6, <1>8, <1>9, <2>1, Zenon
  <2> QED BY <1>1, <1>4, <1>6, <1>9, <2>2
<1>10. CASE r.err = "" /\ ~(job.p /\ Len(p) > 1)
  <2>1. m = Dir(x, at, rval, part)
    BY <1>5, <1>7, <1>10
  <2>2. mem' = Dir(x, at, rval, NoPart) /\ inp' = Tail(inp)
    BY <1>6, <1>8, <1>10, <2>1, Zenon
  <2> QED BY <1>1, <1>4, <1>6, <1>10, <2>2
<1>11. CASE r.err # ""
  <2>1. m = Dir(fs, at, 1, part)
    BY <1>5, <1>7, <1>11
  <2>2. mem' = Dir(fs, at, 1, NoPart) /\ inp' = Tail(inp)
    BY <1>6, <1>8, <1>11, <2>1, Zenon
  <2> QED BY <1>1, <1>6, <1>11, <2>2
<1> QED BY <1>9, <1>10, <1>11

LEMMA PartInHandIn ==
  ASSUME NEW j, IsJob(j), NEW i \in Seq(Range(j.files)), i # <<>>, NEW part, part = NoPart \/ (j.p /\ part \in AllParts(j))
  PROVE  LET p == PartInHand(part, i)
         IN  /\ p \in Path /\ (p # <<>> => p \in AllParts(j))
             /\ (j.p /\ p # <<>> /\ Len(p) > 1 => Front(p) \in AllParts(j))
             /\ \A q \in PartsOf(j, p) : q \in Path
<1>1. Head(i) \in Range(j.files) /\ Range(j.files) \subseteq Path
  BY HeadTail, RangeOfSeq DEF IsJob
<1>2. \A q \in AllParts(j) : \E f \in Path : f \in Range(j.files) /\ q \in PartsOf(j, f)
  BY <1>1 DEF AllParts
<1>3. \A f \in Range(j.files) : PartsOf(j, f) \subseteq AllParts(j)
  BY DEF AllParts
<1>4. PICK p : p = PartInHand(part, i)
  OBVIOUS
<1>5. p = Head(i) \/ p \in AllParts(j)
  BY <1>4 DEF PartInHand
<1>6. \E f \in Path : f \in Range(j.files) /\ (p = f \/ p \in PartsOf(j, f))
  BY <1>1, <1>2, <1>5
<1>7. PICK f \in Path : f \in Range(j.files) /\ (p = f \/ p \in PartsOf(j, f))
  BY <1>6
<1>8. p \in Path /\ (p # <<>> => p \in PartsOf(j, f))
  BY <1>7, PartFacts
<1>9. j.p /\ p # <<>> /\ Len(p) > 1 => Front(p) \in PartsOf(j, f)
  BY <1>8, PartFacts
<1>10. \A q \in PartsOf(j, p) : q \in Path
  BY <1>8, PartFacts
<1> QED BY <1>3, <1>4, <1>7, <1>8, <1>9, <1>10

LEMMA RmdirFilesTaken ==
  ASSUME NEW j, NEW fs, RmdirFiles(j, fs), NEW p \in Path, p # <<>> => p \in AllParts(j), NEW r, r = Rmdir(fs, p)
  PROVE  /\ RmdirFiles(j, r.fs) /\ DOMAIN r.fs.at \subseteq DOMAIN fs.at
         /\ r.err = "" => p # <<>> /\ Entry(j.fs, p) \notin DOMAIN r.fs.at
<1>1. Left(fs, j.fs) /\ IsTree(fs) /\ IsTree(j.fs)
  BY DEF RmdirFiles, Left
<1>2. PICK e : e = Entry(fs, p)
  OBVIOUS
<1>3. Taken(r, fs, e, "dir")
  BY <1>1, <1>2, RmdirTakes
<1>4. /\ Left(r.fs, j.fs)
      /\ r.err = "" => DOMAIN r.fs.at = DOMAIN fs.at \ {e} /\ e \in DOMAIN fs.at
      /\ r.err # "" => r.fs = fs
  BY <1>1, <1>3, TakenLeft
<1>5. r.err = "" => e # <<>> /\ TypeAt(fs, e) = "dir"
  BY <1>3 DEF Taken
<1>6. e \in DOMAIN fs.at => e # None /\ e = Entry(j.fs, p) /\ TypeAt(j.fs, e) = TypeAt(fs, e)
  BY <1>1, <1>2, LeftAgrees DEF IsTree
<1>7. p = <<>> => e = <<>>
  BY <1>1, <1>2, EntryFacts
<1>8. \A q \in DOMAIN j.fs.at \ DOMAIN r.fs.at : q \notin DOMAIN fs.at \/ (r.err = "" /\ q = e)
  BY <1>4
<1>9. \A q \in DOMAIN j.fs.at \ DOMAIN r.fs.at : TypeAt(j.fs, q) = "dir" /\ \E x \in AllParts(j) : Entry(j.fs, x) = q
  BY <1>4, <1>5, <1>6, <1>7, <1>8 DEF RmdirFiles
<1> QED BY <1>4, <1>5, <1>6, <1>7, <1>9 DEF RmdirFiles

LEMMA OwedMoves ==
  ASSUME NEW j, IsJob(j), NEW i \in Seq(Range(j.files)), i # <<>>, NEW part, part = NoPart \/ (j.p /\ part \in AllParts(j)),
         NEW p, p = PartInHand(part, i), p # <<>>, NEW q, Owed(j, part, i, q)
  PROVE  /\ j.p /\ Len(p) > 1 => q = p \/ Owed(j, Front(p), i, q)
         /\ ~(j.p /\ Len(p) > 1) => q = p \/ Owed(j, NoPart, Tail(i), q)
<1>0. p \in Path
  BY PartInHandIn
<1>1. q \in PartsOf(j, p) \/ \E f \in Range(Tail(i)) : q \in PartsOf(j, f)
  BY DEF Owed
<1>2. ASSUME j.p, Len(p) > 1 PROVE q = p \/ Owed(j, Front(p), i, q)
  <2>1. PICK t : t = Front(p)
    OBVIOUS
  <2>2. Len(t) = Len(p) - 1
    BY <1>0, <2>1, PathFront
  <2>3. t # NoPart
    <3>1. PICK n \in Nat : n = Len(p)
      BY <1>0 DEF Path
    <3>2. PICK k \in Int : k = Len(t) /\ k = n - 1
      BY <2>2, <3>1
    <3>3. t = <<>> => k = 0
      BY <3>2
    <3>4. n > 1
      BY <1>2, <3>1
    <3>5. k # 0
      BY <3>2, <3>4
    <3> QED BY <3>3, <3>5 DEF NoPart
  <2>4. PartInHand(t, i) = t
    BY <2>3 DEF PartInHand
  <2>5. q \in PartsOf(j, p) => q = p \/ q \in PartsOf(j, t)
    BY <1>0, <1>2, <2>1, PartFacts
  <2> QED BY <1>1, <2>1, <2>4, <2>5 DEF Owed
<1>3. ASSUME ~(j.p /\ Len(p) > 1) PROVE q = p \/ Owed(j, NoPart, Tail(i), q)
  <2>1. q \in PartsOf(j, p) => q = p
    <3>1. Len(p) \in Nat
      BY <1>0 DEF Path
    <3> QED BY <1>0, <1>3, <3>1, PartFacts
  <2>2. ASSUME NEW f \in Range(Tail(i)), q \in PartsOf(j, f) PROVE Owed(j, NoPart, Tail(i), q)
    <3>1. PICK t : t = Tail(i)
      OBVIOUS
    <3>2. t \in Seq(Range(j.files))
      BY <3>1, HeadTail
    <3>3. t # <<>>
      <4>1. PICK n \in DOMAIN t : f = t[n]
        BY <2>2, <3>1 DEF Range
      <4>2. t = <<>> => DOMAIN t = {}
        OBVIOUS
      <4> QED BY <4>1, <4>2
    <3>4. f = Head(t) \/ f \in Range(Tail(t))
      BY <2>2, <3>1, <3>2, <3>3, HeadTail
    <3>5. PartInHand(NoPart, t) = Head(t)
      BY DEF PartInHand
    <3> QED BY <2>2, <3>1, <3>3, <3>4, <3>5 DEF Owed
  <2> QED BY <1>1, <2>1, <2>2
<1> QED BY <1>2, <1>3

LEMMA RmdirDoKeeps ==
  ASSUME IsJob(job), RmdirState(job, mem, inp), RmdirDo
  PROVE  RmdirState(job, mem', inp') /\ (RmdirDid(job, mem, inp) => RmdirDid(job, mem', inp'))
<1>1. PICK fs, at, rval, part :
           /\ mem = Dir(fs, at, rval, part) /\ RmdirFiles(job, fs) /\ inp \in Seq(Range(job.files))
           /\ part = NoPart \/ (job.p /\ part \in AllParts(job))
  BY RmdirStateIs
<1>2. PICK p, r :
           /\ inp # <<>> /\ at = "next" /\ p = PartInHand(part, inp) /\ r = Rmdir(fs, p)
           /\ \/ r.err = "" /\ job.p /\ Len(p) > 1 /\ mem' = Dir(r.fs, at, rval, Front(p)) /\ inp' = inp
              \/ r.err = "" /\ ~(job.p /\ Len(p) > 1) /\ mem' = Dir(r.fs, at, rval, NoPart) /\ inp' = Tail(inp)
              \/ r.err # "" /\ mem' = Dir(fs, at, 1, NoPart) /\ inp' = Tail(inp)
  BY <1>1, RmdirDoDoes
<1>3. /\ p \in Path /\ (p # <<>> => p \in AllParts(job))
      /\ (job.p /\ p # <<>> /\ Len(p) > 1 => Front(p) \in AllParts(job))
  BY <1>1, <1>2, PartInHandIn
<1>4. PICK x : x = r.fs
  OBVIOUS
<1>5. /\ RmdirFiles(job, x) /\ DOMAIN x.at \subseteq DOMAIN fs.at
      /\ r.err = "" => p # <<>> /\ Entry(job.fs, p) \notin DOMAIN x.at
  BY <1>1, <1>2, <1>3, <1>4, RmdirFilesTaken
<1>6. Tail(inp) \in Seq(Range(job.files))
  BY <1>1, <1>2, HeadTail
<1>7. RmdirDid(job, mem, inp) => (rval = 0 => \A q \in AllParts(job) : Owed(job, part, inp, q) \/ Entry(job.fs, q) \notin DOMAIN fs.at)
  BY <1>1, RmdirMakes
<1>8. ASSUME r.err = "", NEW i \in Seq(Range(job.files)), NEW to, to = NoPart \/ (job.p /\ to \in AllParts(job)),
             mem' = Dir(x, at, rval, to), inp' = i,
             \A q \in AllParts(job) : Owed(job, part, inp, q) => q = p \/ Owed(job, to, i, q)
      PROVE  RmdirState(job, mem', inp') /\ (RmdirDid(job, mem, inp) => RmdirDid(job, mem', inp'))
  <2>1. /\ RmdirState(job, mem', inp')
        /\ RmdirDid(job, mem', inp')
             <=> (rval = 0 => \A q \in AllParts(job) : Owed(job, to, i, q) \/ Entry(job.fs, q) \notin DOMAIN x.at)
    BY <1>5, <1>8, RmdirMakes
  <2>2. Entry(job.fs, p) \notin DOMAIN x.at /\ DOMAIN x.at \subseteq DOMAIN fs.at
    BY <1>5, <1>8
  <2>3. ASSUME RmdirDid(job, mem, inp), rval = 0, NEW q \in AllParts(job)
        PROVE  Owed(job, to, i, q) \/ Entry(job.fs, q) \notin DOMAIN x.at
    BY <1>7, <1>8, <2>2, <2>3
  <2> QED BY <2>1, <2>3
<1>9. CASE r.err = "" /\ job.p /\ Len(p) > 1 /\ mem' = Dir(r.fs, at, rval, Front(p)) /\ inp' = inp
  <2>1. PICK to : to = Front(p)
    OBVIOUS
  <2>2. \A q \in AllParts(job) : Owed(job, part, inp, q) => q = p \/ Owed(job, to, inp, q)
    BY <1>1, <1>2, <1>5, <1>9, <2>1, OwedMoves
  <2>3. job.p /\ to \in AllParts(job)
    BY <1>3, <1>5, <1>9, <2>1
  <2> QED BY <1>1, <1>4, <1>8, <1>9, <2>1, <2>2, <2>3
<1>10. CASE r.err = "" /\ ~(job.p /\ Len(p) > 1) /\ mem' = Dir(r.fs, at, rval, NoPart) /\ inp' = Tail(inp)
  <2>1. \A q \in AllParts(job) : Owed(job, part, inp, q) => q = p \/ Owed(job, NoPart, Tail(inp), q)
    <3>1. ~(job.p /\ Len(p) > 1) /\ p # <<>>
      BY <1>5, <1>10
    <3>2. inp # <<>> /\ p = PartInHand(part, inp)
      BY <1>2
    <3> QED BY <1>1, <3>1, <3>2, OwedMoves
  <2> QED BY <1>4, <1>6, <1>8, <1>10, <2>1
<1>11. CASE mem' = Dir(fs, at, 1, NoPart) /\ inp' = Tail(inp)
  <2>1. /\ RmdirState(job, mem', inp')
        /\ RmdirDid(job, mem', inp')
             <=> (1 = 0 => \A q \in AllParts(job) : Owed(job, NoPart, Tail(inp), q) \/ Entry(job.fs, q) \notin DOMAIN fs.at)
    BY <1>1, <1>6, <1>11, RmdirMakes
  <2> QED BY <2>1
<1> QED BY <1>2, <1>9, <1>10, <1>11

LEMMA InOwnRange ==
  ASSUME NEW B, NEW s \in Seq(B)
  PROVE  s \in Seq(Range(s)) /\ Range(s) \subseteq B
<1>1. PICK n \in Nat : n = Len(s) /\ DOMAIN s = 1 .. n
  OBVIOUS
<1>2. s = [i \in 1 .. n |-> s[i]]
  BY <1>1
<1>3. \A i \in 1 .. n : s[i] \in Range(s)
  BY <1>1 DEF Range
<1>4. s \in [1 .. n -> Range(s)]
  BY <1>2, <1>3
<1> QED BY <1>4, RangeOfSeq

LEMMA RmdirStartMakes ==
  ASSUME IsJob(job), inp = job.files, Quiet, RmdirStart
  PROVE  RmdirState(job, mem', inp') /\ RmdirDid(job, mem', inp')
<1>1. mem' = Dir(job.fs, "next", 0, NoPart) /\ inp' = inp
  BY DEF RmdirStart, Start, Quiet, Dir, Nobody, NoPart
<1>2. RmdirFiles(job, job.fs)
  BY DEF RmdirFiles, Left, IsJob
<1>3. inp \in Seq(Range(job.files))
  BY InOwnRange DEF IsJob
<1>4. ASSUME NEW q \in AllParts(job) PROVE Owed(job, NoPart, inp, q)
  <2>1. PICK f \in Range(inp) : q \in PartsOf(job, f)
    BY DEF AllParts
  <2>2. inp # <<>>
    <3>1. PICK n \in DOMAIN inp : f = inp[n]
      BY DEF Range
    <3>2. inp = <<>> => DOMAIN inp = {}
      OBVIOUS
    <3> QED BY <3>1, <3>2
  <2>3. f = Head(inp) \/ f \in Range(Tail(inp))
    BY <1>3, <2>2, HeadTail
  <2> QED BY <2>1, <2>2, <2>3 DEF Owed, PartInHand
<1>5. /\ RmdirState(job, Dir(job.fs, "next", 0, NoPart), inp)
      /\ RmdirDid(job, Dir(job.fs, "next", 0, NoPart), inp)
           <=> (0 = 0 => \A q \in AllParts(job) : Owed(job, NoPart, inp, q) \/ Entry(job.fs, q) \notin DOMAIN job.fs.at)
  BY <1>2, <1>3, RmdirMakes
<1> QED BY <1>1, <1>4, <1>5

-----------------------------------------------------------------------------
(* What is made, and what else stays.                                        *)

IsMap(f) == f = [x \in DOMAIN f |-> f[x]]
IsNode(n) == n = [type |-> n.type, data |-> n.data, mode |-> n.mode]

\* A tree that has all that was, as it was
Grown(now, was) ==
  /\ IsTree(now) /\ IsTree(was) /\ DOMAIN was.at \subseteq DOMAIN now.at /\ was.next <= now.next
  /\ \A p \in DOMAIN was.at : now.at[p] = was.at[p]
  /\ \A i \in DOMAIN was.node : i \in DOMAIN now.node /\ now.node[i] = was.node[i]

LEMMA GrownAgrees ==
  ASSUME NEW now, NEW was, Grown(now, was)
  PROVE  /\ Agree(was, now, DOMAIN was.at)
         /\ \A p \in DOMAIN was.at : TypeAt(now, p) = TypeAt(was, p) /\ Node(now, p) = Node(was, p)
         /\ \A p \in Path : Entry(was, p) # None => Entry(now, p) = Entry(was, p)
         /\ \A p \in Path : Follow(was, p) \in DOMAIN was.at => Follow(now, p) = Follow(was, p)
<1>1. \A p \in DOMAIN was.at : TypeAt(now, p) = TypeAt(was, p) /\ Node(now, p) = Node(was, p)
  <2> TAKE p \in DOMAIN was.at
  <2>1. was.at[p] \in DOMAIN was.node
    BY DEF Grown, IsTree
  <2>2. p \in DOMAIN now.at /\ now.at[p] = was.at[p] /\ now.node[was.at[p]] = was.node[was.at[p]]
    BY <2>1 DEF Grown
  <2> QED BY <2>2 DEF TypeAt, Node
<1>2. Agree(was, now, DOMAIN was.at)
  BY <1>1 DEF Grown, Agree
<1>3. \A p \in Path : Entry(was, p) # None => Entry(now, p) = Entry(was, p)
  BY <1>2, EntryAgrees
<1>4. \A p \in Path : Follow(was, p) \in DOMAIN was.at => Follow(now, p) = Follow(was, p)
  BY <1>2, FollowAgrees
<1> QED BY <1>1, <1>2, <1>3, <1>4

LEMMA GrownOn ==
  ASSUME NEW now, NEW was, NEW first, Grown(now, was), Grown(was, first)
  PROVE  Grown(now, first)
<1>1. first.next <= now.next
  BY DEF Grown, IsTree
<1> QED BY <1>1 DEF Grown

\* One more name for a node that is there, or for a new one
LEMMA TreeWith ==
  ASSUME NEW fs, IsTree(fs), NEW e \in Path, e # None, e \notin DOMAIN fs.at, TypeAt(fs, Front(e)) = "dir", NEW now,
         now = [at |-> now.at, node |-> now.node, next |-> now.next, dev |-> now.dev, fixed |-> now.fixed,
                unwritable |-> now.unwritable],
         IsMap(now.at), DOMAIN now.at = DOMAIN fs.at \cup {e},
         \A p \in DOMAIN fs.at : now.at[p] = fs.at[p],
         IsMap(now.node),
         \A i \in DOMAIN fs.node : i \in DOMAIN now.node /\ now.node[i] = fs.node[i],
         now.next \in Int, fs.next <= now.next,
         \A i \in DOMAIN now.node : i \in Int /\ i < now.next /\ IsNode(now.node[i]),
         now.at[e] \in DOMAIN now.node, Node(now, e).type # "none",
         Node(now, e).type = "link" => Node(now, e).data \in Path
  PROVE  Grown(now, fs)
<1>1. \A p \in DOMAIN fs.at : fs.at[p] \in DOMAIN fs.node
  BY DEF IsTree
<1>2. now.at \in [DOMAIN now.at -> DOMAIN now.node]
  <2>1. \A p \in DOMAIN now.at : now.at[p] \in DOMAIN now.node
    BY <1>1
  <2> QED BY <2>1 DEF IsMap
<1>3. IsFiniteSet(DOMAIN now.at)
  BY FS_AddElement DEF IsTree
<1>4. \A p \in DOMAIN fs.at : TypeAt(now, p) = TypeAt(fs, p) /\ Node(now, p) = Node(fs, p)
  BY <1>1 DEF TypeAt, Node
<1>5. TypeAt(now, e) = Node(now, e).type
  BY DEF TypeAt
<1>6. TypeAt(now, <<>>) = "dir"
  <2>1. TypeAt(fs, <<>>) = "dir"
    BY DEF IsTree
  <2>2. <<>> \in DOMAIN fs.at
    BY <2>1 DEF TypeAt
  <2> QED BY <1>4, <2>1, <2>2
<1>7. ASSUME NEW p \in DOMAIN now.at
      PROVE  /\ p # <<>> => TypeAt(now, Front(p)) = "dir"
             /\ TypeAt(now, p) = "link" => Node(now, p).data \in Path
             /\ TypeAt(now, p) # "none"
  <2>1. CASE p \in DOMAIN fs.at
    <3>1. /\ p # <<>> => TypeAt(fs, Front(p)) = "dir"
          /\ TypeAt(fs, p) = "link" => Node(fs, p).data \in Path
          /\ TypeAt(fs, p) # "none"
      BY <2>1 DEF IsTree
    <3>2. p # <<>> => Front(p) \in DOMAIN fs.at
      BY <3>1 DEF TypeAt
    <3> QED BY <1>4, <2>1, <3>1, <3>2
  <2>2. CASE p = e
    <3>1. Front(e) \in DOMAIN fs.at
      BY DEF TypeAt
    <3> QED BY <1>4, <1>5, <2>2, <3>1
  <2> QED BY <2>1, <2>2
<1>8. DOMAIN now.at \subseteq Path /\ None \notin DOMAIN now.at
  BY DEF IsTree
<1>9. \A i \in DOMAIN now.node : now.node[i] = [type |-> now.node[i].type, data |-> now.node[i].data, mode |-> now.node[i].mode]
  BY DEF IsNode
<1>10. IsTree(now)
  BY <1>2, <1>3, <1>6, <1>7, <1>8, <1>9 DEF IsTree, IsMap
<1> QED BY <1>10 DEF Grown

LEMMA NamedIs ==
  ASSUME NEW fs, IsTree(fs), NEW e, NEW ino
  PROVE  LET w == Named(fs, e, ino)
         IN  /\ DOMAIN w.at = DOMAIN fs.at \cup {e} /\ w.at[e] = ino /\ \A p \in DOMAIN fs.at \ {e} : w.at[p] = fs.at[p]
             /\ IsMap(w.at)
             /\ w.node = fs.node /\ w.next = fs.next /\ w.dev = fs.dev /\ w.fixed = fs.fixed
             /\ w = [at |-> w.at, node |-> w.node, next |-> w.next, dev |-> w.dev, fixed |-> w.fixed,
                     unwritable |-> w.unwritable]
<1>1. PICK f, g, a : f = [q \in {e} |-> ino] /\ a = Over(f, g) /\ g = fs.at
  OBVIOUS
<1>2. DOMAIN a = DOMAIN fs.at \cup {e} /\ a[e] = ino /\ (\A p \in DOMAIN fs.at \ {e} : a[p] = fs.at[p])
      /\ IsMap(a)
  <2>1. DOMAIN f = {e} /\ f[e] = ino /\ a = Over(f, g)
    BY <1>1
  <2>2. DOMAIN a = DOMAIN g \cup {e} /\ a[e] = ino /\ (\A p \in DOMAIN g \ {e} : a[p] = g[p])
        /\ IsMap(a)
    BY <2>1 DEF Over, IsMap
  <2> QED BY <1>1, <2>2
<1>3. Named(fs, e, ino) = [fs EXCEPT !.at = a]
  BY <1>1 DEF Named
<1>4. PICK w : w = [fs EXCEPT !.at = a]
  OBVIOUS
<1>5. w = [at |-> a, node |-> fs.node, next |-> fs.next, dev |-> fs.dev, fixed |-> fs.fixed, unwritable |-> fs.unwritable]
  BY <1>4 DEF IsTree
<1>6. w.at = a /\ w.node = fs.node /\ w.next = fs.next /\ w.dev = fs.dev /\ w.fixed = fs.fixed /\ w.unwritable = fs.unwritable
  BY <1>5
<1> QED BY <1>2, <1>3, <1>4, <1>5, <1>6

LEMMA AddedIs ==
  ASSUME NEW fs, IsTree(fs), NEW e, NEW node
  PROVE  LET w == Added(fs, e, node)
         IN  /\ DOMAIN w.at = DOMAIN fs.at \cup {e} /\ w.at[e] = fs.next /\ \A p \in DOMAIN fs.at \ {e} : w.at[p] = fs.at[p]
             /\ IsMap(w.at) /\ IsMap(w.node)
             /\ DOMAIN w.node = DOMAIN fs.node \cup {fs.next} /\ w.node[fs.next] = node
             /\ \A i \in DOMAIN fs.node : w.node[i] = fs.node[i]
             /\ w.next = fs.next + 1 /\ w.dev = fs.dev /\ w.fixed = fs.fixed
             /\ w = [at |-> w.at, node |-> w.node, next |-> w.next, dev |-> w.dev, fixed |-> w.fixed,
                     unwritable |-> w.unwritable]
<1>1. PICK u : u = Named(fs, e, fs.next)
  OBVIOUS
<1>2. /\ DOMAIN u.at = DOMAIN fs.at \cup {e} /\ u.at[e] = fs.next /\ \A p \in DOMAIN fs.at \ {e} : u.at[p] = fs.at[p]
      /\ IsMap(u.at)
      /\ u.node = fs.node /\ u.next = fs.next /\ u.dev = fs.dev /\ u.fixed = fs.fixed
      /\ u = [at |-> u.at, node |-> u.node, next |-> u.next, dev |-> u.dev, fixed |-> u.fixed,
              unwritable |-> u.unwritable]
  BY <1>1, NamedIs
<1>3. PICK f, g, n, y, x : f = [i \in {y} |-> node] /\ n = Over(f, g) /\ g = fs.node /\ y = fs.next /\ x = fs.next + 1
  OBVIOUS
<1>4. DOMAIN n = DOMAIN fs.node \cup {fs.next} /\ n[fs.next] = node /\ (\A i \in DOMAIN fs.node \ {fs.next} : n[i] = fs.node[i])
      /\ IsMap(n)
  <2>1. DOMAIN f = {y} /\ f[y] = node /\ n = Over(f, g)
    BY <1>3
  <2>2. DOMAIN n = DOMAIN g \cup {y} /\ n[y] = node /\ (\A i \in DOMAIN g \ {y} : n[i] = g[i])
        /\ IsMap(n)
    BY <2>1 DEF Over, IsMap
  <2> QED BY <1>3, <2>2
<1>5. PICK w : w = [u EXCEPT !.node = n, !.next = x]
  OBVIOUS
<1>6. Added(fs, e, node) = w
  BY <1>1, <1>2, <1>3, <1>5 DEF Added
<1>7. w = [at |-> u.at, node |-> n, next |-> x, dev |-> u.dev, fixed |-> u.fixed, unwritable |-> u.unwritable]
  BY <1>2, <1>5
<1>8. w.at = u.at /\ w.node = n /\ w.next = x /\ w.dev = u.dev /\ w.fixed = u.fixed /\ w.unwritable = u.unwritable
  BY <1>7
<1>9. fs.next \notin DOMAIN fs.node
  BY DEF IsTree
<1> QED BY <1>2, <1>3, <1>4, <1>6, <1>7, <1>8, <1>9

\* What makes a name makes it where there was none, in a directory, or nothing.
MadeAt(now, fs, e, ino) ==
  /\ e \in Path /\ e # None /\ e \notin DOMAIN fs.at
  /\ Grown(now, fs) /\ DOMAIN now.at = DOMAIN fs.at \cup {e} /\ now.at[e] = ino

LEMMA MakePlace ==
  ASSUME NEW fs, IsTree(fs), NEW p \in Path, Entry(fs, p) # None, TypeAt(fs, Entry(fs, p)) = "none"
  PROVE  LET e == Entry(fs, p)
         IN  e \in Path /\ e # <<>> /\ e \notin DOMAIN fs.at /\ TypeAt(fs, Front(e)) = "dir"
<1>1. PICK e : e = Entry(fs, p)
  OBVIOUS
<1>2. e \in Path
  BY <1>1, EntryFacts
<1>3. e \notin DOMAIN fs.at
  BY <1>1 DEF IsTree
<1>4. p # <<>>
  <2>1. TypeAt(fs, <<>>) = "dir"
    BY DEF IsTree
  <2>2. p = <<>> => Entry(fs, p) = <<>>
    BY EntryFacts
  <2> QED BY <1>1, <2>1, <2>2
<1>5. e # <<>> /\ TypeAt(fs, Front(e)) = "dir"
  BY <1>1, <1>4, EntryInDir
<1> QED BY <1>1, <1>2, <1>3, <1>5

Makes(r, fs, p, node) ==
  \/ r.err # "" /\ r.fs = fs /\ (r.err = "EEXIST" => TypeAt(fs, Entry(fs, p)) # "none")
  \/ r.err = "" /\ MadeAt(r.fs, fs, Entry(fs, p), fs.next) /\ r.ino = fs.next /\ r.fs.node[fs.next] = node

LEMMA MakeAdds ==
  ASSUME NEW fs, IsTree(fs), NEW p \in Path, NEW node, IsNode(node), node.type # "none",
         node.type = "link" => node.data \in Path, NEW r, r = Make(fs, p, node)
  PROVE  Makes(r, fs, p, node)
<1>1. PICK e : e = Entry(fs, p)
  OBVIOUS
<1>2. \A x : Err(fs, x).err = x /\ Err(fs, x).fs = fs
  BY DEF Err
<1>3. \/ r = Err(fs, "ENOENT") \/ r = Err(fs, "EACCES")
      \/ r = Err(fs, "EEXIST") /\ TypeAt(fs, e) # "none"
      \/ e # None /\ TypeAt(fs, e) = "none" /\ r = [Ok(Added(fs, e, node)) EXCEPT !.ino = fs.next]
  BY <1>1 DEF Make
<1>4. CASE r = Err(fs, "ENOENT") \/ r = Err(fs, "EACCES")
  <2>1. r.fs = fs /\ r.err \in {"ENOENT", "EACCES"}
    BY <1>2, <1>4
  <2>2. \A x \in {"ENOENT", "EACCES"} : x # "" /\ x # "EEXIST"
    OBVIOUS
  <2> QED BY <2>1, <2>2 DEF Makes
<1>5. CASE r = Err(fs, "EEXIST") /\ TypeAt(fs, e) # "none"
  <2>1. r.fs = fs /\ r.err = "EEXIST"
    BY <1>2, <1>5
  <2>2. "EEXIST" # ""
    OBVIOUS
  <2> QED BY <1>1, <1>5, <2>1, <2>2 DEF Makes
<1>6. CASE e # None /\ TypeAt(fs, e) = "none" /\ r = [Ok(Added(fs, e, node)) EXCEPT !.ino = fs.next]
  <2>1. PICK w : w = Added(fs, e, node)
    OBVIOUS
  <2>2. r.err = "" /\ r.fs = w /\ r.ino = fs.next
    BY <1>6, <2>1 DEF Ok
  <2>3. /\ DOMAIN w.at = DOMAIN fs.at \cup {e} /\ w.at[e] = fs.next /\ \A q \in DOMAIN fs.at \ {e} : w.at[q] = fs.at[q]
        /\ IsMap(w.at) /\ IsMap(w.node)
        /\ DOMAIN w.node = DOMAIN fs.node \cup {fs.next} /\ w.node[fs.next] = node
        /\ \A i \in DOMAIN fs.node : w.node[i] = fs.node[i]
        /\ w.next = fs.next + 1
        /\ w = [at |-> w.at, node |-> w.node, next |-> w.next, dev |-> w.dev, fixed |-> w.fixed,
                unwritable |-> w.unwritable]
    BY <2>1, AddedIs
  <2>4. e \in Path /\ e # None /\ e \notin DOMAIN fs.at /\ TypeAt(fs, Front(e)) = "dir"
    BY <1>1, <1>6, MakePlace
  <2>5. w.next \in Int /\ fs.next <= w.next
    BY <2>3 DEF IsTree
  <2>6. \A i \in DOMAIN w.node : i \in Int /\ i < w.next /\ IsNode(w.node[i])
    BY <2>3 DEF IsTree, IsNode
  <2>7. \A q \in DOMAIN fs.at : w.at[q] = fs.at[q]
    BY <2>3, <2>4
  <2>8. Node(w, e) = node
    BY <2>3 DEF Node
  <2>9. Grown(w, fs)
    BY <2>3, <2>4, <2>5, <2>6, <2>7, <2>8, TreeWith
  <2> QED BY <1>1, <2>2, <2>3, <2>4, <2>9 DEF MadeAt, Makes
<1> QED BY <1>3, <1>4, <1>5, <1>6, <1>1

MakesDir(r, fs, p) ==
  \/ r.err # "" /\ r.fs = fs /\ (r.err = "EEXIST" => TypeAt(fs, Entry(fs, p)) # "none")
  \/ r.err = "" /\ MadeAt(r.fs, fs, Entry(fs, p), fs.next) /\ r.fs.node[fs.next].type = "dir"

LEMMA MkdirAdds ==
  ASSUME NEW fs, IsTree(fs), NEW p \in Path, NEW mode, NEW r, r = Mkdir(fs, p, mode)
  PROVE  MakesDir(r, fs, p)
<1>1. PICK node : node = [type |-> "dir", data |-> <<>>, mode |-> mode]
  OBVIOUS
<1>2. IsNode(node) /\ node.type = "dir" /\ node.mode = mode
  BY <1>1 DEF IsNode
<1>3. r = Make(fs, p, node)
  BY <1>1 DEF Mkdir
<1>4. node.type # "none" /\ (node.type = "link" => node.data \in Path)
  BY <1>2
<1>5. Makes(r, fs, p, node)
  <2>1. IsNode(node) /\ IsTree(fs) /\ p \in Path /\ r = Make(fs, p, node)
        /\ node.type # "none" /\ (node.type = "link" => node.data \in Path)
    BY <1>2, <1>3, <1>4
  <2> QED BY <2>1, MakeAdds
<1> QED BY <1>2, <1>5 DEF Makes, MakesDir

\* What a path begins with is there if the path is.
LEMMA PrefixThere ==
  ASSUME NEW fs, IsTree(fs)
  PROVE  \A q \in Path : q \in DOMAIN fs.at => \A e \in Path : IsPrefix(e, q) => e \in DOMAIN fs.at /\ (e # q => TypeAt(fs, e) = "dir")
<1> DEFINE Q == {q \in Path : q \in DOMAIN fs.at => \A e \in Path : IsPrefix(e, q) => e \in DOMAIN fs.at /\ (e # q => TypeAt(fs, e) = "dir")}
<1>1. <<>> \in Path
  BY DEF Path
<1>2. <<>> \in Q
  <2>1. \A e \in Path : IsPrefix(e, <<>>) => e = <<>>
    BY <1>1, PrefixFacts
  <2> QED BY <1>1, <2>1
<1>3. \A p \in Path, b \in STRING : p \in Q => Append(p, b) \in Q
  <2> TAKE p \in Path, b \in STRING
  <2> HAVE p \in Q
  <2>1. PICK t : t = Append(p, b)
    OBVIOUS
  <2>2. t \in Path /\ t # <<>> /\ Front(t) = p
    BY <2>1, PathSnoc
  <2>3. ASSUME t \in DOMAIN fs.at, NEW e \in Path, IsPrefix(e, t), e # t
        PROVE  e \in DOMAIN fs.at /\ TypeAt(fs, e) = "dir"
    <3>1. TypeAt(fs, p) = "dir"
      BY <2>2, <2>3 DEF IsTree
    <3>2. p \in DOMAIN fs.at
      BY <3>1 DEF TypeAt
    <3>3. IsPrefix(e, p)
      BY <2>2, <2>3, PrefixFacts
    <3> QED BY <3>1, <3>2, <3>3
  <2> QED BY <2>1, <2>2, <2>3
<1> HIDE DEF Q
<1>4. \A p \in Path : p \in Q
  BY <1>2, <1>3, SnocInduction, Zenon DEF Path
<1> QED BY <1>4 DEF Q

\* There is nothing below what was just made.
LEMMA MadeBelow ==
  ASSUME NEW now, NEW fs, NEW e, NEW ino, MadeAt(now, fs, e, ino)
  PROVE  Below(now, e) = {}
<1> SUFFICES ASSUME NEW q \in Below(now, e) PROVE FALSE
  OBVIOUS
<1>1. q \in DOMAIN now.at /\ IsTree(now) /\ IsTree(fs) /\ e \in Path /\ e \notin DOMAIN fs.at
  BY DEF MadeAt, Grown, Below
<1>2. IsPrefix(e, q) /\ q # e
  BY <1>1, BelowIs
<1>3. q \in DOMAIN fs.at /\ q \in Path
  BY <1>1, <1>2 DEF MadeAt, IsTree
<1> QED BY <1>1, <1>2, <1>3, PrefixThere

\* A node of the same kind in its place
LEMMA NodeSet ==
  ASSUME NEW fs, IsTree(fs), NEW i \in DOMAIN fs.node, NEW n, IsNode(n), n.type = fs.node[i].type,
         n.type = "link" => n.data = fs.node[i].data, NEW now, now = [fs EXCEPT !.node[i] = n]
  PROVE  /\ IsTree(now) /\ now.at = fs.at /\ now.next = fs.next /\ DOMAIN now.node = DOMAIN fs.node /\ now.node[i] = n
         /\ \A k \in DOMAIN fs.node \ {i} : now.node[k] = fs.node[k]
         /\ Agree(fs, now, DOMAIN fs.at)
<1>1. PICK m : m = [fs.node EXCEPT ![i] = n]
  OBVIOUS
<1>2. now = [fs EXCEPT !.node = m]
  BY <1>1
<1>3. now = [at |-> fs.at, node |-> m, next |-> fs.next, dev |-> fs.dev, fixed |-> fs.fixed, unwritable |-> fs.unwritable]
  BY <1>2 DEF IsTree
<1>4. now.at = fs.at /\ now.node = m /\ now.next = fs.next /\ now.dev = fs.dev /\ now.fixed = fs.fixed /\ now.unwritable = fs.unwritable
  BY <1>3
<1>5. DOMAIN m = DOMAIN fs.node /\ m[i] = n /\ (\A k \in DOMAIN fs.node \ {i} : m[k] = fs.node[k]) /\ m = [k \in DOMAIN m |-> m[k]]
  BY <1>1
<1>6. \A k \in DOMAIN fs.node : m[k].type = fs.node[k].type /\ (m[k].type = "link" => m[k].data = fs.node[k].data)
  BY <1>5
<1>7. \A p \in DOMAIN fs.at : fs.at[p] \in DOMAIN fs.node
  BY DEF IsTree
<1>8. \A p : TypeAt(now, p) = TypeAt(fs, p)
  BY <1>4, <1>6, <1>7 DEF TypeAt, Node
<1>9. \A p \in DOMAIN fs.at : TypeAt(fs, p) = "link" => Node(now, p).data = Node(fs, p).data
  BY <1>4, <1>6, <1>7 DEF TypeAt, Node
<1>10. \A k \in DOMAIN m : m[k] = [type |-> m[k].type, data |-> m[k].data, mode |-> m[k].mode]
  BY <1>5 DEF IsTree, IsNode
<1>11. IsTree(now)
  <2>1. /\ fs.at \in [DOMAIN fs.at -> DOMAIN fs.node] /\ IsFiniteSet(DOMAIN fs.at)
        /\ fs.next \in Int /\ \A k \in DOMAIN fs.node : k \in Int /\ k < fs.next
        /\ DOMAIN fs.at \subseteq Path /\ None \notin DOMAIN fs.at /\ TypeAt(fs, <<>>) = "dir"
        /\ \A p \in DOMAIN fs.at : /\ p # <<>> => TypeAt(fs, Front(p)) = "dir"
                                   /\ TypeAt(fs, p) = "link" => Node(fs, p).data \in Path
                                   /\ TypeAt(fs, p) # "none"
    BY DEF IsTree
  <2>2. now = [at |-> now.at, node |-> now.node, next |-> now.next, dev |-> now.dev, fixed |-> now.fixed,
               unwritable |-> now.unwritable]
    BY <1>3, <1>4
  <2>3. now.at \in [DOMAIN now.at -> DOMAIN now.node] /\ now.node = [k \in DOMAIN now.node |-> now.node[k]]
    BY <1>4, <1>5, <2>1
  <2>4. \A p \in DOMAIN now.at : /\ p # <<>> => TypeAt(now, Front(p)) = "dir"
                                 /\ TypeAt(now, p) = "link" => Node(now, p).data \in Path
                                 /\ TypeAt(now, p) # "none"
    BY <1>4, <1>8, <1>9, <2>1
  <2>5. \A k \in DOMAIN now.node : now.node[k] = [type |-> now.node[k].type, data |-> now.node[k].data, mode |-> now.node[k].mode]
    BY <1>4, <1>10
  <2>6. TypeAt(now, <<>>) = "dir"
    BY <1>8, <2>1
  <2> QED BY <1>4, <1>5, <2>1, <2>2, <2>3, <2>4, <2>5, <2>6 DEF IsTree
<1>12. Agree(fs, now, DOMAIN fs.at)
  BY <1>4, <1>8, <1>9, <1>11 DEF Agree
<1> QED BY <1>4, <1>5, <1>11, <1>12

-----------------------------------------------------------------------------
(* mkdir.                                                                    *)

Failing(m) == Failed(m)
Facing(m, x, t) == [m EXCEPT !.fs = x, !.part = t]
\* The part mkdir makes next
NextIn(j, part, i) == IF j.p THEN SubSeq(Head(i), 1, Len(part) + 1) ELSE Head(i)

LEMMA DirForth ==
  ASSUME NEW a, NEW b, NEW c, NEW part, NEW t, NEW x
  PROVE  /\ Failing(Dir(a, b, c, part)) = Dir(a, b, 1, part)
         /\ Facing(Dir(a, b, c, part), x, t) = Dir(x, b, c, t)
<1>1. PICK m : m = Dir(a, b, c, part)
  OBVIOUS
<1>2. Failed(m) = Dir(a, b, 1, part)
  BY <1>1 DEF Dir, Failed
<1>3. [m EXCEPT !.fs = x] = Dir(x, b, c, part)
  BY <1>1 DEF Dir
<1>4. PICK n : n = [m EXCEPT !.fs = x]
  OBVIOUS
<1>5. [n EXCEPT !.part = t] = Dir(x, b, c, t)
  <2>1. n = Dir(x, b, c, part)
    BY <1>3, <1>4
  <2> QED BY <2>1 DEF Dir
<1>6. [m EXCEPT !.fs = x, !.part = t] = [n EXCEPT !.part = t]
  BY <1>4
<1> QED BY <1>1, <1>2, <1>5, <1>6 DEF Failing, Facing

\* A name is made, or not.
MakesPart(p, r, fs, rval) ==
  \/ r.err = "EEXIST" /\ job.p /\ mem' = Dir(r.fs, "exists", rval, p) /\ inp' = inp
  \/ r.err # "" /\ mem' = Dir(r.fs, "next", 1, NoPart) /\ inp' = Tail(inp)
  \/ r.err = "" /\ p # Head(inp) /\ mem' = Dir(r.fs, "next", rval, p) /\ inp' = inp
  \/ r.err = "" /\ p = Head(inp) /\ mem' = Dir(r.fs, "chmod", rval, p) /\ inp' = inp

LEMMA MkdirDoDoes ==
  ASSUME NEW fs, NEW at, NEW rval, NEW part, mem = Dir(fs, at, rval, part), MkdirDo
  PROVE  /\ inp # <<>> /\ at = "next"
         /\ \E p, r : p = NextIn(job, part, inp) /\ r = Mkdir(fs, p, "umask") /\ MakesPart(p, r, fs, rval)
<1>1. PICK p, r : p = NextIn(job, part, inp) /\ r = Mkdir(fs, p, "umask")
  OBVIOUS
<1>2. mem.fs = fs /\ mem.at = at /\ mem.part = part
  BY DirFields
<1>3. p = IF job.p THEN SubSeq(Head(inp), 1, Len(mem.part) + 1) ELSE Head(inp)
  BY <1>1, <1>2 DEF NextIn
<1>4. PICK x, m : x = r.fs /\ m = [mem EXCEPT !.fs = r.fs, !.part = p]
  OBVIOUS
<1>5. /\ inp # <<>> /\ at = "next"
      /\ \/ r.err = "EEXIST" /\ job.p /\ mem' = Going(m, "exists") /\ inp' = inp
         \/ r.err # "" /\ mem' = Going(Parted(Failing(m), NoPart), "next") /\ inp' = Tail(inp)
         \/ r.err = "" /\ p # Head(inp) /\ mem' = m /\ inp' = inp
         \/ r.err = "" /\ p = Head(inp) /\ mem' = Going(m, "chmod") /\ inp' = inp
  <2>1. mem.at = "next" /\ inp # <<>>
    BY DEF MkdirDo, At
  <2>2. \/ r.err = "EEXIST" /\ job.p /\ Goes(m, "exists") /\ inp' = inp
        \/ r.err # "" /\ DoneWith([Failed(m) EXCEPT !.part = <<>>])
        \/ r.err = "" /\ p # Head(inp) /\ mem' = m /\ inp' = inp
        \/ r.err = "" /\ p = Head(inp) /\ Goes(m, "chmod") /\ inp' = inp
    BY <1>1, <1>2, <1>3, <1>4 DEF MkdirDo
  <2> QED BY <1>2, <2>1, <2>2 DEF Goes, DoneWith, NoPart, Parted, Going, Failing
<1>6. m = Facing(mem, x, p)
  BY <1>4 DEF Facing
<1>7. m = Dir(x, at, rval, p)
  BY <1>6, DirForth
<1>8. Going(m, "exists") = Dir(x, "exists", rval, p) /\ Going(m, "chmod") = Dir(x, "chmod", rval, p)
  BY <1>7, DirBack
<1>9. Going(Parted(Failing(m), NoPart), "next") = Dir(x, "next", 1, NoPart)
  BY <1>7, DirBack, DirForth
<1>10. MakesPart(p, r, fs, rval)
  <2>1. CASE r.err = "EEXIST" /\ job.p /\ mem' = Going(m, "exists") /\ inp' = inp
    BY <1>4, <1>5, <1>8, <2>1 DEF MakesPart
  <2>2. CASE r.err # "" /\ mem' = Going(Parted(Failing(m), NoPart), "next") /\ inp' = Tail(inp)
    BY <1>4, <1>5, <1>9, <2>2 DEF MakesPart
  <2>3. CASE r.err = "" /\ p # Head(inp) /\ mem' = m /\ inp' = inp
    BY <1>4, <1>5, <1>7, <2>3 DEF MakesPart
  <2>4. CASE r.err = "" /\ p = Head(inp) /\ mem' = Going(m, "chmod") /\ inp' = inp
    BY <1>4, <1>5, <1>8, <2>4 DEF MakesPart
  <2> QED BY <1>5, <2>1, <2>2, <2>3, <2>4
<1> QED BY <1>1, <1>5, <1>10

LEMMA MkdirExistsDoes ==
  ASSUME NEW fs, NEW at, NEW rval, NEW part, mem = Dir(fs, at, rval, part), MkdirExists
  PROVE  /\ at = "exists"
         /\ \/ mem' = Dir(fs, "next", 1, NoPart) /\ inp' = Tail(inp)
            \/ /\ TypeAt(fs, Follow(fs, part)) = "dir" /\ part = Head(inp)
               /\ mem' = Dir(fs, "next", rval, NoPart) /\ inp' = Tail(inp)
            \/ part # Head(inp) /\ mem' = Dir(fs, "next", rval, part) /\ inp' = inp
<1>1. mem.fs = fs /\ mem.at = at /\ mem.part = part
  BY DirFields
<1>2. /\ at = "exists"
      /\ \/ mem' = Going(Parted(Failing(mem), NoPart), "next") /\ inp' = Tail(inp)
         \/ /\ TypeAt(fs, Follow(fs, part)) = "dir" /\ part = Head(inp)
            /\ mem' = Going(Parted(mem, NoPart), "next") /\ inp' = Tail(inp)
         \/ part # Head(inp) /\ mem' = Going(mem, "next") /\ inp' = inp
  BY <1>1 DEF MkdirExists, At, Stat, DoneWith, Goes, NoPart, Going, Parted, Failing
<1>3. /\ Going(Parted(Failing(mem), NoPart), "next") = Dir(fs, "next", 1, NoPart)
      /\ Going(Parted(mem, NoPart), "next") = Dir(fs, "next", rval, NoPart)
      /\ Going(mem, "next") = Dir(fs, "next", rval, part)
  BY DirBack, DirForth
<1> QED BY <1>2, <1>3

\* The mode that was asked for
Moded(fs, t) == [fs EXCEPT !.node[fs.at[t]].mode = "asked"]

LEMMA MkdirModeDoes ==
  ASSUME NEW fs, NEW at, NEW rval, NEW part, mem = Dir(fs, at, rval, part), MkdirMode
  PROVE  LET t == Follow(fs, part)
         IN  /\ at = "chmod" /\ inp' = Tail(inp)
             /\ \/ ~job.m /\ mem' = Dir(fs, "next", rval, NoPart)
                \/ t \notin DOMAIN fs.at /\ mem' = Dir(fs, "next", 1, NoPart)
                \/ t \in DOMAIN fs.at /\ mem' = Dir(Moded(fs, t), "next", rval, NoPart)
<1>1. mem.fs = fs /\ mem.at = at /\ mem.part = part
  BY DirFields
<1>2. PICK t, m, w : t = Follow(fs, part) /\ m = Parted(mem, NoPart) /\ w = Moded(fs, t)
  OBVIOUS
<1>3. m = Dir(fs, at, rval, NoPart)
  BY <1>2, DirBack
<1>4. m.fs = fs
  BY <1>3, DirFields
<1>5. m = [mem EXCEPT !.part = <<>>]
  BY <1>2 DEF Parted, NoPart
<1>6. [m EXCEPT !.fs.node[mem.fs.at[t]].mode = "asked"] = [m EXCEPT !.fs = w]
  BY <1>1, <1>2, <1>4 DEF Moded
<1>7. /\ at = "chmod" /\ inp' = Tail(inp)
      /\ \/ ~job.m /\ mem' = Going(m, "next")
         \/ t \notin DOMAIN fs.at /\ mem' = Going(Failing(m), "next")
         \/ t \in DOMAIN fs.at /\ mem' = Going([m EXCEPT !.fs = w], "next")
  <2>1. \/ ~job.m /\ DoneWith(m)
        \/ t \notin DOMAIN fs.at /\ DoneWith(Failed(m))
        \/ t \in DOMAIN fs.at /\ DoneWith([m EXCEPT !.fs.node[mem.fs.at[t]].mode = "asked"])
    BY <1>1, <1>2, <1>5 DEF MkdirMode
  <2>2. mem.at = "chmod"
    BY DEF MkdirMode, At
  <2> QED BY <1>1, <1>6, <2>1, <2>2 DEF DoneWith, Going, Failing
<1>8. [m EXCEPT !.fs = w] = Dir(w, at, rval, NoPart)
  <2>1. PICK n : n = NoPart
    OBVIOUS
  <2>2. m = Dir(fs, at, rval, n)
    BY <1>3, <2>1
  <2>3. [m EXCEPT !.fs = w] = Dir(w, at, rval, n)
    BY <2>2 DEF Dir
  <2> QED BY <2>1, <2>3
<1>9. /\ Going(m, "next") = Dir(fs, "next", rval, NoPart) /\ Going(Failing(m), "next") = Dir(fs, "next", 1, NoPart)
      /\ Going(Dir(w, at, rval, NoPart), "next") = Dir(w, "next", rval, NoPart)
  BY <1>3, DirBack, DirForth
<1> QED BY <1>2, <1>7, <1>8, <1>9

\* What is new are the parts.
MkdirFiles(j, fs) ==
  /\ Grown(fs, j.fs)
  /\ \A p \in DOMAIN fs.at \ DOMAIN j.fs.at : \E q \in AllParts(j) : Entry(fs, q) = p
\* A beginning of the operand in hand
Begun(j, part, i) ==
  /\ i # <<>> /\ part \in AllParts(j)
  /\ IF j.p THEN \E n \in 1 .. Len(Head(i)) : part = SubSeq(Head(i), 1, n) ELSE part = Head(i)
\* It is a directory that was not there.
NewDir(j, fs, part) ==
  LET e == Entry(fs, part) IN e \in DOMAIN fs.at /\ TypeAt(fs, e) = "dir" /\ fs.at[e] \notin DOMAIN j.fs.node
MkdirAt(j, fs, at, part, i) ==
  /\ part # NoPart => Begun(j, part, i)
  /\ at = "next" /\ part # NoPart => j.p /\ part # Head(i)
  /\ at = "exists" => j.p /\ part # NoPart
  /\ at = "chmod" => i # <<>> /\ part = Head(i) /\ part \in AllParts(j) /\ NewDir(j, fs, part)
MkdirState(j, m, i) ==
  /\ m = Dir(m.fs, m.at, m.rval, m.part)
  /\ MkdirFiles(j, m.fs) /\ i \in Seq(Range(j.files)) /\ MkdirAt(j, m.fs, m.at, m.part, i)

LEMMA MkdirStateIs ==
  ASSUME NEW j, NEW m, NEW i, MkdirState(j, m, i)
  PROVE  \E fs, at, rval, part :
           m = Dir(fs, at, rval, part) /\ MkdirFiles(j, fs) /\ i \in Seq(Range(j.files)) /\ MkdirAt(j, fs, at, part, i)
BY DEF MkdirState

LEMMA MkdirMakes ==
  ASSUME NEW j, NEW i \in Seq(Range(j.files)), NEW fs, NEW at, NEW rval, NEW part, MkdirFiles(j, fs), MkdirAt(j, fs, at, part, i)
  PROVE  MkdirState(j, Dir(fs, at, rval, part), i)
<1>1. PICK m : m = Dir(fs, at, rval, part)
  OBVIOUS
<1>2. m.fs = fs /\ m.at = at /\ m.rval = rval /\ m.part = part
  BY <1>1, DirFields
<1> QED BY <1>1, <1>2 DEF MkdirState

\* Between two operands
LEMMA MkdirBetween ==
  ASSUME NEW j, NEW i, NEW fs
  PROVE  MkdirAt(j, fs, "next", NoPart, i)
<1>1. "next" # "exists" /\ "next" # "chmod"
  OBVIOUS
<1> QED BY <1>1 DEF MkdirAt

LEMMA AllPartsIn ==
  ASSUME NEW j, IsJob(j)
  PROVE  AllParts(j) \subseteq Path /\ Range(j.files) \subseteq Path
<1>1. Range(j.files) \subseteq Path
  BY RangeOfSeq DEF IsJob
<1>2. \A f \in Range(j.files) : PartsOf(j, f) \subseteq Path
  BY <1>1, PartFacts
<1> QED BY <1>1, <1>2 DEF AllParts

\* The next part is one of the operand, and longer than the one before by a name.
LEMMA NextIs ==
  ASSUME NEW j, IsJob(j), Nameable(j), NEW i \in Seq(Range(j.files)), i # <<>>, NEW fs, NEW part, MkdirAt(j, fs, "next", part, i),
         NEW p, p = NextIn(j, part, i)
  PROVE  /\ p \in Path /\ Begun(j, p, i)
         /\ j.p => p # NoPart
         /\ ~j.p => p = Head(i)
         /\ j.p /\ part # NoPart => p # <<>> /\ Front(p) = part
<1>1. PICK f : f = Head(i)
  OBVIOUS
<1>2. f \in Range(j.files) /\ Range(j.files) \subseteq Path
  BY <1>1, HeadTail, AllPartsIn
<1>3. PartsOf(j, f) \subseteq AllParts(j)
  BY <1>2 DEF AllParts
<1>4. CASE ~j.p
  <2>1. p = f /\ f \in PartsOf(j, f)
    BY <1>1, <1>4 DEF NextIn, PartsOf
  <2> QED BY <1>1, <1>2, <1>3, <1>4, <2>1 DEF Begun
<1>5. CASE j.p
  <2>1. f # <<>>
    BY <1>2, <1>5 DEF Nameable
  <2>2. PICK N \in Nat : N = Len(f) /\ N > 0
    BY <1>2, <2>1 DEF Path
  <2>3. PICK k \in 0 .. N : k < N /\ part = SubSeq(f, 1, k) /\ Len(part) = k /\ (part # NoPart => k > 0)
    <3>1. CASE part = NoPart
      <4>1. SubSeq(f, 1, 0) = <<>> /\ Len(part) = 0
        <5>1. 0 \in 0 .. Len(f)
          BY <2>2
        <5>2. SubSeq(f, 1, 0) = <<>>
          BY <1>2, <5>1, PathBegins
        <5> QED BY <3>1, <5>2 DEF NoPart
      <4> QED BY <2>2, <3>1, <4>1 DEF NoPart
    <3>2. CASE part # NoPart
      <4>1. PICK n \in 1 .. N : part = SubSeq(f, 1, n)
        BY <1>1, <1>5, <2>2, <3>2 DEF MkdirAt, Begun
      <4>2. part # f
        BY <1>1, <3>2 DEF MkdirAt
      <4>3. n \in 0 .. Len(f)
        BY <2>2, <4>1
      <4>4. Len(part) = n /\ (n = Len(f) => part = f)
        BY <1>2, <4>1, <4>3, PathBegins
      <4>5. n # N /\ n \in 0 .. N
        BY <2>2, <4>2, <4>4
      <4>6. n < N /\ n > 0
        BY <2>2, <4>1, <4>5
      <4> QED BY <4>1, <4>4, <4>5, <4>6
    <3> QED BY <3>1, <3>2
  <2>4. p = SubSeq(f, 1, k + 1)
    BY <1>1, <1>5, <2>3 DEF NextIn
  <2>5. PICK n \in 1 .. N : n = k + 1
    BY <2>2, <2>3
  <2>6. n \in 0 .. Len(f) /\ n > 0 /\ n - 1 = k
    BY <2>2, <2>3, <2>5
  <2>7. p \in Path /\ p # <<>> /\ Front(p) = SubSeq(f, 1, n - 1)
    <3>1. p = SubSeq(f, 1, n)
      BY <2>4, <2>5
    <3>2. SubSeq(f, 1, n) \in Path /\ SubSeq(f, 1, n) # <<>> /\ Front(SubSeq(f, 1, n)) = SubSeq(f, 1, n - 1)
      BY <1>2, <2>6, PathBegins
    <3> QED BY <3>1, <3>2
  <2>8. Front(p) = part
    BY <2>3, <2>6, <2>7
  <2>9. DOMAIN f = 1 .. N
    BY <1>2, <2>2 DEF Path
  <2>10. p \in PartsOf(j, f)
    BY <1>5, <2>4, <2>5, <2>9 DEF PartsOf
  <2>11. Begun(j, p, i)
    BY <1>1, <1>3, <1>5, <2>2, <2>4, <2>5, <2>10 DEF Begun
  <2> QED BY <1>5, <2>7, <2>8, <2>11 DEF NoPart
<1> QED BY <1>4, <1>5

\* What was made is a part, and what was new is where it was.
LEMMA MkdirFilesMade ==
  ASSUME NEW j, IsJob(j), NEW fs, MkdirFiles(j, fs), NEW p \in AllParts(j), NEW now, MadeAt(now, fs, Entry(fs, p), fs.next)
  PROVE  /\ MkdirFiles(j, now) /\ Entry(now, p) = Entry(fs, p) /\ Entry(now, p) \in DOMAIN now.at
         /\ now.at[Entry(now, p)] = fs.next /\ fs.next \notin DOMAIN j.fs.node
<1>1. Grown(now, fs) /\ Grown(fs, j.fs) /\ Entry(fs, p) # None /\ DOMAIN now.at = DOMAIN fs.at \cup {Entry(fs, p)}
      /\ now.at[Entry(fs, p)] = fs.next
  BY DEF MadeAt, MkdirFiles
<1>2. AllParts(j) \subseteq Path
  BY AllPartsIn
<1>3. \A q \in AllParts(j) : Entry(fs, q) # None => Entry(now, q) = Entry(fs, q)
  BY <1>1, <1>2, GrownAgrees
<1>4. Entry(now, p) = Entry(fs, p)
  BY <1>1, <1>3
<1>5. None \notin DOMAIN fs.at
  BY <1>1 DEF Grown, IsTree
<1>6. ASSUME NEW x \in DOMAIN now.at \ DOMAIN j.fs.at PROVE \E q \in AllParts(j) : Entry(now, q) = x
  <2>1. CASE x = Entry(fs, p)
    BY <1>4, <2>1
  <2>2. CASE x # Entry(fs, p)
    <3>1. PICK q \in AllParts(j) : Entry(fs, q) = x
      BY <1>1, <2>2 DEF MkdirFiles
    <3>2. Entry(fs, q) # None
      BY <1>1, <1>5, <2>2, <3>1
    <3> QED BY <1>3, <3>1, <3>2
  <2> QED BY <2>1, <2>2
<1>7. Grown(now, j.fs)
  BY <1>1, GrownOn
<1>8. fs.next \notin DOMAIN j.fs.node
  <2>1. j.fs.next <= fs.next /\ j.fs.next \in Int /\ fs.next \in Int /\ \A k \in DOMAIN j.fs.node : k \in Int /\ k < j.fs.next
    BY <1>1 DEF Grown, IsTree
  <2> QED BY <2>1
<1> QED BY <1>1, <1>4, <1>6, <1>7, <1>8 DEF MkdirFiles

LEMMA MkdirDoKeeps ==
  ASSUME IsJob(job), Nameable(job), MkdirState(job, mem, inp), MkdirDo
  PROVE  MkdirState(job, mem', inp')
<1>1. PICK fs, at, rval, part :
         mem = Dir(fs, at, rval, part) /\ MkdirFiles(job, fs) /\ inp \in Seq(Range(job.files)) /\ MkdirAt(job, fs, at, part, inp)
  BY MkdirStateIs
<1>2. inp # <<>> /\ at = "next"
  BY <1>1, MkdirDoDoes
<1>2a. PICK p, r : p = NextIn(job, part, inp) /\ r = Mkdir(fs, p, "umask") /\ MakesPart(p, r, fs, rval)
  BY <1>1, MkdirDoDoes
<1>3. PICK x : x = r.fs
  OBVIOUS
<1>4. p \in Path /\ Begun(job, p, inp) /\ (job.p => p # NoPart) /\ (~job.p => p = Head(inp))
  BY <1>1, <1>2, <1>2a, NextIs
<1>5. p \in AllParts(job)
  BY <1>4 DEF Begun
<1>6. IsTree(fs)
  BY <1>1 DEF MkdirFiles, Grown
<1>7. \/ r.err # "" /\ x = fs
      \/ r.err = "" /\ MadeAt(x, fs, Entry(fs, p), fs.next) /\ x.node[fs.next].type = "dir"
  <2>1. r = Mkdir(fs, p, "umask") /\ IsTree(fs) /\ p \in Path
    BY <1>2a, <1>4, <1>6
  <2>2. MakesDir(r, fs, p)
    BY <2>1, MkdirAdds
  <2> QED BY <1>3, <2>2 DEF MakesDir
<1>8. r.err = "" => NewDir(job, x, p)
  <2>1. r.err = "" => /\ Entry(x, p) \in DOMAIN x.at /\ x.at[Entry(x, p)] = fs.next /\ fs.next \notin DOMAIN job.fs.node
                      /\ x.node[fs.next].type = "dir"
    BY <1>1, <1>5, <1>7, MkdirFilesMade
  <2> QED BY <2>1 DEF NewDir, TypeAt, Node
<1>9. MkdirFiles(job, x)
  BY <1>1, <1>5, <1>7, MkdirFilesMade
<1>10. Tail(inp) \in Seq(Range(job.files))
  BY <1>1, <1>2, HeadTail
<1>11. CASE job.p /\ mem' = Dir(r.fs, "exists", rval, p) /\ inp' = inp
  <2>1. MkdirAt(job, x, "exists", p, inp)
    <3>1. "exists" # "next" /\ "exists" # "chmod"
      OBVIOUS
    <3> QED BY <1>4, <1>11, <3>1 DEF MkdirAt
  <2> QED BY <1>1, <1>3, <1>9, <1>11, <2>1, MkdirMakes
<1>12. CASE mem' = Dir(r.fs, "next", 1, NoPart) /\ inp' = Tail(inp)
  BY <1>2, <1>3, <1>9, <1>10, <1>12, MkdirBetween, MkdirMakes
<1>13. CASE p # Head(inp) /\ mem' = Dir(r.fs, "next", rval, p) /\ inp' = inp
  <2>1. MkdirAt(job, x, "next", p, inp)
    <3>1. "next" # "exists" /\ "next" # "chmod"
      OBVIOUS
    <3> QED BY <1>4, <1>13, <3>1 DEF MkdirAt
  <2> QED BY <1>1, <1>2, <1>3, <1>9, <1>13, <2>1, MkdirMakes
<1>14. CASE r.err = "" /\ p = Head(inp) /\ mem' = Dir(r.fs, "chmod", rval, p) /\ inp' = inp
  <2>1. MkdirAt(job, x, "chmod", p, inp)
    <3>1. "chmod" # "exists" /\ "chmod" # "next"
      OBVIOUS
    <3> QED BY <1>2, <1>4, <1>5, <1>8, <1>14, <3>1 DEF MkdirAt
  <2> QED BY <1>1, <1>3, <1>9, <1>14, <2>1, MkdirMakes
<1> QED BY <1>2a, <1>11, <1>12, <1>13, <1>14 DEF MakesPart

LEMMA MkdirExistsKeeps ==
  ASSUME IsJob(job), MkdirState(job, mem, inp), MkdirExists
  PROVE  MkdirState(job, mem', inp')
<1>1. PICK fs, at, rval, part :
         mem = Dir(fs, at, rval, part) /\ MkdirFiles(job, fs) /\ inp \in Seq(Range(job.files)) /\ MkdirAt(job, fs, at, part, inp)
  BY MkdirStateIs
<1>2. /\ at = "exists"
      /\ \/ mem' = Dir(fs, "next", 1, NoPart) /\ inp' = Tail(inp)
         \/ /\ TypeAt(fs, Follow(fs, part)) = "dir" /\ part = Head(inp)
            /\ mem' = Dir(fs, "next", rval, NoPart) /\ inp' = Tail(inp)
         \/ part # Head(inp) /\ mem' = Dir(fs, "next", rval, part) /\ inp' = inp
  BY <1>1, MkdirExistsDoes
<1>3. job.p /\ part # NoPart /\ Begun(job, part, inp)
  BY <1>1, <1>2 DEF MkdirAt
<1>4. inp # <<>>
  BY <1>3 DEF Begun
<1>5. Tail(inp) \in Seq(Range(job.files))
  BY <1>1, <1>4, HeadTail
<1>6. CASE inp' = Tail(inp) /\ \E v : mem' = Dir(fs, "next", v, NoPart)
  BY <1>1, <1>5, <1>6, MkdirBetween, MkdirMakes
<1>7. CASE part # Head(inp) /\ mem' = Dir(fs, "next", rval, part) /\ inp' = inp
  <2>1. MkdirAt(job, fs, "next", part, inp)
    <3>1. "next" # "exists" /\ "next" # "chmod"
      OBVIOUS
    <3> QED BY <1>3, <1>7, <3>1 DEF MkdirAt
  <2> QED BY <1>1, <1>7, <2>1, MkdirMakes
<1> QED BY <1>2, <1>6, <1>7

\* The mode is that of a directory that was not there.
LEMMA ModedIs ==
  ASSUME NEW j, IsJob(j), NEW fs, MkdirFiles(j, fs), NEW part \in AllParts(j), NewDir(j, fs, part), NEW t, t = Follow(fs, part)
  PROVE  /\ MkdirFiles(j, Moded(fs, t)) /\ Agree(fs, Moded(fs, t), DOMAIN fs.at)
         /\ t \in DOMAIN fs.at /\ TypeAt(fs, t) = "dir" /\ Moded(fs, t).at = fs.at
         /\ \A k \in DOMAIN fs.node : Moded(fs, t).node[k].mode = fs.node[k].mode \/ Moded(fs, t).node[k].mode = "asked"
         /\ Moded(fs, t).node[fs.at[t]].mode = "asked"
<1>1. IsTree(fs) /\ Grown(fs, j.fs)
  BY DEF MkdirFiles, Grown
<1>2. AllParts(j) \subseteq Path
  BY AllPartsIn
<1>3. t = Entry(fs, part) /\ t \in DOMAIN fs.at /\ TypeAt(fs, t) = "dir" /\ fs.at[t] \notin DOMAIN j.fs.node
  <2>1. TypeAt(fs, Entry(fs, part)) = "dir"
    BY DEF NewDir
  <2>2. TypeAt(fs, Entry(fs, part)) # "link"
    BY <2>1
  <2>3. t = Entry(fs, part)
    BY <1>1, <1>2, <2>2, EntryFacts
  <2> QED BY <2>3 DEF NewDir
<1>4. PICK i : i = fs.at[t]
  OBVIOUS
<1>5. i \in DOMAIN fs.node /\ IsNode(fs.node[i]) /\ fs.node[i].type = "dir" /\ i \notin DOMAIN j.fs.node
  BY <1>1, <1>3, <1>4 DEF IsTree, IsNode, TypeAt, Node
<1>6. PICK n : n = [fs.node[i] EXCEPT !.mode = "asked"]
  OBVIOUS
<1>7. IsNode(n) /\ n.type = fs.node[i].type /\ n.mode = "asked"
  BY <1>5, <1>6 DEF IsNode
<1>8. PICK now : now = Moded(fs, t)
  OBVIOUS
<1>9. now = [fs EXCEPT !.node[i] = n]
  BY <1>4, <1>6, <1>8 DEF Moded
<1>10. n.type = "link" => n.data = fs.node[i].data
  BY <1>5, <1>7
<1>11. /\ IsTree(now) /\ now.at = fs.at /\ now.next = fs.next /\ DOMAIN now.node = DOMAIN fs.node /\ now.node[i] = n
       /\ \A k \in DOMAIN fs.node \ {i} : now.node[k] = fs.node[k]
       /\ Agree(fs, now, DOMAIN fs.at)
  BY <1>1, <1>5, <1>7, <1>9, <1>10, NodeSet
<1>12. Grown(now, j.fs)
  BY <1>1, <1>5, <1>11 DEF Grown
<1>13. \A q \in AllParts(j) : Entry(fs, q) # None => Entry(now, q) = Entry(fs, q)
  BY <1>2, <1>11, EntryAgrees
<1>14. None \notin DOMAIN fs.at
  BY <1>1 DEF IsTree
<1>15. MkdirFiles(j, now)
  BY <1>11, <1>12, <1>13, <1>14 DEF MkdirFiles
<1>16. \A k \in DOMAIN fs.node : now.node[k].mode = fs.node[k].mode \/ now.node[k].mode = "asked"
  BY <1>7, <1>11
<1> QED BY <1>3, <1>4, <1>7, <1>8, <1>11, <1>15, <1>16

LEMMA MkdirModeKeeps ==
  ASSUME IsJob(job), MkdirState(job, mem, inp), MkdirMode
  PROVE  MkdirState(job, mem', inp')
<1>1. PICK fs, at, rval, part :
         mem = Dir(fs, at, rval, part) /\ MkdirFiles(job, fs) /\ inp \in Seq(Range(job.files)) /\ MkdirAt(job, fs, at, part, inp)
  BY MkdirStateIs
<1>2. PICK t : t = Follow(fs, part)
  OBVIOUS
<1>3. /\ at = "chmod" /\ inp' = Tail(inp)
      /\ \/ ~job.m /\ mem' = Dir(fs, "next", rval, NoPart)
         \/ t \notin DOMAIN fs.at /\ mem' = Dir(fs, "next", 1, NoPart)
         \/ t \in DOMAIN fs.at /\ mem' = Dir(Moded(fs, t), "next", rval, NoPart)
  BY <1>1, <1>2, MkdirModeDoes
<1>4. inp # <<>> /\ part \in AllParts(job) /\ NewDir(job, fs, part)
  BY <1>1, <1>3 DEF MkdirAt
<1>5. Tail(inp) \in Seq(Range(job.files))
  BY <1>1, <1>4, HeadTail
<1>6. MkdirFiles(job, Moded(fs, t))
  BY <1>1, <1>2, <1>4, ModedIs
<1>7. \A x, v : MkdirFiles(job, x) => MkdirState(job, Dir(x, "next", v, NoPart), Tail(inp))
  BY <1>5, MkdirBetween, MkdirMakes
<1> QED BY <1>1, <1>3, <1>6, <1>7

LEMMA MkdirStartMakes ==
  ASSUME IsJob(job), inp = job.files, Quiet, MkdirStart
  PROVE  MkdirState(job, mem', inp')
<1>1. mem' = Dir(job.fs, "next", 0, NoPart) /\ inp' = inp
  BY DEF MkdirStart, Start, Quiet, Dir, Nobody, NoPart
<1>2. MkdirFiles(job, job.fs)
  <2>1. job.fs.next \in Int
    BY DEF IsJob, IsTree
  <2> QED BY <2>1 DEF MkdirFiles, Grown, IsJob
<1>3. inp \in Seq(Range(job.files))
  BY InOwnRange DEF IsJob
<1> QED BY <1>1, <1>2, <1>3, MkdirBetween, MkdirMakes

-----------------------------------------------------------------------------
(* ln, with one operand.                                                     *)

\* Where the link goes, what it is to, and the checks of linkit() it has to pass
LnPath(j) ==
  IF ~(j.F /\ j.s) /\ (Lstat(j.fs, j.to) = "dir" \/ (~j.h /\ Stat(j.fs, j.to) = "dir"))
  THEN Append(j.to, Last(Head(j.files))) ELSE j.to
LnPlace(j) == Entry(j.fs, LnPath(j))
LnSource(j) == IF j.P THEN Entry(j.fs, Head(j.files)) ELSE Follow(j.fs, Head(j.files))
LnNode(j) == [type |-> "link", data |-> Head(j.files), mode |-> ""]
LnPassed(j) == j.s \/ Lstat(j.fs, LnPath(j)) = "none" \/ ~SameEntry(j.fs, Head(j.files), LnPath(j))

\* What is left when one entry may be gone
Cleared(fs, was, e) == Left(fs, was) /\ DOMAIN was.at \ DOMAIN fs.at \subseteq {e}
LnMade(j, fs) ==
  /\ LnPlace(j) \in DOMAIN fs.at
  /\ j.s => fs.node[fs.at[LnPlace(j)]] = LnNode(j)
  /\ ~j.s => fs.at[LnPlace(j)] = j.fs.at[LnSource(j)]
LnFiles(j, fs) ==
  \E b : /\ Cleared(b, j.fs, LnPlace(j)) /\ (b = j.fs \/ LnPassed(j))
         /\ fs = b \/ \E ino : MadeAt(fs, b, LnPlace(j), ino)
Ln(fs, at, rval, target) == [fs |-> fs, others |-> Nobody, at |-> at, rval |-> rval, target |-> target]
LnAt(j, fs, at, rval, target, i) ==
  \/ i = j.files /\ at = "next" /\ fs = j.fs
  \/ i = j.files /\ at \in {"remove", "link"} /\ Cleared(fs, j.fs, LnPlace(j)) /\ target = LnPath(j) /\ LnPassed(j)
  \/ i = <<>> /\ at = "next" /\ LnFiles(j, fs) /\ (rval = 0 => LnMade(j, fs))
LnState(j, m, i) == m = Ln(m.fs, m.at, m.rval, m.target) /\ LnAt(j, m.fs, m.at, m.rval, m.target, i)

Aimed(m, t) == [m EXCEPT !.target = t]
Having(m, x) == [m EXCEPT !.fs = x]

LEMMA LnFields ==
  ASSUME NEW m, NEW fs, NEW at, NEW rval, NEW target, m = Ln(fs, at, rval, target)
  PROVE  /\ m.fs = fs /\ m.at = at /\ m.rval = rval /\ m.target = target /\ m.others = Nobody /\ m # <<>>
BY DEF Ln

LEMMA LnSets ==
  ASSUME NEW a, NEW b, NEW c, NEW d, NEW x
  PROVE  /\ Aimed(Ln(a, b, c, d), x) = Ln(a, b, c, x) /\ Going(Ln(a, b, c, d), x) = Ln(a, x, c, d)
         /\ Having(Ln(a, b, c, d), x) = Ln(x, b, c, d) /\ Failing(Ln(a, b, c, d)) = Ln(a, b, 1, d)
<1>1. PICK m : m = Ln(a, b, c, d)
  OBVIOUS
<1>2. /\ [m EXCEPT !.target = x] = Ln(a, b, c, x) /\ [m EXCEPT !.at = x] = Ln(a, x, c, d)
      /\ [m EXCEPT !.fs = x] = Ln(x, b, c, d) /\ Failed(m) = Ln(a, b, 1, d)
  BY <1>1 DEF Ln, Failed
<1> QED BY <1>1, <1>2 DEF Aimed, Going, Having, Failing

LEMMA LnStateIs ==
  ASSUME NEW j, NEW m, NEW i, LnState(j, m, i)
  PROVE  \E fs, at, rval, target : m = Ln(fs, at, rval, target) /\ LnAt(j, fs, at, rval, target, i)
BY DEF LnState

LEMMA LnMakes ==
  ASSUME NEW j, NEW i, NEW fs, NEW at, NEW rval, NEW target, LnAt(j, fs, at, rval, target, i)
  PROVE  LnState(j, Ln(fs, at, rval, target), i)
<1>1. PICK m : m = Ln(fs, at, rval, target)
  OBVIOUS
<1> QED BY <1>1, LnFields DEF LnState

\* The one operand
LEMMA OneOperand ==
  ASSUME NEW j, IsJob(j), Single(j)
  PROVE  /\ Head(j.files) \in Path /\ Head(j.files) # <<>> /\ Last(Head(j.files)) \in STRING
         /\ j.files # <<>> /\ Tail(j.files) = <<>> /\ Range(j.files) = {Head(j.files)}
<1>1. PICK s : s = j.files
  OBVIOUS
<1>2. s \in Seq(Path) /\ Len(s) = 1 /\ <<>> \notin Range(s)
  BY <1>1 DEF IsJob, Single
<1>3. s # <<>> /\ s[1] \in Path /\ Head(s) = s[1] /\ DOMAIN s = {1}
  BY <1>2
<1>5. Tail(s) = <<>>
  <2>1. Tail(s) \in Seq(Path) /\ Len(Tail(s)) = 0
    BY <1>2, <1>3
  <2>2. PICK t \in Seq(Path) : t = Tail(s) /\ Len(t) = 0
    BY <2>1
  <2>3. t = <<>>
    BY <2>2
  <2> QED BY <2>2, <2>3
<1>4. Range(s) = {s[1]}
  BY <1>3 DEF Range
<1> QED BY <1>1, <1>2, <1>3, <1>4, <1>5, PathFront

LEMMA LnPathIn ==
  ASSUME NEW j, IsJob(j), Single(j)
  PROVE  LnPath(j) \in Path /\ LnPlace(j) \in Place
<1>1. PICK b, t : b = Last(Head(j.files)) /\ t = j.to
  OBVIOUS
<1>2. b \in STRING /\ t \in Path
  BY <1>1, OneOperand DEF Single
<1>3. LnPath(j) = t \/ LnPath(j) = Append(t, b)
  BY <1>1 DEF LnPath
<1>4. LnPath(j) \in Path
  BY <1>2, <1>3, PathSnoc
<1> QED BY <1>4, EntryFacts DEF LnPlace, IsJob

LEMMA LnPlaceIn ==
  ASSUME IsJob(job), Single(job), job.tool = "ln", LnPlace(job) # None
  PROVE  LnPlace(job) \in LnTargets
<1>1. PICK f, t, fs : f = Head(job.files) /\ t = job.to /\ fs = job.fs
  OBVIOUS
<1>2. IsTree(fs) /\ t \in Path /\ f \in Range(job.files)
  BY <1>1, OneOperand DEF IsJob, Single
<1>3. CASE LnPath(job) = t
  BY <1>1, <1>3 DEF LnTargets, LnPlace
<1>4. CASE LnPath(job) = Append(t, Last(f)) /\ (Lstat(fs, t) = "dir" \/ Stat(fs, t) = "dir")
  <2>1. Stat(fs, t) = "dir"
    BY <1>2, <1>4, EntryFacts DEF Lstat, Stat
  <2>2. Into(f) = Append(t, Last(f))
    BY <1>1, <2>1 DEF Into, IsDirectory
  <2> QED BY <1>1, <1>2, <1>4, <2>2 DEF LnTargets, LnPlace, Targets
<1> QED BY <1>1, <1>3, <1>4 DEF LnPath

\* linkit() does not remove the file that the link is to be to.
LEMMA LnAside ==
  ASSUME IsJob(job), Single(job), Aside(job), LnPassed(job), ~job.s,
         TypeAt(job.fs, Follow(job.fs, Head(job.files))) = "file"
  PROVE  Follow(job.fs, Head(job.files)) # LnPlace(job)
<1> SUFFICES ASSUME Follow(job.fs, Head(job.files)) = LnPlace(job) PROVE FALSE
  OBVIOUS
<1>1. PICK f, t, fs, p, e : f = Head(job.files) /\ t = job.to /\ fs = job.fs /\ p = LnPath(job) /\ e = LnPlace(job)
  OBVIOUS
<1>2. IsTree(fs) /\ t \in Path /\ f \in Range(job.files) /\ f \in Path /\ f # <<>> /\ p \in Path /\ e = Entry(fs, p)
  BY <1>1, OneOperand, LnPathIn DEF IsJob, Single, LnPlace
<1>3. TypeAt(fs, e) = "file"
  BY <1>1
<1>4. e \in DOMAIN fs.at /\ e # None
  BY <1>2, <1>3 DEF TypeAt, IsTree
<1>5. TypeAt(fs, <<>>) = "dir"
  BY <1>2 DEF IsTree
<1>6. p # <<>>
  BY <1>2, <1>3, <1>5, EntryFacts
<1>7. p = t \/ p = Append(t, Last(f))
  BY <1>1 DEF LnPath
<1>8. Entry(fs, f) = e
  BY <1>1, <1>2, <1>7 DEF Aside
<1>9. Last(f) = Last(e) /\ Front(e) = Follow(fs, Front(f)) /\ TypeAt(fs, Front(e)) = "dir"
  BY <1>2, <1>4, <1>8, EntryInDir
<1>10. Last(p) = Last(e) /\ Front(e) = Follow(fs, Front(p))
  BY <1>2, <1>4, <1>6, EntryInDir
<1>11. Front(e) # None
  BY <1>2, <1>9 DEF TypeAt, IsTree
<1>12. SameEntry(fs, f, p)
  BY <1>9, <1>10, <1>11 DEF SameEntry
<1>13. Lstat(fs, p) # "none"
  BY <1>2, <1>3 DEF Lstat
<1> QED BY <1>1, <1>12, <1>13 DEF LnPassed

LEMMA ClearedAgrees ==
  ASSUME NEW fs, NEW was, NEW e, Cleared(fs, was, e)
  PROVE  /\ IsTree(fs) /\ IsTree(was)
         /\ \A p \in Path : Entry(fs, p) # None => Entry(was, p) = Entry(fs, p)
         /\ \A p \in Path : Follow(fs, p) \in DOMAIN fs.at => Follow(was, p) = Follow(fs, p)
         /\ \A p \in DOMAIN fs.at : p \in DOMAIN was.at /\ fs.at[p] = was.at[p] /\ TypeAt(fs, p) = TypeAt(was, p)
         /\ fs.node = was.node
<1>1. Agree(fs, was, DOMAIN fs.at)
  BY LeftAgrees DEF Cleared
<1>2. \A p \in Path : Follow(fs, p) \in DOMAIN fs.at => Follow(was, p) = Follow(fs, p)
  BY <1>1, FollowAgrees
<1> QED BY <1>2, LeftAgrees DEF Cleared, Left

LEMMA ClearedTaken ==
  ASSUME NEW fs, NEW was, NEW e, Cleared(fs, was, e), NEW p \in Path, Entry(was, p) = e,
         NEW r, NEW type, Taken(r, fs, Entry(fs, p), type)
  PROVE  Cleared(r.fs, was, e)
<1>1. /\ Left(r.fs, was) /\ (r.err = "" => DOMAIN r.fs.at = DOMAIN fs.at \ {Entry(fs, p)} /\ Entry(fs, p) \in DOMAIN fs.at)
      /\ (r.err # "" => r.fs = fs)
  BY TakenLeft DEF Cleared
<1>2. CASE r.err # ""
  BY <1>1, <1>2
<1>3. CASE r.err = ""
  <2>1. Entry(fs, p) # None
    BY <1>1, <1>3 DEF Cleared, Left, IsTree
  <2>2. Entry(fs, p) = e
    BY <2>1, ClearedAgrees
  <2> QED BY <1>1, <1>3, <2>2 DEF Cleared
<1> QED BY <1>2, <1>3

-----------------------------------------------------------------------------
(* The steps of ln.                                                          *)

LEMMA LnStartMakes ==
  ASSUME IsJob(job), Single(job), inp = job.files, Quiet, LnStart
  PROVE  LnState(job, mem', inp') /\ status' = status
<1>1. mem' = Ln(job.fs, "next", 0, NoPart) /\ inp' = inp
  BY DEF LnStart, Start, Quiet, Ln, Nobody, NoPart
<1>2. LnAt(job, job.fs, "next", 0, NoPart, inp)
  BY DEF LnAt
<1>3. status' = status
  <2>1. ~(Len(inp) > 1)
    <3>1. Len(job.files) = 1
      BY DEF Single
    <3>2. Len(inp) = 1
      BY <3>1
    <3> QED BY <3>2
  <2> QED BY <2>1 DEF LnStart
<1> QED BY <1>1, <1>2, <1>3, LnMakes

LEMMA LnCheckDoes ==
  ASSUME NEW fs, NEW at, NEW rval, NEW target, mem = Ln(fs, at, rval, target), LnCheck,
         Single(job), inp = job.files, fs = job.fs
  PROVE  \/ mem' = Ln(fs, "next", 1, target) /\ inp' = Tail(inp)
         \/ LnPassed(job) /\ inp' = inp /\ \E w \in {"remove", "link"} : mem' = Ln(fs, w, rval, LnPath(job))
<1>1. mem.fs = fs
  BY LnFields
<1>2. LnTarget = LnPath(job)
  BY <1>1 DEF LnTarget, LnInto, Fflag, LnPath, Single
<1>3. PICK p, w : p = LnPath(job) /\ w = IF Lstat(fs, p) # "none" /\ (LnForce \/ job.ask = "i") THEN "remove" ELSE "link"
  OBVIOUS
<1>4. \/ DoneWith(Failed(mem))
      \/ /\ ~(~job.s /\ Lstat(fs, p) # "none" /\ SameEntry(fs, Head(inp), p))
         /\ Goes(Aimed(mem, p), w) /\ inp' = inp
  BY <1>1, <1>2, <1>3 DEF LnCheck, Aimed
<1>5. Going(Failing(mem), "next") = Ln(fs, "next", 1, target) /\ Going(Aimed(mem, p), w) = Ln(fs, w, rval, p)
  BY LnSets
<1>6. CASE DoneWith(Failed(mem))
  BY <1>5, <1>6 DEF DoneWith, Going, Failing
<1>7. CASE /\ ~(~job.s /\ Lstat(fs, p) # "none" /\ SameEntry(fs, Head(inp), p))
           /\ Goes(Aimed(mem, p), w) /\ inp' = inp
  <2>1. LnPassed(job)
    BY <1>3, <1>7 DEF LnPassed
  <2>2. mem' = Ln(fs, w, rval, p)
    BY <1>5, <1>7 DEF Goes, Going
  <2> QED BY <1>3, <1>7, <2>1, <2>2
<1> QED BY <1>4, <1>6, <1>7

LEMMA LnRemoveDoes ==
  ASSUME NEW fs, NEW at, NEW rval, NEW target, mem = Ln(fs, at, rval, target), LnRemove
  PROVE  /\ at = "remove"
         /\ \E r : /\ r = Rmdir(fs, target) \/ r = Unlink(fs, target)
                   /\ \/ r.err = "" /\ mem' = Ln(r.fs, "link", rval, target) /\ inp' = inp
                      \/ r.err # "" /\ mem' = Ln(fs, "next", 1, target) /\ inp' = Tail(inp)
<1>1. mem.fs = fs /\ mem.target = target /\ mem.at = at
  BY LnFields
<1>2. PICK r : r = IF Fflag /\ Lstat(fs, target) = "dir" THEN Rmdir(fs, target) ELSE Unlink(fs, target)
  OBVIOUS
<1>3. PICK x : x = r.fs
  OBVIOUS
<1>4. IF r.err = "" THEN Goes(Having(mem, x), "link") /\ inp' = inp ELSE DoneWith(Failed(mem))
  BY <1>1, <1>2, <1>3 DEF LnRemove, Having
<1>5. Going(Having(mem, x), "link") = Ln(x, "link", rval, target) /\ Going(Failing(mem), "next") = Ln(fs, "next", 1, target)
  BY LnSets
<1>6. \/ r.err = "" /\ mem' = Ln(r.fs, "link", rval, target) /\ inp' = inp
      \/ r.err # "" /\ mem' = Ln(fs, "next", 1, target) /\ inp' = Tail(inp)
  BY <1>3, <1>4, <1>5 DEF Goes, DoneWith, Going, Failing
<1>7. at = "remove"
  BY <1>1 DEF LnRemove, At
<1> QED BY <1>2, <1>6, <1>7

LEMMA LnLinkDoes ==
  ASSUME NEW fs, NEW at, NEW rval, NEW target, mem = Ln(fs, at, rval, target), LnLink
  PROVE  /\ at = "link" /\ inp' = Tail(inp)
         /\ \E r : /\ r = IF job.s THEN Symlink(fs, Head(inp), target) ELSE LinkTo(fs, Head(inp), target, ~job.P)
                   /\ \/ r.err = "" /\ mem' = Ln(r.fs, "next", rval, target)
                      \/ r.err # "" /\ mem' = Ln(fs, "next", 1, target)
<1>1. mem.fs = fs /\ mem.target = target /\ mem.at = at
  BY LnFields
<1>2. PICK r : r = IF job.s THEN Symlink(fs, Head(inp), target) ELSE LinkTo(fs, Head(inp), target, ~job.P)
  OBVIOUS
<1>3. PICK x : x = r.fs
  OBVIOUS
<1>4. DoneWith(IF r.err = "" THEN Having(mem, x) ELSE Failed(mem))
  BY <1>1, <1>2, <1>3 DEF LnLink, Having
<1>5. Going(Having(mem, x), "next") = Ln(x, "next", rval, target) /\ Going(Failing(mem), "next") = Ln(fs, "next", 1, target)
  BY LnSets
<1>6. \/ r.err = "" /\ mem' = Ln(r.fs, "next", rval, target)
      \/ r.err # "" /\ mem' = Ln(fs, "next", 1, target)
  BY <1>3, <1>4, <1>5 DEF DoneWith, Going, Failing
<1>7. at = "link" /\ inp' = Tail(inp)
  BY <1>1, <1>4 DEF LnLink, At, DoneWith
<1> QED BY <1>2, <1>6, <1>7

\* link(2) gives a file that is there one more name, or does nothing.
LEMMA LinkAdds ==
  ASSUME NEW fs, IsTree(fs), NEW p \in Path, NEW q \in Path, NEW follow \in BOOLEAN, NEW r, r = LinkTo(fs, p, q, follow),
         NEW s, follow => s = Follow(fs, p), ~follow => s = Entry(fs, p)
  PROVE  \/ r.err # "" /\ r.fs = fs
         \/ r.err = "" /\ s \in DOMAIN fs.at /\ MadeAt(r.fs, fs, Entry(fs, q), fs.at[s])
<1>1. PICK e, ino : s = (IF follow THEN Follow(fs, p) ELSE Entry(fs, p)) /\ e = Entry(fs, q) /\ ino = fs.at[s]
  OBVIOUS
<1>2. \/ \E x \in {"ENOENT", "EPERM", "EEXIST", "EXDEV", "EACCES"} : r = Err(fs, x)
      \/ TypeAt(fs, s) \notin {"none", "dir"} /\ e # None /\ TypeAt(fs, e) = "none" /\ r = Ok(Named(fs, e, ino))
  BY <1>1 DEF LinkTo
<1>3. CASE \E x \in {"ENOENT", "EPERM", "EEXIST", "EXDEV", "EACCES"} : r = Err(fs, x)
  <2>1. r.fs = fs /\ r.err \in {"ENOENT", "EPERM", "EEXIST", "EXDEV", "EACCES"}
    BY <1>3 DEF Err
  <2>2. \A x \in {"ENOENT", "EPERM", "EEXIST", "EXDEV", "EACCES"} : x # ""
    OBVIOUS
  <2> QED BY <2>1, <2>2
<1>4. CASE TypeAt(fs, s) \notin {"none", "dir"} /\ e # None /\ TypeAt(fs, e) = "none" /\ r = Ok(Named(fs, e, ino))
  <2>1. PICK w : w = Named(fs, e, ino)
    OBVIOUS
  <2>2. r.err = "" /\ r.fs = w
    <3>1. r = Ok(w)
      BY <1>4, <2>1
    <3>2. \A x : Ok(x).err = "" /\ Ok(x).fs = x
      BY DEF Ok
    <3> QED BY <3>1, <3>2
  <2>3. /\ DOMAIN w.at = DOMAIN fs.at \cup {e} /\ w.at[e] = ino /\ \A x \in DOMAIN fs.at \ {e} : w.at[x] = fs.at[x]
        /\ IsMap(w.at)
        /\ w.node = fs.node /\ w.next = fs.next
        /\ w = [at |-> w.at, node |-> w.node, next |-> w.next, dev |-> w.dev, fixed |-> w.fixed,
                unwritable |-> w.unwritable]
    BY <2>1, NamedIs
  <2>4. e \in Path /\ e # None /\ e \notin DOMAIN fs.at /\ TypeAt(fs, Front(e)) = "dir"
    BY <1>1, <1>4, MakePlace
  <2>5. s \in DOMAIN fs.at /\ ino \in DOMAIN fs.node
    BY <1>1, <1>4 DEF TypeAt, IsTree
  <2>6. Node(w, e) = Node(fs, s)
    BY <1>1, <2>3 DEF Node
  <2>7. Node(fs, s).type # "none" /\ (Node(fs, s).type = "link" => Node(fs, s).data \in Path)
    BY <2>5 DEF IsTree, TypeAt
  <2>8. IsMap(w.node) /\ w.next \in Int /\ fs.next <= w.next
        /\ (\A i \in DOMAIN w.node : i \in Int /\ i < w.next /\ IsNode(w.node[i]))
        /\ \A i \in DOMAIN fs.node : i \in DOMAIN w.node /\ w.node[i] = fs.node[i]
    BY <2>3 DEF IsTree, IsMap, IsNode
  <2>9. \A x \in DOMAIN fs.at : w.at[x] = fs.at[x]
    BY <2>3, <2>4
  <2>10. Grown(w, fs)
    BY <2>3, <2>4, <2>5, <2>6, <2>7, <2>8, <2>9, TreeWith
  <2> QED BY <1>1, <2>2, <2>3, <2>4, <2>5, <2>10 DEF MadeAt
<1> QED BY <1>2, <1>3, <1>4

\* What a link is to when it has been made
LEMMA LnLinks ==
  ASSUME IsJob(job), Single(job), NEW fs, Cleared(fs, job.fs, LnPlace(job)), NEW r,
         r = IF job.s THEN Symlink(fs, Head(job.files), LnPath(job)) ELSE LinkTo(fs, Head(job.files), LnPath(job), ~job.P),
         r.err = ""
  PROVE  LnMade(job, r.fs) /\ \E ino : MadeAt(r.fs, fs, LnPlace(job), ino)
<1>1. PICK f, p, e, now, was : f = Head(job.files) /\ p = LnPath(job) /\ e = LnPlace(job) /\ now = r.fs /\ was = job.fs
  OBVIOUS
<1>2. Cleared(fs, was, e) /\ f \in Path /\ p \in Path /\ e = Entry(was, p)
  BY <1>1, OneOperand, LnPathIn DEF LnPlace
<1>6. /\ IsTree(fs)
      /\ \A q \in Path : Entry(fs, q) # None => Entry(was, q) = Entry(fs, q)
      /\ \A q \in Path : Follow(fs, q) \in DOMAIN fs.at => Follow(was, q) = Follow(fs, q)
      /\ \A q \in DOMAIN fs.at : fs.at[q] = was.at[q]
  <2>1. IsTree(fs) /\ (\A q \in Path : Entry(fs, q) # None => Entry(was, q) = Entry(fs, q))
        /\ \A q \in Path : Follow(fs, q) \in DOMAIN fs.at => Follow(was, q) = Follow(fs, q)
    BY <1>2, ClearedAgrees
  <2>2. \A q \in DOMAIN fs.at : fs.at[q] = was.at[q]
    BY <1>2 DEF Cleared, Left
  <2> QED BY <2>1, <2>2
<1>3. ASSUME NEW ino, MadeAt(now, fs, Entry(fs, p), ino)
      PROVE  MadeAt(now, fs, e, ino) /\ e \in DOMAIN now.at /\ now.at[e] = ino
  <2>1. Entry(fs, p) # None
    BY <1>3 DEF MadeAt
  <2>2. Entry(fs, p) = e
    BY <1>2, <1>6, <2>1
  <2> QED BY <1>3, <2>2 DEF MadeAt
<1>4. CASE job.s
  <2>1. PICK node : node = LnNode(job)
    OBVIOUS
  <2>2. r = Make(fs, p, node)
    BY <1>1, <1>4, <2>1 DEF Symlink, LnNode
  <2>3. IsNode(node) /\ node.type = "link" /\ node.data = f
    BY <1>1, <2>1 DEF IsNode, LnNode
  <2>4. node.type # "none" /\ (node.type = "link" => node.data \in Path)
    BY <1>2, <2>3
  <2>5. Makes(r, fs, p, node)
    BY <1>2, <1>6, <2>2, <2>3, <2>4, MakeAdds
  <2>6. MadeAt(now, fs, Entry(fs, p), fs.next) /\ now.node[fs.next] = node
    BY <1>1, <2>5 DEF Makes
  <2>7. MadeAt(now, fs, e, fs.next) /\ e \in DOMAIN now.at /\ now.at[e] = fs.next
    BY <1>3, <2>6
  <2> QED BY <1>1, <1>4, <2>1, <2>6, <2>7 DEF LnMade
<1>5. CASE ~job.s
  <2>0. PICK follow \in BOOLEAN : follow = (~job.P)
    OBVIOUS
  <2>1. PICK s : follow = (~job.P) /\ s = IF follow THEN Follow(fs, f) ELSE Entry(fs, f)
    BY <2>0
  <2>2. r = LinkTo(fs, f, p, follow)
    BY <1>1, <1>5, <2>1
  <2>3. s \in DOMAIN fs.at /\ MadeAt(now, fs, Entry(fs, p), fs.at[s])
    <3>1. (follow => s = Follow(fs, f)) /\ (~follow => s = Entry(fs, f))
      BY <2>1
    <3>2. \/ r.err # "" /\ r.fs = fs
          \/ r.err = "" /\ s \in DOMAIN fs.at /\ MadeAt(r.fs, fs, Entry(fs, p), fs.at[s])
      BY <1>2, <1>6, <2>2, <3>1, LinkAdds
    <3> QED BY <1>1, <3>2
  <2>4. s # None
    BY <1>6, <2>3 DEF IsTree
  <2>5. s = LnSource(job) /\ fs.at[s] = job.fs.at[s]
    <3>1. s = IF follow THEN Follow(was, f) ELSE Entry(was, f)
      BY <1>2, <1>6, <2>1, <2>3, <2>4
    <3> QED BY <1>1, <1>6, <2>1, <2>3, <3>1 DEF LnSource
  <2>6. MadeAt(now, fs, e, fs.at[s]) /\ e \in DOMAIN now.at /\ now.at[e] = fs.at[s]
    BY <1>3, <2>3
  <2> QED BY <1>1, <1>5, <2>5, <2>6 DEF LnMade
<1> QED BY <1>4, <1>5

LEMMA LnDone1 ==
  ASSUME IsJob(job), Single(job), NEW b, Cleared(b, job.fs, LnPlace(job)), b = job.fs \/ LnPassed(job),
         NEW fs, fs = b \/ \E ino : MadeAt(fs, b, LnPlace(job), ino), NEW rval, rval = 0 => LnMade(job, fs), NEW target
  PROVE  LnState(job, Ln(fs, "next", rval, target), <<>>)
<1>1. LnFiles(job, fs)
  BY DEF LnFiles
<1>2. LnAt(job, fs, "next", rval, target, <<>>)
  BY <1>1 DEF LnAt
<1> QED BY <1>2, LnMakes

LEMMA LnKeepsOn ==
  ASSUME IsJob(job), Single(job), LnState(job, mem, inp), LnCheck \/ LnRemove \/ LnLink
  PROVE  LnState(job, mem', inp')
<1>1. PICK fs, at, rval, target : mem = Ln(fs, at, rval, target) /\ LnAt(job, fs, at, rval, target, inp)
  BY LnStateIs
<1>2. mem.at = at
  BY <1>1, LnFields
<1>3. inp # <<>>
  <2>1. CASE LnCheck
    BY <2>1 DEF LnCheck
  <2>2. CASE at = "remove" \/ at = "link"
    <3>1. at # "next"
      BY <2>2
    <3>2. inp = job.files
      BY <1>1, <3>1 DEF LnAt
    <3> QED BY <3>2, OneOperand
  <2> QED BY <1>2, <2>1, <2>2 DEF LnRemove, LnLink, At
<1>4. inp = job.files /\ Tail(inp) = <<>> /\ Head(inp) = Head(job.files)
  BY <1>1, <1>3, OneOperand DEF LnAt
<1>5. 1 # 0
  OBVIOUS
<1>6. Cleared(job.fs, job.fs, LnPlace(job))
  BY DEF Cleared, Left, IsJob
<1>7. CASE LnCheck
  <2>1. fs = job.fs
    BY <1>1, <1>2, <1>3, <1>7 DEF LnCheck, At, LnAt
  <2>2. CASE mem' = Ln(fs, "next", 1, target) /\ inp' = Tail(inp)
    BY <1>4, <1>5, <1>6, <2>1, <2>2, LnDone1
  <2>3. ASSUME LnPassed(job), inp' = inp, NEW w \in {"remove", "link"}, mem' = Ln(fs, w, rval, LnPath(job))
        PROVE  LnState(job, mem', inp')
    <3>1. LnAt(job, fs, w, rval, LnPath(job), inp)
      BY <1>4, <1>6, <2>1, <2>3 DEF LnAt
    <3> QED BY <2>3, <3>1, LnMakes
  <2> QED BY <1>1, <1>4, <1>7, <2>1, <2>2, <2>3, LnCheckDoes
<1>8. CASE LnRemove
  <2>1. PICK r : /\ r = Rmdir(fs, target) \/ r = Unlink(fs, target)
                 /\ \/ r.err = "" /\ mem' = Ln(r.fs, "link", rval, target) /\ inp' = inp
                    \/ r.err # "" /\ mem' = Ln(fs, "next", 1, target) /\ inp' = Tail(inp)
    BY <1>1, <1>8, LnRemoveDoes
  <2>2. Cleared(fs, job.fs, LnPlace(job)) /\ target = LnPath(job) /\ LnPassed(job)
    BY <1>1, <1>2, <1>3, <1>8 DEF LnRemove, At, LnAt
  <2>3. target \in Path /\ Entry(job.fs, target) = LnPlace(job) /\ IsTree(fs)
    BY <2>2, LnPathIn, ClearedAgrees DEF LnPlace
  <2>4. \E type : Taken(r, fs, Entry(fs, target), type)
    BY <2>1, <2>3, UnlinkTakes, RmdirTakes
  <2>5. Cleared(r.fs, job.fs, LnPlace(job))
    BY <2>2, <2>3, <2>4, ClearedTaken
  <2>6. CASE r.err = "" /\ mem' = Ln(r.fs, "link", rval, target) /\ inp' = inp
    <3>1. LnAt(job, r.fs, "link", rval, target, inp)
      BY <1>4, <2>2, <2>5 DEF LnAt
    <3> QED BY <2>6, <3>1, LnMakes
  <2>7. CASE r.err # "" /\ mem' = Ln(fs, "next", 1, target) /\ inp' = Tail(inp)
    BY <1>4, <1>5, <2>2, <2>7, LnDone1
  <2> QED BY <2>1, <2>6, <2>7
<1>9. CASE LnLink
  <2>1. /\ inp' = Tail(inp)
        /\ \E r : /\ r = IF job.s THEN Symlink(fs, Head(inp), target) ELSE LinkTo(fs, Head(inp), target, ~job.P)
                  /\ \/ r.err = "" /\ mem' = Ln(r.fs, "next", rval, target)
                     \/ r.err # "" /\ mem' = Ln(fs, "next", 1, target)
    BY <1>1, <1>9, LnLinkDoes
  <2>2. Cleared(fs, job.fs, LnPlace(job)) /\ target = LnPath(job) /\ LnPassed(job)
    BY <1>1, <1>2, <1>3, <1>9 DEF LnLink, At, LnAt
  <2>3. PICK r : /\ r = IF job.s THEN Symlink(fs, Head(job.files), LnPath(job)) ELSE LinkTo(fs, Head(job.files), LnPath(job), ~job.P)
                 /\ \/ r.err = "" /\ mem' = Ln(r.fs, "next", rval, target)
                    \/ r.err # "" /\ mem' = Ln(fs, "next", 1, target)
    BY <1>4, <2>1, <2>2
  <2>4. CASE r.err = "" /\ mem' = Ln(r.fs, "next", rval, target)
    <3>1. LnMade(job, r.fs) /\ \E ino : MadeAt(r.fs, fs, LnPlace(job), ino)
      BY <2>2, <2>3, <2>4, LnLinks
    <3> QED BY <1>4, <2>1, <2>2, <2>4, <3>1, LnDone1
  <2>5. CASE r.err # "" /\ mem' = Ln(fs, "next", 1, target)
    BY <1>4, <1>5, <2>1, <2>2, <2>5, LnDone1
  <2> QED BY <2>3, <2>4, <2>5
<1> QED BY <1>7, <1>8, <1>9

\* A link takes no name but the one it replaces, and never the last one of the file it is to.
LEMMA LnKeeps ==
  ASSUME IsJob(job), Single(job), Aside(job), job.tool = "ln", LnState(job, mem, inp)
  PROVE  LnKept
<1>1. PICK fs, at, rval, target : mem = Ln(fs, at, rval, target) /\ LnAt(job, fs, at, rval, target, inp)
  BY LnStateIs
<1>2. mem.fs = fs
  BY <1>1, LnFields
<1>3. PICK e : e = LnPlace(job)
  OBVIOUS
<1>4. \E b : /\ Cleared(b, job.fs, e) /\ (b = job.fs \/ LnPassed(job))
             /\ fs = b \/ \E ino : MadeAt(fs, b, e, ino)
  <2>1. Cleared(job.fs, job.fs, e)
    BY DEF Cleared, Left, IsJob
  <2> QED BY <1>1, <1>3, <2>1 DEF LnAt, LnFiles
<1>5. PICK b : /\ Cleared(b, job.fs, e) /\ (b = job.fs \/ LnPassed(job))
               /\ fs = b \/ \E ino : MadeAt(fs, b, e, ino)
  BY <1>4
<1>6. /\ \A p \in DOMAIN b.at : p \in DOMAIN job.fs.at /\ b.at[p] = job.fs.at[p]
      /\ b.node = job.fs.node /\ \A p \in DOMAIN job.fs.at \ {e} : p \in DOMAIN b.at
  BY <1>5 DEF Cleared, Left
<1>7. /\ \A p \in DOMAIN b.at : p \in DOMAIN fs.at /\ fs.at[p] = b.at[p]
      /\ \A i \in DOMAIN b.node : fs.node[i] = b.node[i]
  BY <1>5 DEF MadeAt, Grown
<1>8. ASSUME NEW p \in DOMAIN b.at
      PROVE  p \in DOMAIN fs.at /\ fs.at[p] = job.fs.at[p] /\ fs.node[fs.at[p]] = job.fs.node[job.fs.at[p]]
  <2>1. p \in DOMAIN job.fs.at /\ b.at[p] = job.fs.at[p]
    BY <1>6
  <2>2. b.at[p] \in DOMAIN b.node
    BY <1>6, <2>1 DEF IsJob, IsTree
  <2> QED BY <1>6, <1>7, <2>1, <2>2
<1>9. ASSUME NEW p \in DOMAIN job.fs.at \ LnTargets PROVE Same(p)
  <2>1. p # None
    BY DEF IsJob, IsTree
  <2>2. p # e
    BY <1>3, <2>1, LnPlaceIn
  <2>3. p \in DOMAIN b.at
    BY <1>6, <2>2
  <2> QED BY <1>2, <1>8, <2>3 DEF Same
<1>10. ASSUME NEW f \in Range(job.files), ~job.s, TypeAt(job.fs, Follow(job.fs, f)) = "file"
       PROVE  \E p \in DOMAIN mem.fs.at : mem.fs.at[p] = job.fs.at[Follow(job.fs, f)]
  <2>1. PICK s : s = Follow(job.fs, f)
    OBVIOUS
  <2>2. f = Head(job.files)
    <3>1. Range(job.files) = {Head(job.files)}
      BY OneOperand
    <3> QED BY <1>10, <3>1
  <2>3. s \in DOMAIN job.fs.at
    BY <1>10, <2>1 DEF TypeAt
  <2>4. b = job.fs \/ s # e
    BY <1>3, <1>5, <1>10, <2>1, <2>2, LnAside
  <2>5. s \in DOMAIN b.at
    BY <1>6, <2>3, <2>4
  <2> QED BY <1>2, <1>8, <2>1, <2>5
<1> QED BY <1>9, <1>10 DEF LnKept

LEMMA LnEndDone ==
  ASSUME IsJob(job), Single(job), job.tool = "ln", LnState(job, mem, inp), inp = <<>>, mem.rval = 0
  PROVE  LnDone
<1>1. PICK fs, at, rval, target : mem = Ln(fs, at, rval, target) /\ LnAt(job, fs, at, rval, target, inp)
  BY LnStateIs
<1>2. mem.fs = fs /\ rval = 0
  BY <1>1, LnFields
<1>3. job.files # <<>> /\ Range(job.files) = {Head(job.files)}
  BY OneOperand
<1>4. LnMade(job, fs) /\ LnFiles(job, fs)
  BY <1>1, <1>2, <1>3 DEF LnAt
<1>5. PICK e : e = LnPlace(job)
  OBVIOUS
<1>6. e \in DOMAIN fs.at
  BY <1>4, <1>5 DEF LnMade
<1>7. IsTree(fs)
  BY <1>4, ClearedAgrees DEF LnFiles, MadeAt, Grown
<1>8. e # None
  BY <1>6, <1>7 DEF IsTree
<1>9. e \in LnTargets \cap DOMAIN mem.fs.at
  BY <1>2, <1>5, <1>6, <1>8, LnPlaceIn
<1>10. ASSUME NEW f \in Range(job.files)
       PROVE  IF job.s THEN mem.fs.node[mem.fs.at[e]] = [type |-> "link", data |-> f, mode |-> ""]
              ELSE mem.fs.at[e] = job.fs.at[IF job.P THEN Entry(job.fs, f) ELSE Follow(job.fs, f)]
  <2>1. f = Head(job.files)
    BY <1>3
  <2>2. CASE job.s
    <3>1. fs.node[fs.at[e]] = LnNode(job)
      BY <1>4, <1>5, <2>2 DEF LnMade
    <3> QED BY <1>2, <2>1, <2>2, <3>1 DEF LnNode
  <2>3. CASE ~job.s
    <3>1. fs.at[e] = job.fs.at[LnSource(job)]
      BY <1>4, <1>5, <2>3 DEF LnMade
    <3> QED BY <1>2, <2>1, <2>3, <3>1 DEF LnSource
  <2> QED BY <2>2, <2>3
<1> QED BY <1>9, <1>10 DEF LnDone

-----------------------------------------------------------------------------
(* mv, with one operand.                                                     *)

\* What is at x, at p or below, has this path when p is moved to q.
Grafted(x, p, q) == q \o SubSeq(x, Len(p) + 1, Len(x))

Grafts(y, x, p, q) ==
  /\ Len(p) <= Len(x) /\ Len(y) = Len(q) + (Len(x) - Len(p))
  /\ \A i \in 1 .. Len(q) : y[i] = q[i]
  /\ \A k \in 1 .. Len(x) - Len(p) : y[Len(q) + k] = x[Len(p) + k]

LEMMA GraftIs ==
  ASSUME NEW p \in Path, NEW q \in Path, NEW x \in Path, Len(p) <= Len(x), NEW z, z = Grafted(x, p, q)
  PROVE  z \in Path /\ Grafts(z, x, p, q)
<1>1. PICK l \in Nat, m \in Nat, n \in Nat : l = Len(p) /\ m = Len(q) /\ n = Len(x) /\ l <= n
  BY DEF Path
<1>2. PICK t : t = SubSeq(x, l + 1, n)
  OBVIOUS
<1>3. t \in Seq(STRING) /\ Len(t) = n - l /\ \A k \in 1 .. n - l : t[k] = x[l + k]
  <2>1. \A i \in l + 1 .. n : x[i] \in STRING
    BY <1>1 DEF Path
  <2>2. l + 1 \in Int /\ n \in Int
    BY <1>1
  <2>3. /\ t \in Seq(STRING) /\ Len(t) = IF l + 1 <= n THEN n - (l + 1) + 1 ELSE 0
        /\ \A i \in 1 .. n - (l + 1) + 1 : t[i] = x[l + 1 + i - 1]
    BY <1>2, <2>1, <2>2, SubSeqProperties
  <2>4. \A k \in 1 .. n - l : k \in 1 .. n - (l + 1) + 1 /\ l + 1 + k - 1 = l + k
    BY <1>1
  <2>5. Len(t) = n - l
    <3>1. l + 1 <= n \/ n = l
      BY <1>1
    <3> QED BY <1>1, <2>3, <3>1
  <2>6. \A k \in 1 .. n - l : t[k] = x[l + 1 + k - 1]
    BY <2>3, <2>4
  <2> QED BY <2>3, <2>4, <2>5, <2>6
<1>4. PICK y : y = q \o t
  OBVIOUS
<1>5. /\ y \in Seq(STRING) /\ Len(y) = Len(q) + Len(t)
      /\ \A i \in 1 .. Len(q) + Len(t) : y[i] = IF i <= Len(q) THEN q[i] ELSE t[i - Len(q)]
  BY <1>3, <1>4, ConcatProperties, Zenon DEF Path
<1>6. \A i \in 1 .. m : y[i] = q[i]
  BY <1>1, <1>3, <1>5
<1>7. \A k \in 1 .. n - l : y[m + k] = x[l + k]
  <2> TAKE k \in 1 .. n - l
  <2>1. m + k \in 1 .. m + (n - l) /\ ~(m + k <= m) /\ (m + k) - m = k
    BY <1>1
  <2>2. y[m + k] = t[k]
    BY <1>1, <1>3, <1>5, <2>1
  <2> QED BY <1>3, <2>2
<1>8. y = Grafted(x, p, q)
  BY <1>1, <1>2, <1>4 DEF Grafted
<1>9. y \in Path /\ Len(y) = m + (n - l)
  BY <1>1, <1>3, <1>5 DEF Path
<1> QED BY <1>1, <1>6, <1>7, <1>8, <1>9 DEF Grafts

\* Only one path is such.
LEMMA GraftedIs ==
  ASSUME NEW p \in Path, NEW q \in Path, NEW x \in Path, NEW y \in Path, Grafts(y, x, p, q)
  PROVE  y = Grafted(x, p, q)
<1>1. PICK l \in Nat, m \in Nat, n \in Nat : l = Len(p) /\ m = Len(q) /\ n = Len(x) /\ l <= n
  BY DEF Path, Grafts
<1>0. Len(y) = m + (n - l) /\ (\A i \in 1 .. m : y[i] = q[i]) /\ \A k \in 1 .. n - l : y[m + k] = x[l + k]
  BY <1>1 DEF Grafts
<1>2. PICK z : z = Grafted(x, p, q)
  OBVIOUS
<1>3. z \in Path /\ Len(z) = m + (n - l) /\ (\A i \in 1 .. m : z[i] = q[i]) /\ \A k \in 1 .. n - l : z[m + k] = x[l + k]
  <2>1. z \in Path /\ Grafts(z, x, p, q)
    BY <1>1, <1>2, GraftIs
  <2> QED BY <1>1, <2>1 DEF Grafts
<1>4. ASSUME NEW i \in 1 .. Len(y) PROVE y[i] = z[i]
  <2>1. CASE i <= m
    BY <1>0, <1>1, <1>3, <2>1
  <2>2. CASE ~(i <= m)
    <3>1. PICK k : k = i - m
      OBVIOUS
    <3>4. i \in 1 .. m + (n - l)
      BY <1>0
    <3>5. k \in 1 .. n - l
      BY <1>1, <2>2, <3>1, <3>4
    <3>2. y[m + k] = z[m + k]
      BY <1>0, <1>3, <3>5
    <3>3. i = m + k
      BY <1>1, <3>1
    <3> QED BY <3>2, <3>3
  <2> QED BY <2>1, <2>2
<1>5. y \in Seq(STRING) /\ z \in Seq(STRING) /\ Len(y) = Len(z)
  BY <1>0, <1>3 DEF Path
<1> QED BY <1>2, <1>4, <1>5, SeqEqual, Zenon

LEMMA GraftFacts ==
  ASSUME NEW p \in Path, NEW q \in Path, NEW x \in Path, IsPrefix(p, x), NEW y, y = Grafted(x, p, q)
  PROVE  /\ y \in Path /\ IsPrefix(q, y) /\ Grafted(y, q, p) = x
         /\ x = p <=> y = q
         /\ p = q => y = x
         /\ x # p => /\ x # <<>> /\ y # <<>> /\ IsPrefix(p, Front(x)) /\ Front(y) = Grafted(Front(x), p, q)
                     /\ Last(y) = Last(x)
<1>1. PICK l \in Nat, m \in Nat, n \in Nat : l = Len(p) /\ m = Len(q) /\ n = Len(x)
  BY DEF Path
<1>2. l <= n /\ \A i \in 1 .. l : p[i] = x[i]
  BY <1>1, PrefixIs DEF Path
<1>3. y \in Path /\ Len(y) = m + (n - l) /\ (\A i \in 1 .. m : y[i] = q[i]) /\ \A k \in 1 .. n - l : y[m + k] = x[l + k]
  <2>1. Len(p) <= Len(x)
    BY <1>1, <1>2
  <2>2. y \in Path /\ Grafts(y, x, p, q)
    BY <2>1, GraftIs
  <2> QED BY <1>1, <2>2 DEF Grafts
<1>4. IsPrefix(q, y)
  <2>1. Len(q) <= Len(y) /\ \A i \in 1 .. Len(q) : q[i] = y[i]
    BY <1>1, <1>2, <1>3
  <2> QED BY <1>3, <2>1, PrefixIs DEF Path
<1>5. Grafted(y, q, p) = x
  <2>1. n = l + ((m + (n - l)) - m) /\ (m + (n - l)) - m = n - l /\ m <= m + (n - l)
    BY <1>1, <1>2
  <2>2. \A i \in 1 .. l : x[i] = p[i]
    BY <1>2
  <2>3. \A k \in 1 .. n - l : x[l + k] = y[m + k]
    BY <1>3
  <2>4. Grafts(x, y, q, p)
    BY <1>1, <1>3, <2>1, <2>2, <2>3 DEF Grafts
  <2> QED BY <1>3, <2>4, GraftedIs
<1>6. x = p => y = q
  <2> HAVE x = p
  <2>1. n = l
    BY <1>1
  <2>2. Len(y) = Len(q) /\ \A i \in 1 .. Len(q) : y[i] = q[i]
    BY <1>1, <1>3, <2>1
  <2> QED BY <1>3, <2>2, SeqEqual DEF Path
<1>7. y = q => x = p
  <2> HAVE y = q
  <2>1. n = l
    BY <1>1, <1>2, <1>3
  <2>2. Len(x) = Len(p) /\ \A i \in 1 .. Len(x) : x[i] = p[i]
    BY <1>1, <1>2, <2>1
  <2> QED BY <2>2, SeqEqual DEF Path
<1>8. p = q => y = x
  <2> HAVE p = q
  <2>1. n = m + (n - l) /\ \A i \in 1 .. m : x[i] = q[i]
    BY <1>1, <1>2
  <2>2. \A k \in 1 .. n - l : x[m + k] = x[l + k]
    BY <1>1
  <2>3. Grafts(x, x, p, q)
    BY <1>1, <1>2, <2>1, <2>2 DEF Grafts
  <2> QED BY <2>3, GraftedIs
<1>9. ASSUME x # p
      PROVE  /\ x # <<>> /\ y # <<>> /\ IsPrefix(p, Front(x)) /\ Front(y) = Grafted(Front(x), p, q)
             /\ Last(y) = Last(x)
  <2>1. l < n
    <3>1. l = n => x = p
      <4> HAVE l = n
      <4>1. Len(x) = Len(p) /\ \A i \in 1 .. Len(x) : x[i] = p[i]
        BY <1>1, <1>2
      <4> QED BY <4>1, SeqEqual DEF Path
    <3> QED BY <1>1, <1>2, <1>9, <3>1
  <2>2. x # <<>> /\ y # <<>>
    <3>1. PICK i \in Int : i = Len(x) /\ i > 0
      BY <1>1, <2>1
    <3>2. PICK k \in Int : k = Len(y) /\ k > 0
      BY <1>1, <1>3, <2>1
    <3>3. x = <<>> => i = 0
      BY <3>1
    <3>4. y = <<>> => k = 0
      BY <3>2
    <3> QED BY <3>1, <3>2, <3>3, <3>4
  <2>3. IsPrefix(p, Front(x))
    BY <1>9, <2>2, PrefixFacts
  <2>4. PICK u, v, a, b : u = Front(x) /\ v = Front(y) /\ a = Last(x) /\ b = Last(y)
    OBVIOUS
  <2>5. u \in Path /\ v \in Path /\ a \in STRING /\ b \in STRING /\ Append(u, a) = x /\ Append(v, b) = y
    BY <1>3, <2>2, <2>4, PathFront
  <2>6. Len(u) = n - 1 /\ Len(v) = m + (n - l) - 1
    BY <1>1, <1>3, <2>2, <2>4, PathFront
  <2>7. /\ \A i \in 1 .. n - 1 : x[i] = u[i]
        /\ \A i \in 1 .. m + (n - l) - 1 : y[i] = v[i]
    BY SMTT(30), <2>5, <2>6, PathSnoc
  <2>8. x[n] = a /\ y[m + (n - l)] = b
    <3>1. x[Len(u) + 1] = a /\ y[Len(v) + 1] = b
      BY <2>5, PathSnoc
    <3>2. Len(u) + 1 = n /\ Len(v) + 1 = m + (n - l)
      BY <1>1, <2>6
    <3> QED BY <3>1, <3>2
  <2>9. a = b
    <3>1. n - l \in 1 .. n - l /\ l + (n - l) = n
      BY <1>1, <2>1
    <3> QED BY <1>3, <2>8, <3>1
  <2>10. v = Grafted(u, p, q)
    <3>1. l <= n - 1 /\ m + (n - l) - 1 = m + ((n - 1) - l)
      BY <1>1, <2>1
    <3>2. \A i \in 1 .. m : v[i] = q[i]
      <4> TAKE i \in 1 .. m
      <4>1. i \in 1 .. m + (n - l) - 1
        BY <1>1, <2>1
      <4> QED BY <1>3, <2>7, <4>1
    <3>3. \A k \in 1 .. (n - 1) - l : v[m + k] = u[l + k]
      <4> TAKE k \in 1 .. (n - 1) - l
      <4>1. k \in 1 .. n - l /\ m + k \in 1 .. m + (n - l) - 1 /\ l + k \in 1 .. n - 1
        BY <1>1, <2>1
      <4> QED BY <1>3, <2>7, <4>1
    <3>4. Grafts(v, u, p, q)
      BY <1>1, <2>6, <3>1, <3>2, <3>3 DEF Grafts
    <3> QED BY <2>5, <3>4, GraftedIs
  <2> QED BY <2>2, <2>3, <2>4, <2>9, <2>10
<1> QED BY <1>3, <1>4, <1>5, <1>6, <1>7, <1>8, <1>9

LEMMA PrefixEither ==
  ASSUME NEW s \in Path, NEW t \in Path, NEW x \in Path, IsPrefix(s, x), IsPrefix(t, x)
  PROVE  IsPrefix(s, t) \/ IsPrefix(t, s)
<1>1. PICK l \in Nat, m \in Nat, n \in Nat : l = Len(s) /\ m = Len(t) /\ n = Len(x)
  BY DEF Path
<1>2. /\ l <= n /\ m <= n /\ \A i \in 1 .. l : s[i] = x[i]
      /\ \A i \in 1 .. m : t[i] = x[i]
  BY SMTT(30), <1>1, PrefixIs DEF Path
<1>3. CASE l <= m
  <2>1. Len(s) <= Len(t) /\ \A i \in 1 .. Len(s) : s[i] = t[i]
    BY <1>1, <1>2, <1>3
  <2> QED BY <2>1, PrefixIs DEF Path
<1>4. CASE ~(l <= m)
  <2>1. Len(t) <= Len(s) /\ \A i \in 1 .. Len(t) : t[i] = s[i]
    BY <1>1, <1>2, <1>4
  <2> QED BY <2>1, PrefixIs DEF Path
<1> QED BY <1>3, <1>4

\* Where the operand is, and where it goes
MvDir(j) == Stat(j.fs, j.to) = "dir" /\ ~(j.h /\ Lstat(j.fs, j.to) = "link")
MvPath(j) == IF MvDir(j) THEN Append(j.to, Last(Head(j.files))) ELSE j.to
MvOld(j) == Entry(j.fs, Head(j.files))
MvNew(j) == Entry(j.fs, MvPath(j))
Separate(fs, s, e) == /\ s \in DOMAIN fs.at /\ s # <<>> /\ e \in Path /\ e # None /\ e # <<>>
                      /\ ~IsPrefix(s, e) /\ ~IsPrefix(e, s)
Apart(j) == Separate(j.fs, MvOld(j), MvNew(j))
\* All of the operand is at q, and nothing but what was at its two places has changed.
Whole(j, fs, q) == \A x \in DOMAIN j.fs.at : IsPrefix(MvOld(j), x) => What(fs, Grafted(x, MvOld(j), q)) = What(j.fs, x)
Unlike(j, p) == ~IsPrefix(MvOld(j), p) /\ ~IsPrefix(MvNew(j), p)
SameAt(fs, was, p) == p \in DOMAIN fs.at /\ fs.at[p] = was.at[p] /\ fs.node[fs.at[p]] = was.node[was.at[p]]
Spared(j, fs) == /\ \A p \in DOMAIN j.fs.at : Unlike(j, p) => SameAt(fs, j.fs, p)
                 /\ \A p \in DOMAIN fs.at \ DOMAIN j.fs.at : IsPrefix(MvNew(j), p)
MvHeld(j, fs) == fs = j.fs \/ (Apart(j) /\ (Whole(j, fs, MvOld(j)) \/ Whole(j, fs, MvNew(j))) /\ Spared(j, fs))
MvGone(j, fs) == MvOld(j) \notin DOMAIN fs.at

LEMMA MvPlaces ==
  ASSUME NEW j, IsJob(j), Single(j)
  PROVE  /\ MvPath(j) \in Path /\ MvPath(j) # <<>>
         /\ MvOld(j) \in Place /\ MvNew(j) \in Place
         /\ MvOld(j) # <<>> /\ MvNew(j) # <<>>
<1>1. PICK f, b, t, fs : f = Head(j.files) /\ b = Last(f) /\ t = j.to /\ fs = j.fs
  OBVIOUS
<1>2. f \in Path /\ f # <<>> /\ b \in STRING /\ t \in Path /\ IsTree(fs)
  BY <1>1, OneOperand DEF Single, IsJob
<1>3. MvPath(j) \in Path /\ MvPath(j) # <<>>
  <2>1. CASE MvDir(j)
    BY <1>1, <1>2, <2>1, PathSnoc DEF MvPath
  <2>2. CASE ~MvDir(j)
    <3>1. Follow(fs, <<>>) = <<>> /\ Entry(fs, <<>>) = <<>> /\ TypeAt(fs, <<>>) = "dir"
      BY <1>2, FollowFacts DEF IsTree, Entry
    <3>2. Stat(fs, <<>>) = "dir" /\ Lstat(fs, <<>>) = "dir"
      BY <3>1 DEF Stat, Lstat
    <3>3. t # <<>>
      BY <1>1, <2>2, <3>2 DEF MvDir
    <3> QED BY <1>1, <1>2, <2>2, <3>3 DEF MvPath
  <2> QED BY <2>1, <2>2
<1>4. \A p \in Path : p # <<>> => Entry(fs, p) \in Place /\ Entry(fs, p) # <<>>
  <2> SUFFICES ASSUME NEW p \in Path, p # <<>> PROVE Entry(fs, p) \in Place /\ Entry(fs, p) # <<>>
    OBVIOUS
  <2>1. Entry(fs, p) \in Place
    BY <1>2, EntryFacts
  <2>2. Entry(fs, p) # <<>>
    BY <1>2, EntryInDir, NoneDiffers
  <2> QED BY <2>1, <2>2
<1> QED BY <1>1, <1>2, <1>3, <1>4 DEF MvOld, MvNew

LEMMA MvHeldKept ==
  ASSUME IsJob(job), Single(job), job.tool = "mv", MvHeld(job, mem.fs)
  PROVE  MvKept
<1>1. PICK f, s, e, fs, was : f = Head(job.files) /\ s = MvOld(job) /\ e = MvNew(job) /\ fs = mem.fs /\ was = job.fs
  OBVIOUS
<1>2. Range(job.files) = {f} /\ f \in Path /\ IsTree(was)
  BY <1>1, OneOperand DEF IsJob
<1>3. Into(f) = MvPath(job)
  BY <1>1 DEF Into, IsDirectory, MvPath, MvDir
<1>4. Sources = {s} \ {None} /\ Targets = {e} \ {None}
  BY <1>1, <1>2, <1>3 DEF Sources, Targets, MvOld, MvNew
<1>5. s \in Place /\ e \in Place
  BY <1>1, MvPlaces
<1>6. DOMAIN was.at \subseteq Path
  BY <1>2 DEF IsTree
<1>7. CASE fs = was
  <2>1. ASSUME NEW p \in Sources, NEW inside, inside \subseteq {x \in DOMAIN was.at : IsPrefix(p, x)} PROVE Intact(inside, p, p)
    <3> SUFFICES ASSUME NEW x \in inside PROVE What(mem.fs, p \o SubSeq(x, Len(p) + 1, Len(x))) = What(job.fs, x)
      BY DEF Intact
    <3>1. x \in Path /\ p \in Path /\ IsPrefix(p, x)
      BY <1>4, <1>5, <1>6, <2>1 DEF Place
    <3>2. Grafted(x, p, p) = x
      BY <3>1, GraftFacts
    <3> QED BY <1>1, <1>7, <3>2 DEF Grafted
  <2>2. OnlyBelow(Sources \cup Targets) /\ NothingNew(Targets \cup Disturbing)
    BY <1>1, <1>7 DEF OnlyBelow, NothingNew, Same
  <2>3. ASSUME NEW g \in Sources
        PROVE  Intact({x \in DOMAIN job.fs.at : IsPrefix(g, x) /\ \A t \in Targets : IsStrictPrefix(g, t) => ~IsPrefix(t, x)}, g, g)
    BY <1>1, <2>1
  <2> QED BY <2>2, <2>3 DEF MvKept
<1>8. CASE Apart(job) /\ (Whole(job, fs, s) \/ Whole(job, fs, e)) /\ Spared(job, fs)
  <2>1. s # None /\ e # None
    BY <1>1, <1>2, <1>8 DEF Apart, Separate, IsTree
  <2>2. ASSUME NEW q, Whole(job, fs, q), NEW inside, inside \subseteq {x \in DOMAIN was.at : IsPrefix(s, x)} PROVE Intact(inside, s, q)
    BY <1>1, <2>2 DEF Intact, Whole, Grafted
  <2>3. OnlyBelow(Sources \cup Targets) /\ NothingNew(Targets \cup Disturbing)
    BY <1>1, <1>4, <1>8, <2>1 DEF OnlyBelow, NothingNew, Same, Spared, Unlike, SameAt
  <2>4. PICK inside : inside = {x \in DOMAIN job.fs.at : IsPrefix(s, x) /\ \A t \in Targets : IsStrictPrefix(s, t) => ~IsPrefix(t, x)}
    OBVIOUS
  <2>5. Intact(inside, s, s) \/ Intact(inside, s, Entry(job.fs, Into(s)))
    <3>1. inside \subseteq {x \in DOMAIN was.at : IsPrefix(s, x)}
      BY <1>1, <2>4
    <3>3. Last(s) = Last(f)
      BY <1>1, <1>2, <2>1, OneOperand, EntryInDir DEF MvOld
    <3>4. Into(s) = Into(f)
      BY <3>3 DEF Into
    <3>2. e = Entry(job.fs, Into(s))
      BY <1>1, <1>3, <3>4 DEF MvNew
    <3> QED BY <1>8, <2>2, <3>1, <3>2
  <2>6. Sources = {s}
    BY <1>4, <2>1
  <2> QED BY <2>3, <2>4, <2>5, <2>6 DEF MvKept
<1> QED BY <1>1, <1>7, <1>8 DEF MvHeld

\* A function on some paths carried over to where they go, before another one
Carried(X, s, e, a, k) == Over([y \in {Grafted(x, s, e) : x \in X} |-> a[Grafted(y, e, s)]], k)
AllGrafted(X, s, e) == {Grafted(x, s, e) : x \in X}
PathsFrom(X, s) == X \subseteq Path /\ \A x \in X : IsPrefix(s, x)
Carries(h, X, s, e, a, k) ==
  /\ \A x \in X : Grafted(x, s, e) \in DOMAIN h /\ h[Grafted(x, s, e)] = a[x]
  /\ \A p \in DOMAIN k : p \in DOMAIN h /\ (~IsPrefix(e, p) => h[p] = k[p])
  /\ \A p \in DOMAIN h : p \in DOMAIN k \/ \E x \in X : p = Grafted(x, s, e)
  /\ DOMAIN h = DOMAIN k \cup AllGrafted(X, s, e) /\ IsMap(h)

LEMMA CarriedIs ==
  ASSUME NEW s \in Path, NEW e \in Path, NEW X, PathsFrom(X, s), NEW a, NEW k,
         NEW h, h = Carried(X, s, e, a, k)
  PROVE  Carries(h, X, s, e, a, k)
<1>1. PICK Y, g : Y = {Grafted(x, s, e) : x \in X} /\ g = [y \in Y |-> a[Grafted(y, e, s)]]
  OBVIOUS
<1>2. h = Over(g, k)
  BY <1>1 DEF Carried
<1>3. \A x \in X : Grafted(x, s, e) \in Y /\ g[Grafted(x, s, e)] = a[x]
  <2> TAKE x \in X
  <2>1. PICK y : y = Grafted(x, s, e)
    OBVIOUS
  <2>2. Grafted(y, e, s) = x
    BY <2>1, GraftFacts DEF PathsFrom
  <2>3. y \in Y
    BY <1>1, <2>1
  <2>4. g[y] = a[x]
    BY <1>1, <2>2, <2>3
  <2> QED BY <2>1, <2>3, <2>4
<1>4. \A y \in Y : IsPrefix(e, y) /\ \E x \in X : y = Grafted(x, s, e)
  <2> TAKE y \in Y
  <2>1. PICK x \in X : y = Grafted(x, s, e)
    BY <1>1
  <2>2. IsPrefix(e, y)
    BY <2>1, GraftFacts DEF PathsFrom
  <2> QED BY <2>1, <2>2
<1>5. DOMAIN g = Y
  BY <1>1
<1>6. DOMAIN h = Y \cup DOMAIN k /\ (\A x \in DOMAIN h : h[x] = IF x \in Y THEN g[x] ELSE k[x]) /\ IsMap(h)
  BY <1>2, <1>5 DEF Over, IsMap
<1> QED BY <1>1, <1>3, <1>4, <1>6 DEF AllGrafted, Carries

LEMMA TreeIs ==
  ASSUME NEW fs, IsTree(fs), NEW s \in DOMAIN fs.at
  PROVE  /\ Tree(fs, s) \subseteq DOMAIN fs.at /\ Tree(fs, s) \subseteq Path /\ s \in Path
         /\ \A x \in DOMAIN fs.at : x \in Tree(fs, s) <=> IsPrefix(s, x)
<1>1. s \in Path /\ DOMAIN fs.at \subseteq Path
  BY DEF IsTree
<1>2. \A x \in DOMAIN fs.at : x \in Below(fs, s) <=> IsPrefix(s, x) /\ x # s
  BY <1>1, BelowIs
<1>3. Below(fs, s) \subseteq DOMAIN fs.at
  BY DEF Below
<1>4. IsPrefix(s, s)
  BY <1>1, PrefixFacts
<1> QED BY <1>1, <1>2, <1>3, <1>4 DEF Tree

LEMMA MovedIs ==
  ASSUME NEW fs, IsTree(fs), NEW s \in DOMAIN fs.at, NEW e \in Path, ~IsPrefix(e, s), ~IsPrefix(s, e),
         NEW w, w = Moved(fs, s, e)
  PROVE  /\ w.node = fs.node
         /\ \A p \in DOMAIN fs.at : ~IsPrefix(s, p) /\ ~IsPrefix(e, p) => p \in DOMAIN w.at /\ w.at[p] = fs.at[p]
         /\ \A p \in DOMAIN w.at : p \in DOMAIN fs.at \/ IsPrefix(e, p)
         /\ \A x \in DOMAIN fs.at : IsPrefix(s, x) => Grafted(x, s, e) \in DOMAIN w.at /\ w.at[Grafted(x, s, e)] = fs.at[x]
         /\ s \notin DOMAIN w.at
<1>1. PICK X, Z, kept : X = Tree(fs, s) /\ Z = X \cup {e} /\ kept = Without(fs, Z)
  OBVIOUS
<1>2. /\ DOMAIN kept.at = DOMAIN fs.at \ (X \cup {e}) /\ (\A p \in DOMAIN kept.at : kept.at[p] = fs.at[p])
      /\ kept.node = fs.node
      /\ kept = [at |-> kept.at, node |-> kept.node, next |-> kept.next, dev |-> kept.dev, fixed |-> kept.fixed,
                 unwritable |-> kept.unwritable]
  <2>1. DOMAIN kept.at = DOMAIN fs.at \ Z /\ \A p \in DOMAIN kept.at : kept.at[p] = fs.at[p]
    BY <1>1, WithoutIs
  <2>2. /\ kept.node = fs.node
        /\ kept = [at |-> kept.at, node |-> kept.node, next |-> kept.next, dev |-> kept.dev, fixed |-> kept.fixed,
                   unwritable |-> kept.unwritable]
    BY <1>1, WithoutIs
  <2> QED BY <1>1, <2>1, <2>2
<1>3. PICK h : h = Carried(X, s, e, fs.at, kept.at)
  OBVIOUS
<1>4. w = [kept EXCEPT !.at = h]
  BY <1>1, <1>3 DEF Moved, Carried, Grafted, Tree
<1>5. w.at = h /\ w.node = fs.node
  BY <1>2, <1>4
<1>6. /\ X \subseteq DOMAIN fs.at /\ X \subseteq Path /\ s \in Path
      /\ \A x \in DOMAIN fs.at : x \in X <=> IsPrefix(s, x)
  BY <1>1, TreeIs
<1>7. /\ \A x \in X : Grafted(x, s, e) \in DOMAIN h /\ h[Grafted(x, s, e)] = fs.at[x]
      /\ \A p \in DOMAIN kept.at : p \in DOMAIN h /\ (~IsPrefix(e, p) => h[p] = kept.at[p])
      /\ \A p \in DOMAIN h : p \in DOMAIN kept.at \/ \E x \in X : p = Grafted(x, s, e)
  <2>1. PathsFrom(X, s)
    BY <1>6 DEF PathsFrom
  <2>2. PICK a, k : a = fs.at /\ k = kept.at
    OBVIOUS
  <2>3. h = Carried(X, s, e, a, k)
    BY <1>3, <2>2
  <2>4. Carries(h, X, s, e, a, k)
    BY <1>6, <2>1, <2>3, CarriedIs
  <2> QED BY <2>2, <2>4 DEF Carries
<1>8. \A x \in X : IsPrefix(e, Grafted(x, s, e))
  <2> TAKE x \in X
  <2>1. PICK y : y = Grafted(x, s, e)
    OBVIOUS
  <2>2. IsPrefix(e, y)
    BY <1>6, <2>1, GraftFacts
  <2> QED BY <2>1, <2>2
<1>9. s \in X /\ IsPrefix(e, e)
  BY <1>6, PrefixFacts
<1>10. \A p \in DOMAIN fs.at : ~IsPrefix(s, p) /\ ~IsPrefix(e, p) => p \in DOMAIN kept.at
  BY <1>2, <1>6, <1>9
<1>11. \A p \in DOMAIN h : p \in DOMAIN fs.at \/ IsPrefix(e, p)
  BY <1>2, <1>7, <1>8
<1>12. s \notin DOMAIN h
  BY <1>2, <1>7, <1>8, <1>9
<1> QED BY <1>2, <1>5, <1>6, <1>7, <1>10, <1>11, <1>12

-----------------------------------------------------------------------------
(* The steps of mv.                                                          *)

Mv(fs, at, rval, dir, from, dest, pos) ==
  [fs |-> fs, others |-> Nobody, at |-> at, rval |-> rval, todir |-> dir, from |-> from, dest |-> dest, pos |-> pos]
Reading(m, k) == [m EXCEPT !.from = k, !.pos = 0]
Writing(m, x, k) == [m EXCEPT !.fs = x, !.dest = k]
Placed(m, x, n) == [m EXCEPT !.fs = x, !.pos = n]
\* The operand is done with: the files are x and the answer v.
Ends(m, x, v) == mem' = Mv(x, "next", v, m.todir, m.from, m.dest, m.pos) /\ inp' = Tail(inp)

LEMMA MvFields ==
  ASSUME NEW m, NEW a, NEW b, NEW c, NEW d, NEW e, NEW f, NEW g, m = Mv(a, b, c, d, e, f, g)
  PROVE  /\ m.fs = a /\ m.at = b /\ m.rval = c /\ m.todir = d /\ m.from = e /\ m.dest = f /\ m.pos = g
         /\ m.others = Nobody /\ m # <<>>
BY DEF Mv

LEMMA MvGoing ==
  ASSUME NEW m, NEW a, NEW b, NEW c, NEW d, NEW e, NEW f, NEW g, m = Mv(a, b, c, d, e, f, g), NEW x
  PROVE  Going(m, x) = Mv(a, x, c, d, e, f, g)
BY DEF Mv, Going

LEMMA MvHaving ==
  ASSUME NEW m, NEW a, NEW b, NEW c, NEW d, NEW e, NEW f, NEW g, m = Mv(a, b, c, d, e, f, g), NEW x
  PROVE  Having(m, x) = Mv(x, b, c, d, e, f, g)
BY DEF Mv, Having

LEMMA MvFailing ==
  ASSUME NEW m, NEW a, NEW b, NEW c, NEW d, NEW e, NEW f, NEW g, m = Mv(a, b, c, d, e, f, g)
  PROVE  Failing(m) = Mv(a, b, 1, d, e, f, g)
BY DEF Mv, Failing, Failed

LEMMA MvReading ==
  ASSUME NEW m, NEW a, NEW b, NEW c, NEW d, NEW e, NEW f, NEW g, m = Mv(a, b, c, d, e, f, g), NEW x
  PROVE  Reading(m, x) = Mv(a, b, c, d, x, f, 0)
<1>1. PICK u : u = [m EXCEPT !.from = x]
  OBVIOUS
<1>2. u = Mv(a, b, c, d, x, f, g)
  BY <1>1 DEF Mv
<1>3. [u EXCEPT !.pos = 0] = Mv(a, b, c, d, x, f, 0)
  BY <1>2 DEF Mv
<1> QED BY <1>1, <1>3 DEF Reading

LEMMA MvWriting ==
  ASSUME NEW m, NEW a, NEW b, NEW c, NEW d, NEW e, NEW f, NEW g, m = Mv(a, b, c, d, e, f, g), NEW x, NEW y
  PROVE  Writing(m, x, y) = Mv(x, b, c, d, e, y, g)
<1>1. PICK u : u = [m EXCEPT !.fs = x]
  OBVIOUS
<1>2. u = Mv(x, b, c, d, e, f, g)
  BY <1>1 DEF Mv
<1>3. [u EXCEPT !.dest = y] = Mv(x, b, c, d, e, y, g)
  BY <1>2 DEF Mv
<1> QED BY <1>1, <1>3 DEF Writing

LEMMA MvPlaced ==
  ASSUME NEW m, NEW a, NEW b, NEW c, NEW d, NEW e, NEW f, NEW g, m = Mv(a, b, c, d, e, f, g), NEW x, NEW y
  PROVE  Placed(m, x, y) = Mv(x, b, c, d, e, f, y)
<1>1. PICK u : u = [m EXCEPT !.fs = x]
  OBVIOUS
<1>2. u = Mv(x, b, c, d, e, f, g)
  BY <1>1 DEF Mv
<1>3. [u EXCEPT !.pos = y] = Mv(x, b, c, d, e, f, y)
  BY <1>2 DEF Mv
<1> QED BY <1>1, <1>3 DEF Placed

LEMMA MvAskDoes ==
  ASSUME NEW fs, NEW at, NEW rval, NEW dir, NEW from, NEW dest, NEW pos, mem = Mv(fs, at, rval, dir, from, dest, pos), MvAsk
  PROVE  /\ at = "next" /\ inp # <<>>
         /\ \/ mem' = Mv(fs, "rename", rval, dir, from, dest, pos) /\ inp' = inp
            \/ Ends(mem, fs, 1)
            \/ job.ask # "f" /\ Ends(mem, fs, rval)
<1>1. mem.at = at /\ mem.fs = fs
  BY MvFields
<1>2. PICK yes \in BOOLEAN :
        IF job.ask = "f" \/ Stat(mem.fs, MvTo) = "none" THEN Goes(mem, "rename") /\ UNCHANGED inp
        ELSE IF Lstat(mem.fs, MvFrom) = "none" THEN DoneWith(Failed(mem))
        ELSE IF job.ask = "n" \/ (job.ask = "i" /\ ~yes) THEN DoneWith(mem)
        ELSE Goes(mem, "rename") /\ UNCHANGED inp
  BY DEF MvAsk
<1>3. \/ Goes(mem, "rename") /\ inp' = inp
      \/ DoneWith(Failed(mem))
      \/ job.ask # "f" /\ DoneWith(mem)
  BY <1>2
<1>4. at = "next" /\ inp # <<>>
  BY <1>1 DEF MvAsk, At
<1>5. CASE Goes(mem, "rename") /\ inp' = inp
  <2>1. Going(mem, "rename") = Mv(fs, "rename", rval, dir, from, dest, pos)
    BY MvGoing
  <2> QED BY <1>4, <1>5, <2>1 DEF Goes, Going
<1>6. PICK m : m = Failing(mem)
  OBVIOUS
<1>7. m = Mv(fs, at, 1, dir, from, dest, pos)
  BY <1>6, MvFailing
<1>8. Going(m, "next") = Mv(fs, "next", 1, dir, from, dest, pos) /\ Going(mem, "next") = Mv(fs, "next", rval, dir, from, dest, pos)
  BY <1>7, MvGoing
<1>9. Ends(mem, fs, 1) <=> mem' = Mv(fs, "next", 1, dir, from, dest, pos) /\ inp' = Tail(inp)
  BY MvFields DEF Ends
<1>10. Ends(mem, fs, rval) <=> mem' = Mv(fs, "next", rval, dir, from, dest, pos) /\ inp' = Tail(inp)
  BY MvFields DEF Ends
<1>11. CASE DoneWith(Failed(mem))
  BY <1>4, <1>6, <1>8, <1>9, <1>11 DEF DoneWith, Going, Failing
<1>12. CASE job.ask # "f" /\ DoneWith(mem)
  BY <1>4, <1>8, <1>10, <1>12 DEF DoneWith, Going
<1> QED BY <1>3, <1>5, <1>11, <1>12

LEMMA MvEndsBy ==
  ASSUME NEW fs, NEW at, NEW rval, NEW dir, NEW from, NEW dest, NEW pos, mem = Mv(fs, at, rval, dir, from, dest, pos),
         NEW x, NEW b, NEW v, NEW m, m = Mv(x, b, v, dir, from, dest, pos), DoneWith(m)
  PROVE  Ends(mem, x, v)
<1>1. Going(m, "next") = Mv(x, "next", v, dir, from, dest, pos)
  BY MvGoing
<1>2. mem' = Mv(x, "next", v, dir, from, dest, pos) /\ inp' = Tail(inp)
  BY <1>1 DEF DoneWith, Going
<1>3. mem.todir = dir /\ mem.from = from /\ mem.dest = dest /\ mem.pos = pos
  BY MvFields
<1> QED BY <1>2, <1>3 DEF Ends

\* Two places on different file systems are not in each other.
LEMMA DevicesApart ==
  ASSUME NEW fs, NEW s \in Path, NEW t \in Path, s # <<>>, t # <<>>, Device(fs, s) # Device(fs, t)
  PROVE  ~IsPrefix(s, t) /\ ~IsPrefix(t, s)
<1>1. PICK m \in Nat, n \in Nat : m = Len(s) /\ n = Len(t) /\ m # 0 /\ n # 0
  BY DEF Path
<1>2. s[1] # t[1]
  BY DEF Device
<1>3. IsPrefix(s, t) => s[1] = t[1]
  BY <1>1, PrefixIs DEF Path
<1>4. IsPrefix(t, s) => s[1] = t[1]
  BY <1>1, PrefixIs DEF Path
<1> QED BY <1>2, <1>3, <1>4

\* rename(2) moves one tree to a place that is neither in it nor around it, or nothing.
Renames(r, fs, s, e) ==
  \/ r.err # "" /\ r.err # "EXDEV"
  \/ r.err = "EXDEV" /\ Separate(fs, s, e)
  \/ r.err = "" /\ r.fs = fs /\ s \in DOMAIN fs.at /\ e \in DOMAIN fs.at /\ fs.at[s] = fs.at[e]
  \/ r.err = "" /\ r.fs = Moved(fs, s, e) /\ Separate(fs, s, e)
LEMMA RenameIs ==
  ASSUME NEW fs, IsTree(fs), NEW p \in Path, NEW q \in Path, p # <<>>, q # <<>>, NEW s, s = Entry(fs, p), NEW e, e = Entry(fs, q),
         NEW r, r = Rename(fs, p, q)
  PROVE  Renames(r, fs, s, e)
<1>1. s \in Place /\ e \in Place /\ (s # None => s \in Path /\ s # <<>>) /\ (e # None => e \in Path /\ e # <<>> /\ TypeAt(fs, Front(e)) = "dir")
  <2>1. s \in Place /\ e \in Place /\ (s # None => s \in Path) /\ (e # None => e \in Path)
    BY EntryFacts
  <2>2. (s # None => s # <<>>) /\ (e # None => e # <<>> /\ TypeAt(fs, Front(e)) = "dir")
    BY EntryInDir
  <2> QED BY <2>1, <2>2
<1>2. \/ \E x \in {"ENOENT", "EISDIR", "ENOTDIR", "EINVAL", "ENOTEMPTY", "EACCES"} : r = Err(fs, x)
      \/ /\ TypeAt(fs, s) # "none" /\ e # None
         /\ r = Err(fs, "EXDEV") /\ Device(fs, s) # Device(fs, e)
      \/ /\ TypeAt(fs, s) # "none" /\ e # None /\ TypeAt(fs, e) # "none" /\ fs.at[s] = fs.at[e]
         /\ r = Ok(fs)
      \/ /\ TypeAt(fs, s) # "none" /\ e # None
         /\ TypeAt(fs, e) = "dir" => TypeAt(fs, s) = "dir"
         /\ ~(TypeAt(fs, s) = "dir" /\ IsPrefix(s, e))
         /\ ~(TypeAt(fs, e) = "dir" /\ Below(fs, e) # {})
         /\ ~(TypeAt(fs, e) # "none" /\ fs.at[s] = fs.at[e])
         /\ r = Ok(Moved(fs, s, e))
  BY DEF Rename
<1>3. \A x : Ok(x).err = "" /\ Ok(x).fs = x
  BY DEF Ok
<1>4. \A x : Err(fs, x).err = x
  BY DEF Err
<1>5. TypeAt(fs, s) # "none" => s \in DOMAIN fs.at /\ s # None
  BY DEF TypeAt, IsTree
<1>6. CASE \E x \in {"ENOENT", "EISDIR", "ENOTDIR", "EINVAL", "ENOTEMPTY", "EACCES"} : r = Err(fs, x)
  <2>1. \A x \in {"ENOENT", "EISDIR", "ENOTDIR", "EINVAL", "ENOTEMPTY", "EACCES"} : x # "" /\ x # "EXDEV"
    OBVIOUS
  <2> QED BY <1>4, <1>6, <2>1 DEF Renames
<1>7. CASE TypeAt(fs, s) # "none" /\ e # None /\ r = Err(fs, "EXDEV") /\ Device(fs, s) # Device(fs, e)
  <2>1. ~IsPrefix(s, e) /\ ~IsPrefix(e, s)
    BY <1>1, <1>5, <1>7, DevicesApart
  <2> QED BY <1>1, <1>4, <1>5, <1>7, <2>1 DEF Separate, Renames
<1>8. CASE TypeAt(fs, s) # "none" /\ e # None /\ TypeAt(fs, e) # "none" /\ fs.at[s] = fs.at[e] /\ r = Ok(fs)
  <2>1. e \in DOMAIN fs.at
    BY <1>8 DEF TypeAt
  <2> QED BY <1>3, <1>5, <1>8, <2>1 DEF Renames
<1>9. CASE /\ TypeAt(fs, s) # "none" /\ e # None
           /\ TypeAt(fs, e) = "dir" => TypeAt(fs, s) = "dir"
           /\ ~(TypeAt(fs, s) = "dir" /\ IsPrefix(s, e))
           /\ ~(TypeAt(fs, e) = "dir" /\ Below(fs, e) # {})
           /\ ~(TypeAt(fs, e) # "none" /\ fs.at[s] = fs.at[e])
           /\ r = Ok(Moved(fs, s, e))
  <2>1. s \in DOMAIN fs.at /\ s \in Path /\ e \in Path /\ s # <<>> /\ e # <<>> /\ TypeAt(fs, Front(e)) = "dir"
    BY <1>1, <1>5, <1>9
  <2>2. s # e
    <3>1. TypeAt(fs, e) = "none" \/ fs.at[s] # fs.at[e]
      BY <1>9
    <3> QED BY <1>9, <3>1
  <2>3. ~IsPrefix(e, s)
    <3> SUFFICES ASSUME IsPrefix(e, s) PROVE FALSE
      OBVIOUS
    <3>1. TypeAt(fs, e) = "dir"
      BY <2>1, <2>2, PrefixThere
    <3>2. s \in Below(fs, e)
      BY <2>1, <2>2, BelowIs
    <3> QED BY <1>9, <3>1, <3>2
  <2>4. ~IsPrefix(s, e)
    <3> SUFFICES ASSUME IsPrefix(s, e) PROVE FALSE
      OBVIOUS
    <3>1. Front(e) \in DOMAIN fs.at /\ Front(e) \in Path
      BY <2>1, PathFront DEF TypeAt
    <3>2. IsPrefix(s, Front(e))
      BY <2>1, <2>2, PrefixFacts
    <3>3. TypeAt(fs, s) = "dir"
      BY <2>1, <3>1, <3>2, PrefixThere
    <3> QED BY <1>9, <3>3
  <2> QED BY <1>3, <1>9, <2>1, <2>3, <2>4 DEF Separate, Renames
<1> QED BY <1>2, <1>6, <1>7, <1>8, <1>9

-----------------------------------------------------------------------------
(* A copy of a tree, or of a part of it.                                     *)

\* New numbers for the files of a set, and the files under them
Numbers(X, next) == CHOOSE f \in [X -> next .. next + Cardinality(X) - 1] : IsInjective(f)
Duplicates(fs, X, ino) == [i \in Range(ino) |-> Node(fs, CHOOSE x \in X : ino[x] = i)]

LEMMA NumbersAre ==
  ASSUME NEW X, IsFiniteSet(X), NEW next \in Int, NEW ino, ino = Numbers(X, next)
  PROVE  /\ Cardinality(X) \in Nat
         /\ ino \in [X -> next .. next + Cardinality(X) - 1] /\ IsInjective(ino)
<1>1. PICK n : n = Cardinality(X)
  OBVIOUS
<1>2. n \in Nat /\ ExistsBijection(1 .. n, X)
  BY <1>1, FS_CardinalityType
<1>3. ExistsBijection(X, 1 .. n)
  BY <1>2, Fun_ExistsBijSymmetric
<1>4. PICK f \in Bijection(X, 1 .. n) : TRUE
  BY <1>3 DEF ExistsBijection
<1>5. f \in [X -> 1 .. n] /\ \A a, b \in X : f[a] = f[b] => a = b
  BY <1>4 DEF Bijection, Injection, IsInjective
<1>6. PICK g : g = [x \in X |-> next - 1 + f[x]]
  OBVIOUS
<1>7. g \in [X -> next .. next + n - 1]
  <2>1. \A x \in X : next - 1 + f[x] \in next .. next + n - 1
    BY <1>2, <1>5
  <2> QED BY <1>6, <2>1
<1>8. IsInjective(g)
  <2>1. \A a, b \in X : g[a] = g[b] => f[a] = f[b]
    <3> TAKE a, b \in X
    <3>1. f[a] \in Int /\ f[b] \in Int /\ g[a] = next - 1 + f[a] /\ g[b] = next - 1 + f[b]
      BY <1>2, <1>5, <1>6
    <3> QED BY <3>1
  <2> QED BY <1>5, <1>6, <2>1 DEF IsInjective
<1>9. ino \in [X -> next .. next + n - 1] /\ IsInjective(ino)
  BY <1>1, <1>7, <1>8 DEF Numbers
<1> QED BY <1>1, <1>2, <1>9

Copies(w, b, s, e, X) ==
  /\ \A x \in X : Grafted(x, s, e) \in DOMAIN w.at /\ Node(w, Grafted(x, s, e)) = Node(b, x)
  /\ \A p \in DOMAIN w.at : p \in DOMAIN b.at \/ IsPrefix(e, p)

\* What TreeCopied() makes
LEMMA CopyIs ==
  ASSUME NEW b, IsTree(b), NEW s \in DOMAIN b.at, NEW e \in Path, NEW X, X \subseteq Tree(b, s),
         NEW w, w = TreeCopied(b, s, e, X), NEW ino, ino = Numbers(X, b.next)
  PROVE  /\ Carries(w.at, X, s, e, ino, b.at)
         /\ w.node = Over(Duplicates(b, X, ino), b.node) /\ w.next = b.next + Cardinality(X)
         /\ w = [at |-> w.at, node |-> w.node, next |-> w.next, dev |-> w.dev, fixed |-> w.fixed,
                 unwritable |-> w.unwritable]
<1>1. PICK h, v, n, a : h = Carried(X, s, e, ino, a) /\ v = Over(Duplicates(b, X, ino), b.node) /\ n = b.next + Cardinality(X) /\ a = b.at
  OBVIOUS
<1>2. PathsFrom(X, s) /\ s \in Path
  BY TreeIs DEF PathsFrom
<1>3. Carries(h, X, s, e, ino, a)
  BY <1>1, <1>2, CarriedIs
<1>4. w = [b EXCEPT !.at = h, !.node = v, !.next = n]
  BY <1>1 DEF TreeCopied, Carried, Numbers, Duplicates, Grafted
<1>5. PICK w1 : w1 = [b EXCEPT !.at = h]
  OBVIOUS
<1>6. w1 = [at |-> h, node |-> b.node, next |-> b.next, dev |-> b.dev, fixed |-> b.fixed, unwritable |-> b.unwritable]
  BY <1>5 DEF IsTree
<1>7. PICK w2 : w2 = [w1 EXCEPT !.node = v]
  OBVIOUS
<1>8. w2 = [at |-> h, node |-> v, next |-> b.next, dev |-> b.dev, fixed |-> b.fixed, unwritable |-> b.unwritable]
  BY <1>6, <1>7
<1>9. w = [w2 EXCEPT !.next = n]
  BY <1>4, <1>5, <1>7
<1>10. w = [at |-> h, node |-> v, next |-> n, dev |-> b.dev, fixed |-> b.fixed, unwritable |-> b.unwritable]
  BY <1>8, <1>9
<1>11. w.at = h /\ w.node = v /\ w.next = n /\ w.dev = b.dev /\ w.fixed = b.fixed /\ w.unwritable = b.unwritable
  BY <1>10
<1> QED BY <1>1, <1>3, <1>10, <1>11

Overlaid(h, f, g) ==
  /\ IsMap(h) /\ DOMAIN h = DOMAIN f \cup DOMAIN g
  /\ \A x \in DOMAIN f : h[x] = f[x]
  /\ \A x \in DOMAIN g : x \notin DOMAIN f => h[x] = g[x]
Duplicated(d, b, X, I, ino) ==
  /\ \A x \in X : ino[x] \in DOMAIN d /\ d[ino[x]] = Node(b, x)
  /\ \A i \in DOMAIN d : i \in I /\ \E x \in X : i = ino[x]

LEMMA OverIs ==
  ASSUME NEW f, NEW g, NEW h, h = Over(f, g)
  PROVE  Overlaid(h, f, g)
BY DEF Over, IsMap, Overlaid

LEMMA DuplicatesAre ==
  ASSUME NEW b, NEW X, NEW I, NEW ino \in [X -> I], IsInjective(ino), NEW d, d = Duplicates(b, X, ino)
  PROVE  Duplicated(d, b, X, I, ino)
<1>1. DOMAIN d = Range(ino) /\ \A i \in Range(ino) : d[i] = Node(b, CHOOSE x \in X : ino[x] = i)
  BY DEF Duplicates
<1>2. \A x \in X : ino[x] \in Range(ino)
  BY DEF Range
<1>3. \A i \in Range(ino) : i \in I /\ \E x \in X : i = ino[x]
  BY DEF Range
<1>4. ASSUME NEW x \in X PROVE d[ino[x]] = Node(b, x)
  <2>1. PICK y : y = CHOOSE z \in X : ino[z] = ino[x]
    OBVIOUS
  <2>2. y \in X /\ ino[y] = ino[x]
    BY <2>1
  <2>3. y = x
    BY <2>2 DEF IsInjective
  <2> QED BY <1>1, <1>2, <2>1, <2>3
<1> QED BY <1>1, <1>2, <1>3, <1>4 DEF Duplicated

Grows(X, s) == s \in X /\ \A x \in X : x # s => Front(x) \in X

LEMMA CopyGrows ==
  ASSUME NEW b, IsTree(b), NEW s \in DOMAIN b.at, NEW e \in Path, e # None, e # <<>>, e \notin DOMAIN b.at, TypeAt(b, Front(e)) = "dir",
         NEW X, X \subseteq Tree(b, s), Grows(X, s), NEW w, w = TreeCopied(b, s, e, X)
  PROVE  Grown(w, b) /\ Copies(w, b, s, e, X)
<1>1. PICK h, v, next, n, N : h = w.at /\ v = w.node /\ next = w.next /\ n = Cardinality(X) /\ N = b.next
  OBVIOUS
<1>2. X \subseteq DOMAIN b.at /\ X \subseteq Path /\ s \in Path /\ \A x \in X : IsPrefix(s, x)
  BY TreeIs
<1>3. IsFiniteSet(X) /\ N \in Int
  BY <1>1, <1>2, FS_Subset DEF IsTree
<1>4. PICK ino : ino = Numbers(X, N)
  OBVIOUS
<1>5. n \in Nat /\ ino \in [X -> N .. N + n - 1] /\ IsInjective(ino)
  BY <1>1, <1>3, <1>4, NumbersAre
<1>6. PICK d : d = Duplicates(b, X, ino)
  OBVIOUS
<1>7. /\ Carries(h, X, s, e, ino, b.at)
      /\ v = Over(d, b.node) /\ next = N + n
      /\ w = [at |-> w.at, node |-> w.node, next |-> w.next, dev |-> w.dev, fixed |-> w.fixed,
              unwritable |-> w.unwritable]
  BY <1>1, <1>4, <1>6, CopyIs
<1>8. (\A x \in X : ino[x] \in DOMAIN d /\ d[ino[x]] = Node(b, x)) /\ \A i \in DOMAIN d : i \in N .. N + n - 1 /\ \E x \in X : i = ino[x]
  <2>1. PICK I : I = N .. N + n - 1
    OBVIOUS
  <2>2. ino \in [X -> I]
    BY <1>5, <2>1
  <2>3. Duplicated(d, b, X, I, ino)
    BY <1>5, <1>6, <2>2, DuplicatesAre
  <2> QED BY <2>1, <2>3 DEF Duplicated
<1>9. \A i \in DOMAIN b.node : i \in Int /\ i < N /\ i \notin DOMAIN d
  <2>1. \A i \in DOMAIN b.node : i \in Int /\ i < N
    BY <1>1 DEF IsTree
  <2> QED BY <1>3, <1>8, <2>1
<1>10. /\ IsMap(v) /\ DOMAIN v = DOMAIN d \cup DOMAIN b.node
       /\ \A i \in DOMAIN d : v[i] = d[i]
       /\ \A i \in DOMAIN b.node : v[i] = b.node[i]
  <2>1. PICK g : g = b.node
    OBVIOUS
  <2>2. v = Over(d, g)
    BY <1>7, <2>1
  <2>3. Overlaid(v, d, g)
    BY <2>2, OverIs
  <2> QED BY <1>9, <2>1, <2>3 DEF Overlaid
<1>11. /\ \A x \in X : Grafted(x, s, e) \in DOMAIN h /\ h[Grafted(x, s, e)] = ino[x]
       /\ \A p \in DOMAIN b.at : p \in DOMAIN h /\ (~IsPrefix(e, p) => h[p] = b.at[p])
       /\ \A p \in DOMAIN h : p \in DOMAIN b.at \/ \E x \in X : p = Grafted(x, s, e)
       /\ DOMAIN h = DOMAIN b.at \cup AllGrafted(X, s, e) /\ IsMap(h)
  BY <1>7 DEF Carries
<1>12. \A p \in DOMAIN b.at : p \in Path /\ ~IsPrefix(e, p)
  BY PrefixThere DEF IsTree
<1>13. ASSUME NEW x \in X, NEW y, y = Grafted(x, s, e)
       PROVE  /\ y \in Path /\ y # None /\ y # <<>> /\ IsPrefix(e, y) /\ Grafted(y, e, s) = x
              /\ y \in DOMAIN h /\ h[y] \in DOMAIN v /\ v[h[y]] = Node(b, x)
              /\ x # s => Front(x) \in X /\ Front(y) = Grafted(Front(x), s, e)
              /\ x = s => y = e
  <2>1. y \in Path /\ IsPrefix(e, y) /\ Grafted(y, e, s) = x /\ (x = s => y = e) /\ (x # s => Front(y) = Grafted(Front(x), s, e))
    BY <1>2, <1>13, GraftFacts
  <2>2. y # <<>>
    <3>1. IsPrefix(<<>>, e) /\ <<>> \in Path
      BY PrefixFacts DEF Path
    <3> QED BY <2>1, <3>1, PrefixFacts
  <2>3. y # None
    <3> SUFFICES ASSUME y = None PROVE FALSE
      OBVIOUS
    <3>1. PICK z : z = Front(y)
      OBVIOUS
    <3>2. IsPrefix(e, z)
      BY <2>1, <2>2, <3>1, PrefixFacts
    <3>3. z = <<>>
      <4>1. Len(y) = 1
        BY DEF None
      <4>2. z \in Path /\ Len(z) = Len(y) - 1
        BY <2>1, <2>2, <3>1, PathFront
      <4>3. Len(z) = 0
        BY <4>1, <4>2
      <4> QED BY <4>2, <4>3 DEF Path
    <3>4. IsPrefix(<<>>, e) /\ <<>> \in Path
      BY PrefixFacts DEF Path
    <3> QED BY <3>2, <3>3, <3>4, PrefixFacts
  <2>4. y \in DOMAIN h /\ h[y] = ino[x]
    BY <1>11, <1>13
  <2>5. h[y] \in DOMAIN v /\ v[h[y]] = Node(b, x)
    BY <1>8, <1>10, <2>4
  <2> QED BY <2>1, <2>2, <2>3, <2>4, <2>5 DEF Grows
<1>14. ASSUME NEW p \in DOMAIN b.at
       PROVE  /\ p \in DOMAIN h /\ h[p] = b.at[p] /\ h[p] \in DOMAIN v /\ v[h[p]] = Node(b, p)
              /\ TypeAt(w, p) = TypeAt(b, p) /\ Node(w, p) = Node(b, p)
  <2>1. p \in DOMAIN h /\ h[p] = b.at[p]
    BY <1>11, <1>12
  <2>2. b.at[p] \in DOMAIN b.node
    BY DEF IsTree
  <2>3. h[p] \in DOMAIN v /\ v[h[p]] = Node(b, p)
    BY <1>10, <2>1, <2>2 DEF Node
  <2> QED BY <1>1, <2>1, <2>3 DEF TypeAt, Node
<1>15. h \in [DOMAIN h -> DOMAIN v]
  <2>1. \A p \in DOMAIN h : h[p] \in DOMAIN v
    BY <1>11, <1>13, <1>14
  <2> QED BY <1>11, <2>1 DEF IsMap
<1>16. IsFiniteSet(DOMAIN h)
  <2>1. PICK Y, f : Y = AllGrafted(X, s, e) /\ f = [y \in Y |-> Grafted(y, e, s)]
    OBVIOUS
  <2>2. \A y \in Y : \E x \in X : y = Grafted(x, s, e)
    BY <2>1 DEF AllGrafted
  <2>3. \A y \in Y : f[y] = Grafted(y, e, s) /\ f[y] \in X /\ y = Grafted(f[y], s, e)
    <3> TAKE y \in Y
    <3>1. PICK x \in X : y = Grafted(x, s, e)
      BY <2>2
    <3>2. Grafted(y, e, s) = x
      BY <1>13, <3>1
    <3> QED BY <2>1, <3>1, <3>2
  <2>4. f \in [Y -> X]
    BY <2>1, <2>3
  <2>5. f \in Injection(Y, X)
    BY <2>3, <2>4 DEF Injection, IsInjective
  <2>6. IsFiniteSet(Y)
    BY <1>3, <2>5, FS_Injection
  <2>7. IsFiniteSet(DOMAIN b.at)
    BY DEF IsTree
  <2>8. PICK D : D = DOMAIN b.at
    OBVIOUS
  <2>9. IsFiniteSet(D \cup Y)
    BY <2>6, <2>7, <2>8, FS_Union
  <2> QED BY <1>11, <2>1, <2>8, <2>9
<1>17. \A i \in DOMAIN v : i \in Int /\ i < next
  <2>1. \A i \in DOMAIN d : i \in Int /\ i < N + n
    BY <1>3, <1>5, <1>8
  <2>2. \A i \in DOMAIN b.node : i \in Int /\ i < N + n
    BY <1>3, <1>5, <1>9
  <2> QED BY <1>7, <1>10, <2>1, <2>2
<1>18. \A i \in DOMAIN b.node : IsNode(b.node[i])
  BY DEF IsTree, IsNode
<1>19. \A i \in DOMAIN v : IsNode(v[i])
  <2>1. \A x \in X : b.at[x] \in DOMAIN b.node
    BY <1>2 DEF IsTree
  <2>2. \A x \in X : IsNode(Node(b, x))
    BY <1>18, <2>1 DEF Node
  <2>3. \A i \in DOMAIN d : IsNode(d[i])
    BY <1>8, <2>2
  <2> QED BY <1>10, <1>18, <2>3
<1>20. TypeAt(w, <<>>) = "dir"
  <2>1. TypeAt(b, <<>>) = "dir"
    BY DEF IsTree
  <2>2. <<>> \in DOMAIN b.at
    BY <2>1 DEF TypeAt
  <2> QED BY <1>14, <2>1, <2>2
<1>21. ASSUME NEW x \in X PROVE Node(w, Grafted(x, s, e)) = Node(b, x) /\ TypeAt(w, Grafted(x, s, e)) = TypeAt(b, x)
  <2>1. PICK y : y = Grafted(x, s, e)
    OBVIOUS
  <2>2. y \in DOMAIN w.at /\ w.node[w.at[y]] = Node(b, x)
    BY <1>1, <1>13, <2>1
  <2>3. Node(w, y) = Node(b, x) /\ TypeAt(w, y) = Node(w, y).type
    BY <2>2 DEF Node, TypeAt
  <2>4. TypeAt(b, x) = Node(b, x).type
    BY <1>2 DEF TypeAt
  <2> QED BY <2>1, <2>3, <2>4
<1>22. ASSUME NEW p \in DOMAIN w.at
       PROVE  /\ p \in Path /\ p # None
              /\ p # <<>> => TypeAt(w, Front(p)) = "dir"
              /\ TypeAt(w, p) = "link" => Node(w, p).data \in Path
              /\ TypeAt(w, p) # "none"
  <2>0. \A q \in DOMAIN b.at : /\ q \in Path /\ q # None
                               /\ q # <<>> => TypeAt(b, Front(q)) = "dir"
                               /\ TypeAt(b, q) = "link" => Node(b, q).data \in Path
                               /\ TypeAt(b, q) # "none"
    BY DEF IsTree
  <2>1. CASE p \in DOMAIN b.at
    <3>1. p # <<>> => Front(p) \in DOMAIN b.at
      BY <2>0, <2>1 DEF TypeAt
    <3> QED BY <1>14, <2>0, <2>1, <3>1
  <2>2. ASSUME NEW x \in X, p = Grafted(x, s, e)
        PROVE  /\ p \in Path /\ p # None
               /\ p # <<>> => TypeAt(w, Front(p)) = "dir"
               /\ TypeAt(w, p) = "link" => Node(w, p).data \in Path
               /\ TypeAt(w, p) # "none"
    <3>1. p \in Path /\ p # None
      BY <1>13, <2>2
    <3>2. TypeAt(w, p) = TypeAt(b, x) /\ Node(w, p) = Node(b, x) /\ x \in DOMAIN b.at
      BY <1>2, <1>21, <2>2
    <3>3. TypeAt(w, Front(p)) = "dir"
      <4>1. CASE x = s
        <5>1. Front(e) \in DOMAIN b.at
          BY DEF TypeAt
        <5> QED BY <1>13, <1>14, <2>2, <4>1, <5>1
      <4>2. CASE x # s
        <5>1. Front(x) \in X /\ Front(p) = Grafted(Front(x), s, e)
          BY <1>13, <2>2, <4>2
        <5>2. TypeAt(w, Front(p)) = TypeAt(b, Front(x))
          BY <1>21, <5>1
        <5>3. x # <<>>
          <6>1. IsPrefix(s, x) /\ x \in Path /\ <<>> \in Path /\ IsPrefix(<<>>, s)
            BY <1>2, PrefixFacts DEF Path
          <6> QED BY <1>2, <4>2, <6>1, PrefixFacts
        <5> QED BY <2>0, <3>2, <5>2, <5>3
      <4> QED BY <4>1, <4>2
    <3> QED BY <2>0, <3>1, <3>2, <3>3
  <2> QED BY <1>1, <1>11, <2>1, <2>2
<1>23. DOMAIN w.at \subseteq Path /\ None \notin DOMAIN w.at
  BY <1>22
<1>24. next \in Int /\ N <= next
  BY <1>3, <1>5, <1>7
<1>25. \A i \in DOMAIN w.node : w.node[i] = [type |-> w.node[i].type, data |-> w.node[i].data, mode |-> w.node[i].mode]
  BY <1>1, <1>19 DEF IsNode
<1>26. IsTree(w)
  BY <1>1, <1>7, <1>10, <1>15, <1>16, <1>17, <1>20, <1>22, <1>23, <1>24, <1>25 DEF IsTree, IsMap
<1>27. Grown(w, b)
  BY <1>1, <1>10, <1>14, <1>24, <1>26 DEF Grown
<1>28. Copies(w, b, s, e, X)
  BY <1>1, <1>11, <1>13, <1>21 DEF Copies
<1> QED BY <1>27, <1>28

\* The operand and where it goes, as do_move() has them
LEMMA MvNames ==
  ASSUME NEW fs, NEW at, NEW rval, NEW dir, NEW from, NEW dest, NEW pos, mem = Mv(fs, at, rval, dir, from, dest, pos),
         inp = job.files, dir = MvDir(job), NEW f, f = Head(job.files), NEW p, p = MvPath(job)
  PROVE  mem.fs = fs /\ mem.at = at /\ mem.from = from /\ mem.pos = pos /\ mem.dest = dest /\ MvFrom = f /\ MvTo = p
<1>1. mem.fs = fs /\ mem.at = at /\ mem.todir = dir /\ mem.from = from /\ mem.pos = pos /\ mem.dest = dest
  BY MvFields
<1> QED BY <1>1 DEF MvFrom, MvTo, MvPath

Answered(r, f, fs, rval, dir, from, dest, pos) ==
  \/ r.err = "" /\ Ends(mem, r.fs, rval)
  \/ /\ r.err = "EXDEV" /\ inp' = inp
     /\ \/ mem' = Mv(fs, "replace", rval, dir, from, dest, pos)
        \/ Lstat(fs, f) = "file" /\ mem' = Mv(fs, "open", rval, dir, from, dest, pos)
  \/ Ends(mem, fs, 1)
LEMMA MvRenameDoes ==
  ASSUME NEW fs, NEW at, NEW rval, NEW dir, NEW from, NEW dest, NEW pos, mem = Mv(fs, at, rval, dir, from, dest, pos),
         inp = job.files, dir = MvDir(job), NEW f, f = Head(job.files), NEW p, p = MvPath(job), MvRename
  PROVE  at = "rename" /\ \E r : r = Rename(fs, f, p) /\ Answered(r, f, fs, rval, dir, from, dest, pos)
<1>1. mem.fs = fs /\ mem.at = at /\ MvFrom = f /\ MvTo = p
  BY MvNames
<1>2. at = "rename"
  BY <1>1 DEF MvRename, At
<1>3. PICK r, x : r = Rename(fs, f, p) /\ x = r.fs
  OBVIOUS
<1>4. \/ r.err = "" /\ DoneWith(Having(mem, x))
      \/ r.err = "EXDEV" /\ inp' = inp /\ Goes(mem, IF Lstat(fs, f) = "file" THEN "open" ELSE "replace")
      \/ r.err # "" /\ DoneWith(Failing(mem))
  BY <1>1, <1>3 DEF MvRename, Having, Failing
<1>5. Having(mem, x) = Mv(x, at, rval, dir, from, dest, pos) /\ Failing(mem) = Mv(fs, at, 1, dir, from, dest, pos)
  BY MvHaving, MvFailing
<1>6. /\ Going(mem, "open") = Mv(fs, "open", rval, dir, from, dest, pos)
      /\ Going(mem, "replace") = Mv(fs, "replace", rval, dir, from, dest, pos)
  BY MvGoing
<1>7. CASE r.err = "" /\ DoneWith(Having(mem, x))
  <2>1. Ends(mem, x, rval)
    BY <1>5, <1>7, MvEndsBy
  <2> QED BY <1>2, <1>3, <1>7, <2>1 DEF Answered
<1>8. CASE r.err = "EXDEV" /\ inp' = inp /\ Goes(mem, IF Lstat(fs, f) = "file" THEN "open" ELSE "replace")
  BY <1>2, <1>3, <1>6, <1>8 DEF Goes, Going, Answered
<1>9. CASE DoneWith(Failing(mem))
  <2>1. Ends(mem, fs, 1)
    BY <1>5, <1>9, MvEndsBy
  <2> QED BY <1>2, <1>3, <2>1 DEF Answered
<1> QED BY <1>4, <1>7, <1>8, <1>9

LEMMA MvOpenDoes ==
  ASSUME NEW fs, NEW at, NEW rval, NEW dir, NEW from, NEW dest, NEW pos, mem = Mv(fs, at, rval, dir, from, dest, pos),
         inp = job.files, dir = MvDir(job), NEW f, f = Head(job.files), NEW p, p = MvPath(job), MvOpen
  PROVE  /\ at = "open"
         /\ \/ Ends(mem, fs, 1)
            \/ mem' = Mv(fs, "create", rval, dir, InoOf(fs, Follow(fs, f)), dest, 0) /\ inp' = inp
<1>1. mem.fs = fs /\ mem.at = at /\ MvFrom = f
  BY MvNames
<1>2. at = "open"
  BY <1>1 DEF MvOpen, At
<1>3. PICK k : k = InoOf(fs, Follow(fs, f))
  OBVIOUS
<1>4. DoneWith(Failing(mem)) \/ (Goes(Reading(mem, k), "create") /\ inp' = inp)
  BY <1>1, <1>3 DEF MvOpen, Failing, Reading
<1>5. Failing(mem) = Mv(fs, at, 1, dir, from, dest, pos)
  BY MvFailing
<1>6. PICK m : m = Reading(mem, k)
  OBVIOUS
<1>7. m = Mv(fs, at, rval, dir, k, dest, 0)
  BY <1>6, MvReading
<1>8. Going(m, "create") = Mv(fs, "create", rval, dir, k, dest, 0)
  BY <1>7, MvGoing
<1>9. CASE DoneWith(Failing(mem))
  BY <1>2, <1>5, <1>9, MvEndsBy
<1>10. CASE Goes(Reading(mem, k), "create") /\ inp' = inp
  BY <1>2, <1>3, <1>6, <1>8, <1>10 DEF Goes, Going
<1> QED BY <1>4, <1>9, <1>10

Created(o, u, fs, rval, dir, from, dest, pos) ==
  \/ o.err = "" /\ mem' = Mv(o.fs, "write", rval, dir, from, o.ino, pos) /\ inp' = inp
  \/ u.err = "" /\ mem' = Mv(u.fs, "create", rval, dir, from, dest, pos) /\ inp' = inp
  \/ Ends(mem, fs, 1)
LEMMA MvCreateDoes ==
  ASSUME NEW fs, NEW at, NEW rval, NEW dir, NEW from, NEW dest, NEW pos, mem = Mv(fs, at, rval, dir, from, dest, pos),
         inp = job.files, dir = MvDir(job), NEW f, f = Head(job.files), NEW p, p = MvPath(job), MvCreate
  PROVE  at = "create" /\ \E o, u : o = Open(fs, p, TRUE, TRUE) /\ u = Unlink(fs, p) /\ Created(o, u, fs, rval, dir, from, dest, pos)
<1>1. mem.fs = fs /\ mem.at = at /\ MvTo = p
  BY MvNames
<1>2. at = "create"
  BY <1>1 DEF MvCreate, At
<1>3. PICK o, u, x, k, y : o = Open(fs, p, TRUE, TRUE) /\ u = Unlink(fs, p) /\ x = o.fs /\ k = o.ino /\ y = u.fs
  OBVIOUS
<1>4. \/ o.err = "" /\ Goes(Writing(mem, x, k), "write") /\ inp' = inp
      \/ u.err = "" /\ Goes(Having(mem, y), "create") /\ inp' = inp
      \/ DoneWith(Failing(mem))
  BY <1>1, <1>3 DEF MvCreate, Having, Failing, Writing
<1>5. Failing(mem) = Mv(fs, at, 1, dir, from, dest, pos)
  BY MvFailing
<1>6. PICK m, n : m = Writing(mem, x, k) /\ n = Having(mem, y)
  OBVIOUS
<1>7. m = Mv(x, at, rval, dir, from, k, pos) /\ n = Mv(y, at, rval, dir, from, dest, pos)
  BY <1>6, MvWriting, MvHaving
<1>8. /\ Going(m, "write") = Mv(x, "write", rval, dir, from, k, pos)
      /\ Going(n, "create") = Mv(y, "create", rval, dir, from, dest, pos)
  BY <1>7, MvGoing
<1>9. CASE DoneWith(Failing(mem))
  <2>1. Ends(mem, fs, 1)
    BY <1>5, <1>9, MvEndsBy
  <2> QED BY <1>2, <1>3, <2>1 DEF Created
<1>10. CASE o.err = "" /\ Goes(Writing(mem, x, k), "write") /\ inp' = inp
  BY <1>2, <1>3, <1>6, <1>8, <1>10 DEF Goes, Going, Created
<1>11. CASE u.err = "" /\ Goes(Having(mem, y), "create") /\ inp' = inp
  <2>1. mem' = Mv(y, "create", rval, dir, from, dest, pos)
    BY <1>6, <1>8, <1>11 DEF Goes, Going
  <2> QED BY <1>2, <1>3, <1>11, <2>1 DEF Created
<1> QED BY <1>4, <1>9, <1>10, <1>11

LEMMA MvWriteDoes ==
  ASSUME NEW fs, NEW at, NEW rval, NEW dir, NEW from, NEW dest, NEW pos, mem = Mv(fs, at, rval, dir, from, dest, pos),
         inp = job.files, dir = MvDir(job), NEW f, f = Head(job.files), NEW p, p = MvPath(job), MvWrite, NEW data, data = fs.node[from].data
  PROVE  /\ at = "write" /\ inp' = inp
         /\ \/ /\ pos < Len(data)
               /\ mem' = Mv(WriteTo(fs, dest, data[pos + 1]), "write", rval, dir, from, dest, pos + 1)
            \/ mem' = Mv(fs, "failed", rval, dir, from, dest, pos)
            \/ pos = Len(data) /\ mem' = Mv(fs, "close", rval, dir, from, dest, pos)
<1>1. mem.fs = fs /\ mem.at = at /\ mem.from = from /\ mem.dest = dest /\ mem.pos = pos
  BY MvNames
<1>2. at = "write" /\ inp' = inp
  BY <1>1 DEF MvWrite, At
<1>3. PICK x, n : x = WriteTo(fs, dest, data[pos + 1]) /\ n = pos + 1
  OBVIOUS
<1>4. MvData = data
  BY <1>1 DEF MvData
<1>5. \/ pos < Len(data) /\ Goes(Placed(mem, x, n), "write")
      \/ Goes(mem, "failed")
      \/ pos = Len(data) /\ Goes(mem, "close")
  BY <1>1, <1>3, <1>4 DEF MvWrite, Placed
<1>6. PICK m : m = Placed(mem, x, n)
  OBVIOUS
<1>7. m = Mv(x, at, rval, dir, from, dest, n)
  BY <1>6, MvPlaced
<1>8. /\ Going(m, "write") = Mv(x, "write", rval, dir, from, dest, n)
      /\ Going(mem, "failed") = Mv(fs, "failed", rval, dir, from, dest, pos)
      /\ Going(mem, "close") = Mv(fs, "close", rval, dir, from, dest, pos)
  BY <1>7, MvGoing
<1>9. CASE pos < Len(data) /\ Goes(Placed(mem, x, n), "write")
  BY <1>2, <1>3, <1>6, <1>8, <1>9 DEF Goes, Going
<1>10. CASE Goes(mem, "failed")
  BY <1>2, <1>8, <1>10 DEF Goes, Going
<1>11. CASE pos = Len(data) /\ Goes(mem, "close")
  BY <1>2, <1>8, <1>11 DEF Goes, Going
<1> QED BY <1>5, <1>9, <1>10, <1>11

LEMMA MvUndoDoes ==
  ASSUME NEW fs, NEW at, NEW rval, NEW dir, NEW from, NEW dest, NEW pos, mem = Mv(fs, at, rval, dir, from, dest, pos),
         inp = job.files, dir = MvDir(job), NEW f, f = Head(job.files), NEW p, p = MvPath(job), MvUndo
  PROVE  at = "failed" /\ Ends(mem, Unlink(fs, p).fs, 1)
<1>1. mem.fs = fs /\ mem.at = at /\ MvTo = p
  BY MvNames
<1>2. at = "failed"
  BY <1>1 DEF MvUndo, At
<1>3. PICK x, m : x = Unlink(fs, p).fs /\ m = Having(mem, x)
  OBVIOUS
<1>4. DoneWith(Failing(m))
  BY <1>1, <1>3 DEF MvUndo, Having, Failing
<1>5. m = Mv(x, at, rval, dir, from, dest, pos)
  BY <1>3, MvHaving
<1>6. Failing(m) = Mv(x, at, 1, dir, from, dest, pos)
  BY <1>5, MvFailing
<1>7. Ends(mem, x, 1)
  BY <1>4, <1>6, MvEndsBy
<1> QED BY <1>2, <1>3, <1>7

LEMMA MvCloseDoes ==
  ASSUME NEW fs, NEW at, NEW rval, NEW dir, NEW from, NEW dest, NEW pos, mem = Mv(fs, at, rval, dir, from, dest, pos),
         inp = job.files, dir = MvDir(job), NEW f, f = Head(job.files), NEW p, p = MvPath(job), MvClose
  PROVE  /\ at = "close"
         /\ Ends(mem, fs, 1) \/ (mem' = Mv(fs, "remove", rval, dir, from, dest, pos) /\ inp' = inp)
<1>1. mem.at = at
  BY MvNames
<1>2. at = "close"
  BY <1>1 DEF MvClose, At
<1>3. DoneWith(Failing(mem)) \/ (Goes(mem, "remove") /\ inp' = inp)
  BY DEF MvClose, Failing
<1>4. Failing(mem) = Mv(fs, at, 1, dir, from, dest, pos)
  BY MvFailing
<1>5. Going(mem, "remove") = Mv(fs, "remove", rval, dir, from, dest, pos)
  BY MvGoing
<1>6. CASE DoneWith(Failing(mem))
  BY <1>2, <1>4, <1>6, MvEndsBy
<1>7. CASE Goes(mem, "remove") /\ inp' = inp
  BY <1>2, <1>5, <1>7 DEF Goes, Going
<1> QED BY <1>3, <1>6, <1>7

Removed(u, fs, rval) == (u.err = "" /\ Ends(mem, u.fs, rval)) \/ Ends(mem, fs, 1)
LEMMA MvRemoveDoes ==
  ASSUME NEW fs, NEW at, NEW rval, NEW dir, NEW from, NEW dest, NEW pos, mem = Mv(fs, at, rval, dir, from, dest, pos),
         inp = job.files, dir = MvDir(job), NEW f, f = Head(job.files), NEW p, p = MvPath(job), MvRemove
  PROVE  at = "remove" /\ \E u : u = Unlink(fs, f) /\ Removed(u, fs, rval)
<1>1. mem.fs = fs /\ mem.at = at /\ MvFrom = f
  BY MvNames
<1>2. at = "remove"
  BY <1>1 DEF MvRemove, At
<1>3. PICK u, x : u = Unlink(fs, f) /\ x = u.fs
  OBVIOUS
<1>4. \/ u.err = "" /\ DoneWith(Having(mem, x))
      \/ u.err # "" /\ DoneWith(Failing(mem))
  BY <1>1, <1>3 DEF MvRemove, Having, Failing
<1>5. Having(mem, x) = Mv(x, at, rval, dir, from, dest, pos) /\ Failing(mem) = Mv(fs, at, 1, dir, from, dest, pos)
  BY MvHaving, MvFailing
<1>6. CASE u.err = "" /\ DoneWith(Having(mem, x))
  <2>1. Ends(mem, x, rval)
    BY <1>5, <1>6, MvEndsBy
  <2> QED BY <1>2, <1>3, <1>6, <2>1 DEF Removed
<1>7. CASE u.err # "" /\ DoneWith(Failing(mem))
  <2>1. Ends(mem, fs, 1)
    BY <1>5, <1>7, MvEndsBy
  <2> QED BY <1>2, <1>3, <2>1 DEF Removed
<1> QED BY <1>4, <1>6, <1>7

Unblocks(r, fs, p) == r = Rmdir(fs, p) \/ r = Unlink(fs, p) \/ (Lstat(fs, p) = "none" /\ r = Ok(fs))
Replaced(r, fs, rval, dir, from, dest, pos) ==
  \/ Ends(mem, fs, 1)
  \/ r.err = "" /\ mem' = Mv(r.fs, "cp", rval, dir, from, dest, pos) /\ inp' = inp
LEMMA MvReplaceDoes ==
  ASSUME NEW fs, NEW at, NEW rval, NEW dir, NEW from, NEW dest, NEW pos, mem = Mv(fs, at, rval, dir, from, dest, pos),
         inp = job.files, dir = MvDir(job), NEW f, f = Head(job.files), NEW p, p = MvPath(job), MvReplace
  PROVE  at = "replace" /\ \E r : Unblocks(r, fs, p) /\ Replaced(r, fs, rval, dir, from, dest, pos)
<1>1. mem.fs = fs /\ mem.at = at /\ MvTo = p
  BY MvNames
<1>2. at = "replace"
  BY <1>1 DEF MvReplace, At
<1>3. PICK r : r = CASE Lstat(fs, p) = "none" -> Ok(fs)
                     [] Lstat(fs, p) = "dir" -> Rmdir(fs, p)
                     [] OTHER -> Unlink(fs, p)
  OBVIOUS
<1>4. Unblocks(r, fs, p)
  BY <1>3 DEF Unblocks
<1>5. PICK x : x = r.fs
  OBVIOUS
<1>6. \/ r.err = "" /\ Goes(Having(mem, x), "cp") /\ inp' = inp
      \/ DoneWith(Failing(mem))
  BY <1>1, <1>3, <1>5 DEF MvReplace, Having, Failing
<1>7. Failing(mem) = Mv(fs, at, 1, dir, from, dest, pos)
  BY MvFailing
<1>8. PICK m : m = Having(mem, x)
  OBVIOUS
<1>9. m = Mv(x, at, rval, dir, from, dest, pos)
  BY <1>8, MvHaving
<1>10. Going(m, "cp") = Mv(x, "cp", rval, dir, from, dest, pos)
  BY <1>9, MvGoing
<1>11. CASE r.err = "" /\ Goes(Having(mem, x), "cp") /\ inp' = inp
  <2>1. mem' = Mv(x, "cp", rval, dir, from, dest, pos)
    BY <1>8, <1>10, <1>11 DEF Goes, Going
  <2> QED BY <1>2, <1>4, <1>5, <1>11, <2>1 DEF Replaced
<1>12. CASE DoneWith(Failing(mem))
  <2>1. Ends(mem, fs, 1)
    BY <1>7, <1>12, MvEndsBy
  <2> QED BY <1>2, <1>4, <2>1 DEF Replaced
<1> QED BY <1>6, <1>11, <1>12

CopyOf(m, s, e, X) == [m EXCEPT !.fs = TreeCopied(@, s, e, X)]
CpDoes(m, s, e) ==
  \/ /\ s \in DOMAIN m.fs.at /\ e # None
     /\ \/ Goes(CopyOf(m, s, e, Tree(m.fs, s)), "rm") /\ inp' = inp
        \/ \E some \in SUBSET Below(m.fs, s) :
             (\A y \in some : Front(y) \in some \cup {s}) /\ DoneWith(Failed(CopyOf(m, s, e, some \cup {s})))
  \/ DoneWith(Failed(m))

LEMMA MvCpIs == MvCp => CpDoes(mem, Entry(mem.fs, MvFrom), Entry(mem.fs, MvTo))
BY Zenon DEF MvCp, CpDoes, CopyOf

Copying(fs, s, e, rval, dir, from, dest, pos) ==
  mem' = Mv(TreeCopied(fs, s, e, Tree(fs, s)), "rm", rval, dir, from, dest, pos) /\ inp' = inp
CopiedSome(fs, s, e) == \E X : X \subseteq Tree(fs, s) /\ Grows(X, s) /\ Ends(mem, TreeCopied(fs, s, e, X), 1)
LEMMA MvCpDoes ==
  ASSUME NEW fs, NEW at, NEW rval, NEW dir, NEW from, NEW dest, NEW pos, mem = Mv(fs, at, rval, dir, from, dest, pos),
         inp = job.files, dir = MvDir(job), NEW f, f = Head(job.files), NEW p, p = MvPath(job), MvCp, NEW s, s = Entry(fs, f), NEW e, e = Entry(fs, p)
  PROVE  /\ at = "cp"
         /\ \/ Ends(mem, fs, 1)
            \/ /\ s \in DOMAIN fs.at /\ e # None
               /\ Copying(fs, s, e, rval, dir, from, dest, pos) \/ CopiedSome(fs, s, e)
<1>1. mem.fs = fs /\ mem.at = at /\ MvTo = p /\ MvFrom = f
  BY MvNames
<1>2. at = "cp"
  BY <1>1 DEF MvCp, At
<1>3. PICK x : x = TreeCopied(fs, s, e, Tree(fs, s))
  OBVIOUS
<1>4. \/ /\ s \in DOMAIN fs.at /\ e # None
         /\ \/ Goes(Having(mem, x), "rm") /\ inp' = inp
            \/ \E some \in SUBSET Below(fs, s) :
                 /\ \A y \in some : Front(y) \in some \cup {s}
                 /\ DoneWith(Failing(Having(mem, TreeCopied(fs, s, e, some \cup {s}))))
      \/ DoneWith(Failing(mem))
  <2>1. \A X : CopyOf(mem, s, e, X) = Having(mem, TreeCopied(fs, s, e, X))
    BY <1>1 DEF Having, CopyOf
  <2>2. CpDoes(mem, s, e)
    BY <1>1, MvCpIs
  <2>3. \/ /\ s \in DOMAIN fs.at /\ e # None
            /\ \/ Goes(CopyOf(mem, s, e, Tree(fs, s)), "rm") /\ inp' = inp
               \/ \E some \in SUBSET Below(fs, s) :
                    /\ \A y \in some : Front(y) \in some \cup {s}
                    /\ DoneWith(Failing(CopyOf(mem, s, e, some \cup {s})))
        \/ DoneWith(Failing(mem))
    BY <1>1, <2>2 DEF CpDoes, Failing
  <2> QED BY <1>3, <2>1, <2>3
<1>5. Failing(mem) = Mv(fs, at, 1, dir, from, dest, pos)
  BY MvFailing
<1>6. CASE DoneWith(Failing(mem))
  BY <1>2, <1>5, <1>6, MvEndsBy
<1>7. CASE s \in DOMAIN fs.at /\ e # None /\ Goes(Having(mem, x), "rm") /\ inp' = inp
  <2>1. PICK m : m = Having(mem, x)
    OBVIOUS
  <2>2. m = Mv(x, at, rval, dir, from, dest, pos)
    BY <2>1, MvHaving
  <2>3. Going(m, "rm") = Mv(x, "rm", rval, dir, from, dest, pos)
    BY <2>2, MvGoing
  <2> QED BY <1>2, <1>3, <1>7, <2>1, <2>3 DEF Goes, Going, Copying
<1>8. ASSUME s \in DOMAIN fs.at, e # None, NEW some \in SUBSET Below(fs, s), \A y \in some : Front(y) \in some \cup {s},
             DoneWith(Failing(Having(mem, TreeCopied(fs, s, e, some \cup {s}))))
      PROVE  CopiedSome(fs, s, e)
  <2>1. PICK X, y, m : X = some \cup {s} /\ y = TreeCopied(fs, s, e, X) /\ m = Having(mem, y)
    OBVIOUS
  <2>2. X \subseteq Tree(fs, s) /\ Grows(X, s)
    BY <1>8, <2>1 DEF Tree, Grows
  <2>3. m = Mv(y, at, rval, dir, from, dest, pos)
    BY <2>1, MvHaving
  <2>4. Failing(m) = Mv(y, at, 1, dir, from, dest, pos) /\ DoneWith(Failing(m))
    BY <1>8, <2>1, <2>3, MvFailing
  <2>5. Ends(mem, y, 1)
    BY <2>4, MvEndsBy
  <2> QED BY <2>1, <2>2, <2>5 DEF CopiedSome
<1> QED BY <1>2, <1>4, <1>6, <1>7, <1>8

RemovedTree(gone, tree, fs, rval) ==
  gone \subseteq tree /\ (Ends(mem, Without(fs, gone), 1) \/ (gone = tree /\ Ends(mem, Without(fs, gone), rval)))
LEMMA MvRmDoes ==
  ASSUME NEW fs, NEW at, NEW rval, NEW dir, NEW from, NEW dest, NEW pos, mem = Mv(fs, at, rval, dir, from, dest, pos),
         inp = job.files, dir = MvDir(job), NEW f, f = Head(job.files), NEW p, p = MvPath(job), MvRm, NEW tree, tree = Tree(fs, Entry(fs, f)) \cap DOMAIN fs.at
  PROVE  at = "rm" /\ \E gone : RemovedTree(gone, tree, fs, rval)
<1>1. mem.fs = fs /\ mem.at = at /\ MvFrom = f
  BY MvNames
<1>2. at = "rm"
  BY <1>1 DEF MvRm, At
<1>3. PICK gone \in SUBSET tree :
        DoneWith(IF gone = tree THEN Having(mem, Without(fs, gone)) ELSE Failing(Having(mem, Without(fs, gone))))
  BY <1>1 DEF MvRm, Having, Failing
<1>4. PICK x, m : x = Without(fs, gone) /\ m = Having(mem, x)
  OBVIOUS
<1>5. m = Mv(x, at, rval, dir, from, dest, pos)
  BY <1>4, MvHaving
<1>6. Failing(m) = Mv(x, at, 1, dir, from, dest, pos)
  BY <1>5, MvFailing
<1>7. CASE gone = tree
  <2>1. DoneWith(m)
    BY <1>3, <1>4, <1>7
  <2>2. Ends(mem, x, rval)
    BY <1>5, <2>1, MvEndsBy
  <2> QED BY <1>2, <1>4, <1>7, <2>2 DEF RemovedTree
<1>8. CASE gone # tree
  <2>1. DoneWith(Failing(m))
    BY <1>3, <1>4, <1>8
  <2>2. Ends(mem, x, 1)
    BY <1>6, <2>1, MvEndsBy
  <2> QED BY <1>2, <1>4, <2>2 DEF RemovedTree
<1> QED BY <1>7, <1>8

-----------------------------------------------------------------------------
(* Where mv is with its operand.                                             *)

\* The beginning of the data that has been copied
Begins(d, full, n) == d \in Seq(STRING) /\ n \in Nat /\ Len(d) = n /\ n <= Len(full) /\ \A k \in 1 .. n : d[k] = full[k]
MvData0(j) == j.fs.node[j.fs.at[MvOld(j)]].data
\* The operand is a file, on another file system than where it goes.
MvFile(j) == Apart(j) /\ TypeAt(j.fs, MvOld(j)) = "file"
\* The new file, in the place of what was in its way, and its data
MvFilled(j, b, fs, dest, pos) ==
  /\ Cleared(b, j.fs, MvNew(j)) /\ MadeAt(fs, b, MvNew(j), dest) /\ dest = b.next
  /\ IsNode(fs.node[dest]) /\ fs.node[dest].type = "file" /\ Begins(fs.node[dest].data, MvData0(j), pos)
\* All of the operand, once more
MvCopied(j, b, fs) ==
  /\ Cleared(b, j.fs, MvNew(j)) /\ Grown(fs, b) /\ MvOld(j) \in DOMAIN b.at /\ Entry(b, Head(j.files)) = MvOld(j)
  /\ Copies(fs, b, MvOld(j), MvNew(j), Tree(b, MvOld(j)))
MvGoes(j, fs, at, from, dest, pos) ==
  \/ at \in {"next", "rename"} /\ fs = j.fs
  \/ at = "replace" /\ fs = j.fs /\ Apart(j)
  \/ at = "open" /\ fs = j.fs /\ MvFile(j)
  \/ at = "create" /\ MvFile(j) /\ Cleared(fs, j.fs, MvNew(j)) /\ from = j.fs.at[MvOld(j)] /\ pos = 0
  \/ at \in {"write", "failed"} /\ MvFile(j) /\ from = j.fs.at[MvOld(j)] /\ \E b : MvFilled(j, b, fs, dest, pos)
  \/ at \in {"close", "remove"} /\ MvFile(j) /\ pos = Len(MvData0(j)) /\ \E b : MvFilled(j, b, fs, dest, pos)
  \/ at = "cp" /\ Apart(j) /\ Cleared(fs, j.fs, MvNew(j)) /\ MvNew(j) \notin DOMAIN fs.at
  \/ at = "rm" /\ Apart(j) /\ \E b : MvCopied(j, b, fs)
MvEnded(j, fs, rval) == MvHeld(j, fs) /\ (rval = 0 => j.ask # "f" \/ MvGone(j, fs) \/ ~Distinct(j))
MvState(j, m, i) ==
  \E fs, at, rval, from, dest, pos :
    /\ m = Mv(fs, at, rval, MvDir(j), from, dest, pos)
    /\ \/ i = j.files /\ MvGoes(j, fs, at, from, dest, pos)
       \/ i = <<>> /\ at = "next" /\ MvEnded(j, fs, rval)

\* What is at the new place and below it may come, and what was there go: the operand is as it was.
LEMMA HeldBy ==
  ASSUME NEW j, IsJob(j), Apart(j), NEW b, Cleared(b, j.fs, MvNew(j)), NEW fs, Grown(fs, b),
         \A p \in DOMAIN fs.at : p \in DOMAIN b.at \/ IsPrefix(MvNew(j), p)
  PROVE  Whole(j, fs, MvOld(j)) /\ Spared(j, fs) /\ MvHeld(j, fs)
<1>1. PICK was, s, e : was = j.fs /\ s = MvOld(j) /\ e = MvNew(j)
  OBVIOUS
<1>2. s \in Path /\ e \in Path /\ ~IsPrefix(s, e) /\ ~IsPrefix(e, s) /\ IsTree(was)
  BY <1>1 DEF Apart, Separate, IsTree, IsJob
<1>3. \A p \in DOMAIN b.at : p \in DOMAIN was.at /\ b.at[p] = was.at[p]
  BY <1>1 DEF Cleared, Left
<1>4. b.node = was.node /\ \A p \in DOMAIN was.at : p = e \/ p \in DOMAIN b.at
  BY <1>1 DEF Cleared, Left
<1>5. ASSUME NEW p \in DOMAIN b.at PROVE SameAt(fs, was, p)
  <2>1. p \in DOMAIN was.at /\ b.at[p] = was.at[p] /\ was.at[p] \in DOMAIN was.node
    BY <1>2, <1>3 DEF IsTree
  <2>2. p \in DOMAIN fs.at /\ fs.at[p] = b.at[p]
    BY DEF Grown
  <2>3. fs.node[was.at[p]] = was.node[was.at[p]]
    BY <1>4, <2>1 DEF Grown
  <2> QED BY <2>1, <2>2, <2>3 DEF SameAt
<1>6. IsPrefix(e, e) /\ DOMAIN was.at \subseteq Path
  BY <1>2, PrefixFacts DEF IsTree
<1>7. Whole(j, fs, s)
  <2> SUFFICES ASSUME NEW x \in DOMAIN was.at, IsPrefix(s, x) PROVE What(fs, Grafted(x, s, s)) = What(was, x)
    BY <1>1 DEF Whole
  <2>1. Grafted(x, s, s) = x
    BY <1>2, <1>6, GraftFacts
  <2>2. x \in DOMAIN b.at
    BY <1>2, <1>4
  <2>3. SameAt(fs, was, x)
    BY <1>5, <2>2
  <2> QED BY <2>1, <2>3 DEF SameAt, What
<1>8. Spared(j, fs)
  <2>1. ASSUME NEW p \in DOMAIN was.at, ~IsPrefix(e, p) PROVE SameAt(fs, was, p)
    <3>1. p \in DOMAIN b.at
      BY <1>4, <1>6, <2>1
    <3> QED BY <1>5, <3>1
  <2>2. \A p \in DOMAIN fs.at \ DOMAIN was.at : IsPrefix(e, p)
    BY <1>1, <1>3
  <2> QED BY <1>1, <2>1, <2>2 DEF Spared, Unlike
<1> QED BY <1>1, <1>7, <1>8 DEF MvHeld

LEMMA ClearedSelf ==
  ASSUME NEW j, IsJob(j), NEW e
  PROVE  Cleared(j.fs, j.fs, e) /\ Grown(j.fs, j.fs)
<1>1. IsTree(j.fs)
  BY DEF IsJob
<1>2. j.fs.next <= j.fs.next
  BY <1>1 DEF IsTree
<1> QED BY <1>1, <1>2 DEF Cleared, Left, Grown

LEMMA GrownSelf ==
  ASSUME NEW fs, IsTree(fs)
  PROVE  Grown(fs, fs)
<1>1. fs.next <= fs.next
  BY DEF IsTree
<1> QED BY <1>1 DEF Grown

\* Nothing has come.
LEMMA ClearedHeld ==
  ASSUME NEW j, IsJob(j), Apart(j), NEW fs, Cleared(fs, j.fs, MvNew(j))
  PROVE  MvHeld(j, fs)
<1>1. IsTree(fs)
  BY DEF Cleared, Left
<1>2. Grown(fs, fs)
  BY <1>1, GrownSelf
<1> QED BY <1>2, HeldBy

LEMMA FilledFacts ==
  ASSUME NEW j, IsJob(j), MvFile(j), NEW b, NEW fs, NEW dest, NEW pos, MvFilled(j, b, fs, dest, pos)
  PROVE  /\ MvHeld(j, fs) /\ Spared(j, fs) /\ IsTree(fs) /\ IsTree(b)
         /\ \A p \in Path : Entry(fs, p) # None => Entry(j.fs, p) = Entry(fs, p)
         /\ MvOld(j) \in DOMAIN b.at /\ MvOld(j) \in DOMAIN fs.at /\ MvOld(j) # MvNew(j)
         /\ j.fs.at[MvOld(j)] \in DOMAIN b.node /\ j.fs.at[MvOld(j)] # dest
         /\ fs.at[MvOld(j)] = j.fs.at[MvOld(j)] /\ fs.node[j.fs.at[MvOld(j)]] = j.fs.node[j.fs.at[MvOld(j)]]
<1>1. PICK was, s, e : was = j.fs /\ s = MvOld(j) /\ e = MvNew(j)
  OBVIOUS
<1>2. s \in DOMAIN was.at /\ s \in Path /\ e \in Path /\ ~IsPrefix(s, e) /\ ~IsPrefix(e, s) /\ IsTree(was)
  BY <1>1 DEF MvFile, Apart, Separate, IsTree, IsJob
<1>3. Cleared(b, was, e) /\ MadeAt(fs, b, e, dest) /\ Grown(fs, b) /\ IsTree(fs) /\ IsTree(b) /\ dest = b.next
  BY <1>1 DEF MvFilled, MadeAt, Grown
<1>4. /\ DOMAIN fs.at = DOMAIN b.at \cup {e} /\ e \notin DOMAIN b.at /\ fs.at[e] = dest
      /\ b.node = was.node /\ (\A p \in DOMAIN b.at : p \in DOMAIN was.at /\ b.at[p] = was.at[p])
      /\ \A p \in DOMAIN was.at : p = e \/ p \in DOMAIN b.at
  BY <1>3 DEF MadeAt, Cleared, Left
<1>5. IsPrefix(e, e)
  BY <1>2, PrefixFacts
<1>6. MvHeld(j, fs) /\ Spared(j, fs)
  <2>1. Apart(j)
    BY DEF MvFile
  <2> QED BY <1>1, <1>3, <1>4, <1>5, <2>1, HeldBy
<1>7. s # e /\ s \in DOMAIN b.at /\ s \in DOMAIN fs.at
  BY <1>2, <1>4, <1>5
<1>8. \A p \in DOMAIN b.at : fs.at[p] = was.at[p] /\ was.at[p] \in DOMAIN b.node /\ fs.node[was.at[p]] = was.node[was.at[p]]
  BY <1>2, <1>3, <1>4 DEF Grown, IsTree
<1>9. was.at[s] # dest
  BY <1>3, <1>7, <1>8 DEF IsTree
<1>10. TypeAt(fs, e) = "file"
  BY <1>1, <1>4 DEF MvFilled, TypeAt, Node
<1>11. \A p \in DOMAIN b.at : TypeAt(fs, p) = TypeAt(was, p) /\ Node(fs, p) = Node(was, p)
  BY <1>4, <1>8 DEF TypeAt, Node
<1>12. Agree(fs, was, DOMAIN b.at)
  BY <1>2, <1>3, <1>4, <1>10, <1>11 DEF Agree
<1>13. \A p \in Path : Entry(fs, p) # None => Entry(was, p) = Entry(fs, p)
  BY <1>12, EntryAgrees
<1> QED BY <1>1, <1>3, <1>6, <1>7, <1>8, <1>9, <1>13

\* open(2) with O_CREAT and O_EXCL makes a file that is empty, or fails.
LEMMA OpenIs ==
  ASSUME NEW fs, IsTree(fs), NEW p \in Path, NEW o, o = Open(fs, p, TRUE, TRUE), o.err = ""
  PROVE  /\ MadeAt(o.fs, fs, Entry(fs, p), fs.next) /\ o.ino = fs.next
         /\ o.fs.node[fs.next] = [type |-> "file", data |-> <<>>, mode |-> "new"]
<1>1. PICK e, t, node : e = Entry(fs, p) /\ t = Follow(fs, p) /\ node = [type |-> "file", data |-> <<>>, mode |-> "new"]
  OBVIOUS
<1>2. \A x : Err(fs, x).err = x
  BY DEF Err
<1>3. "EEXIST" # "" /\ "EISDIR" # ""
  OBVIOUS
<1>4. TypeAt(fs, e) = "none"
  BY <1>1, <1>2, <1>3 DEF Open, Lstat
<1>5. t = e
  BY <1>1, <1>4, EntryFacts
<1>6. PICK q : q = IF t = None THEN p ELSE t
  OBVIOUS
<1>7. o = Make(fs, q, node)
  BY <1>1, <1>2, <1>3, <1>4, <1>5, <1>6 DEF Open
<1>8. q \in Path /\ Entry(fs, q) = e
  <2>1. CASE t = None
    BY <1>1, <1>6, <2>1
  <2>2. CASE t # None
    <3>1. q = e /\ e # None
      BY <1>5, <1>6, <2>2
    <3>2. e \in Path /\ Entry(fs, e) = e
      BY <1>1, <3>1, EntryFacts, EntryOfEntry
    <3> QED BY <3>1, <3>2
  <2> QED BY <2>1, <2>2
<1>9. IsNode(node) /\ node.type = "file"
  BY <1>1 DEF IsNode
<1>10. node.type # "none" /\ (node.type = "link" => node.data \in Path)
  BY <1>9
<1>11. Makes(o, fs, q, node)
  BY <1>7, <1>8, <1>9, <1>10, MakeAdds
<1> QED BY <1>1, <1>8, <1>11 DEF Makes

\* One block more
LEMMA WroteIs ==
  ASSUME NEW fs, IsTree(fs), NEW i \in DOMAIN fs.node, fs.node[i].type = "file", NEW x, NEW now, now = WriteTo(fs, i, x)
  PROVE  /\ IsTree(now) /\ now.at = fs.at /\ now.next = fs.next /\ DOMAIN now.node = DOMAIN fs.node
         /\ IsNode(now.node[i]) /\ now.node[i].type = "file" /\ now.node[i].data = Append(fs.node[i].data, x)
         /\ \A k \in DOMAIN fs.node \ {i} : now.node[k] = fs.node[k]
<1>1. PICK g, n : g = fs.node[i] /\ n = [g EXCEPT !.data = Append(g.data, x)]
  OBVIOUS
<1>2. IsNode(g) /\ g.type = "file"
  BY <1>1 DEF IsTree, IsNode
<1>3. IsNode(n) /\ n.type = g.type /\ n.data = Append(g.data, x)
  BY <1>1, <1>2 DEF IsNode
<1>4. now = [fs EXCEPT !.node[i] = n]
  BY <1>1 DEF WriteTo
<1>5. n.type = fs.node[i].type /\ (n.type = "link" => n.data = fs.node[i].data)
  BY <1>1, <1>2, <1>3
<1>6. /\ IsTree(now) /\ now.at = fs.at /\ now.next = fs.next /\ DOMAIN now.node = DOMAIN fs.node /\ now.node[i] = n
      /\ \A k \in DOMAIN fs.node \ {i} : now.node[k] = fs.node[k]
  BY <1>3, <1>4, <1>5, NodeSet
<1> QED BY <1>1, <1>2, <1>3, <1>6

LEMMA BeginsMore ==
  ASSUME NEW full \in Seq(STRING), NEW d, NEW n, Begins(d, full, n), n < Len(full)
  PROVE  Begins(Append(d, full[n + 1]), full, n + 1)
<1>1. d \in Seq(STRING) /\ n \in Nat /\ Len(d) = n /\ \A k \in 1 .. n : d[k] = full[k]
  BY DEF Begins
<1>2. PICK l \in Nat : l = Len(full) /\ n < l
  OBVIOUS
<1>3. n + 1 \in 1 .. l
  BY <1>1, <1>2
<1>4. PICK x \in STRING : x = full[n + 1]
  <2>1. full[n + 1] \in STRING
    BY <1>2, <1>3
  <2> QED BY <2>1
<1>5. PICK w : w = Append(d, x)
  OBVIOUS
<1>6. w \in Seq(STRING) /\ Len(w) = n + 1 /\ w[n + 1] = x /\ \A k \in 1 .. n : w[k] = d[k]
  <2>1. w \in Seq(STRING) /\ Len(w) = Len(d) + 1 /\ w[Len(d) + 1] = x /\ \A k \in 1 .. Len(d) : w[k] = d[k]
    BY <1>1, <1>4, <1>5, SnocFacts
  <2> QED BY <1>1, <2>1
<1>7. \A k \in 1 .. n + 1 : w[k] = full[k]
  <2> TAKE k \in 1 .. n + 1
  <2>1. k = n + 1 \/ k \in 1 .. n
    BY <1>1
  <2> QED BY <1>1, <1>4, <1>6, <2>1
<1> QED BY <1>1, <1>2, <1>3, <1>4, <1>5, <1>6, <1>7 DEF Begins

LEMMA BeginsNone == \A full \in Seq(STRING) : Begins(<<>>, full, 0)
<1> SUFFICES ASSUME NEW full \in Seq(STRING), NEW d \in Seq(STRING), d = <<>> PROVE Begins(d, full, 0)
  <2>1. <<>> \in Seq(STRING)
    OBVIOUS
  <2> QED BY <2>1
<1>1. Len(d) = 0 /\ Len(full) \in Nat
  OBVIOUS
<1> QED BY <1>1 DEF Begins

LEMMA BeginsAll ==
  ASSUME NEW full \in Seq(STRING), NEW d, NEW n, Begins(d, full, n), n = Len(full)
  PROVE  d = full
<1>1. d \in Seq(STRING) /\ Len(d) = Len(full) /\ \A k \in 1 .. Len(d) : d[k] = full[k]
  BY DEF Begins
<1> QED BY <1>1, SeqEqual

LEMMA MvDataIn ==
  ASSUME NEW j, IsJob(j), Blocks(j), MvFile(j)
  PROVE  MvData0(j) \in Seq(STRING)
<1>1. PICK was, s : was = j.fs /\ s = MvOld(j)
  OBVIOUS
<1>2. s \in DOMAIN was.at /\ TypeAt(was, s) = "file" /\ IsTree(was)
  BY <1>1 DEF MvFile, Apart, Separate, IsJob
<1>3. was.at[s] \in DOMAIN was.node /\ was.node[was.at[s]].type = "file"
  BY <1>2 DEF IsTree, TypeAt, Node
<1> QED BY <1>1, <1>3 DEF Blocks, MvData0

-----------------------------------------------------------------------------
(* The steps of mv keep the operand.                                         *)

LEMMA MvHere ==
  ASSUME IsJob(job), Single(job), MvState(job, mem, inp), NEW w, mem.at = w, w # "next" \/ inp # <<>>
  PROVE  \E fs, rval, dir, from, dest, pos :
           /\ mem = Mv(fs, w, rval, dir, from, dest, pos) /\ dir = MvDir(job) /\ inp = job.files
           /\ MvGoes(job, fs, w, from, dest, pos)
<1>1. PICK fs, at, rval, from, dest, pos :
        /\ mem = Mv(fs, at, rval, MvDir(job), from, dest, pos)
        /\ \/ inp = job.files /\ MvGoes(job, fs, at, from, dest, pos)
           \/ inp = <<>> /\ at = "next" /\ MvEnded(job, fs, rval)
  BY DEF MvState
<1>2. PICK dir : dir = MvDir(job)
  OBVIOUS
<1>3. at = w
  BY <1>1, <1>2, MvFields
<1> QED BY <1>1, <1>2, <1>3

LEMMA MvEnds ==
  ASSUME IsJob(job), Single(job), inp = job.files, NEW fs, NEW at, NEW rval, NEW dir, NEW from, NEW dest, NEW pos,
         mem = Mv(fs, at, rval, dir, from, dest, pos), dir = MvDir(job), NEW x, NEW v, MvEnded(job, x, v), Ends(mem, x, v)
  PROVE  MvState(job, mem', inp')
<1>1. mem' = Mv(x, "next", v, dir, from, dest, pos) /\ inp' = <<>>
  BY MvFields, OneOperand DEF Ends
<1> QED BY <1>1 DEF MvState

LEMMA MvFails ==
  ASSUME NEW j, NEW fs, MvHeld(j, fs)
  PROVE  MvEnded(j, fs, 1)
<1>1. 1 # 0
  OBVIOUS
<1> QED BY <1>1 DEF MvEnded

LEMMA MvGoesOn ==
  ASSUME inp = job.files, NEW x, NEW at, NEW v, NEW dir, NEW from, NEW dest, NEW pos, dir = MvDir(job),
         mem' = Mv(x, at, v, dir, from, dest, pos), inp' = inp, MvGoes(job, x, at, from, dest, pos)
  PROVE  MvState(job, mem', inp')
BY DEF MvState

LEMMA MvStartMakes ==
  ASSUME IsJob(job), Single(job), inp = job.files, Quiet, MvStart
  PROVE  MvState(job, mem', inp') /\ status' = status
<1>1. PICK dir : dir = MvDir(job)
  OBVIOUS
<1>2. mem' = Mv(job.fs, "next", 0, dir, -1, -1, 0) /\ inp' = inp
  BY <1>1 DEF MvStart, Start, Quiet, Mv, Nobody, MvDir
<1>3. MvGoes(job, job.fs, "next", -1, -1, 0)
  BY DEF MvGoes
<1>4. status' = status
  <2>1. ~(Len(inp) > 1)
    <3>1. Len(job.files) = 1
      BY DEF Single
    <3>2. Len(inp) = 1
      BY <3>1
    <3> QED BY <3>2
  <2> QED BY <2>1 DEF MvStart
<1> QED BY <1>1, <1>2, <1>3, <1>4, MvGoesOn

LEMMA MvAskKeeps ==
  ASSUME IsJob(job), Single(job), MvState(job, mem, inp), MvAsk
  PROVE  MvState(job, mem', inp')
<1>0. mem.at = "next" /\ inp # <<>>
  BY DEF MvAsk, At
<1>1. PICK fs, rval, dir, from, dest, pos :
        /\ mem = Mv(fs, "next", rval, dir, from, dest, pos) /\ dir = MvDir(job) /\ inp = job.files
        /\ MvGoes(job, fs, "next", from, dest, pos)
  BY <1>0, MvHere
<1>2. fs = job.fs
  BY <1>1 DEF MvGoes
<1>3. MvHeld(job, fs)
  BY <1>2 DEF MvHeld
<1>4. \/ mem' = Mv(fs, "rename", rval, dir, from, dest, pos) /\ inp' = inp
      \/ Ends(mem, fs, 1)
      \/ job.ask # "f" /\ Ends(mem, fs, rval)
  BY <1>1, MvAskDoes
<1>5. CASE mem' = Mv(fs, "rename", rval, dir, from, dest, pos) /\ inp' = inp
  <2>1. MvGoes(job, fs, "rename", from, dest, pos)
    BY <1>2 DEF MvGoes
  <2> QED BY <1>1, <1>5, <2>1, MvGoesOn
<1>6. CASE Ends(mem, fs, 1)
  BY <1>1, <1>3, <1>6, MvFails, MvEnds
<1>7. CASE job.ask # "f" /\ Ends(mem, fs, rval)
  <2>1. MvEnded(job, fs, rval)
    BY <1>3, <1>7 DEF MvEnded
  <2> QED BY <1>1, <1>7, <2>1, MvEnds
<1> QED BY <1>4, <1>5, <1>6, <1>7

\* rename(2): the tree is at the new place, and nothing else has changed.
LEMMA RenamedHeld ==
  ASSUME NEW j, IsJob(j), Apart(j), NEW w, w = Moved(j.fs, MvOld(j), MvNew(j))
  PROVE  MvHeld(j, w) /\ MvGone(j, w)
<1>1. PICK was, s, e : was = j.fs /\ s = MvOld(j) /\ e = MvNew(j)
  OBVIOUS
<1>2. s \in DOMAIN was.at /\ s \in Path /\ e \in Path /\ ~IsPrefix(s, e) /\ ~IsPrefix(e, s) /\ IsTree(was)
  BY <1>1 DEF Apart, Separate, IsTree, IsJob
<1>3. /\ w.node = was.node
      /\ \A p \in DOMAIN was.at : ~IsPrefix(s, p) /\ ~IsPrefix(e, p) => p \in DOMAIN w.at /\ w.at[p] = was.at[p]
      /\ \A p \in DOMAIN w.at : p \in DOMAIN was.at \/ IsPrefix(e, p)
      /\ \A x \in DOMAIN was.at : IsPrefix(s, x) => Grafted(x, s, e) \in DOMAIN w.at /\ w.at[Grafted(x, s, e)] = was.at[x]
      /\ s \notin DOMAIN w.at
  BY <1>1, <1>2, MovedIs
<1>4. Whole(j, w, e)
  BY <1>1, <1>3 DEF Whole, What
<1>5. Spared(j, w)
  BY <1>1, <1>3 DEF Spared, Unlike, SameAt
<1> QED BY <1>1, <1>3, <1>4, <1>5 DEF MvHeld, MvGone

LEMMA MvRenameKeeps ==
  ASSUME IsJob(job), Single(job), MvState(job, mem, inp), MvRename
  PROVE  MvState(job, mem', inp')
<1>0. mem.at = "rename" /\ "rename" # "next"
  BY DEF MvRename, At
<1>1. PICK fs, rval, dir, from, dest, pos :
        /\ mem = Mv(fs, "rename", rval, dir, from, dest, pos) /\ dir = MvDir(job) /\ inp = job.files
        /\ MvGoes(job, fs, "rename", from, dest, pos)
  BY <1>0, MvHere
<1>2. fs = job.fs
  BY <1>1 DEF MvGoes
<1>3. PICK f, p, s, e : f = Head(job.files) /\ p = MvPath(job) /\ s = MvOld(job) /\ e = MvNew(job)
  OBVIOUS
<1>4. f \in Path /\ f # <<>> /\ p \in Path /\ p # <<>> /\ IsTree(fs) /\ s = Entry(fs, f) /\ e = Entry(fs, p)
  BY <1>2, <1>3, OneOperand, MvPlaces DEF MvOld, MvNew, IsJob
<1>10. PICK r : r = Rename(fs, f, p) /\ Answered(r, f, fs, rval, dir, from, dest, pos)
  BY <1>1, <1>3, MvRenameDoes
<1>5. \/ r.err = "" /\ Ends(mem, r.fs, rval)
      \/ /\ r.err = "EXDEV" /\ inp' = inp
         /\ \/ mem' = Mv(fs, "replace", rval, dir, from, dest, pos)
            \/ Lstat(fs, f) = "file" /\ mem' = Mv(fs, "open", rval, dir, from, dest, pos)
      \/ Ends(mem, fs, 1)
  BY <1>10 DEF Answered
<1>11. Renames(r, fs, s, e)
  BY <1>4, <1>10, RenameIs
<1>6. \/ r.err # "" /\ r.err # "EXDEV"
      \/ r.err = "EXDEV" /\ Separate(fs, s, e)
      \/ r.err = "" /\ r.fs = fs /\ s \in DOMAIN fs.at /\ e \in DOMAIN fs.at /\ fs.at[s] = fs.at[e]
      \/ r.err = "" /\ r.fs = Moved(fs, s, e) /\ Separate(fs, s, e)
  BY <1>11 DEF Renames
<1>7. CASE Ends(mem, fs, 1)
  <2>1. MvHeld(job, fs)
    BY <1>2 DEF MvHeld
  <2> QED BY <1>1, <1>7, <2>1, MvFails, MvEnds
<1>8. CASE r.err = "" /\ Ends(mem, r.fs, rval)
  <2>1. CASE r.fs = fs /\ s \in DOMAIN fs.at /\ e \in DOMAIN fs.at /\ fs.at[s] = fs.at[e]
    <3>1. MvHeld(job, fs)
      BY <1>2 DEF MvHeld
    <3>2. ~Distinct(job)
      BY <1>2, <1>3, <2>1 DEF Distinct, MvOld, MvNew, MvPath, MvDir
    <3>3. MvEnded(job, r.fs, rval)
      BY <2>1, <3>1, <3>2 DEF MvEnded
    <3> QED BY <1>1, <1>8, <3>3, MvEnds
  <2>2. CASE r.fs = Moved(fs, s, e) /\ Separate(fs, s, e)
    <3>1. Apart(job)
      BY <1>2, <1>3, <2>2 DEF Apart
    <3>2. MvHeld(job, r.fs) /\ MvGone(job, r.fs)
      BY <1>2, <1>3, <2>2, <3>1, RenamedHeld
    <3>3. MvEnded(job, r.fs, rval)
      BY <3>2 DEF MvEnded
    <3> QED BY <1>1, <1>8, <3>3, MvEnds
  <2> QED BY <1>6, <1>8, <2>1, <2>2
<1>9. CASE r.err = "EXDEV" /\ inp' = inp
  <2>1. Apart(job)
    BY <1>2, <1>3, <1>6, <1>9 DEF Apart
  <2>2. CASE mem' = Mv(fs, "replace", rval, dir, from, dest, pos)
    <3>1. MvGoes(job, fs, "replace", from, dest, pos)
      BY <1>2, <2>1 DEF MvGoes
    <3> QED BY <1>1, <1>9, <2>2, <3>1, MvGoesOn
  <2>3. CASE Lstat(fs, f) = "file" /\ mem' = Mv(fs, "open", rval, dir, from, dest, pos)
    <3>1. MvFile(job)
      BY <1>2, <1>3, <1>4, <2>1, <2>3 DEF MvFile, Lstat
    <3>2. MvGoes(job, fs, "open", from, dest, pos)
      BY <1>2, <3>1 DEF MvGoes
    <3> QED BY <1>1, <1>9, <2>3, <3>2, MvGoesOn
  <2>4. CASE Ends(mem, fs, 1)
    BY <1>7, <2>4
  <2> QED BY <1>5, <1>9, <2>2, <2>3, <2>4
<1> QED BY <1>5, <1>7, <1>8, <1>9

LEMMA MvOpenKeeps ==
  ASSUME IsJob(job), Single(job), MvState(job, mem, inp), MvOpen
  PROVE  MvState(job, mem', inp')
<1>0. mem.at = "open" /\ "open" # "next"
  BY DEF MvOpen, At
<1>1. PICK fs, rval, dir, from, dest, pos :
        /\ mem = Mv(fs, "open", rval, dir, from, dest, pos) /\ dir = MvDir(job) /\ inp = job.files
        /\ MvGoes(job, fs, "open", from, dest, pos)
  BY <1>0, MvHere
<1>2. fs = job.fs /\ MvFile(job)
  BY <1>1 DEF MvGoes
<1>3. PICK f, p, s, t : f = Head(job.files) /\ p = MvPath(job) /\ s = MvOld(job) /\ t = InoOf(fs, Follow(fs, f))
  OBVIOUS
<1>4. Ends(mem, fs, 1) \/ (mem' = Mv(fs, "create", rval, dir, t, dest, 0) /\ inp' = inp)
  BY <1>1, <1>3, MvOpenDoes
<1>5. t = job.fs.at[s]
  <2>1. f \in Path /\ IsTree(fs) /\ s = Entry(fs, f) /\ TypeAt(fs, s) = "file" /\ s \in DOMAIN fs.at
    BY <1>2, <1>3, OneOperand DEF IsJob, MvOld, MvFile, Apart, Separate
  <2>2. Follow(fs, f) = s
    BY <2>1, EntryFacts
  <2> QED BY <1>2, <1>3, <2>1, <2>2 DEF InoOf
<1>6. CASE Ends(mem, fs, 1)
  <2>1. MvHeld(job, fs)
    BY <1>2 DEF MvHeld
  <2> QED BY <1>1, <1>6, <2>1, MvFails, MvEnds
<1>7. CASE mem' = Mv(fs, "create", rval, dir, t, dest, 0) /\ inp' = inp
  <2>1. Cleared(fs, job.fs, MvNew(job))
    BY <1>2, ClearedSelf
  <2>2. MvGoes(job, fs, "create", t, dest, 0)
    BY <1>2, <1>3, <1>5, <2>1 DEF MvGoes
  <2> QED BY <1>1, <1>7, <2>2, MvGoesOn
<1> QED BY <1>4, <1>6, <1>7

LEMMA MvCreateKeeps ==
  ASSUME IsJob(job), Single(job), Blocks(job), MvState(job, mem, inp), MvCreate
  PROVE  MvState(job, mem', inp')
<1>0. mem.at = "create" /\ "create" # "next"
  BY DEF MvCreate, At
<1>1. PICK fs, rval, dir, from, dest, pos :
        /\ mem = Mv(fs, "create", rval, dir, from, dest, pos) /\ dir = MvDir(job) /\ inp = job.files
        /\ MvGoes(job, fs, "create", from, dest, pos)
  BY <1>0, MvHere
<1>2. MvFile(job) /\ Cleared(fs, job.fs, MvNew(job)) /\ from = job.fs.at[MvOld(job)] /\ pos = 0 /\ Apart(job)
  BY <1>1 DEF MvGoes, MvFile
<1>3. PICK f, p, e, was : f = Head(job.files) /\ p = MvPath(job) /\ e = MvNew(job) /\ was = job.fs
  OBVIOUS
<1>4. p \in Path /\ e = Entry(was, p) /\ IsTree(fs)
  BY <1>2, <1>3, MvPlaces DEF MvNew, Cleared, Left
<1>5. PICK o, u : o = Open(fs, p, TRUE, TRUE) /\ u = Unlink(fs, p) /\ Created(o, u, fs, rval, dir, from, dest, pos)
  BY <1>1, <1>3, MvCreateDoes
<1>9. \/ o.err = "" /\ mem' = Mv(o.fs, "write", rval, dir, from, o.ino, pos) /\ inp' = inp
      \/ u.err = "" /\ mem' = Mv(u.fs, "create", rval, dir, from, dest, pos) /\ inp' = inp
      \/ Ends(mem, fs, 1)
  BY <1>5 DEF Created
<1>6. CASE o.err = "" /\ mem' = Mv(o.fs, "write", rval, dir, from, o.ino, pos) /\ inp' = inp
  <2>1. PICK x, d : x = o.fs /\ d = o.ino
    OBVIOUS
  <2>2. /\ MadeAt(x, fs, Entry(fs, p), fs.next) /\ d = fs.next
        /\ x.node[fs.next] = [type |-> "file", data |-> <<>>, mode |-> "new"]
    BY <1>4, <1>5, <1>6, <2>1, OpenIs
  <2>3. Entry(fs, p) = e
    <3>1. Entry(fs, p) # None
      BY <2>2 DEF MadeAt
    <3> QED BY <1>2, <1>3, <1>4, <3>1, ClearedAgrees
  <2>4. IsNode(x.node[d]) /\ x.node[d].type = "file" /\ x.node[d].data = <<>>
    BY <2>2 DEF IsNode
  <2>5. Begins(x.node[d].data, MvData0(job), pos)
    BY <1>2, <2>4, BeginsNone, MvDataIn
  <2>6. MvFilled(job, fs, x, d, pos)
    BY <1>2, <1>3, <2>2, <2>3, <2>4, <2>5 DEF MvFilled
  <2>7. MvGoes(job, x, "write", from, d, pos)
    BY <1>2, <2>6 DEF MvGoes
  <2> QED BY <1>1, <1>6, <2>1, <2>7, MvGoesOn
<1>7. CASE u.err = "" /\ mem' = Mv(u.fs, "create", rval, dir, from, dest, pos) /\ inp' = inp
  <2>1. PICK x : x = u.fs
    OBVIOUS
  <2>2. Taken(u, fs, Entry(fs, p), "file")
    BY <1>4, <1>5, UnlinkTakes
  <2>3. Cleared(x, was, e)
    BY <1>2, <1>3, <1>4, <2>1, <2>2, ClearedTaken
  <2>4. MvGoes(job, x, "create", from, dest, pos)
    BY <1>2, <1>3, <2>3 DEF MvGoes
  <2> QED BY <1>1, <1>7, <2>1, <2>4, MvGoesOn
<1>8. CASE Ends(mem, fs, 1)
  <2>1. MvHeld(job, fs)
    BY <1>2, ClearedHeld
  <2> QED BY <1>1, <1>8, <2>1, MvFails, MvEnds
<1> QED BY <1>6, <1>7, <1>8, <1>9

LEMMA MvWriteKeeps ==
  ASSUME IsJob(job), Single(job), Blocks(job), MvState(job, mem, inp), MvWrite
  PROVE  MvState(job, mem', inp')
<1>0. mem.at = "write" /\ "write" # "next"
  BY DEF MvWrite, At
<1>1. PICK fs, rval, dir, from, dest, pos :
        /\ mem = Mv(fs, "write", rval, dir, from, dest, pos) /\ dir = MvDir(job) /\ inp = job.files
        /\ MvGoes(job, fs, "write", from, dest, pos)
  BY <1>0, MvHere
<1>2. MvFile(job) /\ from = job.fs.at[MvOld(job)] /\ \E b : MvFilled(job, b, fs, dest, pos)
  BY <1>1 DEF MvGoes
<1>3. PICK b : MvFilled(job, b, fs, dest, pos)
  BY <1>2
<1>4. PICK f, p, e, was, full : f = Head(job.files) /\ p = MvPath(job) /\ e = MvNew(job) /\ was = job.fs /\ full = MvData0(job)
  OBVIOUS
<1>5. full \in Seq(STRING)
  BY <1>2, <1>4, MvDataIn
<1>6. /\ IsTree(fs) /\ from \in DOMAIN b.node /\ from # dest /\ fs.node[from] = was.node[from]
  BY <1>2, <1>3, <1>4, FilledFacts
<1>7. full = fs.node[from].data
  BY <1>2, <1>4, <1>6 DEF MvData0
<1>8. /\ inp' = inp
      /\ \/ /\ pos < Len(full)
            /\ mem' = Mv(WriteTo(fs, dest, full[pos + 1]), "write", rval, dir, from, dest, pos + 1)
         \/ mem' = Mv(fs, "failed", rval, dir, from, dest, pos)
         \/ pos = Len(full) /\ mem' = Mv(fs, "close", rval, dir, from, dest, pos)
  BY <1>1, <1>4, <1>7, MvWriteDoes
<1>9. CASE pos < Len(full) /\ mem' = Mv(WriteTo(fs, dest, full[pos + 1]), "write", rval, dir, from, dest, pos + 1)
  <2>1. PICK x, y, n : x = WriteTo(fs, dest, y) /\ y = full[pos + 1] /\ n = pos + 1
    OBVIOUS
  <2>2. Cleared(b, was, e) /\ MadeAt(fs, b, e, dest) /\ dest = b.next /\ fs.node[dest].type = "file" /\ Begins(fs.node[dest].data, full, pos)
    BY <1>3, <1>4 DEF MvFilled
  <2>3. dest \in DOMAIN fs.node
    BY <2>2 DEF MadeAt, Grown, IsTree
  <2>4. /\ IsTree(x) /\ x.at = fs.at /\ x.next = fs.next /\ DOMAIN x.node = DOMAIN fs.node
        /\ IsNode(x.node[dest]) /\ x.node[dest].type = "file" /\ x.node[dest].data = Append(fs.node[dest].data, y)
        /\ \A k \in DOMAIN fs.node \ {dest} : x.node[k] = fs.node[k]
    BY SMTT(30), <1>6, <2>1, <2>2, <2>3, WroteIs
  <2>5. Begins(x.node[dest].data, full, n)
    BY <1>5, <1>9, <2>1, <2>2, <2>4, BeginsMore
  <2>6. Grown(fs, b) /\ IsTree(b) /\ dest \notin DOMAIN b.node
    BY <2>2 DEF MadeAt, Grown, IsTree
  <2>7. Grown(x, b)
    BY <2>4, <2>6 DEF Grown
  <2>8. MadeAt(x, b, e, dest)
    BY <2>2, <2>4, <2>7 DEF MadeAt
  <2>9. MvFilled(job, b, x, dest, n)
    BY <1>4, <2>2, <2>4, <2>5, <2>8 DEF MvFilled
  <2>10. MvGoes(job, x, "write", from, dest, n)
    BY <1>2, <2>9 DEF MvGoes
  <2>11. mem' = Mv(x, "write", rval, dir, from, dest, n)
    BY <1>9, <2>1
  <2> QED BY <1>1, <1>8, <2>10, <2>11, MvGoesOn
<1>10. CASE mem' = Mv(fs, "failed", rval, dir, from, dest, pos)
  <2>1. MvGoes(job, fs, "failed", from, dest, pos)
    BY <1>2 DEF MvGoes
  <2> QED BY <1>1, <1>8, <1>10, <2>1, MvGoesOn
<1>11. CASE pos = Len(full) /\ mem' = Mv(fs, "close", rval, dir, from, dest, pos)
  <2>1. MvGoes(job, fs, "close", from, dest, pos)
    BY <1>2, <1>4, <1>11 DEF MvGoes
  <2> QED BY <1>1, <1>8, <1>11, <2>1, MvGoesOn
<1> QED BY <1>8, <1>9, <1>10, <1>11

LEMMA MvUndoKeeps ==
  ASSUME IsJob(job), Single(job), Blocks(job), MvState(job, mem, inp), MvUndo
  PROVE  MvState(job, mem', inp')
<1>0. mem.at = "failed" /\ "failed" # "next"
  BY DEF MvUndo, At
<1>1. PICK fs, rval, dir, from, dest, pos :
        /\ mem = Mv(fs, "failed", rval, dir, from, dest, pos) /\ dir = MvDir(job) /\ inp = job.files
        /\ MvGoes(job, fs, "failed", from, dest, pos)
  BY <1>0, MvHere
<1>2. MvFile(job) /\ Apart(job) /\ \E b : MvFilled(job, b, fs, dest, pos)
  BY <1>1 DEF MvGoes, MvFile
<1>3. PICK b : MvFilled(job, b, fs, dest, pos)
  BY <1>2
<1>4. PICK f, p, e, u, x : f = Head(job.files) /\ p = MvPath(job) /\ e = MvNew(job) /\ u = Unlink(fs, p) /\ x = u.fs
  OBVIOUS
<1>5. p \in Path /\ e = Entry(job.fs, p)
  BY <1>4, MvPlaces DEF MvNew
<1>6. Ends(mem, x, 1)
  BY <1>1, <1>4, MvUndoDoes
<1>7. MvHeld(job, fs) /\ IsTree(fs) /\ \A q \in Path : Entry(fs, q) # None => Entry(job.fs, q) = Entry(fs, q)
  BY <1>2, <1>3, FilledFacts
<1>8. PICK t : t = Entry(fs, p)
  OBVIOUS
<1>9. Taken(u, fs, t, "file")
  BY <1>4, <1>5, <1>7, <1>8, UnlinkTakes
<1>10. MvHeld(job, x)
  <2>1. CASE u.err # "" /\ u.fs = fs
    BY <1>4, <1>7, <2>1
  <2>2. CASE t \in DOMAIN fs.at /\ u.fs = Without(fs, {t}) /\ IsTree(u.fs)
    <3>1. t = e
      <4>1. t # None
        BY <1>7, <2>2 DEF IsTree
      <4> QED BY <1>5, <1>7, <1>8, <4>1
    <3>2. Cleared(b, job.fs, e) /\ MadeAt(fs, b, e, dest) /\ Grown(fs, b)
      BY <1>3, <1>4 DEF MvFilled, MadeAt
    <3>3. /\ DOMAIN x.at = DOMAIN fs.at \ {t} /\ (\A q \in DOMAIN x.at : x.at[q] = fs.at[q])
          /\ x.node = fs.node /\ x.next = fs.next
      BY <1>4, <1>7, <2>2, WithoutIs
    <3>4. DOMAIN x.at = DOMAIN b.at
      BY <3>1, <3>2, <3>3 DEF MadeAt
    <3>5. Grown(x, b)
      BY <1>4, <2>2, <3>2, <3>3, <3>4 DEF Grown
    <3> QED BY <1>2, <1>4, <3>2, <3>4, <3>5, HeldBy
  <2> QED BY <1>9, <2>1, <2>2 DEF Taken
<1> QED BY <1>1, <1>6, <1>10, MvFails, MvEnds

LEMMA MvCloseKeeps ==
  ASSUME IsJob(job), Single(job), Blocks(job), MvState(job, mem, inp), MvClose
  PROVE  MvState(job, mem', inp')
<1>0. mem.at = "close" /\ "close" # "next"
  BY DEF MvClose, At
<1>1. PICK fs, rval, dir, from, dest, pos :
        /\ mem = Mv(fs, "close", rval, dir, from, dest, pos) /\ dir = MvDir(job) /\ inp = job.files
        /\ MvGoes(job, fs, "close", from, dest, pos)
  BY <1>0, MvHere
<1>2. MvFile(job) /\ pos = Len(MvData0(job)) /\ \E b : MvFilled(job, b, fs, dest, pos)
  BY <1>1 DEF MvGoes
<1>3. Ends(mem, fs, 1) \/ (mem' = Mv(fs, "remove", rval, dir, from, dest, pos) /\ inp' = inp)
  BY <1>1, MvCloseDoes
<1>4. CASE Ends(mem, fs, 1)
  <2>1. MvHeld(job, fs)
    BY <1>2, FilledFacts
  <2> QED BY <1>1, <1>4, <2>1, MvFails, MvEnds
<1>5. CASE mem' = Mv(fs, "remove", rval, dir, from, dest, pos) /\ inp' = inp
  <2>1. MvGoes(job, fs, "remove", from, dest, pos)
    BY <1>2 DEF MvGoes
  <2> QED BY <1>1, <1>5, <2>1, MvGoesOn
<1> QED BY <1>3, <1>4, <1>5

\* The last block is there when the old name goes.
LEMMA FilledMoved ==
  ASSUME NEW j, IsJob(j), Blocks(j), MvFile(j), NEW b, NEW fs, NEW dest, NEW pos, MvFilled(j, b, fs, dest, pos),
         pos = Len(MvData0(j)), NEW x, x = Without(fs, {MvOld(j)})
  PROVE  MvHeld(j, x) /\ MvGone(j, x)
<1>1. PICK was, s, e, full : was = j.fs /\ s = MvOld(j) /\ e = MvNew(j) /\ full = MvData0(j)
  OBVIOUS
<1>2. s \in DOMAIN was.at /\ s \in Path /\ e \in Path /\ IsTree(was) /\ TypeAt(was, s) = "file"
  BY <1>1 DEF MvFile, Apart, Separate, IsTree, IsJob
<1>3. IsTree(fs) /\ Spared(j, fs) /\ s # e
  BY <1>1, FilledFacts
<1>4. /\ DOMAIN x.at = DOMAIN fs.at \ {s} /\ (\A q \in DOMAIN x.at : x.at[q] = fs.at[q])
      /\ x.node = fs.node
  BY <1>1, <1>3, WithoutIs
<1>5. e \in DOMAIN fs.at /\ fs.at[e] = dest /\ fs.node[dest].type = "file" /\ Begins(fs.node[dest].data, full, pos)
  BY <1>1 DEF MvFilled, MadeAt
<1>6. fs.node[dest].data = full
  <2>1. full \in Seq(STRING)
    BY <1>1, MvDataIn
  <2> QED BY <1>1, <1>5, <2>1, BeginsAll
<1>7. What(x, e) = <<"file", full>>
  <2>1. e \in DOMAIN x.at /\ x.at[e] = dest /\ x.node[dest] = fs.node[dest]
    BY <1>3, <1>4, <1>5
  <2> QED BY <1>5, <1>6, <2>1 DEF What
<1>8. What(was, s) = <<"file", full>>
  BY <1>1, <1>2 DEF What, MvData0, TypeAt, Node
<1>9. Whole(j, x, e)
  <2> SUFFICES ASSUME NEW y \in DOMAIN was.at, IsPrefix(s, y) PROVE What(x, Grafted(y, s, e)) = What(was, y)
    BY <1>1 DEF Whole
  <2>1. y \in Path
    BY <1>2 DEF IsTree
  <2>2. y = s
    <3>1. s # y => TypeAt(was, s) = "dir"
      BY <1>2, <2>1, PrefixThere
    <3> QED BY <1>2, <3>1
  <2>3. Grafted(y, s, e) = e
    BY <1>2, <2>1, <2>2, GraftFacts
  <2> QED BY <1>7, <1>8, <2>2, <2>3
<1>10. IsPrefix(s, s)
  BY <1>2, PrefixFacts
<1>11. Spared(j, x)
  <2>1. ASSUME NEW p \in DOMAIN was.at, Unlike(j, p) PROVE SameAt(x, was, p)
    <3>1. SameAt(fs, was, p) /\ p # s
      BY <1>1, <1>3, <1>10, <2>1 DEF Spared, Unlike
    <3> QED BY <1>4, <3>1 DEF SameAt
  <2>2. \A p \in DOMAIN x.at \ DOMAIN was.at : IsPrefix(MvNew(j), p)
    BY <1>1, <1>3, <1>4 DEF Spared
  <2> QED BY <1>1, <2>1, <2>2 DEF Spared
<1>12. s \notin DOMAIN x.at /\ Apart(j)
  BY <1>4 DEF MvFile
<1> QED BY <1>1, <1>9, <1>11, <1>12 DEF MvHeld, MvGone

LEMMA MvRemoveKeeps ==
  ASSUME IsJob(job), Single(job), Blocks(job), MvState(job, mem, inp), MvRemove
  PROVE  MvState(job, mem', inp')
<1>0. mem.at = "remove" /\ "remove" # "next"
  BY DEF MvRemove, At
<1>1. PICK fs, rval, dir, from, dest, pos :
        /\ mem = Mv(fs, "remove", rval, dir, from, dest, pos) /\ dir = MvDir(job) /\ inp = job.files
        /\ MvGoes(job, fs, "remove", from, dest, pos)
  BY <1>0, MvHere
<1>2. MvFile(job) /\ pos = Len(MvData0(job)) /\ \E b : MvFilled(job, b, fs, dest, pos)
  BY <1>1 DEF MvGoes
<1>3. PICK b : MvFilled(job, b, fs, dest, pos)
  BY <1>2
<1>4. PICK f, p, s : f = Head(job.files) /\ p = MvPath(job) /\ s = MvOld(job)
  OBVIOUS
<1>5. f \in Path /\ s = Entry(job.fs, f)
  BY <1>4, OneOperand DEF MvOld
<1>6. PICK u : u = Unlink(fs, f) /\ Removed(u, fs, rval)
  BY <1>1, <1>4, MvRemoveDoes
<1>7. MvHeld(job, fs) /\ IsTree(fs) /\ \A q \in Path : Entry(fs, q) # None => Entry(job.fs, q) = Entry(fs, q)
  BY <1>2, <1>3, FilledFacts
<1>8. CASE Ends(mem, fs, 1)
  BY <1>1, <1>7, <1>8, MvFails, MvEnds
<1>9. CASE u.err = "" /\ Ends(mem, u.fs, rval)
  <2>1. PICK t : t = Entry(fs, f)
    OBVIOUS
  <2>2. Taken(u, fs, t, "file")
    BY <1>5, <1>6, <1>7, <2>1, UnlinkTakes
  <2>3. t \in DOMAIN fs.at /\ u.fs = Without(fs, {t})
    BY <1>9, <2>2 DEF Taken
  <2>4. t = s
    <3>1. t # None
      BY <1>7, <2>3 DEF IsTree
    <3> QED BY <1>5, <1>7, <2>1, <3>1
  <2>5. MvHeld(job, u.fs) /\ MvGone(job, u.fs)
    BY <1>2, <1>3, <1>4, <2>3, <2>4, FilledMoved
  <2>6. MvEnded(job, u.fs, rval)
    BY <2>5 DEF MvEnded
  <2> QED BY <1>1, <1>9, <2>6, MvEnds
<1> QED BY <1>6, <1>8, <1>9 DEF Removed

LEMMA MvReplaceKeeps ==
  ASSUME IsJob(job), Single(job), MvState(job, mem, inp), MvReplace
  PROVE  MvState(job, mem', inp')
<1>0. mem.at = "replace" /\ "replace" # "next"
  BY DEF MvReplace, At
<1>1. PICK fs, rval, dir, from, dest, pos :
        /\ mem = Mv(fs, "replace", rval, dir, from, dest, pos) /\ dir = MvDir(job) /\ inp = job.files
        /\ MvGoes(job, fs, "replace", from, dest, pos)
  BY <1>0, MvHere
<1>2. Apart(job) /\ fs = job.fs
  BY <1>1 DEF MvGoes
<1>3. PICK p, e : p = MvPath(job) /\ e = MvNew(job)
  OBVIOUS
<1>4. p \in Path /\ e = Entry(fs, p) /\ IsTree(fs)
  BY <1>2, <1>3, MvPlaces DEF MvNew, IsJob
<1>5. PICK r : Unblocks(r, fs, p) /\ Replaced(r, fs, rval, dir, from, dest, pos)
  BY <1>1, <1>3, MvReplaceDoes
<1>6. CASE Ends(mem, fs, 1)
  <2>1. MvHeld(job, fs)
    BY <1>2 DEF MvHeld
  <2> QED BY <1>1, <1>6, <2>1, MvFails, MvEnds
<1>7. CASE r.err = "" /\ mem' = Mv(r.fs, "cp", rval, dir, from, dest, pos) /\ inp' = inp
  <2>1. PICK x : x = r.fs
    OBVIOUS
  <2>2. Cleared(fs, fs, e)
    BY <1>2, ClearedSelf
  <2>3. Cleared(x, fs, e) /\ e \notin DOMAIN x.at
    <3>1. ASSUME NEW type, Taken(r, fs, e, type) PROVE Cleared(x, fs, e) /\ e \notin DOMAIN x.at
      <4>1. Cleared(x, fs, e)
        BY <1>4, <2>1, <2>2, <3>1, ClearedTaken
      <4>2. x = Without(fs, {e})
        BY <1>7, <2>1, <3>1 DEF Taken
      <4>3. DOMAIN x.at = DOMAIN fs.at \ {e}
        BY <1>4, <4>2, WithoutIs
      <4> QED BY <4>1, <4>3
    <3>2. CASE r = Rmdir(fs, p)
      <4>1. Taken(r, fs, e, "dir")
        BY <1>4, <3>2, RmdirTakes
      <4> QED BY <3>1, <4>1
    <3>3. CASE r = Unlink(fs, p)
      <4>1. Taken(r, fs, e, "file")
        BY <1>4, <3>3, UnlinkTakes
      <4> QED BY <3>1, <4>1
    <3>4. CASE Lstat(fs, p) = "none" /\ r = Ok(fs)
      <4>1. \A y : Ok(y).fs = y
        BY DEF Ok
      <4>2. x = fs
        BY <2>1, <3>4, <4>1
      <4>3. TypeAt(fs, e) = "none"
        BY <1>4, <3>4 DEF Lstat
      <4>4. e \notin DOMAIN fs.at
        BY <1>4, <4>3 DEF IsTree
      <4> QED BY <2>2, <4>2, <4>4
    <3> QED BY <1>5, <3>2, <3>3, <3>4 DEF Unblocks
  <2>4. MvGoes(job, x, "cp", from, dest, pos)
    BY <1>2, <1>3, <2>3 DEF MvGoes
  <2> QED BY <1>1, <1>7, <2>1, <2>4, MvGoesOn
<1> QED BY <1>5, <1>6, <1>7 DEF Replaced

LEMMA TreeGrows ==
  ASSUME NEW b, IsTree(b), NEW s \in DOMAIN b.at
  PROVE  Grows(Tree(b, s), s)
<1>1. PICK X : X = Tree(b, s)
  OBVIOUS
<1>2. /\ X \subseteq DOMAIN b.at /\ X \subseteq Path /\ s \in Path
      /\ \A x \in DOMAIN b.at : x \in X <=> IsPrefix(s, x)
  BY <1>1, TreeIs
<1>3. s \in X
  BY <1>2, PrefixFacts
<1>4. ASSUME NEW x \in X, x # s PROVE Front(x) \in X
  <2>1. x \in DOMAIN b.at /\ x \in Path /\ IsPrefix(s, x)
    BY <1>2
  <2>2. x # <<>>
    <3>1. <<>> \in Path /\ IsPrefix(<<>>, s)
      BY <1>2, PrefixFacts DEF Path
    <3> QED BY <1>2, <1>4, <2>1, <3>1, PrefixFacts
  <2>3. TypeAt(b, Front(x)) = "dir" /\ IsPrefix(s, Front(x))
    BY <1>2, <1>4, <2>1, <2>2, PrefixFacts DEF IsTree
  <2>4. Front(x) \in DOMAIN b.at
    BY <2>3 DEF TypeAt
  <2> QED BY <1>2, <2>3, <2>4
<1> QED BY <1>1, <1>3, <1>4 DEF Grows

LEMMA MvCpKeeps ==
  ASSUME IsJob(job), Single(job), MvState(job, mem, inp), MvCp
  PROVE  MvState(job, mem', inp')
<1>0. mem.at = "cp" /\ "cp" # "next"
  BY DEF MvCp, At
<1>1. PICK fs, rval, dir, from, dest, pos :
        /\ mem = Mv(fs, "cp", rval, dir, from, dest, pos) /\ dir = MvDir(job) /\ inp = job.files
        /\ MvGoes(job, fs, "cp", from, dest, pos)
  BY <1>0, MvHere
<1>2. Apart(job) /\ Cleared(fs, job.fs, MvNew(job)) /\ MvNew(job) \notin DOMAIN fs.at
  BY <1>1 DEF MvGoes
<1>3. PICK f, p, s, e : f = Head(job.files) /\ p = MvPath(job) /\ s = Entry(fs, f) /\ e = Entry(fs, p)
  OBVIOUS
<1>4. f \in Path /\ p \in Path /\ p # <<>> /\ IsTree(fs)
  BY <1>2, <1>3, OneOperand, MvPlaces DEF Cleared, Left
<1>5. Ends(mem, fs, 1) \/ (s \in DOMAIN fs.at /\ e # None /\ (Copying(fs, s, e, rval, dir, from, dest, pos) \/ CopiedSome(fs, s, e)))
  BY <1>1, <1>3, MvCpDoes
<1>6. CASE Ends(mem, fs, 1)
  <2>1. MvHeld(job, fs)
    BY <1>2, ClearedHeld
  <2> QED BY <1>1, <1>6, <2>1, MvFails, MvEnds
<1>7. ASSUME s \in DOMAIN fs.at, e # None, Copying(fs, s, e, rval, dir, from, dest, pos) \/ CopiedSome(fs, s, e)
      PROVE  MvState(job, mem', inp')
  <2>1. s = MvOld(job) /\ e = MvNew(job)
    <3>1. s # None
      BY <1>4, <1>7 DEF IsTree
    <3> QED BY <1>2, <1>3, <1>4, <1>7, <3>1, ClearedAgrees DEF MvOld, MvNew
  <2>2. e \in Path /\ e # <<>> /\ e \notin DOMAIN fs.at /\ TypeAt(fs, Front(e)) = "dir"
    BY <1>2, <1>3, <1>4, <1>7, <2>1, EntryInDir
  <2>3. ASSUME NEW X, X \subseteq Tree(fs, s), Grows(X, s), NEW w, w = TreeCopied(fs, s, e, X)
        PROVE  Grown(w, fs) /\ Copies(w, fs, s, e, X)
    BY <1>4, <1>7, <2>2, <2>3, CopyGrows
  <2>4. CASE Copying(fs, s, e, rval, dir, from, dest, pos)
    <3>1. PICK X, w : X = Tree(fs, s) /\ w = TreeCopied(fs, s, e, X)
      OBVIOUS
    <3>2. mem' = Mv(w, "rm", rval, dir, from, dest, pos) /\ inp' = inp
      BY <2>4, <3>1 DEF Copying
    <3>3. X \subseteq Tree(fs, s) /\ Grows(X, s)
      BY <1>4, <1>7, <3>1, TreeGrows
    <3>4. Grown(w, fs) /\ Copies(w, fs, s, e, X)
      BY <2>3, <3>1, <3>3
    <3>5. MvCopied(job, fs, w)
      BY <1>2, <1>3, <1>7, <2>1, <3>1, <3>4 DEF MvCopied
    <3>6. MvGoes(job, w, "rm", from, dest, pos)
      BY <1>2, <3>5 DEF MvGoes
    <3> QED BY <1>1, <3>2, <3>6, MvGoesOn
  <2>5. CASE CopiedSome(fs, s, e)
    <3>1. PICK X, w : X \subseteq Tree(fs, s) /\ Grows(X, s) /\ w = TreeCopied(fs, s, e, X) /\ Ends(mem, w, 1)
      BY <2>5 DEF CopiedSome
    <3>2. Grown(w, fs) /\ Copies(w, fs, s, e, X)
      BY <2>3, <3>1
    <3>3. \A q \in DOMAIN w.at : q \in DOMAIN fs.at \/ IsPrefix(e, q)
      BY <3>2 DEF Copies
    <3>4. MvHeld(job, w)
      BY <1>2, <2>1, <3>2, <3>3, HeldBy
    <3> QED BY <1>1, <3>1, <3>4, MvFails, MvEnds
  <2> QED BY <1>7, <2>4, <2>5
<1> QED BY <1>5, <1>6, <1>7

\* All of the operand is at its new place, whatever of it is gone from the old one.
LEMMA CopiedMoved ==
  ASSUME NEW j, IsJob(j), Apart(j), NEW b, NEW fs, MvCopied(j, b, fs),
         NEW gone, gone \subseteq Tree(fs, MvOld(j)) \cap DOMAIN fs.at, NEW x, x = Without(fs, gone)
  PROVE  MvHeld(j, x) /\ (gone = Tree(fs, MvOld(j)) \cap DOMAIN fs.at => MvGone(j, x))
<1>1. PICK was, s, e, X : was = j.fs /\ s = MvOld(j) /\ e = MvNew(j) /\ X = Tree(b, s)
  OBVIOUS
<1>2. /\ s \in DOMAIN was.at /\ s \in Path /\ e \in Path /\ ~IsPrefix(s, e) /\ ~IsPrefix(e, s)
      /\ IsTree(was) /\ DOMAIN was.at \subseteq Path
  BY <1>1 DEF Apart, Separate, IsTree, IsJob
<1>3. Cleared(b, was, e) /\ Grown(fs, b) /\ s \in DOMAIN b.at /\ Copies(fs, b, s, e, X) /\ IsTree(fs) /\ IsTree(b)
  BY <1>1 DEF MvCopied, Grown
<1>4. Spared(j, fs)
  <2>1. \A p \in DOMAIN fs.at : p \in DOMAIN b.at \/ IsPrefix(e, p)
    BY <1>3 DEF Copies
  <2> QED BY <1>1, <1>3, <2>1, HeldBy
<1>5. /\ DOMAIN x.at = DOMAIN fs.at \ gone /\ (\A q \in DOMAIN x.at : x.at[q] = fs.at[q])
      /\ x.node = fs.node
  BY <1>1, <1>3, WithoutIs
<1>6. s \in DOMAIN fs.at
  BY <1>3 DEF Grown
<1>7. s \in Tree(fs, s) /\ \A q \in gone : q \in Path /\ q \in DOMAIN fs.at /\ IsPrefix(s, q)
  <2>1. \A q \in DOMAIN fs.at : q \in Path /\ (q \in Tree(fs, s) <=> IsPrefix(s, q))
    BY <1>3, <1>6, TreeIs DEF IsTree
  <2>2. IsPrefix(s, s)
    BY <1>2, PrefixFacts
  <2> QED BY <1>1, <1>6, <2>1, <2>2
<1>8. Whole(j, x, e)
  <2> SUFFICES ASSUME NEW y \in DOMAIN was.at, IsPrefix(s, y) PROVE What(x, Grafted(y, s, e)) = What(was, y)
    BY <1>1 DEF Whole
  <2>1. y \in Path /\ y # e
    BY <1>2
  <2>2. y \in DOMAIN b.at /\ b.at[y] = was.at[y] /\ b.node = was.node
    BY <1>3, <2>1 DEF Cleared, Left
  <2>3. y \in X
    BY <1>1, <1>3, <2>2, TreeIs
  <2>4. PICK z : z = Grafted(y, s, e)
    OBVIOUS
  <2>5. z \in DOMAIN fs.at /\ Node(fs, z) = Node(b, y)
    BY <1>3, <2>3, <2>4 DEF Copies
  <2>6. z \in Path /\ IsPrefix(e, z)
    BY <1>2, <2>1, <2>4, GraftFacts
  <2>7. z \notin gone
    BY <1>2, <1>7, <2>6, PrefixEither
  <2>8. z \in DOMAIN x.at /\ x.node[x.at[z]] = was.node[was.at[y]]
    BY <1>5, <2>2, <2>5, <2>7 DEF Node
  <2> QED BY <2>4, <2>8 DEF What
<1>9. Spared(j, x)
  <2>1. ASSUME NEW p \in DOMAIN was.at, Unlike(j, p) PROVE SameAt(x, was, p)
    <3>1. SameAt(fs, was, p) /\ p \notin gone
      BY <1>1, <1>4, <1>7, <2>1 DEF Spared, Unlike
    <3> QED BY <1>5, <3>1 DEF SameAt
  <2>2. \A p \in DOMAIN x.at \ DOMAIN was.at : IsPrefix(MvNew(j), p)
    BY <1>1, <1>4, <1>5 DEF Spared
  <2> QED BY <1>1, <2>1, <2>2 DEF Spared
<1>10. gone = Tree(fs, s) \cap DOMAIN fs.at => s \notin DOMAIN x.at
  BY <1>5, <1>6, <1>7
<1> QED BY <1>1, <1>8, <1>9, <1>10 DEF MvHeld, MvGone

LEMMA MvRmKeeps ==
  ASSUME IsJob(job), Single(job), MvState(job, mem, inp), MvRm
  PROVE  MvState(job, mem', inp')
<1>0. mem.at = "rm" /\ "rm" # "next"
  BY DEF MvRm, At
<1>1. PICK fs, rval, dir, from, dest, pos :
        /\ mem = Mv(fs, "rm", rval, dir, from, dest, pos) /\ dir = MvDir(job) /\ inp = job.files
        /\ MvGoes(job, fs, "rm", from, dest, pos)
  BY <1>0, MvHere
<1>2. Apart(job) /\ \E b : MvCopied(job, b, fs)
  BY <1>1 DEF MvGoes
<1>3. PICK b : MvCopied(job, b, fs)
  BY <1>2
<1>4. PICK f, s, tree : f = Head(job.files) /\ s = MvOld(job) /\ tree = Tree(fs, s) \cap DOMAIN fs.at
  OBVIOUS
<1>5. Entry(fs, f) = s
  <2>1. Entry(b, f) = s /\ s \in DOMAIN b.at /\ Grown(fs, b) /\ f \in Path
    BY <1>3, <1>4, OneOperand DEF MvCopied
  <2>2. s # None
    BY <2>1 DEF Grown, IsTree
  <2> QED BY <2>1, <2>2, GrownAgrees
<1>6. PICK gone : RemovedTree(gone, tree, fs, rval)
  BY <1>1, <1>4, <1>5, MvRmDoes
<1>7. PICK x : x = Without(fs, gone)
  OBVIOUS
<1>8. gone \subseteq tree /\ (Ends(mem, x, 1) \/ (gone = tree /\ Ends(mem, x, rval)))
  BY <1>6, <1>7 DEF RemovedTree
<1>9. MvHeld(job, x) /\ (gone = tree => MvGone(job, x))
  BY <1>2, <1>3, <1>4, <1>7, <1>8, CopiedMoved
<1>10. CASE Ends(mem, x, 1)
  BY <1>1, <1>9, <1>10, MvFails, MvEnds
<1>11. CASE gone = tree /\ Ends(mem, x, rval)
  <2>1. MvEnded(job, x, rval)
    BY <1>9, <1>11 DEF MvEnded
  <2> QED BY <1>1, <1>11, <2>1, MvEnds
<1> QED BY <1>8, <1>10, <1>11

\* In every phase
LEMMA MvKeeps ==
  ASSUME IsJob(job), Single(job), Blocks(job), job.tool = "mv", MvState(job, mem, inp)
  PROVE  MvKept
<1>1. PICK fs, at, rval, from, dest, pos :
        /\ mem = Mv(fs, at, rval, MvDir(job), from, dest, pos)
        /\ \/ inp = job.files /\ MvGoes(job, fs, at, from, dest, pos)
           \/ inp = <<>> /\ at = "next" /\ MvEnded(job, fs, rval)
  BY DEF MvState
<1>2. PICK dir : dir = MvDir(job)
  OBVIOUS
<1>3. mem.fs = fs
  BY <1>1, <1>2, MvFields
<1>4. MvHeld(job, fs)
  <2>1. CASE MvEnded(job, fs, rval)
    BY <2>1 DEF MvEnded
  <2>2. CASE MvGoes(job, fs, at, from, dest, pos)
    <3>1. CASE fs = job.fs
      BY <3>1 DEF MvHeld
    <3>2. CASE Apart(job) /\ Cleared(fs, job.fs, MvNew(job))
      BY <3>2, ClearedHeld
    <3>3. CASE MvFile(job) /\ \E b : MvFilled(job, b, fs, dest, pos)
      BY <3>3, FilledFacts
    <3>4. CASE Apart(job) /\ \E b : MvCopied(job, b, fs)
      <4>1. PICK b : MvCopied(job, b, fs)
        BY <3>4
      <4>2. Cleared(b, job.fs, MvNew(job)) /\ Grown(fs, b) /\ \A p \in DOMAIN fs.at : p \in DOMAIN b.at \/ IsPrefix(MvNew(job), p)
        BY <4>1 DEF MvCopied, Copies
      <4> QED BY <3>4, <4>2, HeldBy
    <3> QED BY <2>2, <3>1, <3>2, <3>3, <3>4 DEF MvGoes, MvFile
  <2> QED BY <1>1, <2>1, <2>2
<1> QED BY <1>3, <1>4, MvHeldKept

LEMMA MvEndDone ==
  ASSUME IsJob(job), Single(job), Distinct(job), job.tool = "mv", MvState(job, mem, inp), inp = <<>>, mem.rval = 0
  PROVE  MvDone
<1>1. PICK fs, at, rval, from, dest, pos :
        /\ mem = Mv(fs, at, rval, MvDir(job), from, dest, pos)
        /\ \/ inp = job.files /\ MvGoes(job, fs, at, from, dest, pos)
           \/ inp = <<>> /\ at = "next" /\ MvEnded(job, fs, rval)
  BY DEF MvState
<1>2. PICK dir : dir = MvDir(job)
  OBVIOUS
<1>3. mem.fs = fs /\ rval = 0
  BY <1>1, <1>2, MvFields
<1>4. MvEnded(job, fs, rval)
  BY <1>1, OneOperand
<1>5. job.ask = "f" => MvGone(job, fs)
  BY <1>3, <1>4 DEF MvEnded
<1>6. Sources \subseteq {MvOld(job)}
  BY OneOperand DEF Sources, MvOld
<1> QED BY <1>3, <1>5, <1>6 DEF MvDone, MvGone

-----------------------------------------------------------------------------
(* What the commands keep, whatever fails and whenever they are killed.      *)

vars == <<job, inp, mem, out, status>>
Proved == {"mv", "ln", "rm", "rmdir", "mkdir"}
ToolJob(j) ==
  /\ j.tool \in Proved /\ IsJob(j)
  /\ j.tool = "mv" => Single(j) /\ Blocks(j) /\ j.others = <<>>
  /\ j.tool = "ln" => Single(j) /\ Aside(j) /\ j.others = <<>>
  /\ j.tool = "mkdir" => Nameable(j)
FileInit == ToolJob(job) /\ inp = job.files /\ mem = <<>> /\ out = <<>> /\ status = -1
FileSpec == FileInit /\ [][CopyToolStep]_vars

ToolState(j, m, i) ==
  /\ j.tool = "mv" => MvState(j, m, i)
  /\ j.tool = "ln" => LnState(j, m, i)
  /\ j.tool = "rm" => RmState(j, m, i)
  /\ j.tool = "rmdir" => RmdirState(j, m, i)
  /\ j.tool = "mkdir" => MkdirState(j, m, i)
FileInv ==
  /\ ToolJob(job)
  /\ Quiet => IF mem = <<>> THEN inp = job.files /\ status = -1 ELSE ToolState(job, mem, inp)

LEMMA StateMem ==
  ASSUME NEW j, NEW m, NEW i, MvState(j, m, i) \/ LnState(j, m, i) \/ RmState(j, m, i) \/ RmdirState(j, m, i) \/ MkdirState(j, m, i)
  PROVE  m # <<>> /\ m.others = Nobody
<1>1. CASE RmState(j, m, i)
  BY <1>1, RmStateIs, RmFields
<1>2. CASE RmdirState(j, m, i)
  BY <1>2, RmdirStateIs, DirFields
<1>3. CASE MkdirState(j, m, i)
  BY <1>3, MkdirStateIs, DirFields
<1>4. CASE LnState(j, m, i)
  BY <1>4, LnStateIs, LnFields
<1>5. CASE MvState(j, m, i)
  <2>1. PICK fs, at, rval, dir, from, dest, pos : m = Mv(fs, at, rval, dir, from, dest, pos)
    BY <1>5 DEF MvState
  <2> QED BY <2>1, MvFields
<1> QED BY <1>1, <1>2, <1>3, <1>4, <1>5

LEMMA ToolMem ==
  ASSUME NEW j, NEW m, NEW i, j.tool \in Proved, ToolState(j, m, i)
  PROVE  m # <<>> /\ m.others = Nobody
<1>1. MvState(j, m, i) \/ LnState(j, m, i) \/ RmState(j, m, i) \/ RmdirState(j, m, i) \/ MkdirState(j, m, i)
  BY DEF ToolState, Proved
<1> QED BY <1>1, StateMem

\* The state of the one command there is
LEMMA ToolStateOf ==
  ASSUME NEW j, NEW m, NEW i,
         \/ j.tool = "mv" /\ MvState(j, m, i)
         \/ j.tool = "ln" /\ LnState(j, m, i)
         \/ j.tool = "rm" /\ RmState(j, m, i)
         \/ j.tool = "rmdir" /\ RmdirState(j, m, i)
         \/ j.tool = "mkdir" /\ MkdirState(j, m, i)
  PROVE  m # <<>> /\ ToolState(j, m, i)
<1>1. m # <<>>
  BY StateMem
<1>2. ToolState(j, m, i)
  BY DEF ToolState
<1> QED BY <1>1, <1>2

MvWorks == \/ MvAsk \/ MvRename \/ MvOpen \/ MvCreate \/ MvWrite \/ MvUndo \/ MvClose \/ MvRemove
           \/ MvReplace \/ MvCp \/ MvRm
LnWorks == LnCheck \/ LnRemove \/ LnLink
RmWorks == RmFile \/ RmRemove \/ RmWalk
MkdirWorks == MkdirDo \/ MkdirExists \/ MkdirMode
\* A step of a command, but for its last
Works ==
  \/ job.tool = "mv" /\ (MvStart \/ MvWorks)
  \/ job.tool = "ln" /\ (LnStart \/ LnWorks)
  \/ job.tool = "rm" /\ (RmStart \/ RmWorks)
  \/ job.tool = "rmdir" /\ (RmdirStart \/ RmdirDo)
  \/ job.tool = "mkdir" /\ (MkdirStart \/ MkdirWorks)
Finishes == RmEnd \/ Finish("mv") \/ Finish("ln") \/ Finish("rmdir") \/ Finish("mkdir")
\* It ends, or is killed.
Leaves == UNCHANGED <<inp, mem>> /\ mem # <<>> /\ (status' = 0 => Finishes)

\* The steps of a command that is one of these, and of no other
LEMMA ToolSteps ==
  ASSUME job.tool \in Proved, CopyToolStep
  PROVE  job' = job /\ status = -1 /\ (OtherProcess \/ Leaves \/ Works)
<1>1. job.tool \notin {"cp", "install"}
  BY DEF Proved
<1>2. OtherProcess \/ Killed \/ MvStep \/ LnStep \/ RmStep \/ RmdirStep \/ MkdirStep
  BY <1>1 DEF CopyToolStep, FileToolStep, CpStep, InstallStep
<1>3. CASE OtherProcess
  BY <1>3 DEF OtherProcess
<1>4. CASE Killed
  BY <1>4 DEF Killed, Exit, Leaves
<1>5. CASE RmStep
  <2>1. CASE RmEnd
    BY <2>1 DEF RmEnd, At, Running, Leaves, Finishes
  <2>2. CASE RmStart \/ RmWorks
    BY <1>5, <2>2 DEF RmStep, RmStart, RmFile, RmRemove, RmWalk, At, Running, RmWorks, Works
  <2> QED BY <1>5, <2>1, <2>2 DEF RmStep, RmWorks
<1>6. CASE RmdirStep
  <2>1. CASE Finish("rmdir")
    BY <2>1 DEF Finish, At, Running, Leaves, Finishes
  <2>2. CASE RmdirStart \/ RmdirDo
    BY <2>2 DEF RmdirStart, RmdirDo, At, Running, Works
  <2> QED BY <1>6, <2>1, <2>2 DEF RmdirStep
<1>7. CASE MkdirStep
  <2>1. CASE Finish("mkdir")
    BY <2>1 DEF Finish, At, Running, Leaves, Finishes
  <2>2. CASE MkdirStart \/ MkdirWorks
    BY <2>2 DEF MkdirStart, MkdirDo, MkdirExists, MkdirMode, At, Running, MkdirWorks, Works
  <2> QED BY <1>7, <2>1, <2>2 DEF MkdirStep, MkdirWorks
<1>8. CASE LnStep
  <2>1. CASE Finish("ln")
    BY <2>1 DEF Finish, At, Running, Leaves, Finishes
  <2>2. CASE LnStart \/ LnWorks
    BY <1>8, <2>2 DEF LnStep, LnStart, LnCheck, LnRemove, LnLink, At, Running, LnWorks, Works
  <2> QED BY <1>8, <2>1, <2>2 DEF LnStep, LnWorks
<1>9. CASE MvStep
  <2>1. CASE Finish("mv")
    BY <2>1 DEF Finish, At, Running, Leaves, Finishes
  <2>2. CASE MvStart
    BY <1>9, <2>2 DEF MvStep, MvStart, Running, Works
  <2>3. CASE MvAsk \/ MvRename \/ MvOpen \/ MvCreate \/ MvWrite \/ MvUndo
    BY <1>9, <2>3 DEF MvStep, MvAsk, MvRename, MvOpen, MvCreate, MvWrite, MvUndo, At, Running, MvWorks, Works
  <2>4. CASE MvClose \/ MvRemove \/ MvReplace \/ MvCp \/ MvRm
    BY <1>9, <2>4 DEF MvStep, MvClose, MvRemove, MvReplace, MvCp, MvRm, At, Running, MvWorks, Works
  <2> QED BY <1>9, <2>1, <2>2, <2>3, <2>4 DEF MvStep
<1> QED BY <1>2, <1>3, <1>4, <1>5, <1>6, <1>7, <1>8, <1>9

\* A command starts from nothing, and goes on from what it has.
LEMMA StartsOnce ==
  /\ MvStart \/ LnStart \/ RmStart \/ RmdirStart \/ MkdirStart => mem = <<>>
  /\ OtherProcess \/ MvWorks \/ LnWorks \/ RmWorks \/ RmdirDo \/ MkdirWorks => mem # <<>>
<1>1. MvStart \/ LnStart \/ RmStart \/ RmdirStart \/ MkdirStart => mem = <<>>
  BY DEF MvStart, LnStart, RmStart, RmdirStart, MkdirStart, Start
<1>2. OtherProcess => mem # <<>>
  BY DEF OtherProcess
<1>3. RmWorks \/ LnWorks => mem # <<>>
  BY DEF RmWorks, RmFile, RmRemove, RmWalk, LnWorks, LnCheck, LnRemove, LnLink, At
<1>4. RmdirDo \/ MkdirWorks => mem # <<>>
  BY DEF RmdirDo, MkdirWorks, MkdirDo, MkdirExists, MkdirMode, At
<1>5. MvWorks => mem # <<>>
  BY DEF MvWorks, MvAsk, MvRename, MvOpen, MvCreate, MvWrite, MvUndo, MvClose, MvRemove, MvReplace, MvCp, MvRm, At
<1> QED BY <1>1, <1>2, <1>3, <1>4, <1>5

\* The steps keep the state of their command.
LEMMA WorksKeep ==
  ASSUME ToolJob(job), Quiet, IF mem = <<>> THEN inp = job.files ELSE ToolState(job, mem, inp), Works
  PROVE  mem' # <<>> /\ ToolState(job, mem', inp')
<1>1. job.tool \in Proved /\ IsJob(job)
  BY DEF ToolJob
<1>2. ASSUME job.tool = "mv", MvStart \/ MvWorks PROVE MvState(job, mem', inp')
  <2>1. Single(job) /\ Blocks(job)
    BY <1>2 DEF ToolJob
  <2>2. CASE MvStart
    BY <1>1, <2>1, <2>2, StartsOnce, MvStartMakes
  <2>3. CASE MvWorks
    <3>1. MvState(job, mem, inp)
      BY <1>2, <2>3, StartsOnce DEF ToolState
    <3>2. CASE MvAsk \/ MvRename \/ MvOpen \/ MvCreate \/ MvWrite \/ MvUndo
      BY <1>1, <2>1, <3>1, <3>2, MvAskKeeps, MvRenameKeeps, MvOpenKeeps, MvCreateKeeps, MvWriteKeeps, MvUndoKeeps
    <3>3. CASE MvClose \/ MvRemove \/ MvReplace \/ MvCp \/ MvRm
      BY <1>1, <2>1, <3>1, <3>3, MvCloseKeeps, MvRemoveKeeps, MvReplaceKeeps, MvCpKeeps, MvRmKeeps
    <3> QED BY <2>3, <3>2, <3>3 DEF MvWorks
  <2> QED BY <1>2, <2>2, <2>3
<1>3. ASSUME job.tool = "ln", LnStart \/ LnWorks PROVE LnState(job, mem', inp')
  <2>1. Single(job)
    BY <1>3 DEF ToolJob
  <2>2. CASE LnStart
    BY <1>1, <2>1, <2>2, StartsOnce, LnStartMakes
  <2>3. CASE LnWorks
    <3>1. LnState(job, mem, inp)
      BY <1>3, <2>3, StartsOnce DEF ToolState
    <3> QED BY <1>1, <2>1, <2>3, <3>1, LnKeepsOn DEF LnWorks
  <2> QED BY <1>3, <2>2, <2>3
<1>4. ASSUME job.tool = "rm", RmStart \/ RmWorks PROVE RmState(job, mem', inp')
  BY <1>1, <1>4, StartsOnce, RmStartMakes, RmFileKeeps, RmRemoveKeeps, RmWalkKeeps DEF ToolState, RmWorks
<1>5. ASSUME job.tool = "rmdir", RmdirStart \/ RmdirDo PROVE RmdirState(job, mem', inp')
  BY <1>1, <1>5, StartsOnce, RmdirStartMakes, RmdirDoKeeps DEF ToolState
<1>6. ASSUME job.tool = "mkdir", MkdirStart \/ MkdirWorks PROVE MkdirState(job, mem', inp')
  <2>1. Nameable(job)
    BY <1>6 DEF ToolJob
  <2> QED BY <1>1, <1>6, <2>1, StartsOnce, MkdirStartMakes, MkdirDoKeeps, MkdirExistsKeeps, MkdirModeKeeps
          DEF ToolState, MkdirWorks
<1> QED BY <1>2, <1>3, <1>4, <1>5, <1>6, ToolStateOf DEF Works

LEMMA FileInvInit == FileInit => FileInv
BY DEF FileInit, FileInv

LEMMA FileInvStep == FileInv /\ [CopyToolStep]_vars => FileInv'
<1> SUFFICES ASSUME FileInv, [CopyToolStep]_vars PROVE FileInv'
  OBVIOUS
<1>1. CASE UNCHANGED vars
  BY <1>1 DEF FileInv, vars, Quiet
<1>2. CASE CopyToolStep
  <2>1. job.tool \in Proved /\ ToolJob(job)
    BY DEF FileInv, ToolJob
  <2>2. job' = job /\ (OtherProcess \/ Leaves \/ Works)
    BY <1>2, <2>1, ToolSteps
  <2>3. ToolJob(job)' /\ (Quiet' <=> Quiet)
    BY <2>1, <2>2 DEF Quiet
  <2> SUFFICES ASSUME Quiet PROVE mem' # <<>> /\ ToolState(job, mem', inp')
    BY <2>2, <2>3 DEF FileInv
  <2>4. IF mem = <<>> THEN inp = job.files ELSE ToolState(job, mem, inp)
    BY DEF FileInv
  <2>5. ~OtherProcess
    BY <2>1, <2>4, ToolMem DEF OtherProcess, Nobody
  <2>6. CASE Leaves
    BY <2>4, <2>6 DEF Leaves
  <2>7. CASE Works
    BY <2>1, <2>4, <2>7, WorksKeep
  <2> QED BY <2>2, <2>5, <2>6, <2>7
<1> QED BY <1>1, <1>2

\* What rm leaves is as it was, and what is gone was under an operand.
LEMMA RmKeeps ==
  ASSUME IsJob(job), RmState(job, mem, inp)
  PROVE  OnlyBelow(Allowed) /\ NothingNew({})
<1>1. PICK fs, at, rval, walk : mem = Rm(fs, at, rval, walk) /\ RmFiles(job, fs)
  BY RmStateIs
<1>2. mem.fs = fs
  BY <1>1, RmFields
<1>3. Left(fs, job.fs)
  BY <1>1 DEF RmFiles
<1>4. Allowed = AllowedOf(job)
  BY DEF Allowed, AllowedOf, Operands
<1>5. OnlyBelow(Allowed)
  <2> SUFFICES ASSUME NEW p \in DOMAIN job.fs.at, \A q \in AllowedOf(job) : ~IsPrefix(q, p) PROVE Same(p)
    BY <1>4 DEF OnlyBelow
  <2>1. p \in DOMAIN fs.at
    BY <1>1 DEF RmFiles
  <2> QED BY <1>2, <1>3, <2>1 DEF Same, Left
<1>6. NothingNew({})
  BY <1>2, <1>3 DEF NothingNew, Left
<1> QED BY <1>5, <1>6

LEMMA PartsAre == Parts = AllParts(job)
BY DEF Parts, AllParts, PartsOf

LEMMA RmdirKeeps ==
  ASSUME IsJob(job), RmdirState(job, mem, inp)
  PROVE  RmdirKept
<1>1. PICK fs, at, rval, part : mem = Dir(fs, at, rval, part) /\ RmdirFiles(job, fs)
  BY RmdirStateIs
<1>2. mem.fs = fs
  BY <1>1, DirFields
<1>3. Left(fs, job.fs)
  BY <1>1 DEF RmdirFiles
<1>4. ASSUME NEW p \in DOMAIN job.fs.at, TypeAt(job.fs, p) # "dir" PROVE Same(p)
  <2>1. p \in DOMAIN fs.at
    BY <1>1, <1>4 DEF RmdirFiles
  <2> QED BY <1>2, <1>3, <2>1 DEF Same, Left
<1>5. \A p \in DOMAIN job.fs.at \ DOMAIN mem.fs.at : \E q \in Parts : Entry(job.fs, q) = p
  BY <1>1, <1>2, PartsAre DEF RmdirFiles
<1> QED BY <1>4, <1>5 DEF RmdirKept

LEMMA MkdirKeeps ==
  ASSUME IsJob(job), MkdirState(job, mem, inp)
  PROVE  MkdirKept
<1>1. PICK fs, at, rval, part : mem = Dir(fs, at, rval, part) /\ MkdirFiles(job, fs)
  BY MkdirStateIs
<1>2. mem.fs = fs
  BY <1>1, DirFields
<1>3. Grown(fs, job.fs)
  BY <1>1 DEF MkdirFiles
<1>4. ASSUME NEW p \in DOMAIN job.fs.at PROVE Same(p)
  <2>1. job.fs.at[p] \in DOMAIN job.fs.node
    BY DEF IsJob, IsTree
  <2> QED BY <1>2, <1>3, <2>1 DEF Same, Grown
<1>5. \A p \in DOMAIN mem.fs.at \ DOMAIN job.fs.at : \E q \in Parts : Entry(mem.fs, q) = p
  BY <1>1, <1>2, PartsAre DEF MkdirFiles
<1> QED BY <1>4, <1>5 DEF MkdirKept

LEMMA FileInvKeeps == FileInv => FilesKept
<1> SUFFICES ASSUME FileInv, mem # <<>> PROVE FilesKept
  BY DEF FilesKept
<1>1. job.tool \in Proved /\ IsJob(job) /\ ToolJob(job) /\ (Quiet => ToolState(job, mem, inp))
  BY DEF FileInv, ToolJob
<1>2. CASE job.tool = "rm"
  <2>1. RmKept
    BY <1>1, <1>2, RmKeeps DEF ToolState, RmKept
  <2> QED BY <1>2, <2>1 DEF FilesKept
<1>3. CASE job.tool = "rmdir"
  <2>1. RmdirKept
    BY <1>1, <1>3, RmdirKeeps DEF ToolState, RmdirKept
  <2> QED BY <1>3, <2>1 DEF FilesKept
<1>4. CASE job.tool = "mkdir"
  <2>1. MkdirKept
    BY <1>1, <1>4, MkdirKeeps DEF ToolState, MkdirKept
  <2> QED BY <1>4, <2>1 DEF FilesKept
<1>5. CASE job.tool = "mv"
  <2>1. Single(job) /\ Blocks(job) /\ MvState(job, mem, inp)
    BY <1>1, <1>5 DEF ToolJob, Quiet, ToolState
  <2>2. MvKept
    BY <1>1, <1>5, <2>1, MvKeeps
  <2> QED BY <1>5, <2>2 DEF FilesKept
<1>6. CASE job.tool = "ln"
  <2>1. Single(job) /\ Aside(job) /\ LnState(job, mem, inp)
    BY <1>1, <1>6 DEF ToolJob, Quiet, ToolState
  <2>2. LnKept
    BY <1>1, <1>6, <2>1, LnKeeps
  <2> QED BY <1>6, <2>2 DEF FilesKept
<1> QED BY <1>1, <1>2, <1>3, <1>4, <1>5, <1>6 DEF Proved

\* In every state of the commands, between any two system calls and after a kill, no file is lost
\* or changed that was not to be: all of the operand of mv is at its old place or at the new one,
\* and nothing else has changed; a hard link never costs the file its last name; rm takes only what
\* is under its operands (not what a symbolic link leads to), rmdir only the empty directories it
\* was told, and mkdir changes nothing there was, and makes no more than the parts of its operands.
THEOREM FilesAreKept == FileSpec => []FilesKept
<1>1. FileInit => FileInv
  BY FileInvInit
<1>2. FileInv /\ [CopyToolStep]_vars => FileInv'
  BY FileInvStep
<1>3. FileInv => FilesKept
  BY FileInvKeeps
<1> QED BY <1>1, <1>2, <1>3, PTL DEF FileSpec

-----------------------------------------------------------------------------
(* What mkdir answers for.                                                   *)

Ready(j, fs, f) == Stat(fs, f) = "dir" /\ (j.m => Node(fs, Follow(fs, f)).mode # "umask")
\* A directory with nothing in it
Bare(fs, part) == TypeAt(fs, Entry(fs, part)) = "dir" /\ Below(fs, Entry(fs, part)) = {}
\* While no failure was noticed, an operand is still to do or ready; with -p and -m, once a
\* part of the one operand was made, so will the others be.
MkdirDidAt(j, fs, at, rval, part, i) ==
  /\ rval = 0 => \A f \in Range(j.files) : f \in Range(i) \/ Ready(j, fs, f)
  /\ j.m /\ j.p /\ i # <<>> => /\ Tail(i) = <<>>
                               /\ fs = j.fs \/ at = "chmod" \/ (at = "next" /\ part # NoPart /\ Bare(fs, part))
MkdirDid(j, m, i) == MkdirDidAt(j, m.fs, m.at, m.rval, m.part, i)

LEMMA MkdirDidIs ==
  ASSUME NEW j, NEW i, NEW fs, NEW at, NEW rval, NEW part
  PROVE  MkdirDid(j, Dir(fs, at, rval, part), i) <=> MkdirDidAt(j, fs, at, rval, part, i)
<1>1. PICK m : m = Dir(fs, at, rval, part)
  OBVIOUS
<1>2. m.fs = fs /\ m.at = at /\ m.rval = rval /\ m.part = part
  BY <1>1, DirFields
<1> QED BY <1>1, <1>2 DEF MkdirDid

LEMMA ReadyOn ==
  ASSUME NEW j, NEW now, NEW fs, Grown(now, fs), NEW f \in Path, Ready(j, fs, f)
  PROVE  Ready(j, now, f)
<1>1. Follow(fs, f) \in DOMAIN fs.at
  BY DEF Ready, Stat, TypeAt
<1>2. Follow(now, f) = Follow(fs, f)
  BY <1>1, GrownAgrees
<1>3. TypeAt(now, Follow(fs, f)) = TypeAt(fs, Follow(fs, f)) /\ Node(now, Follow(fs, f)) = Node(fs, Follow(fs, f))
  BY <1>1, GrownAgrees
<1> QED BY <1>2, <1>3 DEF Ready, Stat

\* A name in a directory that has nothing in it
LEMMA BareFree ==
  ASSUME NEW fs, IsTree(fs), NEW p \in Path, p # <<>>, Bare(fs, Front(p))
  PROVE  TypeAt(fs, Entry(fs, p)) = "none"
<1> SUFFICES ASSUME TypeAt(fs, Entry(fs, p)) # "none" PROVE FALSE
  OBVIOUS
<1>1. PICK e, d : e = Entry(fs, p) /\ d = Front(p)
  OBVIOUS
<1>2. e \in DOMAIN fs.at /\ e # None
  BY <1>1 DEF TypeAt, IsTree
<1>3. e \in Path /\ e # <<>> /\ Front(e) = Follow(fs, d)
  BY <1>1, <1>2, EntryInDir
<1>4. d \in Path
  BY <1>1, PathFront
<1>5. TypeAt(fs, Entry(fs, d)) # "link"
  BY <1>1 DEF Bare
<1>6. Follow(fs, d) = Entry(fs, d)
  BY <1>4, <1>5, EntryFacts
<1>7. IsPrefix(Front(e), e) /\ Len(Front(e)) = Len(e) - 1
  BY <1>3, PathFront, PrefixFacts
<1>8. e # Front(e)
  <2>1. PICK n \in Nat : n = Len(e)
    BY <1>3 DEF Path
  <2> QED BY <1>7, <2>1
<1>9. Front(e) \in Path
  BY <1>3, PathFront
<1>10. e \in Below(fs, Front(e))
  BY <1>2, <1>7, <1>8, <1>9, BelowIs
<1> QED BY <1>1, <1>3, <1>6, <1>10 DEF Bare

\* The operands that are left stay left but for the one in hand.
LEMMA DidMove ==
  ASSUME NEW j, NEW fs, NEW at, NEW rval, NEW part, NEW i \in Seq(Range(j.files)), i # <<>>, MkdirDidAt(j, fs, at, rval, part, i),
         NEW now, \A f \in Range(j.files) : Ready(j, fs, f) => Ready(j, now, f),
         NEW w, w = 0 => rval = 0 /\ Ready(j, now, Head(i)), NEW to
  PROVE  MkdirDidAt(j, now, "next", w, to, Tail(i))
<1>1. \A f \in Range(i) : f = Head(i) \/ f \in Range(Tail(i))
  BY HeadTail
<1>2. w = 0 => \A f \in Range(j.files) : f \in Range(Tail(i)) \/ Ready(j, now, f)
  BY <1>1 DEF MkdirDidAt
<1>3. j.m /\ j.p => Tail(i) = <<>>
  BY DEF MkdirDidAt
<1> QED BY <1>2, <1>3 DEF MkdirDidAt

LEMMA MkdirDoSettles ==
  ASSUME IsJob(job), Nameable(job), MkdirState(job, mem, inp), MkdirDid(job, mem, inp), MkdirDo
  PROVE  MkdirDid(job, mem', inp')
<1>1. PICK fs, at, rval, part :
         mem = Dir(fs, at, rval, part) /\ MkdirFiles(job, fs) /\ inp \in Seq(Range(job.files)) /\ MkdirAt(job, fs, at, part, inp)
  BY MkdirStateIs
<1>2. inp # <<>> /\ at = "next"
  BY <1>1, MkdirDoDoes
<1>3. PICK p, r : p = NextIn(job, part, inp) /\ r = Mkdir(fs, p, "umask") /\ MakesPart(p, r, fs, rval)
  BY <1>1, MkdirDoDoes
<1>4. PICK x : x = r.fs
  OBVIOUS
<1>5. p \in Path /\ (job.p => p # NoPart) /\ (~job.p => p = Head(inp)) /\ (job.p /\ part # NoPart => p # <<>> /\ Front(p) = part)
  BY <1>1, <1>2, <1>3, NextIs
<1>6. IsTree(fs)
  BY <1>1 DEF MkdirFiles, Grown
<1>7. \/ r.err # "" /\ x = fs /\ (r.err = "EEXIST" => TypeAt(fs, Entry(fs, p)) # "none")
      \/ r.err = "" /\ MadeAt(x, fs, Entry(fs, p), fs.next) /\ x.node[fs.next].type = "dir"
  <2>1. MakesDir(r, fs, p)
    BY <1>3, <1>5, <1>6, MkdirAdds
  <2> QED BY <1>4, <2>1 DEF MakesDir
<1>8. MkdirDidAt(job, fs, "next", rval, part, inp)
  BY <1>1, <1>2, MkdirDidIs
<1>9. \A f \in Range(job.files) : f \in Path
  BY AllPartsIn
<1>10. Grown(x, fs)
  <2>1. Grown(fs, fs)
    BY <1>6 DEF Grown, IsTree
  <2> QED BY <1>7, <2>1 DEF MadeAt
<1>11. \A f \in Range(job.files) : Ready(job, fs, f) => Ready(job, x, f)
  BY <1>9, <1>10, ReadyOn
<1>12. rval = 0 => \A f \in Range(job.files) : f \in Range(inp) \/ Ready(job, x, f)
  BY <1>8, <1>11 DEF MkdirDidAt
<1>13. job.m /\ job.p => Tail(inp) = <<>> /\ (fs = job.fs \/ (part # NoPart /\ Bare(fs, part)))
  <2>1. "next" # "chmod"
    OBVIOUS
  <2> QED BY <1>2, <1>8, <2>1 DEF MkdirDidAt
<1>14. ASSUME r.err = "EEXIST", job.p, mem' = Dir(x, "exists", rval, p), inp' = inp PROVE MkdirDid(job, mem', inp')
  <2>1. "EEXIST" # ""
    OBVIOUS
  <2>2. x = fs /\ TypeAt(fs, Entry(fs, p)) # "none"
    BY <1>7, <1>14, <2>1
  <2>3. part # NoPart => ~Bare(fs, part)
    BY <1>5, <1>6, <1>14, <2>2, BareFree
  <2>4. MkdirDidAt(job, x, "exists", rval, p, inp)
    BY <1>12, <1>13, <2>2, <2>3 DEF MkdirDidAt
  <2> QED BY <1>14, <2>4, MkdirDidIs
<1>15. ASSUME mem' = Dir(x, "next", 1, NoPart), inp' = Tail(inp) PROVE MkdirDid(job, mem', inp')
  <2>1. MkdirDidAt(job, x, "next", 1, NoPart, Tail(inp))
    BY <1>1, <1>2, <1>8, <1>11, DidMove
  <2> QED BY <1>15, <2>1, MkdirDidIs
<1>16. ASSUME r.err = "", p # Head(inp), mem' = Dir(x, "next", rval, p), inp' = inp PROVE MkdirDid(job, mem', inp')
  <2>1. MadeAt(x, fs, Entry(fs, p), fs.next) /\ x.node[fs.next].type = "dir"
    BY <1>7, <1>16
  <2>2. Entry(x, p) = Entry(fs, p)
    BY <1>5, <1>10, <2>1, GrownAgrees DEF MadeAt
  <2>3. TypeAt(x, Entry(fs, p)) = "dir"
    BY <2>1 DEF MadeAt, TypeAt, Node
  <2>4. Below(x, Entry(fs, p)) = {}
    BY <2>1, MadeBelow
  <2>5. Bare(x, p)
    BY <2>2, <2>3, <2>4 DEF Bare
  <2>6. MkdirDidAt(job, x, "next", rval, p, inp)
    BY <1>5, <1>12, <1>13, <2>5 DEF MkdirDidAt
  <2> QED BY <1>16, <2>6, MkdirDidIs
<1>17. ASSUME mem' = Dir(x, "chmod", rval, p), inp' = inp PROVE MkdirDid(job, mem', inp')
  <2>1. MkdirDidAt(job, x, "chmod", rval, p, inp)
    BY <1>12, <1>13 DEF MkdirDidAt
  <2> QED BY <1>17, <2>1, MkdirDidIs
<1> QED BY <1>3, <1>4, <1>14, <1>15, <1>16, <1>17 DEF MakesPart

LEMMA MkdirExistsSettles ==
  ASSUME IsJob(job), Modest(job), MkdirState(job, mem, inp), MkdirDid(job, mem, inp), MkdirExists
  PROVE  MkdirDid(job, mem', inp')
<1>1. PICK fs, at, rval, part :
         mem = Dir(fs, at, rval, part) /\ MkdirFiles(job, fs) /\ inp \in Seq(Range(job.files)) /\ MkdirAt(job, fs, at, part, inp)
  BY MkdirStateIs
<1>2. /\ at = "exists"
      /\ \/ mem' = Dir(fs, "next", 1, NoPart) /\ inp' = Tail(inp)
         \/ /\ TypeAt(fs, Follow(fs, part)) = "dir" /\ part = Head(inp)
            /\ mem' = Dir(fs, "next", rval, NoPart) /\ inp' = Tail(inp)
         \/ part # Head(inp) /\ mem' = Dir(fs, "next", rval, part) /\ inp' = inp
  BY <1>1, MkdirExistsDoes
<1>3. job.p /\ inp # <<>>
  BY <1>1, <1>2 DEF MkdirAt, Begun
<1>4. MkdirDidAt(job, fs, "exists", rval, part, inp)
  BY <1>1, <1>2, MkdirDidIs
<1>5. job.m => fs = job.fs /\ Tail(inp) = <<>>
  <2>1. "exists" # "chmod" /\ "exists" # "next"
    OBVIOUS
  <2> QED BY <1>3, <1>4, <2>1 DEF MkdirDidAt
<1>6. ASSUME TypeAt(fs, Follow(fs, part)) = "dir", part = Head(inp) PROVE Ready(job, fs, Head(inp))
  <2>1. fs.at[Follow(fs, part)] \in DOMAIN fs.node
    BY <1>1, <1>6 DEF TypeAt, MkdirFiles, Grown, IsTree
  <2>2. job.m => fs.node[fs.at[Follow(fs, part)]].mode # "umask"
    BY <1>3, <1>5, <2>1 DEF Modest
  <2> QED BY <1>6, <2>2 DEF Ready, Stat, Node
<1>7. \A w : (w = 0 => rval = 0 /\ Ready(job, fs, Head(inp))) => MkdirDid(job, Dir(fs, "next", w, NoPart), Tail(inp))
  BY <1>1, <1>3, <1>4, DidMove, MkdirDidIs
<1>8. CASE mem' = Dir(fs, "next", 1, NoPart) /\ inp' = Tail(inp)
  BY <1>7, <1>8
<1>9. CASE /\ TypeAt(fs, Follow(fs, part)) = "dir" /\ part = Head(inp)
           /\ mem' = Dir(fs, "next", rval, NoPart) /\ inp' = Tail(inp)
  BY <1>6, <1>7, <1>9
<1>10. CASE mem' = Dir(fs, "next", rval, part) /\ inp' = inp
  <2>1. MkdirDidAt(job, fs, "next", rval, part, inp)
    BY <1>4, <1>5 DEF MkdirDidAt
  <2> QED BY <1>10, <2>1, MkdirDidIs
<1> QED BY <1>2, <1>8, <1>9, <1>10

LEMMA MkdirModeSettles ==
  ASSUME IsJob(job), MkdirState(job, mem, inp), MkdirDid(job, mem, inp), MkdirMode
  PROVE  MkdirDid(job, mem', inp')
<1>1. PICK fs, at, rval, part :
         mem = Dir(fs, at, rval, part) /\ MkdirFiles(job, fs) /\ inp \in Seq(Range(job.files)) /\ MkdirAt(job, fs, at, part, inp)
  BY MkdirStateIs
<1>2. PICK t : t = Follow(fs, part)
  OBVIOUS
<1>3. /\ at = "chmod" /\ inp' = Tail(inp)
      /\ \/ ~job.m /\ mem' = Dir(fs, "next", rval, NoPart)
         \/ t \notin DOMAIN fs.at /\ mem' = Dir(fs, "next", 1, NoPart)
         \/ t \in DOMAIN fs.at /\ mem' = Dir(Moded(fs, t), "next", rval, NoPart)
  BY <1>1, <1>2, MkdirModeDoes
<1>4. inp # <<>> /\ part = Head(inp) /\ part \in AllParts(job) /\ NewDir(job, fs, part)
  BY <1>1, <1>3 DEF MkdirAt
<1>5. MkdirDidAt(job, fs, "chmod", rval, part, inp)
  BY <1>1, <1>3, MkdirDidIs
<1>6. PICK x : x = Moded(fs, t)
  OBVIOUS
<1>7. /\ Agree(fs, x, DOMAIN fs.at) /\ x.at = fs.at /\ t \in DOMAIN fs.at /\ TypeAt(fs, t) = "dir"
      /\ \A k \in DOMAIN fs.node : x.node[k].mode = fs.node[k].mode \/ x.node[k].mode = "asked"
      /\ x.node[fs.at[t]].mode = "asked"
  BY <1>1, <1>2, <1>4, <1>6, ModedIs
<1>8. AllParts(job) \subseteq Path /\ Range(job.files) \subseteq Path
  BY AllPartsIn
<1>9. \A f \in Path : Follow(fs, f) \in DOMAIN fs.at => Follow(x, f) = Follow(fs, f)
  BY <1>7, FollowAgrees
<1>10. \A q \in DOMAIN fs.at : TypeAt(x, q) = TypeAt(fs, q) /\ fs.at[q] \in DOMAIN fs.node
  BY <1>1, <1>7 DEF Agree, MkdirFiles, Grown, IsTree
<1>11. \A f \in Range(job.files) : Ready(job, fs, f) => Ready(job, x, f)
  <2> SUFFICES ASSUME NEW f \in Range(job.files), Ready(job, fs, f) PROVE Ready(job, x, f)
    OBVIOUS
  <2>1. PICK q : q = Follow(fs, f)
    OBVIOUS
  <2>2. q \in DOMAIN fs.at /\ TypeAt(fs, q) = "dir" /\ (job.m => fs.node[fs.at[q]].mode # "umask")
    BY <2>1 DEF Ready, Stat, TypeAt, Node
  <2>3. Follow(x, f) = q
    BY <1>8, <1>9, <2>1, <2>2
  <2>4. TypeAt(x, q) = "dir"
    BY <1>10, <2>2
  <2>5. job.m => x.node[x.at[q]].mode # "umask"
    BY <1>7, <1>10, <2>2
  <2> QED BY <2>3, <2>4, <2>5 DEF Ready, Stat, Node
<1>12. ~job.m => Ready(job, fs, Head(inp))
  BY <1>2, <1>4, <1>7 DEF Ready, Stat
<1>13. Ready(job, x, Head(inp))
  <2>1. Follow(x, part) = t
    BY <1>2, <1>4, <1>7, <1>8, <1>9
  <2>2. TypeAt(x, t) = "dir" /\ x.node[x.at[t]].mode # "umask"
    BY <1>7, <1>10
  <2> QED BY <1>4, <2>1, <2>2 DEF Ready, Stat, Node
<1>14. CASE ~job.m /\ mem' = Dir(fs, "next", rval, NoPart)
  <2>1. MkdirDidAt(job, fs, "next", rval, NoPart, Tail(inp))
    BY <1>1, <1>4, <1>5, <1>12, <1>14, DidMove
  <2> QED BY <1>3, <1>14, <2>1, MkdirDidIs
<1>15. CASE mem' = Dir(fs, "next", 1, NoPart)
  <2>1. MkdirDidAt(job, fs, "next", 1, NoPart, Tail(inp))
    BY <1>1, <1>4, <1>5, DidMove
  <2> QED BY <1>3, <1>15, <2>1, MkdirDidIs
<1>16. CASE mem' = Dir(Moded(fs, t), "next", rval, NoPart)
  <2>1. MkdirDidAt(job, x, "next", rval, NoPart, Tail(inp))
    BY <1>1, <1>4, <1>5, <1>11, <1>13, DidMove
  <2> QED BY <1>3, <1>6, <1>16, <2>1, MkdirDidIs
<1> QED BY <1>3, <1>14, <1>15, <1>16

LEMMA OnlyOne ==
  ASSUME NEW B, NEW s \in Seq(B), Len(s) = 1
  PROVE  Tail(s) = <<>>
<1>1. s # <<>>
  <2>1. PICK n \in Int : n = Len(s)
    OBVIOUS
  <2>2. s = <<>> => n = 0
    BY <2>1
  <2> QED BY <2>1, <2>2
<1>2. PICK t : t = Tail(s)
  OBVIOUS
<1>3. t \in Seq(B) /\ Len(t) = Len(s) - 1
  BY <1>1, <1>2
<1>4. Len(t) = 0
  BY <1>3
<1> QED BY <1>2, <1>3, <1>4

LEMMA MkdirStartDid ==
  ASSUME IsJob(job), Modest(job), inp = job.files, Quiet, MkdirStart
  PROVE  MkdirDid(job, mem', inp')
<1>1. mem' = Dir(job.fs, "next", 0, NoPart) /\ inp' = inp
  BY DEF MkdirStart, Start, Quiet, Dir, Nobody, NoPart
<1>2. job.m /\ job.p => Tail(inp) = <<>>
  <2>1. inp \in Seq(Path)
    BY DEF IsJob
  <2>2. Len(inp) = 1 => Tail(inp) = <<>>
    BY <2>1, OnlyOne
  <2> QED BY <2>2 DEF Modest
<1>3. MkdirDidAt(job, job.fs, "next", 0, NoPart, inp)
  BY <1>2 DEF MkdirDidAt
<1> QED BY <1>1, <1>3, MkdirDidIs

-----------------------------------------------------------------------------
(* What a command that ends with 0 has done.                                 *)

\* rm -f does not tell that it was the removal of a symbolic link that put an operand out of
\* reach; mkdir -p -m does not give a directory of an earlier operand the mode; and what another
\* process does to what mkdir made is not mkdir's. rename(2) leaves two names of one file as they are,
\* and mv does not tell.
Plain(j) ==
  /\ j.tool = "mv" => Distinct(j)
  /\ j.tool = "rm" => Straight(j)
  /\ j.tool = "mkdir" => Modest(j) /\ j.others = <<>>
Answers(j) == j.i \/ j.tty
ToolDid(j, m, i) ==
  /\ j.tool = "rm" /\ ~Answers(j) => RmDid(j, m, i)
  /\ j.tool = "rmdir" => RmdirDid(j, m, i)
  /\ j.tool = "mkdir" => MkdirDid(j, m, i)
DoneInv ==
  /\ Plain(job)
  /\ Quiet /\ mem # <<>> => ToolDid(job, mem, inp)
  /\ FilesDone /\ (mem = <<>> => status # 0)

LEMMA RmStartDid ==
  ASSUME IsJob(job), inp = job.files, Quiet, RmStart
  PROVE  RmDid(job, mem', inp')
<1>1. RmState(job, mem', inp') /\ \A f \in Operands(job) : f \in Range(inp')
  BY RmStartMakes
<1> QED BY <1>1 DEF RmDid, Did, Settled

LEMMA NothingIn == \A x : x \notin Range(<<>>)
<1>1. DOMAIN <<>> = {}
  OBVIOUS
<1> QED BY <1>1 DEF Range

LEMMA RmEndDone ==
  ASSUME RmDid(job, mem, inp), RmEnd, status' = 0, NEW p \in Allowed
  PROVE  p \notin DOMAIN mem.fs.at
<1>1. inp = <<>> /\ mem.walk = <<>> /\ mem.rval = 0
  BY DEF RmEnd, Exit
<1>2. PICK f \in Operands(job) : p = Entry(job.fs, f)
  BY DEF Allowed, Operands
<1>3. Settled(job, mem.fs, <<>>, <<>>, f)
  BY <1>1 DEF RmDid, Did
<1> QED BY <1>2, <1>3, NothingIn DEF Settled, Pending

LEMMA FinishEnds ==
  ASSUME NEW tool, Finish(tool)
  PROVE  inp = <<>> /\ status' = mem.rval
BY DEF Finish, Exit

\* The step that ends a command with 0
LEMMA LnDoneStays ==
  ASSUME UNCHANGED <<job, mem>>, LnDone
  PROVE  LnDone'
<1>1. job' = job /\ mem' = mem
  OBVIOUS
<1>2. LnTargets' = LnTargets /\ Fflag' = Fflag
  BY <1>1 DEF LnTargets, Targets, Into, IsDirectory, Fflag
<1> QED BY ZenonT(30), <1>1, <1>2 DEF LnDone

LEMMA EndDone ==
  ASSUME FileInv, DoneInv, mem # <<>>, UNCHANGED <<job, inp, mem>>, status' = 0 => Finishes
  PROVE  FilesDone'
<1>1. job.tool \in Proved /\ (job.tool \in Proved)'
  BY DEF FileInv, ToolJob
<1>2. Quiet => ToolDid(job, mem, inp)
  BY DEF DoneInv
<1>3. /\ Finish("mv") => job.tool = "mv"
      /\ Finish("ln") => job.tool = "ln"
      /\ RmEnd => job.tool = "rm"
      /\ Finish("rmdir") => job.tool = "rmdir"
      /\ Finish("mkdir") => job.tool = "mkdir"
  BY DEF RmEnd, Finish, At, Running
<1>4. CASE status' # 0
  BY <1>4 DEF FilesDone
<1>5. CASE status' = 0 /\ RmEnd
  <2>1. Quiet /\ ~Answers(job) => \A p \in Allowed : p \notin DOMAIN mem.fs.at
    BY <1>2, <1>3, <1>5, RmEndDone DEF ToolDid
  <2>2. RmDone'
    BY <2>1 DEF RmDone, Quiet, Answers, Allowed
  <2> QED BY <1>3, <1>5, <2>2 DEF FilesDone
<1>6. CASE status' = 0 /\ Finish("rmdir")
  <2>1. inp = <<>> /\ mem.rval = 0
    BY <1>6, FinishEnds
  <2>2. Quiet => \A q \in AllParts(job) : Entry(job.fs, q) \notin DOMAIN mem.fs.at
    BY <1>2, <1>3, <1>6, <2>1 DEF ToolDid, RmdirDid, Owed
  <2>3. RmdirDone'
    BY <2>2, PartsAre DEF RmdirDone, Quiet, Parts
  <2> QED BY <1>3, <1>6, <2>3 DEF FilesDone
<1>7. CASE status' = 0 /\ Finish("mkdir")
  <2>1. inp = <<>> /\ mem.rval = 0
    BY <1>7, FinishEnds
  <2>2. Quiet
    BY <1>3, <1>7 DEF DoneInv, Plain, Quiet
  <2>3. MkdirDid(job, mem, <<>>)
    BY <1>2, <1>3, <1>7, <2>1, <2>2 DEF ToolDid
  <2>4. \A f \in Range(job.files) : Ready(job, mem.fs, f)
    BY <2>1, <2>3, NothingIn DEF MkdirDid, MkdirDidAt
  <2>5. MkdirDone'
    BY <2>4 DEF MkdirDone, Ready
  <2> QED BY <1>3, <1>7, <2>5 DEF FilesDone
<1>8. ASSUME job.tool \in {"mv", "ln"} PROVE ToolJob(job) /\ IsJob(job) /\ Single(job) /\ ToolState(job, mem, inp)
  BY <1>8 DEF FileInv, ToolJob, Quiet
<1>9. CASE status' = 0 /\ Finish("mv")
  <2>1. inp = <<>> /\ mem.rval = 0 /\ job.tool = "mv"
    BY <1>3, <1>9, FinishEnds
  <2>2. MvState(job, mem, inp) /\ Distinct(job)
    BY <1>8, <2>1 DEF ToolState, DoneInv, Plain
  <2>3. MvDone
    BY <1>8, <2>1, <2>2, MvEndDone
  <2>4. MvDone'
    BY <2>3 DEF MvDone, Sources
  <2> QED BY <2>1, <2>4 DEF FilesDone
<1>10. CASE status' = 0 /\ Finish("ln")
  <2>1. inp = <<>> /\ mem.rval = 0 /\ job.tool = "ln"
    BY <1>3, <1>10, FinishEnds
  <2>2. LnState(job, mem, inp)
    BY <1>8, <2>1 DEF ToolState
  <2>3. LnDone
    BY <1>8, <2>1, <2>2, LnEndDone
  <2>4. LnDone'
    BY <2>3, LnDoneStays
  <2> QED BY <2>1, <2>4 DEF FilesDone
<1> QED BY <1>4, <1>5, <1>6, <1>7, <1>9, <1>10 DEF Finishes

LEMMA DoneInvInit == FileInit /\ Plain(job) => FileInv /\ DoneInv
BY FileInvInit DEF FileInit, DoneInv, FilesDone

LEMMA DoneStays ==
  ASSUME FilesDone, job.tool \in Proved, UNCHANGED <<job, mem, status>>
  PROVE  FilesDone'
<1>1. CASE job.tool = "rm"
  BY <1>1 DEF FilesDone, RmDone, Allowed, Quiet
<1>2. CASE job.tool = "rmdir"
  BY <1>2 DEF FilesDone, RmdirDone, Parts, Quiet
<1>3. CASE job.tool = "mkdir"
  BY <1>3 DEF FilesDone, MkdirDone
<1>4. CASE job.tool = "mv"
  BY <1>4 DEF FilesDone, MvDone, Sources
<1>5. CASE job.tool = "ln"
  <2>1. LnDone => LnDone'
    BY LnDoneStays
  <2>2. job'.tool = "ln" /\ (status = 0 => LnDone)
    BY <1>5 DEF FilesDone, FileTool
  <2> QED BY <2>1, <2>2 DEF FilesDone
<1> QED BY <1>1, <1>2, <1>3, <1>4, <1>5 DEF Proved

\* Only the last step of a command answers with 0.
LEMMA WorksGoOn ==
  ASSUME status = -1, OtherProcess \/ Works
  PROVE  status' # 0
<1>1. RmStart => status' # 0
  BY DEF RmStart, Exit
<1>5. LnStart => status' # 0
  <2>1. LnStart => status' = 1 \/ status' = status
    BY DEF LnStart, Exit
  <2> QED BY <2>1
<1>6. MvStart => status' # 0
  <2>1. MvStart => status' = 1 \/ status' = status
    BY DEF MvStart, Exit
  <2> QED BY <2>1
<1>2. OtherProcess \/ RmWorks \/ LnWorks => status' = status
  BY DEF OtherProcess, RmWorks, RmFile, RmRemove, RmWalk, LnWorks, LnCheck, LnRemove, LnLink
<1>3. RmdirStart \/ RmdirDo \/ MkdirStart \/ MkdirWorks => status' = status
  BY DEF RmdirStart, RmdirDo, MkdirStart, MkdirWorks, MkdirDo, MkdirExists, MkdirMode
<1>4. MvWorks => status' = status
  BY DEF MvWorks, MvAsk, MvRename, MvOpen, MvCreate, MvWrite, MvUndo, MvClose, MvRemove, MvReplace, MvCp, MvRm
<1> QED BY <1>1, <1>2, <1>3, <1>4, <1>5, <1>6 DEF Works

LEMMA WorksSettle ==
  ASSUME ToolJob(job), Plain(job), Quiet,
         IF mem = <<>> THEN inp = job.files ELSE ToolState(job, mem, inp) /\ ToolDid(job, mem, inp), Works
  PROVE  ToolDid(job, mem', inp')
<1>1. IsJob(job)
  BY DEF ToolJob
<1>2. CASE job.tool = "rm" /\ (RmStart \/ RmWorks)
  <2>1. job.tool # "rmdir" /\ job.tool # "mkdir" /\ Straight(job)
    BY <1>2 DEF Plain
  <2>2. ~Answers(job) => RmDid(job, mem', inp')
    BY <1>1, <1>2, <2>1, StartsOnce, RmStartDid, RmFileSettles, RmRemoveSettles, RmWalkSettles
    DEF ToolState, ToolDid, Answers, RmWorks
  <2> QED BY <2>1, <2>2 DEF ToolDid
<1>3. CASE job.tool = "rmdir" /\ (RmdirStart \/ RmdirDo)
  <2>1. RmdirDid(job, mem', inp')
    BY <1>1, <1>3, StartsOnce, RmdirStartMakes, RmdirDoKeeps DEF ToolState, ToolDid
  <2>2. job.tool # "rm" /\ job.tool # "mkdir"
    BY <1>3
  <2> QED BY <2>1, <2>2 DEF ToolDid
<1>4. CASE job.tool = "mkdir" /\ (MkdirStart \/ MkdirWorks)
  <2>1. job.tool # "rm" /\ job.tool # "rmdir" /\ Modest(job) /\ Nameable(job)
    BY <1>4 DEF Plain, ToolJob
  <2>2. MkdirDid(job, mem', inp')
    BY <1>1, <1>4, <2>1, StartsOnce, MkdirStartDid, MkdirDoSettles, MkdirExistsSettles, MkdirModeSettles
    DEF ToolState, ToolDid, MkdirWorks
  <2> QED BY <2>1, <2>2 DEF ToolDid
<1>5. CASE job.tool = "mv" \/ job.tool = "ln"
  <2>1. job.tool # "rm" /\ job.tool # "rmdir" /\ job.tool # "mkdir"
    BY <1>5
  <2> QED BY <2>1 DEF ToolDid
<1> QED BY <1>2, <1>3, <1>4, <1>5 DEF Works

LEMMA DoneInvStep == FileInv /\ DoneInv /\ [CopyToolStep]_vars => DoneInv'
<1> SUFFICES ASSUME FileInv, DoneInv, [CopyToolStep]_vars PROVE DoneInv'
  OBVIOUS
<1>1. job.tool \in Proved /\ ToolJob(job) /\ Plain(job)
  BY DEF FileInv, ToolJob, DoneInv
<1>2. CASE UNCHANGED vars
  <2>1. FilesDone'
    BY <1>1, <1>2, DoneStays DEF DoneInv, vars
  <2> QED BY <1>2, <2>1 DEF DoneInv, vars, Quiet
<1>3. CASE CopyToolStep
  <2>1. job' = job /\ status = -1 /\ (OtherProcess \/ Leaves \/ Works)
    BY <1>1, <1>3, ToolSteps
  <2>2. Plain(job)' /\ (Quiet' <=> Quiet)
    BY <1>1, <2>1 DEF Quiet
  <2>3. CASE Leaves
    <3>1. FilesDone'
      BY <2>1, <2>3, EndDone DEF Leaves
    <3> QED BY <2>1, <2>2, <2>3, <3>1 DEF DoneInv, Leaves
  <2>4. CASE OtherProcess \/ Works
    <3>1. status' # 0
      BY <2>1, <2>4, WorksGoOn
    <3>2. FilesDone'
      BY <3>1 DEF FilesDone
    <3>3. ~OtherProcess \/ ~Quiet
      BY <1>1, ToolMem DEF OtherProcess, Nobody, FileInv
    <3>4. Quiet => IF mem = <<>> THEN inp = job.files ELSE ToolState(job, mem, inp) /\ ToolDid(job, mem, inp)
      BY DEF FileInv, DoneInv
    <3>5. Quiet => ToolDid(job, mem', inp')
      BY <1>1, <2>4, <3>3, <3>4, WorksSettle
    <3> QED BY <2>1, <2>2, <3>1, <3>2, <3>5 DEF DoneInv
  <2> QED BY <2>1, <2>3, <2>4
<1> QED BY <1>2, <1>3

\* A command that ends with 0 has done all it was asked, however the operands overlap: the operand
\* of mv -f is gone from its old place, the link of ln is there and is to what it was told, no
\* operand of rm and no part of an operand of rmdir is left, every operand of mkdir is a directory,
\* and has the mode of -m.
THEOREM FilesAreDone == FileInit /\ Plain(job) /\ [][CopyToolStep]_vars => []FilesDone
<1>1. FileInit /\ Plain(job) => FileInv /\ DoneInv
  BY DoneInvInit
<1>2. FileInv /\ DoneInv /\ [CopyToolStep]_vars => (FileInv /\ DoneInv)'
  BY FileInvStep, DoneInvStep
<1>3. DoneInv => FilesDone
  BY DEF DoneInv
<1> QED BY <1>1, <1>2, <1>3, PTL
==============================================================================
