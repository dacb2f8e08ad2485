---------------------------- MODULE MergeHeapProofs ----------------------------
(***************************************************************************)
(* Proofs about MergeHeap for any number of sources of any length: the     *)
(* heap is a heap, so that the root is the source to print from, the       *)
(* output is in order, and nothing is left.                                *)
(***************************************************************************)
EXTENDS MergeHeap, WellFoundedInduction, TLAPS

\* f may be in front of g: the negation of Before(g, f).
AtMost(s, f, g) ==
  \/ Ended(g)
  \/ ~Ended(f) /\ InOrder(s, Head(f.lines), f.pos, Head(g.lines), g.pos)

----------------------------------------------------------------------------
(***************************************************************************)
(* The order of lines and of sources.                                      *)
(***************************************************************************)

LEMMA OrderFacts ==
  ASSUME NEW s \in BOOLEAN, NEW a \in Line, NEW b \in Line, NEW c \in Line,
         NEW p \in Nat, NEW q \in Nat, NEW r \in Nat
  PROVE  /\ Coll(s, a, b) \in Int /\ Coll(s, a, b) = -Coll(s, b, a)
         /\ Coll(s, a, b) <= 0 /\ Coll(s, b, c) <= 0 => Coll(s, a, c) <= 0
         /\ Coll(s, a, b) <= 0 /\ Coll(s, b, c) < 0 => Coll(s, a, c) < 0
         /\ InOrder(s, a, p, b, q) /\ InOrder(s, b, q, c, r) => InOrder(s, a, p, c, r)
         /\ Coll(s, a, b) <= 0 => InOrder(s, a, p, b, p)
         /\ InOrder(s, a, p, b, q) => Coll(s, a, b) <= 0
<1>1. /\ a.key \in Nat /\ b.key \in Nat /\ c.key \in Nat
      /\ a.rest \in Nat /\ b.rest \in Nat /\ c.rest \in Nat
  BY DEF Line
<1>2. CASE s = TRUE
  BY <1>1, <1>2 DEF Coll, InOrder
<1>3. CASE s = FALSE
  BY <1>1, <1>3 DEF Coll, InOrder
<1> QED BY <1>2, <1>3

LEMMA HeadLine ==
  ASSUME NEW f \in Source
  PROVE  /\ f.pos \in Nat /\ f.lines \in Seq(Line)
         /\ ~Ended(f) => Head(f.lines) \in Line
<1>1. f.pos \in Nat /\ f.lines \in Seq(Line)
  BY DEF Source
<1> QED BY <1>1 DEF Ended

LEMMA AtMostTransitive ==
  ASSUME NEW s \in BOOLEAN, NEW f \in Source, NEW g \in Source, NEW h \in Source,
         AtMost(s, f, g), AtMost(s, g, h)
  PROVE  AtMost(s, f, h)
<1>1. CASE Ended(h)
  BY <1>1 DEF AtMost
<1>2. CASE ~Ended(h)
  <2>1. ~Ended(g) /\ ~Ended(f)
    BY <1>2 DEF AtMost
  <2> QED BY <1>2, <2>1, HeadLine, OrderFacts DEF AtMost
<1> QED BY <1>1, <1>2

LEMMA BeforeAtMost ==
  ASSUME task.sflag \in BOOLEAN, NEW f \in Source, NEW g \in Source
  PROVE  /\ ~Before(f, g) => AtMost(task.sflag, g, f)
         /\ Before(f, g) => AtMost(task.sflag, f, g)
<1> DEFINE s == task.sflag
           a == Head(f.lines)
           b == Head(g.lines)
<1>1. CASE Ended(f) \/ Ended(g)
  BY <1>1 DEF AtMost, Before
<1>2. CASE ~Ended(f) /\ ~Ended(g)
  <2>1. a \in Line /\ b \in Line /\ f.pos \in Nat /\ g.pos \in Nat
    BY <1>2, HeadLine
  <2>2. Coll(s, a, b) \in Int /\ Coll(s, b, a) \in Int /\ Coll(s, a, b) = -Coll(s, b, a)
    BY <2>1, OrderFacts
  <2>3. Before(f, g) <=> (Coll(s, a, b) < 0 \/ (Coll(s, a, b) = 0 /\ f.pos < g.pos))
    BY <1>2 DEF Before
  <2>4. /\ AtMost(s, g, f) <=> (Coll(s, b, a) < 0 \/ (Coll(s, b, a) = 0 /\ g.pos <= f.pos))
        /\ AtMost(s, f, g) <=> (Coll(s, a, b) < 0 \/ (Coll(s, a, b) = 0 /\ f.pos <= g.pos))
    BY <1>2 DEF AtMost, InOrder
  <2> HIDE DEF s, a, b
  <2>5. /\ ~Before(f, g) => AtMost(s, g, f)
        /\ Before(f, g) => AtMost(s, f, g)
    BY <2>1, <2>2, <2>3, <2>4
  <2> QED BY <2>5 DEF s
<1> QED BY <1>1, <1>2

\* Halves: the parent of i, and whose parent it is.
LEMMA Parent ==
  ASSUME NEW i \in Nat, i > 1
  PROVE  /\ i \div 2 \in Nat /\ 0 < i \div 2 /\ i \div 2 < i
         /\ \A k \in Nat : i \div 2 = k <=> (i = 2 * k \/ i = 2 * k + 1)
  OBVIOUS

\* If no source comes before its parent, none comes before the root.
LEMMA RootFirst ==
  ASSUME NEW s \in BOOLEAN, NEW h \in Seq(Source),
         \A i \in 2 .. Len(h) : AtMost(s, h[i \div 2], h[i])
  PROVE  \A i \in 1 .. Len(h) : AtMost(s, h[1], h[i])
<1> DEFINE T == {i \in 1 .. Len(h) : ~AtMost(s, h[1], h[i])}
<1>1. SUFFICES ASSUME T # {} PROVE FALSE
  OBVIOUS
<1>2. T \in SUBSET Nat
  OBVIOUS
<1>3. PICK x \in T : \A y \in T : ~(y < x)
  <2>1. PICK x \in T : \A y \in T : ~(<<y, x>> \in OpToRel(<, Nat))
    BY <1>1, <1>2, WFMin, NatLessThanWellFounded, Zenon
  <2> QED BY <1>2, <2>1 DEF OpToRel
<1>4. \A i \in 1 .. Len(h) : h[i] \in Source
  OBVIOUS
<1>5. CASE x = 1
  <2>1. AtMost(s, h[1], h[1])
    <3>1. h[1] \in Source
      BY <1>4, <1>5
    <3>2. CASE Ended(h[1])
      BY <3>2 DEF AtMost
    <3>3. CASE ~Ended(h[1])
      <4>1. Head(h[1].lines) \in Line /\ h[1].pos \in Nat
        BY <3>1, <3>3, HeadLine
      <4>2. Coll(s, Head(h[1].lines), Head(h[1].lines)) = 0
        BY <4>1 DEF Coll, Line
      <4> QED BY <3>3, <4>1, <4>2 DEF AtMost, InOrder
    <3> QED BY <3>2, <3>3
  <2> QED BY <1>3, <1>5, <2>1
<1>6. CASE x > 1
  <2>1. x \in 2 .. Len(h) /\ x \div 2 \in 1 .. Len(h) /\ x \div 2 < x
    BY <1>3, <1>6, Parent
  <2>2. AtMost(s, h[1], h[x \div 2])
    BY <1>3, <2>1
  <2>3. AtMost(s, h[x \div 2], h[x])
    BY <2>1
  <2>4. h[1] \in Source /\ h[x \div 2] \in Source /\ h[x] \in Source
    BY <1>4, <2>1
  <2>5. AtMost(s, h[1], h[x])
    BY <2>2, <2>3, <2>4, AtMostTransitive
  <2> QED BY <1>3, <2>5
<1> QED BY <1>2, <1>3, <1>5, <1>6

----------------------------------------------------------------------------
(***************************************************************************)
(* The inductive invariant.                                                *)
(***************************************************************************)

MergeTypeOK ==
  /\ task \in [parts : Seq(Seq(Line)), sflag : BOOLEAN, uflag : BOOLEAN]
  /\ fh \in Seq(Source)
  /\ pushed \in 0 .. Len(fh) /\ at \in 0 .. Len(fh)
  /\ phase \in {"idle", "push", "swim", "print", "sink"}
  /\ out \in Seq(Line) /\ from \in Seq(Nat) /\ Len(from) = Len(out)

\* The heap order between i and its parent.
Edge(i) == AtMost(task.sflag, fh[i \div 2], fh[i])

\* All of the first k sources are in heap order.
HeapUpto(k) == \A i \in 2 .. k : Edge(i)

\* The children of the index that moves respect its parent.
Bridged(k) ==
  \A i \in 2 .. k : at > 1 /\ i \div 2 = at => AtMost(task.sflag, fh[at \div 2], fh[i])

HeapInv ==
  /\ phase # "idle" => fh # <<>>
  /\ phase = "push" => HeapUpto(pushed)
  /\ phase = "swim" => /\ at \in 1 .. pushed
                       /\ \A i \in 2 .. pushed : i # at => Edge(i)
                       /\ Bridged(pushed)
  /\ phase = "print" => HeapUpto(Len(fh))
  /\ phase = "sink" => /\ at \in 1 .. Len(fh)
                       /\ \A i \in 2 .. Len(fh) : i \div 2 # at => Edge(i)
                       /\ Bridged(Len(fh))
  /\ phase = "idle" => \A i \in DOMAIN fh : Ended(fh[i])

\* Nothing that is left comes before what was printed last.
FloorInv ==
  \A i \in 1 .. Len(fh) : out # <<>> /\ ~Ended(fh[i]) =>
    InOrder(task.sflag, out[Len(out)], from[Len(out)], Head(fh[i].lines), fh[i].pos)

OrderInv ==
  SourcesSorted => /\ \A i \in 1 .. Len(fh) : Sorted(task.sflag, fh[i].lines)
                   /\ OutputOrdered
                   /\ FloorInv

MInv == MergeTypeOK /\ HeapInv /\ OrderInv

LEMMA MergeInitInv == MergeInit => MInv
<1> SUFFICES ASSUME MergeInit PROVE MInv
  OBVIOUS
<1>1. fh = <<>> /\ out = <<>> /\ from = <<>>
  BY DEF MergeInit
<1>2. MergeTypeOK
  BY DEF MergeInit, MergeTypeOK
<1>3. HeapInv
  BY <1>1 DEF MergeInit, HeapInv
<1>4. OrderInv
  BY <1>1 DEF OrderInv, OutputOrdered, FloorInv
<1> QED BY <1>2, <1>3, <1>4 DEF MInv

LEMMA StartInv ==
  ASSUME NEW parts \in Seq(Seq(Line)), NEW stable \in BOOLEAN, NEW unique \in BOOLEAN,
         MergeStart(parts, stable, unique)
  PROVE  MInv'
<1>1. /\ task' = [parts |-> parts, sflag |-> stable, uflag |-> unique]
      /\ fh' = [i \in 1 .. Len(parts) |-> [pos |-> i, lines |-> parts[i]]]
      /\ pushed' = 0 /\ at' = 0 /\ phase' = "push" /\ out' = <<>> /\ from' = <<>>
      /\ Len(parts) \in Nat \ {0}
  BY DEF MergeStart
<1>2. \A i \in 1 .. Len(parts) : parts[i] \in Seq(Line)
  OBVIOUS
<1>3. \A i \in 1 .. Len(parts) : [pos |-> i, lines |-> parts[i]] \in Source
  BY <1>2 DEF Source
<1>4. fh' \in Seq(Source) /\ Len(fh') = Len(parts)
  BY <1>1, <1>3
<1>5. MergeTypeOK'
  BY <1>1, <1>4 DEF MergeTypeOK
<1>6. HeapInv'
  BY <1>1, <1>4 DEF HeapInv, HeapUpto
<1>7. OrderInv'
  <2> SUFFICES ASSUME SourcesSorted'
               PROVE  /\ \A i \in 1 .. Len(fh') : Sorted(stable, fh'[i].lines)
                      /\ OutputOrdered' /\ FloorInv'
    BY <1>1 DEF OrderInv
  <2>1. \A i \in 1 .. Len(parts) : Sorted(stable, parts[i])
    BY <1>1 DEF SourcesSorted
  <2>2. \A i \in 1 .. Len(parts) : fh'[i].lines = parts[i]
    BY <1>1
  <2> QED BY <1>1, <1>4, <2>1, <2>2 DEF OutputOrdered, FloorInv
<1> QED BY <1>5, <1>6, <1>7 DEF MInv

LEMMA TypeFacts ==
  ASSUME MInv
  PROVE  /\ task.sflag \in BOOLEAN /\ Len(fh) \in Nat
         /\ \A i \in 1 .. Len(fh) : fh[i] \in Source
  BY DEF MInv, MergeTypeOK

----------------------------------------------------------------------------
(***************************************************************************)
(* Building the heap.                                                      *)
(***************************************************************************)

LEMMA PushInv == MInv /\ Push => MInv'
<1> SUFFICES ASSUME MInv, Push PROVE MInv'
  OBVIOUS
<1>1. /\ task' = task /\ fh' = fh /\ out' = out /\ from' = from /\ phase = "push"
      /\ pushed \in 0 .. Len(fh) /\ Len(fh) \in Nat /\ fh # <<>>
      /\ \A i \in 2 .. pushed : Edge(i)
  BY DEF MInv, MergeTypeOK, HeapInv, HeapUpto, Push
<1>2. \A i : Edge(i)' <=> Edge(i)
  BY <1>1 DEF Edge
<1>3. OrderInv'
  BY <1>1 DEF MInv, OrderInv, SourcesSorted, OutputOrdered, FloorInv
<1>4. CASE pushed < Len(fh)
  <2>1. pushed' = pushed + 1 /\ at' = pushed + 1 /\ phase' = "swim"
    BY <1>4 DEF Push
  <2>2. MergeTypeOK'
    BY <1>1, <1>4, <2>1 DEF MInv, MergeTypeOK
  <2>3. \A i \in 2 .. pushed' : i \div 2 # at'
    <3> SUFFICES ASSUME NEW i \in 2 .. pushed', i \div 2 = at' PROVE FALSE
      OBVIOUS
    <3> QED BY <1>1, <2>1, Parent
  <2>4. \A i \in 2 .. pushed' : i # at' => Edge(i)'
    <3>1. \A i \in 2 .. pushed' : i # at' => i \in 2 .. pushed
      BY <1>1, <2>1
    <3> QED BY <1>1, <1>2, <3>1
  <2>5. HeapInv'
    BY <1>1, <2>1, <2>3, <2>4 DEF HeapInv, Bridged
  <2> QED BY <1>3, <2>2, <2>5 DEF MInv
<1>5. CASE ~(pushed < Len(fh))
  <2>1. pushed' = pushed /\ at' = at /\ phase' = "print" /\ pushed = Len(fh)
    BY <1>1, <1>5 DEF Push
  <2>2. MergeTypeOK'
    BY <1>1, <2>1 DEF MInv, MergeTypeOK
  <2>3. HeapInv'
    BY <1>1, <1>2, <2>1 DEF HeapInv, HeapUpto
  <2> QED BY <1>3, <2>2, <2>3 DEF MInv
<1> QED BY <1>4, <1>5

\* Swapping two sources changes their places, and nothing else.
LEMMA SwapFacts ==
  ASSUME MInv, NEW i \in 1 .. Len(fh), NEW j \in 1 .. Len(fh), i # j,
         fh' = Swap(i, j), UNCHANGED <<task, out, from>>
  PROVE  /\ fh' \in Seq(Source) /\ Len(fh') = Len(fh)
         /\ fh'[i] = fh[j] /\ fh'[j] = fh[i]
         /\ \A k \in 1 .. Len(fh) : k # i /\ k # j => fh'[k] = fh[k]
         /\ OrderInv'
<1>1. fh \in Seq(Source) /\ fh[i] \in Source /\ fh[j] \in Source
  BY DEF MInv, MergeTypeOK
<1>2. /\ fh' \in Seq(Source) /\ Len(fh') = Len(fh)
      /\ fh'[i] = fh[j] /\ fh'[j] = fh[i]
      /\ \A k \in 1 .. Len(fh) : k # i /\ k # j => fh'[k] = fh[k]
  BY <1>1 DEF Swap
<1>3. \A k \in 1 .. Len(fh) : \E m \in 1 .. Len(fh) : fh'[k] = fh[m]
  BY <1>2
<1>4. OrderInv'
  <2> SUFFICES ASSUME SourcesSorted
               PROVE  /\ \A k \in 1 .. Len(fh') : Sorted(task.sflag, fh'[k].lines)
                      /\ OutputOrdered' /\ FloorInv'
    BY DEF OrderInv, SourcesSorted
  <2>1. OrderInv
    BY DEF MInv
  <2>2. \A k \in 1 .. Len(fh') : Sorted(task.sflag, fh'[k].lines)
    BY <1>2, <1>3, <2>1 DEF OrderInv
  <2>3. OutputOrdered'
    BY <2>1 DEF OrderInv, OutputOrdered
  <2>4. FloorInv'
    BY <1>2, <1>3, <2>1 DEF OrderInv, FloorInv
  <2> QED BY <2>2, <2>3, <2>4
<1> QED BY <1>2, <1>4

LEMMA SwimInv == MInv /\ Swim => MInv'
<1> SUFFICES ASSUME MInv, Swim PROVE MInv'
  OBVIOUS
<1> DEFINE s == task.sflag
           p == at \div 2
<1>1. /\ task' = task /\ pushed' = pushed /\ out' = out /\ from' = from
      /\ phase = "swim" /\ at \in 1 .. pushed /\ pushed \in 0 .. Len(fh) /\ fh # <<>>
      /\ s \in BOOLEAN /\ Len(fh) \in Nat
      /\ \A i \in 1 .. Len(fh) : fh[i] \in Source
      /\ \A i \in 2 .. pushed : i # at => AtMost(s, fh[i \div 2], fh[i])
      /\ \A i \in 2 .. pushed : at > 1 /\ i \div 2 = at => AtMost(s, fh[p], fh[i])
  BY TypeFacts DEF MInv, MergeTypeOK, HeapInv, Bridged, Edge, Swim
<1>2. \A i \in 2 .. pushed : i \div 2 \in 1 .. pushed /\ i \div 2 # i /\ i \in 1 .. Len(fh)
                             /\ i \div 2 \in 1 .. Len(fh)
  BY <1>1, Parent
<1>3. CASE at > 1 /\ Before(fh[at], fh[p])
  <2>1. fh' = Swap(at, p) /\ at' = p /\ phase' = "swim"
    BY <1>1, <1>3 DEF Swim
  <2>2. at \in 2 .. pushed /\ p \in 1 .. pushed /\ p # at /\ p \in 1 .. Len(fh) /\ at \in 1 .. Len(fh)
    BY <1>1, <1>2, <1>3
  <2> HIDE DEF p
  <2>3. /\ fh' \in Seq(Source) /\ Len(fh') = Len(fh)
        /\ fh'[at] = fh[p] /\ fh'[p] = fh[at]
        /\ \A k \in 1 .. Len(fh) : k # at /\ k # p => fh'[k] = fh[k]
        /\ OrderInv'
    BY <1>1, <2>1, <2>2, SwapFacts
  <2>4. MergeTypeOK'
    BY <1>1, <2>1, <2>2, <2>3 DEF MInv, MergeTypeOK
  <2>5. AtMost(s, fh[at], fh[p])
    BY <1>1, <1>3, <2>2, BeforeAtMost
  <2>6. ASSUME NEW i \in 2 .. pushed, i # p
        PROVE  AtMost(s, fh'[i \div 2], fh'[i])
    <3>1. CASE i = at
      BY <2>2, <2>3, <2>5, <3>1 DEF p
    <3>2. CASE i # at /\ i \div 2 = p
      <4>1. AtMost(s, fh[p], fh[i])
        BY <1>1, <3>2
      <4>2. fh'[i] = fh[i] /\ fh'[i \div 2] = fh[at]
        BY <1>2, <2>3, <2>6, <3>2
      <4> QED BY <1>1, <1>2, <2>2, <2>5, <4>1, <4>2, AtMostTransitive
    <3>3. CASE i # at /\ i \div 2 = at
      <4>1. AtMost(s, fh[p], fh[i])
        BY <1>1, <2>2, <3>3
      <4> QED BY <1>2, <2>3, <2>6, <3>3, <4>1
    <3>4. CASE i # at /\ i \div 2 # at /\ i \div 2 # p
      <4>1. fh'[i] = fh[i] /\ fh'[i \div 2] = fh[i \div 2]
        BY <1>2, <2>3, <2>6, <3>4
      <4> QED BY <1>1, <3>4, <4>1
    <3> QED BY <3>1, <3>2, <3>3, <3>4
  <2>7. ASSUME NEW i \in 2 .. pushed, p > 1, i \div 2 = p
        PROVE  AtMost(s, fh'[p \div 2], fh'[i])
    <3>1. p \in 2 .. pushed /\ AtMost(s, fh[p \div 2], fh[p])
      BY <1>1, <2>2, <2>7
    <3>2. p \div 2 \in 1 .. Len(fh) /\ p \div 2 # p /\ p \div 2 # at
      BY <1>1, <1>2, <2>2, <3>1, Parent DEF p
    <3>3. fh'[p \div 2] = fh[p \div 2]
      BY <2>3, <3>2
    <3>4. CASE i = at
      BY <2>3, <3>1, <3>3, <3>4
    <3>5. CASE i # at
      <4>1. AtMost(s, fh[p], fh[i]) /\ i # p
        BY <1>1, <1>2, <2>7, <3>5
      <4>2. fh'[i] = fh[i]
        BY <1>2, <2>3, <3>5, <4>1
      <4> QED BY <1>1, <1>2, <2>2, <3>1, <3>2, <3>3, <4>1, <4>2, AtMostTransitive
    <3> QED BY <3>4, <3>5
  <2>8. HeapInv'
    <3>1. \A i \in 2 .. pushed' : i # at' => Edge(i)'
      BY <1>1, <2>1, <2>6 DEF Edge
    <3>2. Bridged(pushed)'
      BY <1>1, <2>1, <2>7 DEF Bridged
    <3>3. fh' # <<>>
      BY <2>2, <2>3
    <3> QED BY <1>1, <2>1, <2>2, <3>1, <3>2, <3>3 DEF HeapInv, Bridged
  <2> QED BY <2>3, <2>4, <2>8 DEF MInv
<1>4. CASE ~(at > 1 /\ Before(fh[at], fh[p]))
  <2>1. fh' = fh /\ at' = at /\ phase' = "push"
    BY <1>4 DEF Swim
  <2>2. at > 1 => AtMost(s, fh[p], fh[at])
    <3> SUFFICES ASSUME at > 1 PROVE AtMost(s, fh[p], fh[at])
      OBVIOUS
    <3>1. at \in 2 .. pushed
      BY <1>1
    <3> QED BY <1>1, <1>2, <1>4, <3>1, BeforeAtMost
  <2>3. \A i \in 2 .. pushed : AtMost(s, fh[i \div 2], fh[i])
    BY <1>1, <2>2
  <2>4. MergeTypeOK' /\ OrderInv'
    BY <1>1, <2>1
       DEF MInv, MergeTypeOK, OrderInv, SourcesSorted, OutputOrdered, FloorInv
  <2>5. HeapInv'
    BY <1>1, <2>1, <2>3 DEF HeapInv, HeapUpto, Edge
  <2> QED BY <2>4, <2>5 DEF MInv
<1> QED BY <1>3, <1>4

----------------------------------------------------------------------------
(***************************************************************************)
(* Printing the line of the root.                                          *)
(***************************************************************************)

\* What PrintLine reads and writes.
LEMMA PrintFacts ==
  ASSUME MInv, PrintLine
  PROVE  /\ task' = task /\ pushed' = pushed /\ at' = 1 /\ phase' = "sink"
         /\ Len(fh) \in Nat /\ Len(fh) > 0 /\ ~Ended(fh[1])
         /\ fh' \in Seq(Source) /\ Len(fh') = Len(fh)
         /\ fh'[1].pos = fh[1].pos /\ fh'[1].lines = Tail(fh[1].lines)
         /\ \A i \in 2 .. Len(fh) : fh'[i] = fh[i]
         /\ Head(fh[1].lines) \in Line /\ fh[1].pos \in Nat
<1>1. fh \in Seq(Source) /\ fh # <<>> /\ ~Ended(fh[1]) /\ phase = "print"
  BY DEF MInv, MergeTypeOK, HeapInv, PrintLine
<1>2. Len(fh) \in Nat /\ Len(fh) > 0 /\ fh[1] \in Source
  BY <1>1
<1>3. fh[1].pos \in Nat /\ fh[1].lines \in Seq(Line) /\ Head(fh[1].lines) \in Line
  BY <1>1, <1>2, HeadLine
<1>4. Tail(fh[1].lines) \in Seq(Line)
  BY <1>1, <1>3 DEF Ended
<1> DEFINE g == [fh[1] EXCEPT !.lines = Tail(fh[1].lines)]
<1>5. g \in Source /\ g.pos = fh[1].pos /\ g.lines = Tail(fh[1].lines)
  BY <1>2, <1>4 DEF Source
<1>6. fh' = [fh EXCEPT ![1] = g]
  BY DEF PrintLine
<1> HIDE DEF g
<1>7. /\ fh' \in Seq(Source) /\ Len(fh') = Len(fh) /\ fh'[1] = g
      /\ \A i \in 2 .. Len(fh) : fh'[i] = fh[i]
  BY <1>1, <1>2, <1>5, <1>6
<1> QED BY <1>1, <1>2, <1>3, <1>5, <1>7 DEF PrintLine

\* No line that is left comes before the one at the root.
LEMMA RootFloor ==
  ASSUME MInv, PrintLine, SourcesSorted
  PROVE  \A i \in 1 .. Len(fh') : ~Ended(fh'[i]) =>
           InOrder(task.sflag, Head(fh[1].lines), fh[1].pos, Head(fh'[i].lines), fh'[i].pos)
<1> DEFINE s == task.sflag
<1>1. s \in BOOLEAN /\ \A i \in 1 .. Len(fh) : fh[i] \in Source
  BY TypeFacts
<1>2. fh \in Seq(Source) /\ \A i \in 2 .. Len(fh) : AtMost(s, fh[i \div 2], fh[i])
  BY DEF MInv, MergeTypeOK, HeapInv, HeapUpto, Edge, PrintLine
<1>3. \A i \in 1 .. Len(fh) : AtMost(s, fh[1], fh[i])
  BY <1>1, <1>2, RootFirst
<1> TAKE i \in 1 .. Len(fh')
<1> HAVE ~Ended(fh'[i])
<1>4. CASE i # 1
  <2>1. fh'[i] = fh[i] /\ AtMost(s, fh[1], fh[i])
    BY <1>3, <1>4, PrintFacts
  <2> QED BY <2>1 DEF AtMost
<1>5. CASE i = 1
  <2> DEFINE q == fh[1].lines
  <2>1. /\ fh'[1].pos = fh[1].pos /\ fh'[1].lines = Tail(q) /\ q # <<>>
        /\ fh[1] \in Source /\ fh[1].pos \in Nat /\ 1 \in 1 .. Len(fh)
    BY <1>1, PrintFacts DEF Ended
  <2>2. q \in Seq(Line) /\ Tail(q) # <<>>
    BY <1>5, <2>1, HeadLine DEF Ended
  <2>3. Sorted(s, q)
    BY <2>1 DEF MInv, OrderInv
  <2> HIDE DEF q
  <2>4. /\ q[1] \in Line /\ q[2] \in Line /\ Head(q) = q[1] /\ Head(Tail(q)) = q[2]
        /\ 1 \in 1 .. Len(q) - 1
    BY <2>1, <2>2
  <2>5. Coll(s, q[1], q[1 + 1]) <= 0
    BY <2>3, <2>4 DEF Sorted
  <2>6. InOrder(s, q[1], fh[1].pos, q[2], fh[1].pos)
    BY <1>1, <2>1, <2>4, <2>5, OrderFacts
  <2> QED BY <1>5, <2>1, <2>4, <2>6 DEF q
<1> QED BY <1>4, <1>5

LEMMA PrintOrder ==
  ASSUME MInv, PrintLine, SourcesSorted
  PROVE  OutputOrdered' /\ FloorInv'
<1> DEFINE s == task.sflag
           l == Head(fh[1].lines)
           p == fh[1].pos
           n == Len(out)
<1>1. /\ s \in BOOLEAN /\ out \in Seq(Line) /\ from \in Seq(Nat) /\ Len(from) = n
      /\ n \in Nat /\ OutputOrdered /\ FloorInv
  BY DEF MInv, MergeTypeOK, OrderInv
<1>2. /\ task' = task /\ l \in Line /\ p \in Nat /\ 1 \in 1 .. Len(fh) /\ ~Ended(fh[1])
      /\ Len(fh') = Len(fh) /\ Len(fh) \in Nat /\ fh' \in Seq(Source)
  BY PrintFacts
<1>3. out # <<>> => /\ n > 0 /\ out[n] \in Line /\ from[n] \in Nat
                    /\ InOrder(s, out[n], from[n], l, p)
  BY <1>1, <1>2 DEF FloorInv
<1>4. \A i \in 1 .. n : out[i] \in Line /\ from[i] \in Nat
  BY <1>1
<1>5. \A i \in 1 .. Len(fh') : ~Ended(fh'[i]) => InOrder(s, l, p, Head(fh'[i].lines), fh'[i].pos)
  BY RootFloor
<1>6. \A i \in 1 .. Len(fh') : /\ fh'[i].pos \in Nat
                               /\ ~Ended(fh'[i]) => Head(fh'[i].lines) \in Line
  BY <1>2, HeadLine
<1>7. CASE Printed(l)
  <2>1. out' = Append(out, l) /\ from' = Append(from, p)
    BY <1>7 DEF PrintLine
  <2> HIDE DEF l, p, s
  <2>2. /\ Len(out') = n + 1 /\ out'[n + 1] = l /\ from'[n + 1] = p
        /\ \A i \in 1 .. n : out'[i] = out[i] /\ from'[i] = from[i]
    BY <1>1, <2>1
  <2>3. ASSUME NEW i \in 1 .. n
        PROVE  /\ InOrder(s, out[i], from[i], l, p)
               /\ task.uflag => Coll(s, out[i], l) # 0
    <3>1. /\ n \in 1 .. n /\ out # <<>> /\ out[i] \in Line /\ from[i] \in Nat
          /\ out[n] \in Line /\ from[n] \in Nat /\ InOrder(s, out[n], from[n], l, p)
      BY <1>1, <1>3, <1>4
    <3>2. task.uflag => Coll(s, out[n], l) # 0
      BY <1>7, <3>1 DEF Printed, l, s
    <3>3. CASE i = n
      BY <3>1, <3>2, <3>3
    <3>4. CASE i # n
      <4>1. i < n
        BY <1>1, <3>4
      <4>2. InOrder(s, out[i], from[i], out[n], from[n])
        BY <1>1, <3>1, <4>1 DEF OutputOrdered, s
      <4>3. InOrder(s, out[i], from[i], l, p)
        BY <1>1, <1>2, <3>1, <4>2, OrderFacts
      <4>4. Coll(s, out[i], out[n]) <= 0 /\ Coll(s, out[n], l) <= 0 /\ Coll(s, out[n], l) \in Int
        BY <1>1, <1>2, <3>1, <4>2, OrderFacts
      <4>5. Coll(s, out[n], l) < 0 => Coll(s, out[i], l) < 0
        BY <1>1, <1>2, <3>1, <4>4, OrderFacts
      <4>6. task.uflag => Coll(s, out[n], l) < 0
        BY <3>2, <4>4
      <4> HIDE DEF n
      <4>7. task.uflag => Coll(s, out[i], l) # 0
        BY <4>5, <4>6
      <4> QED BY <4>3, <4>7
    <3> QED BY <3>3, <3>4
  <2>4. ASSUME NEW i \in 1 .. n + 1, NEW j \in 1 .. n + 1, i < j
        PROVE  /\ InOrder(s, out'[i], from'[i], out'[j], from'[j])
               /\ task.uflag => Coll(s, out'[i], out'[j]) # 0
    <3>1. i \in 1 .. n
      BY <1>1, <2>4
    <3>2. CASE j = n + 1
      BY <2>2, <2>3, <3>1, <3>2
    <3>3. CASE j # n + 1
      <4>1. j \in 1 .. n
        BY <1>1, <3>3
      <4> QED BY <1>1, <2>2, <2>4, <3>1, <4>1 DEF OutputOrdered, s
    <3> QED BY <3>2, <3>3
  <2>5. OutputOrdered'
    BY <1>2, <2>2, <2>4 DEF OutputOrdered, s
  <2>6. FloorInv'
    BY <1>2, <1>5, <2>2 DEF FloorInv, s
  <2> QED BY <2>5, <2>6
<1>8. CASE ~Printed(l)
  <2>1. out' = out /\ from' = from
    BY <1>8 DEF PrintLine
  <2>2. out # <<>>
    BY <1>8 DEF Printed
  <2>3. OutputOrdered'
    BY <1>1, <1>2, <2>1 DEF OutputOrdered
  <2>4. ASSUME NEW i \in 1 .. Len(fh'), ~Ended(fh'[i])
        PROVE  InOrder(s, out[n], from[n], Head(fh'[i].lines), fh'[i].pos)
    <3> DEFINE m == Head(fh'[i].lines)
               r == fh'[i].pos
    <3>1. m \in Line /\ r \in Nat /\ InOrder(s, l, p, m, r)
      BY <1>5, <1>6, <2>4
    <3>2. out[n] \in Line /\ from[n] \in Nat /\ InOrder(s, out[n], from[n], l, p)
      BY <1>3, <2>2
    <3>3. s \in BOOLEAN /\ l \in Line /\ p \in Nat
      BY <1>1, <1>2
    <3> HIDE DEF l, p, s, n, m, r
    <3>4. InOrder(s, out[n], from[n], m, r)
      BY <3>1, <3>2, <3>3, OrderFacts
    <3> QED BY <3>4 DEF m, r
  <2>5. FloorInv'
    BY <1>2, <2>1, <2>4 DEF FloorInv
  <2> QED BY <2>3, <2>5
<1> QED BY <1>7, <1>8

LEMMA PrintInv == MInv /\ PrintLine => MInv'
<1> SUFFICES ASSUME MInv, PrintLine PROVE MInv'
  OBVIOUS
<1>1. /\ task' = task /\ pushed' = pushed /\ at' = 1 /\ phase' = "sink"
      /\ Len(fh) \in Nat /\ Len(fh) > 0 /\ fh' \in Seq(Source) /\ Len(fh') = Len(fh)
      /\ fh'[1].lines = Tail(fh[1].lines) /\ ~Ended(fh[1])
      /\ \A i \in 2 .. Len(fh) : fh'[i] = fh[i]
      /\ Head(fh[1].lines) \in Line /\ fh[1].pos \in Nat
  BY PrintFacts
<1>2. MergeTypeOK'
  <2>1. out' \in Seq(Line) /\ from' \in Seq(Nat) /\ Len(from') = Len(out')
    <3>1. out \in Seq(Line) /\ from \in Seq(Nat) /\ Len(from) = Len(out)
      BY DEF MInv, MergeTypeOK
    <3>2. CASE Printed(Head(fh[1].lines))
      <4>1. /\ out' = Append(out, Head(fh[1].lines))
            /\ from' = Append(from, fh[1].pos)
        BY <3>2 DEF PrintLine
      <4> QED BY <1>1, <3>1, <4>1
    <3>3. CASE ~Printed(Head(fh[1].lines))
      BY <3>1, <3>3 DEF PrintLine
    <3> QED BY <3>2, <3>3
  <2> QED BY <1>1, <2>1 DEF MInv, MergeTypeOK
<1>3. HeapInv'
  <2>1. ASSUME NEW i \in 2 .. Len(fh), i \div 2 # 1
        PROVE  AtMost(task.sflag, fh'[i \div 2], fh'[i])
    <3>1. i \div 2 \in 2 .. Len(fh)
      BY <1>1, <2>1, Parent
    <3>2. AtMost(task.sflag, fh[i \div 2], fh[i])
      BY DEF MInv, HeapInv, HeapUpto, Edge, PrintLine
    <3> QED BY <1>1, <3>1, <3>2
  <2>2. fh' # <<>>
    BY <1>1
  <2> QED BY <1>1, <2>1, <2>2 DEF HeapInv, Edge, Bridged
<1>4. OrderInv'
  <2> SUFFICES ASSUME SourcesSorted
               PROVE  /\ \A i \in 1 .. Len(fh') : Sorted(task.sflag, fh'[i].lines)
                      /\ OutputOrdered' /\ FloorInv'
    BY <1>1 DEF OrderInv, SourcesSorted
  <2>1. \A i \in 1 .. Len(fh) : Sorted(task.sflag, fh[i].lines)
    BY DEF MInv, OrderInv
  <2>2. fh[1].lines \in Seq(Line) /\ fh[1].lines # <<>>
    BY <1>1, TypeFacts, HeadLine DEF Ended
  <2>3. Sorted(task.sflag, Tail(fh[1].lines))
    <3> DEFINE q == fh[1].lines
    <3>1. Sorted(task.sflag, q)
      BY <1>1, <2>1
    <3> HIDE DEF q
    <3>2. /\ Len(Tail(q)) = Len(q) - 1 /\ Len(q) \in Nat
          /\ \A i \in 1 .. Len(q) - 1 : Tail(q)[i] = q[i + 1]
      BY <2>2 DEF q
    <3>3. ASSUME NEW i \in 1 .. Len(Tail(q)) - 1
          PROVE  Coll(task.sflag, Tail(q)[i], Tail(q)[i + 1]) <= 0
      <4>1. i + 1 \in 1 .. Len(q) - 1 /\ i \in 1 .. Len(q) - 1
        BY <3>2
      <4> QED BY <3>1, <3>2, <4>1 DEF Sorted
    <3> QED BY <3>3 DEF Sorted, q
  <2>4. \A i \in 1 .. Len(fh') : Sorted(task.sflag, fh'[i].lines)
    <3> TAKE i \in 1 .. Len(fh')
    <3>1. CASE i = 1
      BY <1>1, <2>3, <3>1
    <3>2. CASE i # 1
      BY <1>1, <2>1, <3>2
    <3> QED BY <3>1, <3>2
  <2> QED BY <2>4, PrintOrder
<1> QED BY <1>2, <1>3, <1>4 DEF MInv

----------------------------------------------------------------------------
(***************************************************************************)
(* Restoring the heap.                                                     *)
(***************************************************************************)

LEMMA SinkInv == MInv /\ Sink => MInv'
<1> SUFFICES ASSUME MInv, Sink PROVE MInv'
  OBVIOUS
<1> DEFINE s == task.sflag
           n == Len(fh)
           c == Child(at)
<1>1. /\ task' = task /\ pushed' = pushed /\ out' = out /\ from' = from
      /\ phase = "sink" /\ at \in 1 .. n /\ fh # <<>> /\ s \in BOOLEAN /\ n \in Nat
      /\ \A i \in 1 .. n : fh[i] \in Source
      /\ \A i \in 2 .. n : i \div 2 # at => AtMost(s, fh[i \div 2], fh[i])
      /\ \A i \in 2 .. n : at > 1 /\ i \div 2 = at => AtMost(s, fh[at \div 2], fh[i])
  BY TypeFacts DEF MInv, MergeTypeOK, HeapInv, Bridged, Edge, Sink
<1>2. \A i \in 2 .. n : /\ i \div 2 \in 1 .. n /\ i \div 2 # i /\ i \in 1 .. n
                        /\ i \div 2 = at <=> (i = 2 * at \/ i = 2 * at + 1)
  BY <1>1, Parent
<1>3. 2 * at <= n => c \in 2 .. n /\ c \div 2 = at
  <2> SUFFICES ASSUME 2 * at <= n PROVE c \in 2 .. n /\ c \div 2 = at
    OBVIOUS
  <2>1. (c = 2 * at \/ c = 2 * at + 1) /\ c <= n
    BY <1>1 DEF Child
  <2>2. at \in Nat /\ at >= 1 /\ n \in Nat
    BY <1>1
  <2> HIDE DEF c, n
  <2>3. c \in 2 .. n
    BY <2>1, <2>2
  <2> QED BY <1>2, <2>1, <2>3
\* The other child does not come before c.
<1>4. \A i \in 2 .. n : i \div 2 = at => AtMost(s, fh[c], fh[i])
  <2> SUFFICES ASSUME NEW i \in 2 .. n, i \div 2 = at PROVE AtMost(s, fh[c], fh[i])
    OBVIOUS
  <2>1. (i = 2 * at \/ i = 2 * at + 1) /\ 2 * at \in 2 .. n /\ fh[2 * at] \in Source
    BY <1>1, <1>2
  <2>2. CASE 2 * at < n /\ Before(fh[2 * at + 1], fh[2 * at])
    <3>1. c = 2 * at + 1 /\ fh[2 * at + 1] \in Source
      BY <1>1, <2>2 DEF Child
    <3>2. AtMost(s, fh[2 * at + 1], fh[2 * at])
      BY <1>1, <2>1, <2>2, <3>1, BeforeAtMost
    <3>3. ~Before(fh[2 * at + 1], fh[2 * at + 1]) => AtMost(s, fh[2 * at + 1], fh[2 * at + 1])
      BY <1>1, <3>1, BeforeAtMost
    <3>4. Before(fh[2 * at + 1], fh[2 * at + 1]) => AtMost(s, fh[2 * at + 1], fh[2 * at + 1])
      BY <1>1, <3>1, BeforeAtMost
    <3> QED BY <2>1, <3>1, <3>2, <3>3, <3>4
  <2>3. CASE ~(2 * at < n /\ Before(fh[2 * at + 1], fh[2 * at]))
    <3>1. c = 2 * at
      BY <2>3 DEF Child
    <3>2. CASE i = 2 * at
      <4>1. /\ ~Before(fh[i], fh[i]) => AtMost(s, fh[i], fh[i])
            /\ Before(fh[i], fh[i]) => AtMost(s, fh[i], fh[i])
        BY <1>1, <2>1, <3>2, BeforeAtMost
      <4> QED BY <3>1, <3>2, <4>1
    <3>3. CASE i = 2 * at + 1
      <4>1. ~Before(fh[2 * at + 1], fh[2 * at]) /\ fh[2 * at + 1] \in Source
        BY <1>1, <2>3, <3>3
      <4> QED BY <1>1, <2>1, <3>1, <3>3, <4>1, BeforeAtMost
    <3> QED BY <2>1, <3>2, <3>3
  <2> QED BY <2>2, <2>3
<1>5. CASE 2 * at <= n /\ Before(fh[c], fh[at])
  <2>1. fh' = Swap(at, c) /\ at' = c /\ phase' = "sink"
    BY <1>1, <1>5 DEF Sink
  <2>2. c \in 2 .. n /\ c \in 1 .. n /\ c \div 2 = at /\ c # at /\ c > 1
    BY <1>1, <1>2, <1>3, <1>5
  <2> HIDE DEF c
  <2>3. /\ fh' \in Seq(Source) /\ Len(fh') = n
        /\ fh'[at] = fh[c] /\ fh'[c] = fh[at]
        /\ \A k \in 1 .. n : k # at /\ k # c => fh'[k] = fh[k]
        /\ OrderInv'
    BY <1>1, <2>1, <2>2, SwapFacts
  <2>4. MergeTypeOK'
    BY <1>1, <2>1, <2>2, <2>3 DEF MInv, MergeTypeOK
  <2>5. AtMost(s, fh[c], fh[at])
    BY <1>1, <1>5, <2>2, BeforeAtMost
  <2>6. ASSUME NEW i \in 2 .. n, i \div 2 # c
        PROVE  AtMost(s, fh'[i \div 2], fh'[i])
    <3>1. CASE i = c
      BY <2>2, <2>3, <2>5, <3>1
    <3>2. CASE i # c /\ i \div 2 = at
      <4>1. fh'[i] = fh[i] /\ fh'[i \div 2] = fh[c]
        BY <1>2, <2>3, <2>6, <3>2
      <4> QED BY <1>4, <3>2, <4>1
    <3>3. CASE i = at
      <4>1. AtMost(s, fh[at \div 2], fh[c])
        BY <1>1, <2>2, <3>3
      <4>2. fh'[i \div 2] = fh[at \div 2] /\ fh'[i] = fh[c]
        BY <1>2, <2>3, <2>6, <3>3
      <4> QED BY <3>3, <4>1, <4>2
    <3>4. CASE i # c /\ i # at /\ i \div 2 # at
      <4>1. fh'[i] = fh[i] /\ fh'[i \div 2] = fh[i \div 2]
        BY <1>2, <2>3, <2>6, <3>4
      <4> QED BY <1>1, <3>4, <4>1
    <3> QED BY <3>1, <3>2, <3>3, <3>4
  <2>7. ASSUME NEW i \in 2 .. n, i \div 2 = c
        PROVE  AtMost(s, fh'[c \div 2], fh'[i])
    <3>1. AtMost(s, fh[c], fh[i]) /\ i # c /\ i # at
      <4>1. i \div 2 # at /\ i > c
        BY <2>2, <2>7, Parent
      <4>2. c > at
        BY <1>1, <2>2, Parent
      <4> QED BY <1>1, <2>2, <2>7, <4>1, <4>2
    <3> QED BY <1>2, <2>2, <2>3, <2>7, <3>1
  <2>8. HeapInv'
    <3>1. \A i \in 2 .. Len(fh') : i \div 2 # at' => Edge(i)'
      BY <1>1, <2>1, <2>3, <2>6 DEF Edge
    <3>2. Bridged(Len(fh))'
      BY <1>1, <2>1, <2>3, <2>7 DEF Bridged
    <3>3. fh' # <<>> /\ at' \in 1 .. Len(fh')
      BY <2>1, <2>2, <2>3
    <3> QED BY <1>1, <2>1, <3>1, <3>2, <3>3 DEF HeapInv
  <2> QED BY <2>3, <2>4, <2>8 DEF MInv
<1>6. CASE ~(2 * at <= n /\ Before(fh[c], fh[at]))
  <2>1. fh' = fh /\ at' = at /\ phase' = "print"
    BY <1>6 DEF Sink
  <2>2. ASSUME NEW i \in 2 .. n, i \div 2 = at
        PROVE  AtMost(s, fh[at], fh[i])
    <3>1. 2 * at <= n /\ fh[i] \in Source /\ fh[at] \in Source
      BY <1>1, <1>2, <2>2
    <3>2. c \in 1 .. n /\ fh[c] \in Source /\ ~Before(fh[c], fh[at])
      BY <1>1, <1>3, <1>6, <3>1
    <3>3. AtMost(s, fh[at], fh[c])
      BY <1>1, <3>1, <3>2, BeforeAtMost
    <3>4. AtMost(s, fh[c], fh[i])
      BY <1>4, <2>2
    <3> QED BY <1>1, <3>1, <3>2, <3>3, <3>4, AtMostTransitive
  <2>3. \A i \in 2 .. n : AtMost(s, fh[i \div 2], fh[i])
    BY <1>1, <2>2
  <2>4. MergeTypeOK' /\ OrderInv'
    BY <1>1, <2>1
       DEF MInv, MergeTypeOK, OrderInv, SourcesSorted, OutputOrdered, FloorInv
  <2>5. HeapInv'
    BY <1>1, <2>1, <2>3 DEF HeapInv, HeapUpto, Edge
  <2> QED BY <2>4, <2>5 DEF MInv
<1> QED BY <1>5, <1>6

LEMMA EndInv == MInv /\ MergeEnd => MInv'
<1> SUFFICES ASSUME MInv, MergeEnd PROVE MInv'
  OBVIOUS
<1>1. /\ UNCHANGED <<task, fh, pushed, at, out, from>> /\ phase = "print" /\ phase' = "idle"
      /\ Ended(fh[1]) /\ fh \in Seq(Source) /\ task.sflag \in BOOLEAN
      /\ \A i \in 2 .. Len(fh) : AtMost(task.sflag, fh[i \div 2], fh[i])
  BY TypeFacts DEF MInv, MergeTypeOK, HeapInv, HeapUpto, Edge, MergeEnd
<1>2. \A i \in 1 .. Len(fh) : AtMost(task.sflag, fh[1], fh[i])
  BY <1>1, RootFirst
<1>3. \A i \in 1 .. Len(fh) : Ended(fh[i])
  BY <1>1, <1>2 DEF AtMost
<1>4. MergeTypeOK' /\ OrderInv'
  BY <1>1 DEF MInv, MergeTypeOK, OrderInv, SourcesSorted, OutputOrdered, FloorInv
<1>5. HeapInv'
  BY <1>1, <1>3 DEF HeapInv
<1> QED BY <1>4, <1>5 DEF MInv

----------------------------------------------------------------------------
(***************************************************************************)
(* The theorems.                                                           *)
(***************************************************************************)

LEMMA NextInv == MInv /\ [MergeNext]_mvars => MInv'
<1> SUFFICES ASSUME MInv, [MergeNext]_mvars PROVE MInv'
  OBVIOUS
<1>1. CASE MergeStep
  BY <1>1, PushInv, SwimInv, PrintInv, SinkInv, EndInv DEF MergeStep
<1>2. CASE \E parts \in Seq(Seq(Line)), stable, unique \in BOOLEAN :
             MergeStart(parts, stable, unique)
  BY <1>2, StartInv
<1>3. CASE UNCHANGED mvars
  BY <1>3 DEF mvars, MInv, MergeTypeOK, HeapInv, HeapUpto, Edge, Bridged, OrderInv,
              SourcesSorted, OutputOrdered, FloorInv
<1> QED BY <1>1, <1>2, <1>3 DEF MergeNext

\* The invariant of the merge of any number of sources of any length: the heap of
\* file_headers_merge() and merge_sub_lists() is in order, up to the one source
\* that swims or sinks, and what was printed comes before what is left.
THEOREM MergeInvariance == MergeSpec => []MInv
<1> QED BY MergeInitInv, NextInv, PTL DEF MergeSpec

\* For all sources that are sorted, the output of the merge is sorted, stable, and
\* unique with -u; for all sources, the merge ends when no line is left
\* (file_headers_merge(), merge_sub_lists()).
THEOREM MergeOrderedHolds == MergeSpec => []MergeOrdered
<1>1. MInv => MergeOrdered
  BY DEF MInv, HeapInv, OrderInv, MergeOrdered
<1> QED BY <1>1, MergeInvariance, PTL

----------------------------------------------------------------------------
(***************************************************************************)
(* Where the output comes from: every line of every source, once.  The     *)
(* operators take t for task, h for fh, o for out and r for from.          *)
(***************************************************************************)

\* How many lines of the source f have been read.
ReadOf(t, f) == Len(t.parts[f.pos]) - Len(f.lines)

\* Each source is in the heap once, and holds the rest of its part.
SourcesKept(t, h) ==
  /\ Len(h) = Len(t.parts)
  /\ \A x \in 1 .. Len(h) :
       /\ h[x].pos \in 1 .. Len(h)
       /\ ReadOf(t, h[x]) \in Nat
       /\ \A k \in 1 .. Len(h[x].lines) : h[x].lines[k] = t.parts[h[x].pos][ReadOf(t, h[x]) + k]
  /\ \A x, y \in 1 .. Len(h) : h[x].pos = h[y].pos => x = y
  /\ \A m \in 1 .. Len(h) : \E x \in 1 .. Len(h) : h[x].pos = m

\* The line q of the source m has come out, or, with -u, one that compares equal
\* and is not later.
IsOut(t, o, r, w, m, q) ==
  \E k \in 1 .. Len(o) :
    /\ Coll(t.sflag, o[k], t.parts[m][q]) = 0
    /\ r[k] < m \/ (r[k] = m /\ w[k] <= q)
    /\ t.uflag \/ (r[k] = m /\ w[k] = q)

AllSorted(t) == \A i \in DOMAIN t.parts : Sorted(t.sflag, t.parts[i])

\* The line k of the output is the line w[k] of its source.
Traced(t, h, o, r, w) ==
  /\ \A k \in 1 .. Len(o) :
       /\ r[k] \in 1 .. Len(t.parts) /\ w[k] \in 1 .. Len(t.parts[r[k]])
       /\ o[k] = t.parts[r[k]][w[k]]
  /\ \A k \in 1 .. Len(o), x \in 1 .. Len(h) : r[k] = h[x].pos => w[k] <= ReadOf(t, h[x])
  /\ \A j, k \in 1 .. Len(o) : j < k /\ r[j] = r[k] => w[j] < w[k]
  /\ AllSorted(t) => \A x \in 1 .. Len(h), q \in Nat \ {0} :
                       q <= ReadOf(t, h[x]) => IsOut(t, o, r, w, h[x].pos, q)

Origin(t, h, o, r) == SourcesKept(t, h) /\ \E w \in [1 .. Len(o) -> Nat] : Traced(t, h, o, r, w)

OriginInv == Origin(task, fh, out, from)

\* Swapping two sources changes nothing of it.
LEMMA SwapOrigin ==
  ASSUME NEW t, NEW h, NEW o, NEW r, Origin(t, h, o, r), Len(h) \in Nat,
         NEW i \in 1 .. Len(h), NEW j \in 1 .. Len(h), i # j,
         NEW e, Len(e) = Len(h), e[i] = h[j], e[j] = h[i],
         \A k \in 1 .. Len(h) : k # i /\ k # j => e[k] = h[k]
  PROVE  Origin(t, e, o, r)
<1> DEFINE n == Len(h)
           g == [x \in 1 .. n |-> IF x = i THEN j ELSE IF x = j THEN i ELSE x]
<1>1. /\ \A x \in 1 .. n : g[x] \in 1 .. n /\ e[x] = h[g[x]] /\ g[g[x]] = x
      /\ \A x, y \in 1 .. n : g[x] = g[y] => x = y
  OBVIOUS
<1> HIDE DEF g
<1>2. SourcesKept(t, e)
  <2>1. SourcesKept(t, h)
    BY DEF Origin
  <2>2. \A m \in 1 .. n : \E x \in 1 .. n : e[x].pos = m
    <3> SUFFICES ASSUME NEW m \in 1 .. n PROVE \E x \in 1 .. n : e[x].pos = m
      OBVIOUS
    <3>1. PICK x \in 1 .. n : h[x].pos = m
      BY <2>1 DEF SourcesKept
    <3>2. g[x] \in 1 .. n /\ e[g[x]] = h[x]
      BY <1>1
    <3> QED BY <3>1, <3>2
  <2>3. \A x, y \in 1 .. n : e[x].pos = e[y].pos => x = y
    <3> SUFFICES ASSUME NEW x \in 1 .. n, NEW y \in 1 .. n, e[x].pos = e[y].pos PROVE x = y
      OBVIOUS
    <3>1. PICK a \in 1 .. n, b \in 1 .. n : a = g[x] /\ b = g[y] /\ h[a].pos = h[b].pos
      BY <1>1
    <3>2. \A u, v \in 1 .. n : h[u].pos = h[v].pos => u = v
      BY <2>1 DEF SourcesKept
    <3>3. a = b
      BY <3>1, <3>2
    <3>4. g[x] = g[y]
      BY <3>1, <3>3
    <3>5. \A u, v \in 1 .. n : g[u] = g[v] => u = v
      BY <1>1
    <3> HIDE DEF n
    <3> QED BY <3>4, <3>5
  <2>4. ASSUME NEW x \in 1 .. n
        PROVE  /\ e[x].pos \in 1 .. n
               /\ ReadOf(t, e[x]) \in Nat
               /\ \A k \in 1 .. Len(e[x].lines) :
                    e[x].lines[k] = t.parts[e[x].pos][ReadOf(t, e[x]) + k]
    <3>1. PICK y \in 1 .. n : e[x] = h[y]
      BY <1>1
    <3>2. /\ h[y].pos \in 1 .. n /\ ReadOf(t, h[y]) \in Nat
          /\ \A k \in 1 .. Len(h[y].lines) :
               h[y].lines[k] = t.parts[h[y].pos][ReadOf(t, h[y]) + k]
      BY <2>1 DEF SourcesKept
    <3> QED BY <3>1, <3>2
  <2> QED BY <2>1, <2>2, <2>3, <2>4 DEF SourcesKept
<1>3. PICK w \in [1 .. Len(o) -> Nat] : Traced(t, h, o, r, w)
  BY DEF Origin
<1>4. Traced(t, e, o, r, w)
  <2>1. \A k \in 1 .. Len(o), x \in 1 .. n : r[k] = e[x].pos => w[k] <= ReadOf(t, e[x])
    BY <1>1, <1>3 DEF Traced
  <2>2. AllSorted(t) => \A x \in 1 .. n, q \in Nat \ {0} :
                          q <= ReadOf(t, e[x]) => IsOut(t, o, r, w, e[x].pos, q)
    BY <1>1, <1>3 DEF Traced
  <2> QED BY <1>3, <2>1, <2>2 DEF Traced
<1> QED BY <1>2, <1>3, <1>4 DEF Origin

LEMMA StartOrigin ==
  ASSUME NEW parts \in Seq(Seq(Line)), NEW stable, NEW unique, MergeStart(parts, stable, unique)
  PROVE  OriginInv'
<1>1. /\ task'.parts = parts
      /\ fh' = [i \in 1 .. Len(parts) |-> [pos |-> i, lines |-> parts[i]]]
      /\ out' = <<>> /\ Len(parts) \in Nat
  BY DEF MergeStart
<1>2. PICK t, h, o, r : t = task' /\ h = fh' /\ o = out' /\ r = from'
  OBVIOUS
<1>3. Len(h) = Len(parts) /\ \A x \in 1 .. Len(parts) : h[x].pos = x /\ h[x].lines = parts[x]
  <2> DEFINE n == Len(parts)
             q(i) == [pos |-> i, lines |-> parts[i]]
  <2>1. h = [i \in 1 .. n |-> q(i)] /\ n \in Nat
    BY <1>1, <1>2
  <2>2. \A i : q(i).pos = i /\ q(i).lines = parts[i]
    OBVIOUS
  <2> HIDE DEF n, q
  <2>3. Len(h) = n /\ \A x \in 1 .. n : h[x].pos = x /\ h[x].lines = parts[x]
    BY <2>1, <2>2
  <2> QED BY <2>3 DEF n
<1>4. t.parts = parts /\ \A x \in 1 .. Len(parts) : Len(parts[x]) \in Nat /\ ReadOf(t, h[x]) = 0
  BY <1>1, <1>2, <1>3 DEF ReadOf
<1>5. SourcesKept(t, h)
  <2> DEFINE n == Len(parts)
  <2>1. n \in Nat /\ Len(h) = n /\ Len(t.parts) = n
    BY <1>1, <1>3, <1>4
  <2>2. ASSUME NEW x \in 1 .. n
        PROVE  /\ h[x].pos = x /\ ReadOf(t, h[x]) = 0
               /\ \A k \in 1 .. Len(h[x].lines) :
                    h[x].lines[k] = t.parts[h[x].pos][ReadOf(t, h[x]) + k]
    <3>1. h[x].pos = x /\ h[x].lines = t.parts[x] /\ ReadOf(t, h[x]) = 0
      BY <1>3, <1>4
    <3>2. \A k \in 1 .. Len(h[x].lines) : 0 + k = k
      BY <1>4, <3>1
    <3> QED BY <3>1, <3>2
  <2> HIDE DEF n
  <2> QED BY <2>1, <2>2 DEF SourcesKept
<1> DEFINE w == [k \in 1 .. 0 |-> 0]
<1>6. w \in [1 .. Len(o) -> Nat] /\ Len(o) = 0
  BY <1>1, <1>2
<1>7. Traced(t, h, o, r, w)
  BY <1>3, <1>4, <1>6 DEF Traced
<1>8. Origin(t, h, o, r)
  BY <1>5, <1>6, <1>7 DEF Origin
<1> QED BY <1>2, <1>8 DEF OriginInv

\* What is out stays out.
LEMMA OutStays ==
  ASSUME NEW t, NEW o, NEW r, NEW w, NEW o2, NEW r2, NEW w2, Len(o) \in Nat, Len(o2) \in Nat,
         Len(o) <= Len(o2),
         \A k \in 1 .. Len(o) : o2[k] = o[k] /\ r2[k] = r[k] /\ w2[k] = w[k],
         NEW m, NEW q, IsOut(t, o, r, w, m, q)
  PROVE  IsOut(t, o2, r2, w2, m, q)
<1>1. PICK k \in 1 .. Len(o) : /\ Coll(t.sflag, o[k], t.parts[m][q]) = 0
                               /\ r[k] < m \/ (r[k] = m /\ w[k] <= q)
                               /\ t.uflag \/ (r[k] = m /\ w[k] = q)
  BY DEF IsOut
<1>2. k \in 1 .. Len(o2) /\ o2[k] = o[k] /\ r2[k] = r[k] /\ w2[k] = w[k]
  OBVIOUS
<1> QED BY <1>1, <1>2 DEF IsOut

\* The root goes on to its next line: from the heap h to e.
RootRead(t, h, e, o, r, l) ==
  /\ t.sflag \in BOOLEAN /\ t.parts \in Seq(Seq(Line))
  /\ h \in Seq(Source) /\ e \in Seq(Source) /\ Len(e) = Len(h) /\ Len(h) > 0
  /\ e[1].pos = h[1].pos /\ h[1].lines # <<>> /\ e[1].lines = Tail(h[1].lines)
  /\ \A x \in 2 .. Len(h) : e[x] = h[x]
  /\ o \in Seq(Line) /\ r \in Seq(Nat) /\ Len(r) = Len(o)
  /\ l \in Line /\ l = Head(h[1].lines)

\* The line l of the root is printed, or left out as a repetition.
RootShown(t, h, o, r, l, o2, r2) ==
  \/ o2 = Append(o, l) /\ r2 = Append(r, h[1].pos)
  \/ /\ o2 = o /\ r2 = r /\ t.uflag /\ o # <<>> /\ Coll(t.sflag, o[Len(o)], l) = 0
     /\ AllSorted(t) => r[Len(o)] <= h[1].pos

LEMMA PrintOrigin ==
  ASSUME NEW t, NEW h, NEW e, NEW o, NEW r, NEW l, NEW o2, NEW r2,
         RootRead(t, h, e, o, r, l), Origin(t, h, o, r), RootShown(t, h, o, r, l, o2, r2)
  PROVE  Origin(t, e, o2, r2)
<1> SUFFICES
      ASSUME t.sflag \in BOOLEAN, t.parts \in Seq(Seq(Line)),
             h \in Seq(Source), e \in Seq(Source), Len(e) = Len(h), Len(h) > 0,
             e[1].pos = h[1].pos, h[1].lines # <<>>, e[1].lines = Tail(h[1].lines),
             \A x \in 2 .. Len(h) : e[x] = h[x],
             o \in Seq(Line), r \in Seq(Nat), Len(r) = Len(o),
             l \in Line, l = Head(h[1].lines),
             \/ o2 = Append(o, l) /\ r2 = Append(r, h[1].pos)
             \/ /\ o2 = o /\ r2 = r /\ t.uflag /\ o # <<>> /\ Coll(t.sflag, o[Len(o)], l) = 0
                /\ AllSorted(t) => r[Len(o)] <= h[1].pos
      PROVE  Origin(t, e, o2, r2)
  BY DEF RootRead, RootShown
<1>1. PICK n, m, c : n = Len(h) /\ m = h[1].pos /\ c = ReadOf(t, h[1])
  OBVIOUS
<1>2. n \in Nat /\ n > 0 /\ 1 \in 1 .. n /\ \A x \in 1 .. n : x = 1 \/ x \in 2 .. n
  BY <1>1
<1>3. Len(t.parts) = n /\ m \in 1 .. n /\ c \in Nat
  BY <1>1, <1>2 DEF Origin, SourcesKept
<1>15. /\ \A x, y \in 1 .. n : h[x].pos = h[y].pos => x = y
       /\ \A y \in 1 .. n : \E x \in 1 .. n : h[x].pos = y
  BY <1>1, <1>2 DEF Origin, SourcesKept
<1>16. \A x \in 1 .. n :
         /\ h[x].pos \in 1 .. n /\ ReadOf(t, h[x]) \in Nat
         /\ \A k \in 1 .. Len(h[x].lines) :
              h[x].lines[k] = t.parts[h[x].pos][ReadOf(t, h[x]) + k]
  BY <1>1, <1>2 DEF Origin, SourcesKept
<1>17. \A k \in 1 .. Len(h[1].lines) : h[1].lines[k] = t.parts[m][c + k]
  BY <1>1, <1>2, <1>16
<1>4. \A x \in 1 .. n : e[x].pos = h[x].pos
  BY <1>1, <1>2
<1>5. \A x \in 2 .. n : e[x] = h[x] /\ ReadOf(t, e[x]) = ReadOf(t, h[x])
  BY <1>1 DEF ReadOf
<1>6. PICK s : s = h[1].lines
  OBVIOUS
<1>7. /\ s \in Seq(Line) /\ s # <<>> /\ Len(s) \in Nat \ {0} /\ l = s[1] /\ e[1].lines = Tail(s)
      /\ Len(Tail(s)) = Len(s) - 1 /\ \A k \in 1 .. Len(Tail(s)) : Tail(s)[k] = s[k + 1]
  <2>1. h[1] \in Source
    BY <1>1, <1>2
  <2> QED BY <1>6, <2>1, HeadLine
<1>8. /\ Len(t.parts[m]) \in Nat /\ c = Len(t.parts[m]) - Len(s) /\ ReadOf(t, e[1]) = c + 1
      /\ c + 1 \in 1 .. Len(t.parts[m]) /\ l = t.parts[m][c + 1]
  <2>1. t.parts[m] \in Seq(Line)
    BY <1>3
  <2>2. c = Len(t.parts[m]) - Len(s) /\ ReadOf(t, e[1]) = Len(t.parts[m]) - Len(Tail(s))
    BY <1>1, <1>6, <1>7 DEF ReadOf
  <2>3. l = t.parts[m][c + 1]
    <3>1. 1 \in 1 .. Len(s)
      BY <1>7
    <3> QED BY <1>6, <1>7, <1>17, <3>1
  <2>4. PICK z, y : z = Len(t.parts[m]) /\ y = Len(s)
    OBVIOUS
  <2>5. z \in Nat /\ y \in Nat \ {0} /\ c \in Nat /\ c = z - y /\ ReadOf(t, e[1]) = z - (y - 1)
    BY <1>3, <1>7, <2>1, <2>2, <2>4
  <2>6. ReadOf(t, e[1]) = c + 1 /\ c + 1 \in 1 .. z
    BY <2>5
  <2> QED BY <2>2, <2>3, <2>4, <2>5, <2>6
<1>9. SourcesKept(t, e)
  <2>1. ASSUME NEW x \in 1 .. n
        PROVE  /\ e[x].pos \in 1 .. n /\ ReadOf(t, e[x]) \in Nat
               /\ \A k \in 1 .. Len(e[x].lines) :
                    e[x].lines[k] = t.parts[e[x].pos][ReadOf(t, e[x]) + k]
    <3>1. CASE x = 1
      <4>1. ASSUME NEW k \in 1 .. Len(Tail(s)) PROVE Tail(s)[k] = t.parts[m][(c + 1) + k]
        <5>1. k + 1 \in 1 .. Len(s) /\ c + (k + 1) = (c + 1) + k
          BY <1>3, <1>7
        <5>2. s[k + 1] = t.parts[m][c + (k + 1)]
          BY <1>6, <1>17, <5>1
        <5> QED BY <1>7, <5>1, <5>2
      <4>2. e[1].pos = m
        BY <1>1
      <4>3. e[1].lines = Tail(s)
        BY <1>7
      <4>4. ReadOf(t, e[1]) = c + 1
        BY <1>8
      <4>5. c + 1 \in Nat
        BY <1>3
      <4> QED BY <1>3, <3>1, <4>1, <4>2, <4>3, <4>4, <4>5
    <3>2. CASE x \in 2 .. n
      <4>1. /\ h[x].pos \in 1 .. n /\ ReadOf(t, h[x]) \in Nat
            /\ \A k \in 1 .. Len(h[x].lines) :
                 h[x].lines[k] = t.parts[h[x].pos][ReadOf(t, h[x]) + k]
        BY <1>16
      <4>2. e[x] = h[x]
        BY <1>5, <3>2
      <4> QED BY <4>1, <4>2
    <3> QED BY <1>2, <3>1, <3>2
  <2>2. \A x, y \in 1 .. n : e[x].pos = e[y].pos => x = y
    <3> SUFFICES ASSUME NEW x \in 1 .. n, NEW y \in 1 .. n, e[x].pos = e[y].pos PROVE x = y
      OBVIOUS
    <3>1. h[x].pos = h[y].pos
      BY <1>4
    <3> QED BY <1>15, <3>1
  <2>3. ASSUME NEW y \in 1 .. n PROVE \E x \in 1 .. n : e[x].pos = y
    <3>1. PICK x \in 1 .. n : h[x].pos = y
      BY <1>15
    <3>2. e[x].pos = y
      BY <1>4, <3>1
    <3> QED BY <3>2
  <2>4. Len(e) = n
    BY <1>1
  <2> QED BY <1>3, <2>1, <2>2, <2>3, <2>4 DEF SourcesKept
<1>10. PICK w \in [1 .. Len(o) -> Nat] : Traced(t, h, o, r, w)
  BY DEF Origin
<1>11. /\ Len(o) \in Nat
       /\ \A k \in 1 .. Len(o) :
            /\ r[k] \in 1 .. n /\ w[k] \in 1 .. Len(t.parts[r[k]]) /\ o[k] = t.parts[r[k]][w[k]]
            /\ r[k] = m => w[k] <= c
       /\ \A k \in 1 .. Len(o), x \in 2 .. n : r[k] = e[x].pos => w[k] <= ReadOf(t, e[x])
       /\ \A j, k \in 1 .. Len(o) : j < k /\ r[j] = r[k] => w[j] < w[k]
  <2>1. Len(h) = n /\ m = h[1].pos /\ c = ReadOf(t, h[1])
    BY <1>1
  <2>2. \A k \in 1 .. Len(o), x \in 1 .. n : r[k] = h[x].pos => w[k] <= ReadOf(t, h[x])
    BY <1>10, <2>1 DEF Traced
  <2>3. \A k \in 1 .. Len(o) : r[k] = m => w[k] <= c
    BY <1>2, <2>1, <2>2
  <2>4. \A k \in 1 .. Len(o), x \in 2 .. n : r[k] = e[x].pos => w[k] <= ReadOf(t, e[x])
    <3>1. \A x \in 2 .. n : x \in 1 .. n
      BY <1>2
    <3> QED BY <1>5, <2>2, <3>1
  <2>5. \A k \in 1 .. Len(o) :
          r[k] \in 1 .. n /\ w[k] \in 1 .. Len(t.parts[r[k]]) /\ o[k] = t.parts[r[k]][w[k]]
    BY <1>3, <1>10 DEF Traced
  <2>6. \A j, k \in 1 .. Len(o) : j < k /\ r[j] = r[k] => w[j] < w[k]
    BY <1>10 DEF Traced
  <2> QED BY <2>3, <2>4, <2>5, <2>6
<1>12. AllSorted(t) => \A x \in 1 .. n, q \in Nat \ {0} :
                         q <= ReadOf(t, e[x]) /\ ~(x = 1 /\ q = c + 1) =>
                           IsOut(t, o, r, w, e[x].pos, q)
  <2> SUFFICES ASSUME AllSorted(t), NEW x \in 1 .. n, NEW q \in Nat \ {0},
                      q <= ReadOf(t, e[x]), ~(x = 1 /\ q = c + 1)
               PROVE  IsOut(t, o, r, w, e[x].pos, q)
    OBVIOUS
  <2>1. q <= ReadOf(t, h[x])
    <3>1. CASE x = 1
      <4>1. ReadOf(t, e[x]) = c + 1 /\ ReadOf(t, h[x]) = c
        BY <1>1, <1>8, <3>1
      <4> QED BY <1>3, <3>1, <4>1
    <3>2. CASE x \in 2 .. n
      BY <1>5, <3>2
    <3> QED BY <1>2, <3>1, <3>2
  <2>2. IsOut(t, o, r, w, h[x].pos, q)
    BY <1>1, <1>10, <2>1 DEF Traced
  <2> QED BY <1>4, <2>2
<1>13. CASE o2 = Append(o, l) /\ r2 = Append(r, h[1].pos)
  <2>1. PICK z : z = Len(o)
    OBVIOUS
  <2> DEFINE v == [k \in 1 .. z + 1 |-> IF k <= z THEN w[k] ELSE c + 1]
  <2>2. /\ Len(o2) = z + 1 /\ z \in Nat /\ o2[z + 1] = l /\ r2[z + 1] = m
        /\ \A k \in 1 .. z : o2[k] = o[k] /\ r2[k] = r[k]
        /\ \A k \in 1 .. z + 1 : k \in 1 .. z \/ k = z + 1
    BY <1>1, <1>13, <2>1
  <2>3. /\ v \in [1 .. z + 1 -> Nat] /\ v[z + 1] = c + 1 /\ \A k \in 1 .. z : v[k] = w[k]
        /\ z + 1 \in 1 .. z + 1
    BY <1>3, <2>1, <2>2
  <2> HIDE DEF v
  <2>4. \A k \in 1 .. z + 1 :
          /\ r2[k] \in 1 .. Len(t.parts) /\ v[k] \in 1 .. Len(t.parts[r2[k]])
          /\ o2[k] = t.parts[r2[k]][v[k]]
    <3> SUFFICES ASSUME NEW k \in 1 .. z + 1
                 PROVE  /\ r2[k] \in 1 .. Len(t.parts) /\ v[k] \in 1 .. Len(t.parts[r2[k]])
                        /\ o2[k] = t.parts[r2[k]][v[k]]
      OBVIOUS
    <3>1. CASE k \in 1 .. z
      <4>1. r2[k] = r[k] /\ v[k] = w[k] /\ o2[k] = o[k]
        BY <2>2, <2>3, <3>1
      <4>2. r[k] \in 1 .. n /\ w[k] \in 1 .. Len(t.parts[r[k]]) /\ o[k] = t.parts[r[k]][w[k]]
        BY <1>11, <2>1, <3>1
      <4> QED BY <1>3, <4>1, <4>2
    <3>2. CASE k = z + 1
      <4>1. r2[k] = m /\ v[k] = c + 1 /\ o2[k] = l
        BY <2>2, <2>3, <3>2
      <4> QED BY <1>3, <1>8, <4>1
    <3> QED BY <2>2, <3>1, <3>2
  <2>5. ASSUME NEW k \in 1 .. z + 1, NEW x \in 1 .. n, r2[k] = e[x].pos
        PROVE  v[k] <= ReadOf(t, e[x])
    <3>1. CASE k \in 1 .. z /\ x = 1
      <4>1. r[k] = m /\ v[k] = w[k] /\ w[k] \in Nat
        BY <1>1, <1>4, <2>1, <2>2, <2>3, <2>5, <3>1
      <4>2. w[k] <= c
        BY <1>11, <2>1, <3>1, <4>1
      <4>3. ReadOf(t, e[x]) = c + 1
        BY <1>8, <3>1
      <4> QED BY <1>3, <4>1, <4>2, <4>3
    <3>2. CASE k \in 1 .. z /\ x \in 2 .. n
      BY <1>11, <2>1, <2>2, <2>3, <2>5, <3>2
    <3>3. CASE k = z + 1
      <4>1. x = 1
        BY <1>1, <1>2, <1>4, <1>15, <2>2, <2>5, <3>3
      <4> QED BY <1>3, <1>8, <2>3, <3>3, <4>1
    <3> QED BY <1>2, <2>2, <3>1, <3>2, <3>3
  <2>6. ASSUME NEW j \in 1 .. z + 1, NEW k \in 1 .. z + 1, j < k, r2[j] = r2[k]
        PROVE  v[j] < v[k]
    <3>1. j \in 1 .. z
      BY <2>2, <2>6
    <3>2. CASE k \in 1 .. z
      <4>1. r[j] = r[k]
        BY <2>2, <2>6, <3>1, <3>2
      <4>2. w[j] < w[k]
        BY <1>11, <2>1, <2>6, <3>1, <3>2, <4>1
      <4> QED BY <2>3, <3>1, <3>2, <4>2
    <3>3. CASE k = z + 1
      <4>1. r[j] = m /\ w[j] \in Nat
        BY <2>1, <2>2, <2>6, <3>1, <3>3
      <4>2. w[j] <= c
        BY <1>11, <2>1, <3>1, <4>1
      <4> QED BY <1>3, <2>3, <3>1, <3>3, <4>1, <4>2
    <3> QED BY <2>2, <3>2, <3>3
  <2>7. ASSUME AllSorted(t), NEW x \in 1 .. n, NEW q \in Nat \ {0}, q <= ReadOf(t, e[x])
        PROVE  IsOut(t, o2, r2, v, e[x].pos, q)
    <3>1. CASE x = 1 /\ q = c + 1
      <4>1. Coll(t.sflag, l, l) = 0
        BY DEF Coll, Line
      <4>2. z + 1 \in 1 .. Len(o2)
        BY <2>2, <2>3
      <4>3. e[x].pos = m /\ t.parts[m][q] = l
        BY <1>1, <1>4, <1>8, <3>1
      <4>4. Coll(t.sflag, o2[z + 1], t.parts[e[x].pos][q]) = 0
        <5>1. o2[z + 1] = l
          BY <2>2
        <5> QED BY <4>1, <4>3, <5>1
      <4>5. r2[z + 1] = e[x].pos
        BY <2>2, <4>3
      <4>6. v[z + 1] = q
        BY <2>3, <3>1
      <4>7. q <= q
        OBVIOUS
      <4> QED BY <4>2, <4>4, <4>5, <4>6, <4>7 DEF IsOut
    <3>2. CASE ~(x = 1 /\ q = c + 1)
      <4>1. IsOut(t, o, r, w, e[x].pos, q)
        BY <1>12, <2>7, <3>2
      <4>2. /\ Len(o) \in Nat /\ Len(o2) \in Nat /\ Len(o) <= Len(o2)
            /\ \A k \in 1 .. Len(o) : o2[k] = o[k] /\ r2[k] = r[k] /\ v[k] = w[k]
        BY <2>1, <2>2, <2>3
      <4>3. PICK y : y = e[x].pos
        OBVIOUS
      <4>4. IsOut(t, o, r, w, y, q)
        BY <4>1, <4>3
      <4>5. IsOut(t, o2, r2, v, y, q)
        BY <4>2, <4>4, OutStays
      <4> QED BY <4>3, <4>5
    <3> QED BY <3>1, <3>2
  <2>8. Traced(t, e, o2, r2, v)
    <3>1. Len(e) = n
      BY <1>1
    <3> QED BY <2>2, <2>4, <2>5, <2>6, <2>7, <3>1 DEF Traced
  <2> QED BY <1>9, <2>2, <2>3, <2>8 DEF Origin
<1>14. CASE /\ o2 = o /\ r2 = r /\ t.uflag /\ o # <<>> /\ Coll(t.sflag, o[Len(o)], l) = 0
            /\ AllSorted(t) => r[Len(o)] <= h[1].pos
  <2>1. ASSUME NEW k \in 1 .. Len(o), NEW x \in 1 .. n, r[k] = e[x].pos
        PROVE  w[k] <= ReadOf(t, e[x])
    <3>1. CASE x = 1
      <4>1. r[k] = m /\ w[k] \in Nat
        BY <1>1, <1>4, <2>1, <3>1
      <4>2. w[k] <= c
        BY <1>11, <4>1
      <4>3. ReadOf(t, e[x]) = c + 1
        BY <1>8, <3>1
      <4> QED BY <1>3, <4>1, <4>2, <4>3
    <3>2. CASE x \in 2 .. n
      BY <1>11, <2>1, <3>2
    <3> QED BY <1>2, <3>1, <3>2
  <2>2. ASSUME AllSorted(t), NEW x \in 1 .. n, NEW q \in Nat \ {0}, q <= ReadOf(t, e[x])
        PROVE  IsOut(t, o, r, w, e[x].pos, q)
    <3>1. CASE x = 1 /\ q = c + 1
      <4>1. Len(o) \in 1 .. Len(o) /\ r[Len(o)] <= m /\ r[Len(o)] \in Nat /\ m \in Nat
        BY <1>1, <1>3, <1>11, <1>14, <2>2
      <4>2. r[Len(o)] = m => w[Len(o)] <= q
        <5>1. r[Len(o)] = m => w[Len(o)] <= c /\ w[Len(o)] \in Nat
          BY <1>11, <4>1
        <5> QED BY <1>3, <3>1, <5>1
      <4>3. e[x].pos = m /\ t.parts[m][q] = l
        BY <1>1, <1>4, <1>8, <3>1
      <4> QED BY <1>14, <4>1, <4>2, <4>3 DEF IsOut
    <3>2. CASE ~(x = 1 /\ q = c + 1)
      BY <1>12, <2>2, <3>2
    <3> QED BY <3>1, <3>2
  <2>3. Traced(t, e, o, r, w)
    <3>1. Len(e) = n
      BY <1>1
    <3>2. \A k \in 1 .. Len(o) :
            /\ r[k] \in 1 .. Len(t.parts) /\ w[k] \in 1 .. Len(t.parts[r[k]])
            /\ o[k] = t.parts[r[k]][w[k]]
      BY <1>3, <1>11
    <3>3. \A j, k \in 1 .. Len(o) : j < k /\ r[j] = r[k] => w[j] < w[k]
      BY <1>11
    <3> QED BY <2>1, <2>2, <3>1, <3>2, <3>3 DEF Traced
  <2> QED BY <1>9, <1>10, <1>14, <2>3 DEF Origin
<1> QED BY <1>13, <1>14
LEMMA OriginInit == MergeInit => OriginInv
<1> SUFFICES ASSUME MergeInit PROVE OriginInv
  OBVIOUS
<1>1. PICK t, h, o, r : t = task /\ h = fh /\ o = out /\ r = from
  OBVIOUS
<1>2. t.parts = <<>> /\ h = <<>> /\ o = <<>> /\ Len(t.parts) = 0 /\ Len(h) = 0 /\ Len(o) = 0
  BY <1>1 DEF MergeInit
<1>3. SourcesKept(t, h)
  BY <1>2 DEF SourcesKept
<1> DEFINE w == [k \in 1 .. 0 |-> 0]
<1>4. w \in [1 .. Len(o) -> Nat]
  BY <1>2
<1>5. Traced(t, h, o, r, w)
  BY <1>2 DEF Traced
<1>6. Origin(t, h, o, r)
  BY <1>3, <1>4, <1>5 DEF Origin
<1> QED BY <1>1, <1>6 DEF OriginInv

\* What a swap of two places of the heap does.
LEMMA SwapKeepsOrigin ==
  ASSUME MInv, OriginInv, NEW i \in 1 .. Len(fh), NEW j \in 1 .. Len(fh), i # j,
         fh' = Swap(i, j), UNCHANGED <<task, out, from>>
  PROVE  OriginInv'
<1>1. /\ Len(fh') = Len(fh) /\ fh'[i] = fh[j] /\ fh'[j] = fh[i] /\ Len(fh) \in Nat
      /\ \A k \in 1 .. Len(fh) : k # i /\ k # j => fh'[k] = fh[k]
  BY SwapFacts, TypeFacts
<1>2. PICK t, h, o, r : t = task /\ h = fh /\ o = out /\ r = from
  OBVIOUS
<1>3. PICK e : e = fh'
  OBVIOUS
<1>4. Origin(t, h, o, r)
  BY <1>2 DEF OriginInv
<1>5. Origin(t, e, o, r)
  <2>1. /\ Len(e) = Len(h) /\ e[i] = h[j] /\ e[j] = h[i] /\ Len(h) \in Nat
        /\ i \in 1 .. Len(h) /\ j \in 1 .. Len(h)
    BY <1>1, <1>2, <1>3
  <2>2. \A k \in 1 .. Len(h) : k # i /\ k # j => e[k] = h[k]
    BY <1>1, <1>2, <1>3
  <2> QED BY <1>4, <2>1, <2>2, SwapOrigin
<1> QED BY <1>2, <1>3, <1>5 DEF OriginInv

LEMMA PrintKeepsOrigin ==
  ASSUME MInv, OriginInv, PrintLine
  PROVE  OriginInv'
<1>1. PICK t, h, o, r : t = task /\ h = fh /\ o = out /\ r = from
  OBVIOUS
<1>2. PICK e, o2, r2, l : e = fh' /\ o2 = out' /\ r2 = from' /\ l = Head(fh[1].lines)
  OBVIOUS
<1>3. /\ task' = task /\ Len(h) \in Nat /\ Len(h) > 0 /\ h[1].lines # <<>>
      /\ e \in Seq(Source) /\ Len(e) = Len(h) /\ e[1].pos = h[1].pos
      /\ e[1].lines = Tail(h[1].lines) /\ \A x \in 2 .. Len(h) : e[x] = h[x]
      /\ l \in Line /\ h[1].pos \in Nat
  BY <1>1, <1>2, PrintFacts DEF Ended
<1>4. /\ t.sflag \in BOOLEAN /\ t.uflag \in BOOLEAN /\ t.parts \in Seq(Seq(Line))
      /\ h \in Seq(Source) /\ o \in Seq(Line) /\ r \in Seq(Nat) /\ Len(r) = Len(o)
  BY <1>1 DEF MInv, MergeTypeOK
<1>5. Origin(t, h, o, r)
  BY <1>1 DEF OriginInv
<1>6. \/ o2 = Append(o, l) /\ r2 = Append(r, h[1].pos)
      \/ /\ o2 = o /\ r2 = r /\ t.uflag /\ o # <<>> /\ Coll(t.sflag, o[Len(o)], l) = 0
         /\ AllSorted(t) => r[Len(o)] <= h[1].pos
  <2>1. CASE Printed(Head(fh[1].lines))
    BY <1>1, <1>2, <2>1 DEF PrintLine
  <2>2. CASE ~Printed(Head(fh[1].lines))
    <3>1. o2 = o /\ r2 = r
      BY <1>1, <1>2, <2>2 DEF PrintLine
    <3>2. t.uflag /\ o # <<>> /\ Coll(t.sflag, o[Len(o)], l) = 0
      BY <1>1, <1>2, <2>2 DEF Printed
    <3>3. ASSUME AllSorted(t) PROVE r[Len(o)] <= h[1].pos
      <4>1. SourcesSorted
        BY <1>1, <3>3 DEF AllSorted, SourcesSorted
      <4>2. FloorInv
        BY <4>1 DEF MInv, OrderInv
      <4>3. InOrder(t.sflag, o[Len(o)], r[Len(o)], l, h[1].pos)
        <5>1. 1 \in 1 .. Len(fh) /\ ~Ended(fh[1])
          BY <1>1, <1>3 DEF Ended
        <5> QED BY <1>1, <1>2, <3>2, <4>2, <5>1 DEF FloorInv
      <4> QED BY <3>2, <4>3 DEF InOrder
    <3> QED BY <3>1, <3>2, <3>3
  <2> QED BY <2>1, <2>2
<1>7. Origin(t, e, o2, r2)
  <2>1. l = Head(h[1].lines)
    BY <1>1, <1>2
  <2>2. RootRead(t, h, e, o, r, l)
    BY <1>3, <1>4, <2>1 DEF RootRead
  <2>3. RootShown(t, h, o, r, l, o2, r2)
    BY <1>6 DEF RootShown
  <2> QED BY <1>5, <2>2, <2>3, PrintOrigin
<1> QED BY <1>1, <1>2, <1>3, <1>7 DEF OriginInv

LEMMA NextOrigin == MInv /\ OriginInv /\ [MergeNext]_mvars => OriginInv'
<1> SUFFICES ASSUME MInv, OriginInv, [MergeNext]_mvars PROVE OriginInv'
  OBVIOUS
<1>1. CASE UNCHANGED <<task, fh, out, from>>
  BY <1>1 DEF OriginInv
<1>2. CASE Push
  BY <1>1, <1>2 DEF Push
<1>3. CASE Swim
  <2>1. CASE at > 1 /\ Before(fh[at], fh[at \div 2])
    <3>1. /\ fh' = Swap(at, at \div 2) /\ UNCHANGED <<task, out, from>>
          /\ at \in 2 .. Len(fh) /\ Len(fh) \in Nat
      BY <1>3, <2>1 DEF Swim, MInv, MergeTypeOK, HeapInv
    <3>2. at \div 2 \in 1 .. Len(fh) /\ at # at \div 2 /\ at \in 1 .. Len(fh)
      BY <3>1
    <3> QED BY <3>1, <3>2, SwapKeepsOrigin
  <2>2. CASE ~(at > 1 /\ Before(fh[at], fh[at \div 2]))
    BY <1>1, <1>3, <2>2 DEF Swim
  <2> QED BY <2>1, <2>2
<1>4. CASE PrintLine
  BY <1>4, PrintKeepsOrigin
<1>5. CASE Sink
  <2>1. CASE 2 * at <= Len(fh) /\ Before(fh[Child(at)], fh[at])
    <3>1. /\ fh' = Swap(at, Child(at)) /\ UNCHANGED <<task, out, from>>
          /\ at \in 1 .. Len(fh) /\ Len(fh) \in Nat
      BY <1>5, <2>1 DEF Sink, MInv, MergeTypeOK, HeapInv
    <3>2. Child(at) \in 1 .. Len(fh) /\ at # Child(at)
      BY <2>1, <3>1 DEF Child
    <3> QED BY <3>1, <3>2, SwapKeepsOrigin
  <2>2. CASE ~(2 * at <= Len(fh) /\ Before(fh[Child(at)], fh[at]))
    BY <1>1, <1>5, <2>2 DEF Sink
  <2> QED BY <2>1, <2>2
<1>6. CASE MergeEnd
  BY <1>1, <1>6 DEF MergeEnd
<1>7. CASE \E parts \in Seq(Seq(Line)), stable, unique \in BOOLEAN :
             MergeStart(parts, stable, unique)
  BY <1>7, StartOrigin
<1>8. CASE UNCHANGED mvars
  BY <1>1, <1>8 DEF mvars
<1> QED BY <1>2, <1>3, <1>4, <1>5, <1>6, <1>7, <1>8 DEF MergeNext, MergeStep

\* What the output of a merge is made of: each line printed is one line of one source,
\* none is printed twice, and at the end, if the sources were sorted, each line of
\* each source has come out, or with -u one that compares equal and comes first.
Complete ==
  \E w \in [1 .. Len(out) -> Nat] :
    /\ \A k \in 1 .. Len(out) : /\ from[k] \in 1 .. Len(task.parts)
                                /\ w[k] \in 1 .. Len(task.parts[from[k]])
                                /\ out[k] = task.parts[from[k]][w[k]]
    /\ \A j, k \in 1 .. Len(out) : j < k /\ from[j] = from[k] => w[j] < w[k]
    /\ phase = "idle" /\ SourcesSorted =>
         \A m \in 1 .. Len(task.parts) : \A q \in 1 .. Len(task.parts[m]) :
           IsOut(task, out, from, w, m, q)

\* When all sources are at their end, every line of them is out.
LEMMA AllOut ==
  ASSUME NEW t, t.parts \in Seq(Seq(Line)), NEW h, NEW o, NEW r, NEW w,
         SourcesKept(t, h), Traced(t, h, o, r, w), AllSorted(t),
         \A x \in DOMAIN h : Ended(h[x]), h \in Seq(Source)
  PROVE  \A m \in 1 .. Len(t.parts) : \A q \in 1 .. Len(t.parts[m]) : IsOut(t, o, r, w, m, q)
<1> TAKE m \in 1 .. Len(t.parts)
<1> TAKE q \in 1 .. Len(t.parts[m])
<1>1. PICK x \in 1 .. Len(h) : h[x].pos = m
  BY DEF SourcesKept
<1>2. h[x].lines = <<>>
  BY <1>1 DEF Ended
<1>3. Len(t.parts[m]) \in Nat
  OBVIOUS
<1>4. ReadOf(t, h[x]) = Len(t.parts[m])
  BY <1>1, <1>2, <1>3 DEF ReadOf
<1>5. q \in Nat \ {0} /\ q <= ReadOf(t, h[x])
  BY <1>3, <1>4
<1>6. IsOut(t, o, r, w, h[x].pos, q)
  BY <1>1, <1>5 DEF Traced
<1> QED BY <1>1, <1>6

LEMMA OriginComplete == MInv /\ OriginInv => Complete
<1> SUFFICES ASSUME MInv, OriginInv PROVE Complete
  OBVIOUS
<1>1. SourcesKept(task, fh)
  BY DEF OriginInv, Origin
<1>2. PICK w \in [1 .. Len(out) -> Nat] : Traced(task, fh, out, from, w)
  BY DEF OriginInv, Origin
<1>3. ASSUME phase = "idle", SourcesSorted
      PROVE  \A m \in 1 .. Len(task.parts) : \A q \in 1 .. Len(task.parts[m]) :
               IsOut(task, out, from, w, m, q)
  <2>1. AllSorted(task)
    BY <1>3 DEF AllSorted, SourcesSorted
  <2>2. task.parts \in Seq(Seq(Line)) /\ fh \in Seq(Source) /\ \A x \in DOMAIN fh : Ended(fh[x])
    BY <1>3 DEF MInv, MergeTypeOK, HeapInv
  <2> QED BY <1>1, <1>2, <2>1, <2>2, AllOut
<1>4. /\ \A k \in 1 .. Len(out) : /\ from[k] \in 1 .. Len(task.parts)
                                  /\ w[k] \in 1 .. Len(task.parts[from[k]])
                                  /\ out[k] = task.parts[from[k]][w[k]]
      /\ \A j, k \in 1 .. Len(out) : j < k /\ from[j] = from[k] => w[j] < w[k]
  BY <1>2 DEF Traced
<1> QED BY <1>2, <1>3, <1>4 DEF Complete

\* For any number of sources of any length: the merge of file_headers_merge() and
\* merge_sub_lists() loses no line and prints none twice.
THEOREM MergeLosesNothing == MergeSpec => []Complete
<1>1. MergeInit => MInv /\ OriginInv
  BY MergeInitInv, OriginInit
<1>2. MInv /\ OriginInv /\ [MergeNext]_mvars => MInv' /\ OriginInv'
  BY NextInv, NextOrigin
<1>3. MInv /\ OriginInv => Complete
  BY OriginComplete
<1> QED BY <1>1, <1>2, <1>3, PTL DEF MergeSpec

==============================================================================
