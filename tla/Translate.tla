------------------------------ MODULE Translate ------------------------------
(***************************************************************************)
(* tr: the characters of string1 and string2 one after the other, the sets *)
(* and the map of characters in splay trees with a cache, and the loops    *)
(* over the input. Characters are their codes. A string is a sequence of   *)
(* items: [k "char", c], [k "range", lo, hi, octal], [k "class", name],    *)
(* [k "equiv", c], [k "seq", c, n].                                        *)
(***************************************************************************)
EXTENDS Process

\* 0 is no rune, 1 is "-", 2 a digit, 3 and 4 are letters whose lower case is 5
\* and 6, 7 is a lower case letter without upper case, 8 and 9 are wide.
Dash == 1
UCHAR == 7
WINT == 9
OOBCH == -1
ClassOf == [upper |-> {3, 4}, lower |-> {5, 6, 7}, alpha |-> 3 .. 7, digit |-> {2}]
ToUpper(c) == IF c \in {5, 6} THEN c - 2 ELSE c
ToLower(c) == IF c \in {3, 4} THEN c + 2 ELSE c
Rune(c) == c # 0
CollatingOrder == <<0, 1, 2, 3, 5, 4, 6, 7>>
Coll(c) == CHOOSE i \in DOMAIN CollatingOrder : CollatingOrder[i] = c
CACHE == 4   \* CS_CACHE_SIZE, CM_CACHE_SIZE

-----------------------------------------------------------------------------
(* next(): s.ok is what it returns, s.lastch the character                   *)

Str(items) == [items |-> items, state |-> "NORMAL", cnt |-> 0, lastch |-> OOBCH, set |-> <<>>, ok |-> TRUE]
\* nextwctype(): only what a byte can hold is looked for
NextWctype(ch, class) == LET more == {c \in ClassOf[class] : c > ch /\ c <= UCHAR}
                         IN  IF more = {} THEN OOBCH ELSE Min(more)
Reads(s, ch) == [s EXCEPT !.lastch = ch, !.ok = TRUE]
\* genrange(): by code, or in the collating order of a one-byte locale
GenRange(s, it) ==
  LET bycode == it.octal \/ job.mb
      rest == [s EXCEPT !.items = Tail(@)]
      set == SelectSeq(CollatingOrder, LAMBDA c : Coll(it.lo) <= Coll(c) /\ Coll(c) <= Coll(it.hi))
  IN  IF IF bycode THEN it.hi < it.lo ELSE Coll(it.hi) < Coll(it.lo)
      THEN Reads([rest EXCEPT !.items = <<[k |-> "char", c |-> Dash], [k |-> "char", c |-> it.hi]>> \o @], it.lo)
      ELSE IF bycode THEN [rest EXCEPT !.state = "RANGE", !.cnt = it.hi - it.lo + 1, !.lastch = it.lo - 1]
      ELSE [rest EXCEPT !.state = "SET", !.set = set]

RECURSIVE NextCh(_)
NextCh(s) ==
  CASE s.state = "EOS" -> [s EXCEPT !.ok = FALSE]
    [] s.state = "INFINITE" -> [s EXCEPT !.ok = TRUE]
    [] s.state = "NORMAL" /\ s.items = <<>> -> [s EXCEPT !.state = "EOS", !.ok = FALSE]
    [] s.state = "NORMAL" /\ s.items # <<>> ->
         LET it == Head(s.items)
             rest == [s EXCEPT !.items = Tail(@)]
         IN (CASE it.k = "char" -> Reads(rest, it.c)
               [] it.k = "range" -> With(GenRange(s, it), LAMBDA g : IF g.state = "NORMAL" THEN g ELSE NextCh(g))
               [] it.k = "class" -> NextCh([rest EXCEPT !.state = it.name, !.cnt = 0, !.lastch = OOBCH])
               [] it.k = "equiv" -> NextCh([rest EXCEPT !.state = "SET", !.set = <<it.c>>])
               [] it.k = "seq" -> NextCh([rest EXCEPT !.state = IF it.n = 0 THEN "INFINITE" ELSE "SEQUENCE",
                                                      !.cnt = it.n, !.lastch = it.c]))
    [] s.state = "RANGE" -> IF s.cnt = 0 THEN NextCh([s EXCEPT !.state = "NORMAL"])
                            ELSE Reads([s EXCEPT !.cnt = @ - 1], s.lastch + 1)
    [] s.state = "SEQUENCE" -> IF s.cnt = 0 THEN NextCh([s EXCEPT !.state = "NORMAL"])
                               ELSE Reads([s EXCEPT !.cnt = @ - 1], s.lastch)
    [] s.state = "SET" -> IF s.set = <<>> THEN NextCh([s EXCEPT !.state = "NORMAL"])
                          ELSE Reads([s EXCEPT !.set = Tail(@)], Head(s.set))
    [] s.state \in DOMAIN ClassOf ->
         With(NextWctype(s.lastch, s.state),
              LAMBDA ch : IF ch = OOBCH THEN NextCh([s EXCEPT !.state = "NORMAL", !.cnt = @ + 1])
                          ELSE Reads([s EXCEPT !.cnt = @ + 1], ch))

-----------------------------------------------------------------------------
(* Trees of ranges of characters; those of a map are of one character, `to'  *)
(* being what it is mapped to.                                               *)

Nil == <<>>
Leaf(ch, to) == [min |-> ch, max |-> ch, to |-> to, left |-> Nil, right |-> Nil]
Before(ch, t) == t # Nil /\ ch < t.min
After(ch, t) == t # Nil /\ ch > t.max
Hit(ch, t) == ~Before(ch, t) /\ ~After(ch, t)

\* The trees of what is smaller and of what is greater hang on chains of nodes
Assembled(t, smaller, greater) ==
  [t EXCEPT !.left = FoldRight(LAMBDA n, sub : [n EXCEPT !.right = sub], smaller, @),
            !.right = FoldRight(LAMBDA n, sub : [n EXCEPT !.left = sub], greater, @)]
\* A slip: the subtree between the two nodes of a rotation is dropped.
RotatedAway(t) == [t.left EXCEPT !.right = [t EXCEPT !.left = Nil]]

RotatedRight(t) == [t.left EXCEPT !.right = [t EXCEPT !.left = t.left.right]]
RotatedLeft(t) == [t.right EXCEPT !.left = [t EXCEPT !.right = t.right.left]]
RECURSIVE Down(_, _, _, _)
Down(t, ch, smaller, greater) ==
  IF Hit(ch, t) THEN Assembled(t, smaller, greater)
  ELSE IF Before(ch, t)
  THEN With(IF Before(ch, t.left) THEN RotatedRight(t) ELSE t,
            LAMBDA y : IF y.left = Nil THEN Assembled(y, smaller, greater)
                       ELSE Down(y.left, ch, smaller, Append(greater, y)))
  ELSE With(IF After(ch, t.right) THEN RotatedLeft(t) ELSE t,
            LAMBDA y : IF y.right = Nil THEN Assembled(y, smaller, greater)
                       ELSE Down(y.right, ch, Append(smaller, y), greater))
Splay(t, ch) == Down(t, ch, <<>>, <<>>)
MapSplay(t, ch) == Down(t, ch, <<>>, <<>>)

\* A new root, with what is smaller on its left and what is greater on its right
Rooted(t, new) ==
  IF Before(new.min, t) THEN [new EXCEPT !.left = t.left, !.right = [t EXCEPT !.left = Nil]]
  ELSE [new EXCEPT !.right = t.right, !.left = [t EXCEPT !.right = Nil]]

\* cset_delete()
Deleted(root, ch) ==
  With(Splay(root, ch),
       LAMBDA t : IF t.left = Nil THEN t.right ELSE [Splay(t.left, ch) EXCEPT !.right = t.right])
\* Ranges that touch become one
MergedLeft(t) ==
  IF t.left = Nil THEN t
  ELSE With(Splay(t.left, t.min - 1),
            LAMBDA l : IF l.max = t.min - 1 THEN [t EXCEPT !.left = Deleted(l, l.min), !.min = l.min]
                       ELSE [t EXCEPT !.left = l])
MergedRight(t) ==
  IF t.right = Nil THEN t
  ELSE With(Splay(t.right, t.max + 1),
            LAMBDA r : IF r.min = t.max + 1 THEN [t EXCEPT !.right = Deleted(r, r.min), !.max = r.max]
                       ELSE [t EXCEPT !.right = r])
CsetAlloc == [root |-> Nil, runes |-> FALSE, invert |-> FALSE]
CsetAdd(cs, ch) ==
  [cs EXCEPT !.root = IF @ = Nil THEN Leaf(ch, ch)
                      ELSE With(Splay(@, ch), LAMBDA t : IF Hit(ch, t) THEN t
                                                         ELSE MergedRight(MergedLeft(Rooted(t, Leaf(ch, ch)))))]
\* cset_in_hard(): [in, cs]; the class of -C is that of the characters that are no runes
InHard(cs, ch) ==
  IF cs.runes /\ ~Rune(ch) THEN [in |-> ~cs.invert, cs |-> cs]
  ELSE IF cs.root = Nil THEN [in |-> cs.invert, cs |-> cs]
  ELSE With(Splay(cs.root, ch), LAMBDA t : [in |-> cs.invert # Hit(ch, t), cs |-> [cs EXCEPT !.root = t]])
CsetCache(cs) ==
  With(Scan(LAMBDA st, i : With(InHard(st.cs, i - 1), LAMBDA r : [cs |-> r.cs, cache |-> Append(st.cache, r.in)]),
            [cs |-> cs, cache |-> <<>>], [i \in 1 .. CACHE |-> i]),
       LAMBDA st : [set |-> st.cs, cache |-> st.cache])
CsetIn(s, ch) == IF ch < CACHE THEN [in |-> s.cache[ch + 1], s |-> s]
                 ELSE With(InHard(s.set, ch), LAMBDA r : [in |-> r.in, s |-> [s EXCEPT !.set = r.cs]])

CmapAlloc == [root |-> Nil, def |-> "self", min |-> 0, max |-> 0]
CmapAdd(cm, from, to) ==
  IF cm.root = Nil THEN [cm EXCEPT !.root = Leaf(from, to), !.min = from, !.max = from]
  ELSE With(MapSplay(cm.root, from),
            LAMBDA t : IF Hit(from, t) THEN [cm EXCEPT !.root = [t EXCEPT !.to = to]]
                       ELSE [cm EXCEPT !.root = Rooted(t, Leaf(from, to)),
                                       !.min = IF from < @ THEN from ELSE @, !.max = IF from > @ THEN from ELSE @])
Default(cm, ch) == IF cm.def = "self" THEN ch ELSE OOBCH
LookupHard(cm, ch) ==
  IF cm.root = Nil THEN [to |-> Default(cm, ch), cm |-> cm]
  ELSE With(MapSplay(cm.root, ch),
            LAMBDA t : [to |-> IF Hit(ch, t) THEN t.to ELSE Default(cm, ch), cm |-> [cm EXCEPT !.root = t]])

-----------------------------------------------------------------------------
(* setup(): the set of a string, its complement with -c and -C               *)

RECURSIVE Collected(_, _)
Collected(cs, s) == With(NextCh(s), LAMBDA n : IF n.ok THEN Collected(CsetAdd(cs, n.lastch), n) ELSE cs)
Setup(items, cflag, Cflag) ==
  With(Collected(CsetAlloc, Str(items)),
       LAMBDA cs : CsetCache([cs EXCEPT !.runes = Cflag, !.invert = cflag \/ Cflag]))

(* main(): the characters of string1 are mapped to those of string2, the     *)
(* last of which is repeated; classes of both cases are mapped as such. b is *)
(* [s1, s2, map, squeeze].                                                   *)
AddPair(b, from, to, squeezed) ==
  [b EXCEPT !.map = CmapAdd(@, from, to), !.squeeze = IF job.s /\ squeezed THEN CsetAdd(@, to) ELSE @]
StartsBoth(b, class1, class2) == b.s1.state = class1 /\ b.s2.state = class2 /\ b.s1.cnt = 1 /\ b.s2.cnt = 1
RECURSIVE Skipped(_, _)
Skipped(s, class) == With(NextCh(s), LAMBDA n : IF n.ok /\ n.state = class /\ n.cnt > 1 THEN Skipped(n, class) ELSE n)
RECURSIVE Cased(_, _, _), Mapped(_)
Cased(b, class, other) ==
  LET to == IF class = "lower" THEN ToUpper(b.s1.lastch) ELSE ToLower(b.s1.lastch)
  IN  With(AddPair([b EXCEPT !.s1 = NextCh(@)], b.s1.lastch, to, to \in ClassOf[other]),
           LAMBDA n : IF ~n.s1.ok THEN n
                      ELSE IF n.s1.state = class /\ n.s1.cnt > 1 THEN Cased(n, class, other)
                      ELSE Mapped([n EXCEPT !.s2 = Skipped(@, other)]))
Mapped(b) ==
  IF ~b.s1.ok THEN b
  ELSE IF StartsBoth(b, "lower", "upper") THEN Cased(b, "lower", "upper")
  ELSE IF StartsBoth(b, "upper", "lower") THEN Cased(b, "upper", "lower")
  ELSE With(AddPair(b, b.s1.lastch, b.s2.lastch, TRUE),
            LAMBDA n : Mapped([n EXCEPT !.s1 = NextCh(@), !.s2 = NextCh(@)]))

\* -c, and -C where characters are wide: the characters that are not in string1
\* in the order of their codes; beyond the greatest one that is mapped, the rest
\* go to the last character of string2.
RECURSIVE Complemented(_, _)
Complemented(b, cnt) ==
  IF cnt > WINT THEN b
  ELSE IF job.C /\ ~Rune(cnt) THEN Complemented(b, cnt + 1)
  ELSE With(LookupHard(b.map, cnt),
            LAMBDA r : With(IF r.to # OOBCH THEN [b EXCEPT !.map = CmapAdd(r.cm, cnt, cnt)]
                            ELSE With([b EXCEPT !.map = r.cm, !.s2 = NextCh(@)],
                                      LAMBDA n : IF n.s2.ok THEN AddPair(n, cnt, n.s2.lastch, TRUE) ELSE n),
                            LAMBDA n : IF n.s2.state \in {"EOS", "INFINITE"} /\ cnt >= n.map.max THEN n
                                       ELSE Complemented(n, cnt + 1)))
\* -C in a one-byte locale: the others in the collating order
ByCollation(b) ==
  LET others == {c \in 0 .. UCHAR : LookupHard(b.map, c).to = OOBCH /\ Rune(c)}
      kept == InOrder((0 .. UCHAR) \ others)
  IN  With([b EXCEPT !.map = Scan(LAMBDA cm, c : CmapAdd(cm, c, c), @, kept)],
           LAMBDA m : Scan(LAMBDA n, c : With([n EXCEPT !.s2 = NextCh(@)], LAMBDA x : AddPair(x, c, x.s2.lastch, TRUE)),
                           m, SelectSeq(CollatingOrder, LAMBDA c : c \in others)))

Complement == job.c \/ job.C
Built ==
  With(Mapped([s1 |-> NextCh(Str(job.string1)), s2 |-> NextCh(Str(job.string2)), squeeze |-> CsetAlloc,
               map |-> IF Complement THEN [CmapAlloc EXCEPT !.def = "none"] ELSE CmapAlloc]),
       LAMBDA b : With([b EXCEPT !.s2 = [Str(job.string2) EXCEPT !.lastch = b.s2.lastch]],
                       LAMBDA again : IF ~Complement THEN b
                                      ELSE IF job.c \/ job.mb THEN Complemented(again, 0) ELSE ByCollation(again)))
\* The default is the last character when -c has gone through the characters
LookedUp(cm, last, ch) == With(LookupHard(cm, ch), LAMBDA r : IF r.to = OOBCH THEN [r EXCEPT !.to = last] ELSE r)
CmapCache(cm, last) ==
  With(Scan(LAMBDA st, i : With(LookedUp(st.cm, last, i - 1), LAMBDA r : [cm |-> r.cm, cache |-> Append(st.cache, r.to)]),
            [cm |-> cm, cache |-> <<>>], [i \in 1 .. CACHE |-> i]),
       LAMBDA st : [map |-> st.cm, last |-> last, cache |-> st.cache])
CmapLookup(m, ch) == IF ch < CACHE THEN [to |-> m.cache[ch + 1], m |-> m]
                     ELSE With(LookedUp(m.map, m.last, ch), LAMBDA r : [to |-> r.to, m |-> [m EXCEPT !.map = r.cm]])

HasSequence(items) == \E i \in DOMAIN items : items[i].k = "seq"
TrStart ==
  /\ Running("tr")
  /\ mem = <<>>
  /\ LET sets == [delete |-> Setup(job.string1, job.c, job.C), lastch |-> OOBCH]
     IN  IF HasSequence(job.string1) \/ (job.string2 = <<>> /\ ~job.d /\ job.two) THEN Exit(1) /\ UNCHANGED mem
         ELSE /\ \E m \in {CASE job.d /\ job.s -> sets @@ [squeeze |-> Setup(job.string2, FALSE, FALSE)]
                             [] job.d /\ ~job.s -> sets
                             [] ~job.d /\ ~job.two -> [squeeze |-> Setup(job.string1, job.c, job.C), lastch |-> OOBCH]
                             [] OTHER -> With(Built, LAMBDA b : [map |-> CmapCache(b.map, b.s2.lastch), lastch |-> OOBCH,
                                                                 squeeze |-> CsetCache(b.squeeze)])} : mem' = m
              /\ UNCHANGED status
  /\ UNCHANGED <<job, inp, out>>

\* The character is written unless it repeats the last one written and is to be squeezed
Squeezed(m, ch) ==
  IF ~job.s THEN Emit(<<ch>>) /\ mem' = m
  ELSE \E r \in {CsetIn(m.squeeze, ch)} :
         IF m.lastch = ch /\ r.in THEN Emit(<<>>) /\ mem' = [m EXCEPT !.squeeze = r.s]
         ELSE Emit(<<ch>>) /\ mem' = [m EXCEPT !.squeeze = r.s, !.lastch = ch]
TrDelete ==
  /\ Running("tr")
  /\ job.d
  /\ mem # <<>> /\ inp # <<>>
  /\ \E r \in {CsetIn(mem.delete, Head(inp))} :
       IF r.in THEN mem' = [mem EXCEPT !.delete = r.s] /\ UNCHANGED out
       ELSE Squeezed([mem EXCEPT !.delete = r.s], Head(inp))
  /\ inp' = Tail(inp)
  /\ UNCHANGED <<job, status>>
TrSqueeze ==
  /\ Running("tr")
  /\ ~job.d /\ ~job.two
  /\ mem # <<>> /\ inp # <<>>
  /\ Squeezed(mem, Head(inp))
  /\ inp' = Tail(inp)
  /\ UNCHANGED <<job, status>>
TrTranslate ==
  /\ Running("tr")
  /\ ~job.d /\ job.two
  /\ mem # <<>> /\ inp # <<>>
  /\ IF job.C /\ ~Rune(Head(inp)) THEN Squeezed(mem, Head(inp))
     ELSE \E r \in {CmapLookup(mem.map, Head(inp))} : Squeezed([mem EXCEPT !.map = r.m], r.to)
  /\ inp' = Tail(inp)
  /\ UNCHANGED <<job, status>>
TrEnd ==
  /\ Running("tr")
  /\ mem # <<>> /\ inp = <<>>
  /\ Exit(0)
  /\ UNCHANGED <<job, inp, mem, out>>

TranslateStep ==
  /\ job.tool = "tr"
  /\ \/ TrStart \/ TrDelete \/ TrSqueeze \/ TrTranslate \/ TrEnd
=============================================================================
