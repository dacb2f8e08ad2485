---------------------------- MODULE TextMeaning ----------------------------
(***************************************************************************)
(* What the commands of TextTools keep of a text and what they promise     *)
(* about its lines; and what tr is said to do, with strings, sets and      *)
(* functions instead of its reader, its trees and its caches.              *)
(***************************************************************************)
EXTENDS TextTools, Translate

\* The lines of a text, without their newlines
LinesOf(s) ==
  LET ends == {i \in DOMAIN s : s[i] = NL}
      cut(i) == SubSeq(s, Max({j + 1 : j \in {k \in ends : k < i} \cup {0}}), i - 1)
  IN  [n \in 1 .. Cardinality(ends) |-> cut(InOrder(ends)[n])]
NotBlank(s) == SelectSeq(s, LAMBDA c : ~Blank(c) /\ c # NL)

\* fold: nothing but newlines is added, and no line is wider than asked for
\* unless it is one character
Folded ==
  /\ LET kept == SelectSeq(out, LAMBDA c : c # NL)
     IN  kept = SelectSeq(job.files, LAMBDA c : c # NL)
  /\ \A n \in DOMAIN LinesOf(out) :
       LET l == LinesOf(out)[n]
       IN  Width(l) <= job.width \/ Len(l) = 1
  \* with -s a word is only broken when it began the line
  /\ job.s => \A i \in 2 .. (Len(out) - 1) :
       (out[i] = NL /\ ~Blank(out[i - 1])) =>
         LET start == Max({j \in 1 .. (i - 1) : out[j] = NL} \cup {0})
         IN  \A j \in (start + 1) .. (i - 1) : ~Blank(out[j])

\* expand, unexpand: every character that is not a blank stands in the column it
\* stood in before, with a tab leading to the next of the stops
NextStop(col) ==
  LET beyond == {s \in {job.stops[i] : i \in DOMAIN job.stops} : s > col}
      every == IF job.stops = <<>> THEN 8 ELSE job.stops[1]
  IN  CASE Len(job.stops) <= 1 -> Min({k \in (col + 1) .. (col + every) : k % every = 0})
        [] beyond = {} -> col + 1
        [] OTHER -> Min(beyond)
Moved(col, c) == CASE c = "\t" -> NextStop(col) [] c = NL -> 0 [] c = BS -> Max({0, col - 1}) [] OTHER -> col + 1
Column(s, i) == Scan(Moved, 0, SubSeq(s, 1, i - 1))
Layout(s) ==
  LET place(at, c) == [col |-> Moved(at.col, c),
                       seen |-> IF Blank(c) THEN at.seen ELSE Append(at.seen, <<c, at.col>>)]
  IN  Scan(place, [col |-> 0, seen |-> <<>>], s).seen
\* Exception: with a list of stops unexpand puts a tab wherever blanks are left
\* (unexpand.c:161-164, and 128-142 where they come to the last stop), the next stop
\* being where they end or not, though it is to put tabs "back" (expand.1:68-71). Of a text
\* with blanks that do not end at a stop only the other characters are claimed.
EndsAtStop(s, i) ==
  LET start == Max({j + 1 : j \in {k \in 1 .. (i - 1) : ~Blank(s[k])} \cup {0}})
      before == {job.stops[n] : n \in 1 .. (Len(job.stops) - 1)}
  IN  Column(s, i) \in before \/ Column(s, start) >= Last(job.stops) - 1
Misled(s) == /\ job.tool = "unexpand" /\ Len(job.stops) > 1
             /\ \E i \in 2 .. Len(s) : Blank(s[i - 1]) /\ ~Blank(s[i]) /\ ~EndsAtStop(s, i)
Others(s) == SelectSeq(s, LAMBDA c : ~Blank(c))
Aligned == status = 0 => IF Misled(job.files) THEN Others(out) = Others(job.files)
                         ELSE Layout(out) = Layout(job.files)

\* fmt: the words are the words of the input in their order, the empty lines
\* stay, and a line longer than the maximum is one word. (With -p the column is
\* not corrected when the second line has another indentation than the first.)
Words(s) == With([i \in DOMAIN s |-> IF s[i] \in {NL, "\t"} THEN " " ELSE s[i]],
                 LAMBDA l : [k \in DOMAIN WordsOf(l) |-> WordsOf(l)[k][1]])
Empty(lines) == Cardinality({i \in DOMAIN lines : lines[i] = <<>>})
Filled ==
  LET lines == LinesOf(out)
  IN  /\ Words(out) = Words(FlattenSeq(job.files))
      /\ Empty(lines) = Cardinality({i \in DOMAIN job.files : Words(job.files[i]) = <<>>})
      /\ job.p \/ \A i \in DOMAIN lines : Len(lines[i]) <= job.max \/ Len(Words(lines[i])) = 1

\* A text laid out anew is the same text: fold adds newlines only and keeps to
\* the width, expand and unexpand keep every column (unexpand with a list: where it
\* is not Misled), fmt keeps the words and the paragraphs, wherever a tab, a
\* backspace, a long word or an indentation meets the end of a line.
TextKept ==
  status = 0 =>
    CASE job.tool = "fold" -> Folded
      [] job.tool \in {"expand", "unexpand"} -> Aligned
      [] job.tool = "fmt" -> Filled
      [] OTHER -> TRUE

-----------------------------------------------------------------------------
\* The characters of an item
Expand(it) ==
  LET between == IF it.octal \/ job.mb THEN [i \in 1 .. (it.hi - it.lo + 1) |-> it.lo + i - 1]
                 ELSE SubSeq(CollatingOrder, Coll(it.lo), Coll(it.hi))
  IN  CASE it.k \in {"char", "equiv"} -> <<it.c>>
        [] it.k = "class" -> InOrder({c \in ClassOf[it.name] : c <= UCHAR})
        [] it.k = "seq" -> [i \in 1 .. (IF it.n = 0 THEN 20 ELSE it.n) |-> it.c]
        [] OTHER -> IF between # <<>> THEN between ELSE <<it.lo, Dash, it.hi>>
CharsOf(items) == FlattenSeq([i \in DOMAIN items |-> Expand(items[i])])

\* string2 beside string1: where [:lower:] meets [:upper:] the one is the other in
\* the other case
Opposite == [lower |-> "upper", upper |-> "lower"]
Starts(items, at, class) ==
  \E i \in DOMAIN items : /\ items[i].k = "class" /\ items[i].name = class
                          /\ Len(CharsOf(SubSeq(items, 1, i - 1))) = at
Beside == Scan(LAMBDA cs, it :
                 cs \o IF it.k = "class" /\ it.name \in DOMAIN Opposite /\ Starts(job.string1, Len(cs), Opposite[it.name])
                       THEN [i \in DOMAIN Expand([it EXCEPT !.name = Opposite[@]]) |->
                               LET c == Expand([it EXCEPT !.name = Opposite[@]])[i]
                               IN  IF it.name = "upper" THEN ToUpper(c) ELSE ToLower(c)]
                       ELSE Expand(it),
               <<>>, job.string2)
At(cs, i) == cs[IF i > Len(cs) THEN Len(cs) ELSE i]
Image(c) ==
  LET listed == CharsOf(job.string1)
      places == {i \in DOMAIN listed : listed[i] = c}
      others == IF job.c \/ job.mb
                THEN InOrder({x \in 0 .. WINT : (job.C => Rune(x)) /\ \A i \in DOMAIN listed : listed[i] # x})
                ELSE SelectSeq(CollatingOrder, LAMBDA x : Rune(x) /\ \A i \in DOMAIN listed : listed[i] # x)
  IN  IF Complement
      THEN IF \E i \in DOMAIN others : others[i] = c
           THEN At(CharsOf(job.string2), CHOOSE i \in DOMAIN others : others[i] = c) ELSE c
      ELSE IF places = {} THEN c ELSE At(Beside, Max(places))
Listed(items, c) == \E i \in DOMAIN CharsOf(items) : CharsOf(items)[i] = c
Selected(c) == IF job.C THEN Rune(c) /\ ~Listed(job.string1, c) ELSE job.c # Listed(job.string1, c)

\* What is written when nothing is squeezed
Plain == CASE job.d -> SelectSeq(job.files, LAMBDA c : ~Selected(c))
           [] job.two -> [i \in DOMAIN job.files |-> IF job.C /\ ~Rune(job.files[i]) THEN job.files[i] ELSE Image(job.files[i])]
           [] OTHER -> job.files
\* What is squeezed: the characters of the last operand (tr.1:83-88)
Squeezes(c) == IF job.d \/ job.two THEN Listed(job.string2, c) ELSE Selected(c)
\* Exception: with two strings it is not "all the characters in string2" (tr.c:186-187)
\* but those that stand beside one of string1 (tr.c:256-257). A character of string2 that
\* nothing is mapped to may be squeezed or not.
Unmet(c) ==
  /\ ~job.d /\ job.two
  /\ \A i \in DOMAIN CharsOf(job.string1) : At(Beside, i) # c
  /\ Complement => \A x \in 0 .. WINT : (job.C /\ ~Rune(x)) \/ Listed(job.string1, x) \/ Image(x) # c

\* The trees are trees: in order, no two ranges touching in a set
RECURSIVE Ranges(_)
Ranges(t) == IF t = Nil THEN <<>> ELSE Ranges(t.left) \o <<<<t.min, t.max>>>> \o Ranges(t.right)
InTree(t, gap) == With(Ranges(t), LAMBDA r : \A i \in 1 .. (Len(r) - 1) : r[i][2] + gap < r[i + 1][1])

\* tr maps, deletes and squeezes the characters its strings denote (those of string2
\* that are Unmet are squeezed or not), whichever way they are written and however
\* often the trees were turned; the caches hold what the trees hold.
Translated ==
  (job.tool = "tr" /\ status = 0) =>
    /\ LET plain == Plain
           squeezed == {c \in {plain[i] : i \in DOMAIN plain} : Squeezes(c)}
       IN  IF ~job.s THEN out = plain
           ELSE \E unmet \in SUBSET {c \in squeezed : Unmet(c)} :
                  out = Scan(LAMBDA o, c : IF o # <<>> /\ Last(o) = c /\ c \in squeezed \ unmet THEN o ELSE Append(o, c), <<>>, plain)
    /\ "map" \in DOMAIN mem => InTree(mem.map.map.root, 0)
    /\ "squeeze" \in DOMAIN mem => InTree(mem.squeeze.set.root, 1)
=============================================================================
