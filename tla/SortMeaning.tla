---------------------------- MODULE SortMeaning ----------------------------
(***************************************************************************)
(* What sort promises about the order of its lines: the characters of a    *)
(* key said character by character, numbers as numbers, and the output as  *)
(* the place each line of the input gets; and what the threads of the      *)
(* radix sort have to keep while they run.                                 *)
(***************************************************************************)
EXTENDS SortOrder

-----------------------------------------------------------------------------
(* The options, as the manual explains them *)

IsKey(o) == o.o \in {"k", "+"}
Globals == {o.o : o \in {x \in Range(job.options) : ~IsKey(x)}}
MeantKeys == SelectSeq(job.options, IsKey)
Given(o) == Range(o.p1.m) \cup UNION {Range(p.m) : p \in Range(o.p2)}
\* The modifiers attached to a key take the place of the global ones (sort.1:147-150).
Attached(o) == Given(o) # {}
Mods(o) == IF Attached(o) THEN Given(o) ELSE Globals
BlanksAt(o, p) == IF Attached(o) THEN "b" \in Range(p.m) ELSE "b" \in Globals
\* <<field, character>>, from 1; character 0 is the last one of the field. The obsolete
\* form counts from 0, and its end is the first character that is left out.
StartAt(o) == IF o.o = "k" THEN <<o.p1.f, IF o.p1.c = -1 THEN 1 ELSE o.p1.c>> ELSE <<o.p1.f + 1, IF o.p1.c = -1 THEN 1 ELSE o.p1.c + 1>>
EndAt(o) == LET p == o.p2[1]
            IN  IF p.c \in {-1, 0} THEN <<p.f, 0>> ELSE IF o.o = "k" THEN <<p.f, p.c>> ELSE <<p.f + 1, p.c>>
\* Exception: an i alone counts as no modifier in sort_modifier_empty() (sort.c:231-237), and
\* the key gets the global ones instead (sort.c:1276-1281). Nothing is claimed of the order then.
Overlooked == \E o \in Range(MeantKeys) : Given(o) = {"i"}
Conflict(letters) == Cardinality(letters \cap Exclusive) > 1
BadPosition(o) == StartAt(o)[1] = 0 \/ StartAt(o)[2] = 0 \/ (o.p2 # <<>> /\ EndAt(o)[1] = 0)

-----------------------------------------------------------------------------
(* The key of a line, character by character *)

FieldOf(l, p) == 1 + IF job.sep = "" THEN Cardinality({q \in 2 .. p : Blank(l[q]) /\ ~Blank(l[q - 1])})
                     ELSE Cardinality({q \in 1 .. (p - 1) : l[q] = job.sep})
\* The end of the line is a position too: a separator at the end starts a field that is empty.
Positions(l) == 1 .. (Len(l) + IF l = <<>> \/ (job.sep # "" /\ Last(l) = job.sep) THEN 1 ELSE 0)
FieldStart(l, k) == Min({p \in Positions(l) : FieldOf(l, p) = k} \cup {100})
NoField(l, k) == FieldStart(l, k) = 100
Place(l, k, c, blanks) ==
  With(FieldStart(l, k), LAMBDA at :
    IF at = 100 THEN Len(l) + 1 ELSE c - 1 + IF blanks THEN Min({p \in at .. Len(l) : ~Blank(l[p])} \cup {Len(l) + 1}) ELSE at)
InKey(l, o, p) ==
  /\ With(StartAt(o), LAMBDA start : p >= Place(l, start[1], start[2], BlanksAt(o, o.p1)))
  /\ o.p2 # <<>> => With(EndAt(o), LAMBDA end :
       IF end[2] # 0 THEN p <= Place(l, end[1], end[2], BlanksAt(o, o.p2[1]))
       ELSE NoField(l, end[1]) \/ FieldOf(l, p) < end[1] \/ (FieldOf(l, p) = end[1] /\ l[p] # job.sep))
Counts(m, c) == /\ "d" \in m => c \in Letters \/ IsDigit(c) \/ Blank(c)
                /\ "i" \in m => c \notin {"\t", "^A"}
Shown(m, s) == With(SelectSeq(s, LAMBDA c : Counts(m, c)), LAMBDA kept : IF m \cap {"f", "M"} = {} THEN kept ELSE Upcase(kept))
\* A pair of the modifiers and the characters for each key; without any, the line
KeysOf(l) ==
  IF MeantKeys = <<>> THEN <<<<Globals, Shown(Globals, IF "b" \in Globals THEN Dropped(l, Blank) ELSE l)>>>>
  ELSE [i \in DOMAIN MeantKeys |->
          With(MeantKeys[i], LAMBDA o :
            With(InOrder({p \in DOMAIN l : InKey(l, o, p)}), LAMBDA at : <<Mods(o), Shown(Mods(o), [j \in DOMAIN at |-> l[at[j]]])>>))]

-----------------------------------------------------------------------------
(* How keys compare *)

Sign(n) == IF n < 0 THEN -1 ELSE IF n > 0 THEN 1 ELSE 0
Follows(s, t) == \/ \E i \in DOMAIN s : /\ SubSeq(s, 1, i - 1) = SubSeq(t, 1, Least(i - 1, Len(t)))
                                        /\ i > Len(t) \/ (i <= Len(t) /\ Code[s[i]] > Code[t[i]])
ByText(s, t) == IF s = t THEN 0 ELSE IF Follows(s, t) THEN 1 ELSE -1

\* A number in hundredths, which the digits of the instances do not exceed
Run(s, P(_)) == SubSeq(s, 1, Len(s) - Len(Dropped(s, P)))
Number(digits) == FoldLeft(LAMBDA v, c : 10 * v + Digit[c], 0, digits)
Numeric(s) ==
  With(Dropped(s, Blank), LAMBDA body :
   With(body # <<>> /\ body[1] = "-", LAMBDA minus :
    With(Run(IF minus THEN Tail(body) ELSE body, IsDigit), LAMBDA whole :
     With(SubSeq(body, Len(whole) + (IF minus THEN 2 ELSE 1), Len(body)), LAMBDA rest :
      With(IF rest # <<>> /\ rest[1] = "." THEN Run(Tail(rest), IsDigit) ELSE <<>>, LAMBDA frac :
       With(IF rest # <<>> /\ rest[1] = "." THEN SubSeq(rest, Len(frac) + 2, Len(rest)) ELSE rest, LAMBDA after :
        With(100 * Number(whole) + Number(SubSeq(frac \o <<"0", "0">>, 1, 2)), LAMBDA value :
          LET sign == IF minus THEN -1 ELSE 1
          IN  [v |-> sign * value,
               suffix |-> IF value = 0 \/ after = <<>> THEN 0 ELSE sign * (IF after[1] \in {"k", "K"} THEN 1 ELSE IF after[1] = "M" THEN 2 ELSE 0)])))))))
ByNumber(a, b) == Sign(a.v - b.v)
BySize(a, b) == IF Sign(a.v) # Sign(b.v) THEN Sign(Sign(a.v) - Sign(b.v)) ELSE IF a.suffix # b.suffix THEN Sign(a.suffix - b.suffix) ELSE ByNumber(a, b)
\* -g: what is no number, NaN, then the values; one that overflows is beyond infinity
Values == <<<<"-", "1", "e", "9", "9", "9">>, <<"-", "i", "n", "f">>, <<"-", "1">>, <<"1">>, <<"2">>, <<"i", "n", "f">>, <<"1", "e", "9", "9", "9">>>>
General(s) == LET x == Dropped(s, Blank)
              IN  IF x = NaN THEN 0 ELSE IF x \in Range(Values) THEN CHOOSE i \in DOMAIN Values : Values[i] = x ELSE -1
ByMonth(s, t) ==
  LET month(x) == LET name == SubSeq(x, 1, Least(3, Len(x))) IN IF name = <<"M", "A", "R">> THEN 3 ELSE IF name = <<"M", "A", "Y">> THEN 5 ELSE 0
  IN  Sign(month(Dropped(s, Blank)) - month(Dropped(t, Blank)))

\* -V: names that start with a dot come first; then the name without its suffix, as words
\* and numbers by turns. In a word ~ comes before its end, and letters before the rest.
Suffix(s) == Min({n \in 0 .. Len(s) : \/ n = Len(s)
                                      \/ /\ s[n + 1] = "." /\ \A i \in (n + 1) .. Len(s) : s[i] \in Letters \cup {"~", "."} \/ IsDigit(s[i])
                                         /\ \A i \in (n + 1) .. (Len(s) - 1) : s[i] = "." => s[i + 1] \in Letters \cup {"~"}})
Weight(c) == IF c = "~" THEN -1 ELSE IF c \in Letters THEN Code[c] ELSE 100 + Code[c]
NoDigit(c) == ~IsDigit(c)
RECURSIVE ByParts(_, _)
ByParts(s, t) ==
  LET at(x, i) == IF i \in DOMAIN x THEN Weight(x[i]) ELSE 0
      numbers(v, w) == <<Run(SubSeq(s, Len(v) + 1, Len(s)), IsDigit), Run(SubSeq(t, Len(w) + 1, Len(t)), IsDigit)>>
  IN  IF s = <<>> /\ t = <<>> THEN 0
      ELSE With(<<Run(s, NoDigit), Run(t, NoDigit)>>, LAMBDA word :
             With({i \in 1 .. Max({Len(word[1]), Len(word[2])}) : at(word[1], i) # at(word[2], i)}, LAMBDA diff :
               IF diff # {} THEN With(Min(diff), LAMBDA i : Sign(at(word[1], i) - at(word[2], i)))
               ELSE With(numbers(word[1], word[2]), LAMBDA n :
                      IF Number(n[1]) # Number(n[2]) THEN Sign(Number(n[1]) - Number(n[2]))
                      ELSE ByParts(SubSeq(s, Len(word[1]) + Len(n[1]) + 1, Len(s)), SubSeq(t, Len(word[2]) + Len(n[2]) + 1, Len(t))))))
Hidden(s) == IF s = <<>> THEN 0 ELSE IF s = <<".">> THEN 1 ELSE IF s = <<".", ".">> THEN 2 ELSE IF s[1] = "." THEN 3 ELSE 4
ByVersion(s, t) ==
  LET name(x) == IF Hidden(x) = 3 THEN Tail(x) ELSE x
      stem(x) == With(name(x), LAMBDA y : SubSeq(y, 1, Suffix(y)))
  IN  IF Hidden(s) # Hidden(t) THEN Sign(Hidden(s) - Hidden(t))
      ELSE With(<<stem(s), stem(t)>>, LAMBDA stems :
             With(IF stems[1] = stems[2] THEN 0 ELSE ByParts(stems[1], stems[2]), LAMBDA parts : IF parts # 0 THEN parts ELSE ByText(s, t)))

ByKey(m, s, t) ==
  With(IF m \cap {"n", "h"} # {} THEN With(<<Numeric(s), Numeric(t)>>, LAMBDA v : IF "n" \in m THEN ByNumber(v[1], v[2]) ELSE BySize(v[1], v[2]))
       ELSE IF "g" \in m THEN Sign(General(s) - General(t))
       ELSE IF "M" \in m THEN ByMonth(s, t) ELSE IF "V" \in m THEN ByVersion(s, t) ELSE ByText(s, t), LAMBDA plain : IF "r" \in m THEN -plain ELSE plain)
InputLines == [i \in DOMAIN job.files |-> Chomp(job.files[i])]
MeansStable == job.s \/ job.u
\* The first key that differs, and then, unless the sort is stable, the whole lines
ByKeys(s, t, k, j) ==
  With([i \in DOMAIN k |-> ByKey(k[i][1], k[i][2], j[i][2])], LAMBDA cmp :
    With({i \in DOMAIN cmp : cmp[i] # 0}, LAMBDA differ :
      IF differ # {} THEN cmp[Min(differ)]
      ELSE IF MeansStable \/ (MeantKeys = <<>> /\ Globals = {}) THEN 0
      ELSE IF "r" \in Globals THEN -ByText(s, t) ELSE ByText(s, t)))

-----------------------------------------------------------------------------
Refused == \/ Conflict(Globals) \/ \E o \in Range(MeantKeys) : Conflict(Given(o)) \/ BadPosition(o)
Unfit == LET m == KeysOf(<<>>)[1][1] IN ~job.c /\ ((job.method = "radixsort" /\ ~Plain(m)) \/ (job.method = "qsort" /\ MeansStable))
\* Each line at the place that the lines before it leave: those that are less, and those
\* that are equal and came earlier. With -u the first of equal lines stands for all.
Arranged(order) ==
  LET n == Len(InputLines)
      kept == {i \in 1 .. n : job.u => \A j \in 1 .. (i - 1) : order[j][i] # 0}
      place(i) == Cardinality({j \in kept : order[j][i] < 0 \/ (order[j][i] = 0 /\ j <= i)})
  IN  out = [p \in 1 .. Cardinality(kept) |-> Append(InputLines[CHOOSE i \in kept : place(i) = p], NL)]
Checked(order) == LET n == Len(InputLines)
                  IN  status = IF \E i \in 1 .. (n - 1) : order[i][i + 1] > 0 \/ (job.u /\ order[i][i + 1] = 0) THEN 1 ELSE 0
ResultRight ==
  \E lines \in {InputLines} : \E k \in {[i \in DOMAIN lines |-> KeysOf(lines[i])]} :
    \E order \in {[i \in DOMAIN lines |-> [j \in DOMAIN lines |-> ByKeys(lines[i], lines[j], k[i], k[j])]]} :
      IF job.c THEN Checked(order) ELSE status = 0 /\ Arranged(order)

\* The keys are the characters that were asked for; the output has every line at its place,
\* -c says whether the lines are, and options that contradict each other are refused. (Of a
\* job that is Overlooked only the last is claimed.)
KeysRight ==
  job.tool = "sort" =>
    /\ mem # <<>> /\ mem.at \in {"check", "method"} => Overlooked \/ \A i \in DOMAIN mem.list : \E k \in {KeysOf(mem.list[i].str)} :
         Len(k) = Len(mem.list[i].key) /\ \A j \in DOMAIN k : k[j][2] = mem.list[i].key[j]
    /\ status # -1 => IF Refused THEN status # 0 /\ out = <<>>
                      ELSE Overlooked \/ IF Unfit THEN status # 0 /\ out = <<>> ELSE ResultRight

\* While the threads of the radix sort run, every line is in one place: on the stack, in the
\* hands of one thread, or at its place in the result; and sort_left counts those that are
\* not at their place, so that no thread ends too early or waits for ever.
RadixAccounted ==
  job.tool = "sort" /\ mem # <<>> /\ mem.at = "radix" =>
    LET inHand(op) == IF op.op = "put" THEN op.items ELSE op.lv.items
        hand(t) == FlattenSeq([i \in DOMAIN mem.th[t].ops |-> inHand(mem.th[t].ops[i])])
        elsewhere == FlattenSeq([i \in DOMAIN mem.stack |-> mem.stack[i].items]) \o FlattenSeq([t \in 1 .. Cardinality(Threads) |-> hand(t - 1)])
        placed == SelectSeq(mem.sorted, LAMBDA i : i # 0)
    IN  /\ Len(elsewhere) = mem.left /\ Len(elsewhere) + Len(placed) = Len(mem.list)
        /\ Range(elsewhere) \cup Range(placed) = DOMAIN mem.list
=============================================================================
