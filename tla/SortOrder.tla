----------------------------- MODULE SortOrder -----------------------------
(***************************************************************************)
(* The order of sort: its options, the keys it cuts from a line, how they  *)
(* compare, -c, and the two ways a list in memory is sorted: mergesort(3)  *)
(* and the radix sort with its threads. Spilling and merging are the       *)
(* module Sort's. The locale is C. job.options holds [o |-> letter], and   *)
(* [o |-> "k" or "+", p1, p2] with positions [f, c, m], p2 in a tuple that *)
(* may be empty; c is -1 when it is not given. Offsets count from 0.       *)
(***************************************************************************)
EXTENDS Process

CONSTANTS UllMax,       \* ULLONG_MAX
          MaxNumSize,   \* the digits read_number() keeps
          SmallNode,    \* SMALL_NODE: fewer lines are sorted on the spot
          TinyNode,     \* TINY_NODE: fewer lines are compared
          MaxLevel,     \* the depth of the radix sort
          Threshold     \* MT_SORT_THRESHOLD

-----------------------------------------------------------------------------
(* Options *)

Exclusive == {"M", "n", "g", "h", "V"}
\* check_mutually_exclusive_flags()
Excluded(flags, c) == c \in Exclusive /\ flags \ {c} # {}
\* fix_obsolete_keys()
NewStyle(o) ==
  LET col(p) == IF p.c = -1 THEN 0 ELSE p.c
      first == [o.p1 EXCEPT !.f = @ + 1, !.c = col(o.p1) + 1]
      second(p) == [p EXCEPT !.f = @ + (IF col(p) > 0 THEN 1 ELSE 0), !.c = col(p)]
  IN  IF o.o = "+" THEN [o |-> "k", p1 |-> first, p2 |-> [i \in DOMAIN o.p2 |-> second(o.p2[i])]] ELSE o

Letter(st, c) == IF st.err # 0 THEN st
                 ELSE IF Excluded(st.flags, c) THEN [st EXCEPT !.err = 1]
                 ELSE [st EXCEPT !.flags = @ \cup ({c} \cap Exclusive), !.m = @ \cup {c}]
\* parse_pos(): the modifiers go to the key, b to the position
ParsePos(st, p, second) ==
  IF st.err # 0 THEN st
  ELSE IF p.f = 0 \/ (p.c = 0 /\ ~second) THEN [st EXCEPT !.err = 2]
  ELSE LET read == Scan(Letter, st, SelectSeq(p.m, LAMBDA c : c # "b"))
           b == "b" \in Range(p.m)
       IN  IF second THEN [read EXCEPT !.f2 = p.f, !.c2 = IF p.c = -1 THEN 0 ELSE p.c, !.b2 = b]
           ELSE [read EXCEPT !.f1 = p.f, !.c1 = IF p.c = -1 THEN 1 ELSE p.c, !.b1 = b]
NoKey == [f1 |-> 0, c1 |-> 0, b1 |-> FALSE, f2 |-> 0, c2 |-> 0, b2 |-> FALSE, m |-> {}]
ParseKey(o) == LET first == ParsePos(NoKey @@ [err |-> 0, flags |-> {}], o.p1, FALSE)
               IN  IF o.p2 = <<>> THEN first ELSE ParsePos(first, o.p2[1], TRUE)

\* main(): one option, and the keys once all are read
Option(st, o) ==
  IF st.err # 0 THEN st
  ELSE IF o.o # "k" THEN Letter(st, o.o)
  ELSE With(ParseKey(o), LAMBDA k : [st EXCEPT !.err = k.err, !.keys = Append(@, [x \in DOMAIN NoKey |-> k[x]])])
ModifierEmpty(m) == m \ {"i", "b"} = {}     \* sort_modifier_empty()
Inherited(k, m) == IF ModifierEmpty(k.m) /\ ~k.b1 /\ ~k.b2
                   THEN [k EXCEPT !.b1 = "b" \in m, !.b2 = "b" \in m, !.m = m] ELSE k
Options ==
  LET read == Scan(Option, [err |-> 0, flags |-> {}, m |-> {}, keys |-> <<>>], [i \in DOMAIN job.options |-> NewStyle(job.options[i])])
      whole == [NoKey EXCEPT !.c1 = 1, !.m = read.m]
  IN  [err |-> read.err, sm |-> read.m, kflag |-> read.keys # <<>>,
       keys |-> IF read.keys = <<>> THEN <<whole>> ELSE [i \in DOMAIN read.keys |-> Inherited(read.keys[i], read.m)]]

-----------------------------------------------------------------------------
(* Keys *)

Least(a, b) == IF a < b THEN a ELSE b
\* skip_fields_to_start(): where a field starts, and whether there is none
Cuts(s) == IF job.sep = "" THEN {i \in 1 .. (Len(s) - 1) : Blank(s[i + 1]) /\ ~Blank(s[i])} ELSE {i \in DOMAIN s : s[i] = job.sep}
SkipFields(s, fields) ==
  IF fields < 2 THEN [at |-> 0, empty |-> s = <<>>]
  ELSE IF Cardinality(Cuts(s)) < fields - 1 THEN [at |-> Len(s), empty |-> TRUE]
  ELSE [at |-> InOrder(Cuts(s))[fields - 1], empty |-> FALSE]
\* skip_cols_to_start()
SkipCols(s, cols, start, blanks) ==
  LET rest == SubSeq(s, start + 1, Len(s))
      from == IF blanks THEN Len(s) - Len(Dropped(rest, Blank)) ELSE start
  IN  Least(from + cols - 1, Len(s))
\* find_field_end()
FieldEnd(s, k) ==
  LET field == SkipFields(s, IF k.c2 = 0 THEN k.f2 + 1 ELSE k.f2)
      next == IF k.c2 = 0 /\ field.at > 0 /\ job.sep # "" /\ s[field.at] = job.sep THEN field.at - 1 ELSE field.at
      at == SkipCols(s, k.c2, next, k.b2)
  IN  IF k.f2 = 0 \/ field.empty \/ next >= Len(s) THEN Len(s) + 1
      ELSE IF k.c2 = 0 THEN next
      ELSE IF at < Len(s) THEN at + 1 ELSE at
\* cut_field(), find_field_start()
CutField(s, k) ==
  LET field == SkipFields(s, k.f1)
      start == SkipCols(s, k.c1, field.at, k.b1)
  IN  IF field.empty \/ start >= Len(s) THEN <<>> ELSE SubSeq(s, start + 1, Least(FieldEnd(s, k), Len(s)))

Uppers == "a" :> "A" @@ "b" :> "B" @@ "k" :> "K" @@ "m" :> "M" @@ "r" :> "R" @@ "y" :> "Y"
Upcase(s) == [i \in DOMAIN s |-> IF s[i] \in DOMAIN Uppers THEN Uppers[s[i]] ELSE s[i]]
Digits == <<"0", "1", "2", "3", "4", "5", "6", "7", "8", "9">>
Digit == [c \in Range(Digits) |-> (CHOOSE i \in DOMAIN Digits : Digits[i] = c) - 1]
IsDigit(c) == c \in DOMAIN Digit
Letters == {"A", "B", "K", "M", "R", "Y", "a", "b", "e", "f", "i", "k", "m", "n", "x", "y"}
\* dictionary_order(), ignore_nonprinting(), ignore_case()
Reduced(s, m) ==
  LET kept == IF "d" \in m THEN SelectSeq(s, LAMBDA c : c \in Letters \/ IsDigit(c) \/ Blank(c))
              ELSE IF "i" \in m THEN SelectSeq(s, LAMBDA c : c \notin {"\t", "^A"}) ELSE s
  IN  IF m \cap {"f", "M"} # {} THEN Upcase(kept) ELSE kept
\* preproc()
Preproc(s, o) ==
  [i \in DOMAIN o.keys |->
     IF o.kflag THEN Reduced(CutField(s, o.keys[i]), o.keys[i].m)
     ELSE Reduced(IF "b" \in o.sm THEN Dropped(s, Blank) ELSE s, o.sm)]

-----------------------------------------------------------------------------
(* Comparing two keys: less than 0, 0, or more *)

Bytes == <<"^A", "\t", " ", "+", "-", ".">> \o Digits \o <<":", "A", "B", "K", "M", "R", "Y", "a", "b", "e", "f", "i", "k", "m", "n", "x", "y", "~">>
Code == [c \in Range(Bytes) |-> CHOOSE i \in DOMAIN Bytes : Bytes[i] = c]
\* bwscoll(), bwscmp(): from an offset on
Bwscoll(s, t, offset) ==
  LET n == Least(Len(s), Len(t))
      diff == {i \in (offset + 1) .. n : s[i] # t[i]}
  IN  IF Len(s) <= offset \/ Len(t) <= offset THEN (IF Len(s) > offset THEN 1 ELSE 0) - (IF Len(t) > offset THEN 1 ELSE 0)
      ELSE IF diff = {} THEN Len(s) - Len(t) ELSE Code[s[Min(diff)]] - Code[t[Min(diff)]]

\* read_number(): the digits before and behind the point, without the zeros
\* that do not count, and setsuffix()
DigitsOf(s) == SubSeq(s, 1, Least(MaxNumSize, Len(s) - Len(Dropped(s, IsDigit))))
After(s, prefix) == SubSeq(s, Len(prefix) + 1, Len(s))
SuffixValue == "k" :> 1 @@ "K" :> 1 @@ "M" :> 2
ReadNumber(s) ==
  With(Dropped(s, Blank), LAMBDA body :
    With(<<body # <<>> /\ body[1] = "-">>, LAMBDA minus :
      With(Dropped(IF minus[1] THEN Tail(body) ELSE body, LAMBDA c : c = "0"), LAMBDA rest :
        With(DigitsOf(rest), LAMBDA main :
          With(After(rest, main), LAMBDA behind :
            LET point == behind # <<>> /\ behind[1] = "."
            IN  With(IF point THEN DigitsOf(Tail(behind)) ELSE <<>>, LAMBDA digits :
                  With(Reverse(Dropped(Reverse(digits), LAMBDA c : c = "0")), LAMBDA frac :
                    With(After(behind, IF point THEN <<".">> \o digits ELSE <<>>), LAMBDA tail :
                      [neg |-> minus[1] /\ (main # <<>> \/ frac # <<>>), main |-> main, frac |-> frac,
                       empty |-> main = <<>> /\ frac = <<>>,
                       si |-> IF tail # <<>> /\ tail[1] \in DOMAIN SuffixValue THEN SuffixValue[tail[1]] ELSE 0,
                       n |-> Least(UllMax, Scan(LAMBDA v, c : 10 * v + Digit[c], 0, main))]))))))))
\* numcoll_impl(): the value that was kept decides unless it overflowed
NumColl(s, t, suffix) ==
  With(<<ReadNumber(s), ReadNumber(t)>>, LAMBDA p :
    LET a == p[1]
        b == p[2]
        signed(r) == IF a.neg THEN -r ELSE r
        digits == IF Len(a.main) # Len(b.main) THEN Len(a.main) - Len(b.main) ELSE Bwscoll(a.main, b.main, 0)
    IN  IF a.empty /\ b.empty THEN 0
        ELSE IF a.neg # b.neg THEN (IF a.neg THEN -1 ELSE 1)
        ELSE IF a.empty THEN (IF b.neg THEN 1 ELSE -1)
        ELSE IF b.empty THEN (IF a.neg THEN -1 ELSE 1)
        ELSE IF suffix /\ a.si # b.si THEN signed(a.si - b.si)
        ELSE IF a.n < UllMax /\ b.n < UllMax /\ a.n # b.n THEN signed(a.n - b.n)
        ELSE IF digits # 0 THEN signed(digits)
        ELSE signed(Bwscoll(a.frac, b.frac, 0)))

\* strtod(3): the value, 100 standing for infinity, and whether it overflowed
Double == <<"1">> :> [v |-> 1, range |-> FALSE] @@ <<"2">> :> [v |-> 2, range |-> FALSE] @@ <<"-", "1">> :> [v |-> -1, range |-> FALSE]
          @@ <<"i", "n", "f">> :> [v |-> 100, range |-> FALSE] @@ <<"-", "i", "n", "f">> :> [v |-> -100, range |-> FALSE]
          @@ <<"1", "e", "9", "9", "9">> :> [v |-> 100, range |-> TRUE] @@ <<"-", "1", "e", "9", "9", "9">> :> [v |-> -100, range |-> TRUE]
NaN == <<"n", "a", "n">>
\* gnumcoll(), huge_minus(), huge_plus()
GnumColl(s, t) ==
  LET x == Dropped(s, Blank)
      y == Dropped(t, Blank)
      number(z) == z = NaN \/ z \in DOMAIN Double
      huge(z, v) == Double[z].range /\ Double[z].v = v
      either(p, q) == (IF p THEN 1 ELSE 0) - (IF q THEN 1 ELSE 0)
  IN  IF ~number(x) \/ ~number(y) THEN either(number(x), number(y))
      ELSE IF x = NaN \/ y = NaN THEN either(x # NaN, y # NaN)
      ELSE IF huge(x, -100) \/ huge(y, -100) THEN either(huge(y, -100), huge(x, -100))
      ELSE IF huge(x, 100) \/ huge(y, 100) THEN either(huge(x, 100), huge(y, 100))
      ELSE Double[x].v - Double[y].v

Months == <<<<"M", "A", "R">>, <<"M", "A", "Y">>>>
\* bws_month_score(), monthcoll()
Score(s) == LET named == {i \in DOMAIN Months : IsPrefix(Months[i], Dropped(s, Blank))} IN IF named = {} THEN -1 ELSE Max(named)
MonthColl(s, t) == Score(s) - Score(t)

\* vsort.c; positions count from 1, a character past the end is ""
At(s, i) == IF i \in DOMAIN s THEN s[i] ELSE ""
\* find_suffix(): the length before the suffix; a state is [sfx, alpha, len]
SuffixAt(s) ==
  LET step(st, i) ==
        IF st.alpha THEN [st EXCEPT !.alpha = FALSE, !.sfx = @ /\ s[i] \in Letters \cup {"~"}]
        ELSE IF s[i] = "." THEN [sfx |-> TRUE, alpha |-> TRUE, len |-> IF st.sfx THEN st.len ELSE i - 1]
        ELSE [st EXCEPT !.sfx = @ /\ (s[i] \in Letters \cup {"~"} \/ IsDigit(s[i]))]
  IN  With(Scan(step, [sfx |-> FALSE, alpha |-> FALSE, len |-> 0], [i \in DOMAIN s |-> i]), LAMBDA end : IF end.sfx THEN end.len ELSE Len(s))
\* cmp_chars()
CmpChars(c, d) ==
  LET low(x) == x = "" \/ IsDigit(x)
  IN  IF c = d THEN 0
      ELSE IF "~" \in {c, d} THEN (IF c = "~" THEN -1 ELSE 1)
      ELSE IF low(c) \/ low(d) THEN (IF low(d) THEN 1 ELSE 0) - (IF low(c) THEN 1 ELSE 0)
      ELSE IF (c \in Letters) # (d \in Letters) THEN (IF c \in Letters THEN -1 ELSE 1)
      ELSE Code[c] - Code[d]
\* cmpversions(): the characters that are no digits, then the numbers; the digits
\* are read in the whole strings s and t, whose parts end at m and n
RECURSIVE CmpVersions(_, _, _, _, _, _)
CmpVersions(s, i, m, t, j, n) ==
  LET wordEnd(x, a, e) == e + 1 - Len(Dropped(SubSeq(x, a, e), LAMBDA c : ~IsDigit(c)))
      pair(k) == <<IF i + k <= m THEN s[i + k] ELSE "", IF j + k <= n THEN t[j + k] ELSE "">>
      numberAt(x, a) == With(Len(x) + 1 - Len(Dropped(SubSeq(x, a, Len(x)), LAMBDA c : c = "0")), LAMBDA from :
                          [from |-> from, digits |-> SubSeq(x, from, Len(x) - Len(Dropped(SubSeq(x, from, Len(x)), IsDigit)))])
  IN  IF i > m /\ j > n THEN 0
      ELSE With(Max({wordEnd(s, i, m) - i, wordEnd(t, j, n) - j}), LAMBDA words :
             With({k \in 0 .. (words - 1) : CmpChars(pair(k)[1], pair(k)[2]) # 0}, LAMBDA differ :
               IF differ # {} THEN CmpChars(pair(Min(differ))[1], pair(Min(differ))[2])
               ELSE With(<<numberAt(s, Least(i + words, m + 1)), numberAt(t, Least(j + words, n + 1))>>, LAMBDA num :
                      LET a == num[1].digits
                          b == num[2].digits
                          diff == {k \in DOMAIN a : a[k] # b[k]}
                      IN  IF Len(a) # Len(b) THEN Len(a) - Len(b)
                          ELSE IF diff # {} THEN Digit[a[Min(diff)]] - Digit[b[Min(diff)]]
                          ELSE CmpVersions(s, num[1].from + Len(a), m, t, num[2].from + Len(b), n))))
\* vcmp()
VersionColl(s, t) ==
  LET first(P(_)) == IF P(s) THEN -1 ELSE 1
      dot(x) == At(x, 1) = "."
      bare(x) == IF dot(x) THEN Tail(x) ELSE x
      stem(x) == SubSeq(bare(x), 1, SuffixAt(bare(x)))
  IN  IF s = t THEN 0
      ELSE IF <<>> \in {s, t} THEN first(LAMBDA x : x = <<>>)
      ELSE IF <<".">> \in {s, t} THEN first(LAMBDA x : x = <<".">>)
      ELSE IF <<".", ".">> \in {s, t} THEN first(LAMBDA x : x = <<".", ".">>)
      ELSE IF dot(s) # dot(t) THEN first(dot)
      ELSE With(<<stem(s), stem(t)>>, LAMBDA stems :
             With(IF stems[1] = stems[2] THEN 0 ELSE CmpVersions(bare(s), 1, Len(stems[1]), bare(t), 1, Len(stems[2])), LAMBDA cmp :
               IF cmp # 0 THEN cmp ELSE Bwscoll(s, t, 0)))

\* get_sort_func()
Func(m, s, t, offset) ==
  IF m \cap {"n", "h"} # {} THEN NumColl(s, t, "n" \notin m)
  ELSE IF "g" \in m THEN GnumColl(s, t)
  ELSE IF "M" \in m THEN MonthColl(s, t)
  ELSE IF "V" \in m THEN VersionColl(s, t)
  ELSE Bwscoll(s, t, offset)
\* key_coll(): the offset is for the first key only
KeyColl(x, y, offset) ==
  LET keys == mem.o.keys
      at(i) == IF i = 1 THEN offset ELSE 0
      coll[i \in 1 .. (Len(keys) + 1)] ==
        IF i > Len(keys) THEN 0
        ELSE With(IF "r" \in keys[i].m THEN <<y, x>> ELSE <<x, y>>, LAMBDA p :
               With(Func(keys[i].m, p[1].key[i], p[2].key[i], at(i)), LAMBDA c : IF c # 0 THEN c ELSE coll[i + 1]))
  IN  coll[1]
\* top_level_str_coll()
TopColl(x, y) == IF "r" \in mem.o.sm THEN Bwscoll(y.str, x.str, 0) ELSE Bwscoll(x.str, y.str, 0)
Stable == job.s \/ job.u
Complex == mem.o.kflag \/ mem.o.sm # {}
\* list_coll_offset()
ListColl(x, y, offset) == With(KeyColl(x, y, offset), LAMBDA c : IF c = 0 /\ ~Stable /\ Complex THEN TopColl(x, y) ELSE c)

-----------------------------------------------------------------------------
(* Reading, -c, mergesort *)

Item(l, o) == [str |-> l, key |-> Preproc(l, o)]
\* file_reader_readline(), sort_list_add()
SortRead ==
  /\ Running("sort") /\ mem = <<>>
  /\ \E o \in {Options} :
       IF o.err # 0 THEN Exit(o.err) /\ UNCHANGED <<inp, mem>>
       ELSE \E list \in {[i \in DOMAIN inp |-> Item(Chomp(inp[i]), o)]} :
              /\ mem' = [at |-> IF job.c THEN "check" ELSE "method", o |-> o, list |-> list, pos |-> 1]
              /\ inp' = <<>>
              /\ UNCHANGED status
  /\ UNCHANGED <<job, out>>

\* check(): the line behind pos is compared with the one before it
SortCheck ==
  /\ Running("sort") /\ mem # <<>> /\ mem.at = "check"
  /\ IF mem.pos >= Len(mem.list) THEN Exit(0) /\ UNCHANGED mem
     ELSE \E cmp \in {KeyColl(mem.list[mem.pos + 1], mem.list[mem.pos], 0)} :
            LET both == IF cmp = 0 /\ Complex /\ ~Stable THEN TopColl(mem.list[mem.pos + 1], mem.list[mem.pos]) ELSE cmp
            IN  IF both < 0 \/ (job.u /\ both = 0) THEN Exit(1) /\ UNCHANGED mem
                ELSE mem' = [mem EXCEPT !.pos = @ + 1] /\ UNCHANGED status
  /\ UNCHANGED <<job, inp, out>>

\* insertionsort() of mergesort(3), which is all it does to five lines: indices of the
\* list are compared from an offset on, or, when it is -1, by their whole strings
Compare(list, i, j, offset) == IF offset = -1 THEN TopColl(list[i], list[j]) ELSE ListColl(list[i], list[j], offset)
Inserted(list, done, i, offset) ==
  With(Max({0} \cup {k \in DOMAIN done : Compare(list, done[k], i, offset) <= 0}), LAMBDA at :
    SubSeq(done, 1, at) \o <<i>> \o SubSeq(done, at + 1, Len(done)))
MergeSorted(list, items, offset) == Scan(LAMBDA done, i : Inserted(list, done, i, offset), <<>>, items)

-----------------------------------------------------------------------------
(* The radix sort. A level is [items, start, level]: the lines it has to   *)
(* order, where they go, and how many characters they agree on.            *)

\* get_wc_index(), -1 being behind the last character
Index(list, i, level) == LET k == list[i].key[1] IN IF Len(k) > level THEN Code[k[level + 1]] ELSE -1
ReverseSort == "r" \in mem.o.keys[1].m
\* What a thread does one after the other: it copies lines to their places and counts
\* them, or pushes a level on the stack.
Put(items, start) == <<[op |-> "put", items |-> items, start |-> start]>>
Push(lv) == <<[op |-> "push", lv |-> lv]>>

SumLen(groups, n) == FoldLeft(LAMBDA a, g : a + Len(g), 0, SubSeq(groups, 1, n))
\* Mutant: lines whose first key is the same are left as they are.
LeavesAsTheyAre(list, items) == items
\* The leaves: several keys are compared, a single one is equal
Leaves(list, items) ==
  LET several == Len(mem.o.keys) > 1
  IN  IF several \/ (~Stable /\ Complex) THEN MergeSorted(list, items, IF several THEN 0 ELSE -1) ELSE items
\* place_item(), and the sublevels in their order: run_sort_level_next() takes the small
\* ones at once, run_top_sort_level() pushes them all
RECURSIVE LevelOps(_, _, _)
LevelOps(list, lv, top) ==
  LET n == Len(lv.items)
      of(c) == SelectSeq(lv.items, LAMBDA i : Index(list, i, lv.level) = c)
      codes == InOrder({Index(list, lv.items[i], lv.level) : i \in DOMAIN lv.items} \ {-1})
  IN  IF ~top /\ n = 1 THEN Put(lv.items, lv.start)
      ELSE IF ~top /\ (n = 2 \/ n < TinyNode \/ lv.level > MaxLevel) THEN Put(MergeSorted(list, lv.items, lv.level), lv.start)
      ELSE With(Leaves(list, of(-1)), LAMBDA leaves :
             With(LET order == IF ReverseSort THEN Reverse(codes) ELSE codes IN [k \in DOMAIN order |-> of(order[k])], LAMBDA groups :
               LET start(k) == lv.start + (IF ReverseSort THEN 0 ELSE Len(leaves)) + SumLen(groups, k - 1)
                   sub(k) == [items |-> groups[k], start |-> start(k), level |-> lv.level + 1]
               IN  With(FlattenSeq([k \in DOMAIN groups |-> IF top \/ Len(groups[k]) >= SmallNode THEN Push(sub(k)) ELSE LevelOps(list, sub(k), FALSE)]),
                     LAMBDA subs : IF ReverseSort THEN subs \o Put(leaves, start(Len(groups) + 1)) ELSE Put(leaves, lv.start) \o subs)))

\* sort_list_to_file(), run_sort(): the method; the top level is run before any thread
Plain(m) == m \cap {"M", "V", "g", "h", "n"} = {}
SortMethod ==
  /\ Running("sort") /\ mem # <<>> /\ mem.at = "method"
  /\ LET plain == Plain(mem.o.keys[1].m)
         n == Len(mem.list)
         radix == job.method = "radixsort" \/ (job.method = "default" /\ plain)
         threads == IF n < Threshold THEN 1 ELSE job.threads
         all == [items |-> [i \in 1 .. n |-> i], start |-> 1, level |-> 0]
     IN  IF (job.method = "radixsort" /\ ~plain) \/ (Stable /\ job.method = "qsort") THEN Exit(2) /\ UNCHANGED mem
         ELSE /\ IF radix
                 THEN \E ops \in {LevelOps(mem.list, all, TRUE)} :
                        mem' = [at |-> "radix", o |-> mem.o, list |-> mem.list, sorted |-> [i \in 1 .. n |-> 0], left |-> n, stack |-> <<>>,
                                th |-> [t \in 0 .. threads |-> [pc |-> IF t = 0 THEN "ops" ELSE "new", ops |-> IF t = 0 THEN ops ELSE <<>>]]]
                 ELSE \E done \in {MergeSorted(mem.list, all.items, 0)} :
                        mem' = [at |-> "dump", o |-> mem.o, list |-> [i \in 1 .. n |-> mem.list[done[i]]]]
              /\ UNCHANGED status
  /\ UNCHANGED <<job, inp, out>>

Threads == DOMAIN mem.th
InRadix == Running("sort") /\ mem # <<>> /\ mem.at = "radix"
\* One step of run_sort_level_next(), or of run_top_sort_level(), which is thread 0:
\* sort_left_dec() wakes all when nothing is left, push_ls() one of those that wait.
ThreadOp(t) ==
  /\ InRadix /\ mem.th[t].pc = "ops" /\ mem.th[t].ops # <<>>
  /\ LET op == mem.th[t].ops[1]
         done == [mem EXCEPT !.th[t].ops = Tail(@)]
         waiting == {u \in Threads : mem.th[u].pc = "wait"}
     IN  IF op.op = "put"
         THEN LET left == mem.left - Len(op.items)
              IN  mem' = [done EXCEPT !.left = left,
                     !.sorted = [i \in DOMAIN @ |-> IF i - op.start + 1 \in DOMAIN op.items THEN op.items[i - op.start + 1] ELSE @[i]],
                     !.th = [u \in DOMAIN @ |-> IF left = 0 /\ u \in waiting THEN [@[u] EXCEPT !.pc = "pop"] ELSE @[u]]]
         ELSE \E w \in IF waiting = {} THEN {t} ELSE waiting :
                mem' = [done EXCEPT !.stack = <<op.lv>> \o @, !.th[w].pc = IF w = t THEN @ ELSE "pop"]
  /\ UNCHANGED <<job, inp, out, status>>
\* free_sort_level(), and for thread 0 the creation of the others
ThreadLevelDone(t) ==
  /\ InRadix /\ mem.th[t].pc = "ops" /\ mem.th[t].ops = <<>>
  /\ mem' = [mem EXCEPT !.th = [u \in DOMAIN @ |-> IF t = 0 THEN [@[u] EXCEPT !.pc = IF u = 0 THEN "end" ELSE "pop"]
                                                 ELSE IF u = t THEN [@[u] EXCEPT !.pc = "pop"] ELSE @[u]]]
  /\ UNCHANGED <<job, inp, out, status>>
\* pop_ls_mt(), pop_ls_st(): a level, the end, or the condition variable
ThreadPop(t) ==
  /\ InRadix /\ mem.th[t].pc = "pop"
  /\ IF mem.stack # <<>>
     THEN \E ops \in {LevelOps(mem.list, mem.stack[1], FALSE)} :
            mem' = [mem EXCEPT !.stack = Tail(@), !.th[t] = [pc |-> "ops", ops |-> ops]]
     ELSE mem' = [mem EXCEPT !.th[t].pc = IF Cardinality(Threads) = 2 \/ mem.left = 0 THEN "end" ELSE "wait"]
  /\ UNCHANGED <<job, inp, out, status>>
\* sem_wait() for every thread
SortJoin ==
  /\ InRadix /\ \A t \in Threads : mem.th[t].pc = "end"
  /\ mem' = [at |-> "dump", o |-> mem.o, list |-> [i \in DOMAIN mem.sorted |-> mem.list[mem.sorted[i]]]]
  /\ UNCHANGED <<job, inp, out, status>>

\* sort_list_dump(): with -u a line that equals the last one printed is left out
SortDump ==
  /\ Running("sort") /\ mem # <<>> /\ mem.at = "dump"
  /\ LET print(done, x) == IF job.u /\ done # <<>> /\ ListColl(Last(done), x, 0) = 0 THEN done ELSE Append(done, x)
     IN  \E lines \in {Scan(print, <<>>, mem.list)} : Emit([i \in DOMAIN lines |-> Append(lines[i].str, NL)])
  /\ Exit(0)
  /\ UNCHANGED <<job, inp, mem>>

SortThread == InRadix /\ \E t \in Threads : ThreadOp(t) \/ ThreadLevelDone(t) \/ ThreadPop(t)
SortStep ==
  /\ job.tool = "sort"
  /\ \/ SortRead \/ SortCheck \/ SortMethod \/ SortThread \/ SortJoin \/ SortDump
=============================================================================
