----------------------------- MODULE CommandJobs -----------------------------
(***************************************************************************)
(* What the commands are run on for model checking. Those that read text:  *)
(* every file of a few lines, with the options that interact. Those that   *)
(* work on files: small trees with links across directories and devices,   *)
(* and other processes at work in them.                                    *)
(***************************************************************************)
EXTENDS Integers, SequencesExt

-----------------------------------------------------------------------------
(* uniq, comm, join, nl, paste, cut, head, cat *)

Chars(s) == [i \in 1 .. Len(s) |-> SubSeq(s, i, i)]
Line(s) == Append(Chars(s), "\n")
Files(lines, n) == UNION {[1 .. m -> {Line(s) : s \in lines}] : m \in 0 .. n}
Ascending(f, less(_, _)) == \A i \in 1 .. (Len(f) - 1) : ~less(f[i + 1], f[i])

UniqJobs ==
  LET case(files, fields, chars) ==
        [tool : {"uniq"}, files : files, fields : {fields}, chars : {chars}, fold : BOOLEAN,
         D : {"", "none", "prepend", "separate"}, d : {FALSE}, u : {FALSE}, c : {FALSE}]
  IN  case(Files({"a", "A", "b"}, 3), 0, 0) \cup case(Files({"x a", " y a", "x b"}, 3), 1, 0)
      \cup case(Files({"ab", "bb", "b"}, 3), 0, 1)
      \cup [tool : {"uniq"}, files : Files({"a", "b"}, 4), fields : {0}, chars : {0}, fold : {FALSE},
            D : {""}, d : BOOLEAN, u : BOOLEAN, c : BOOLEAN]

Sorted(lines, n) == {f \in Files(lines, n) : \A i, j \in DOMAIN f : i < j => f[i] = f[j] \/ f[i][1] < f[j][1]}

CutLists == {<<r>> : r \in {y \in [1 .. 2 -> 0 .. 3] : y # <<0, 0>> /\ (y[2] = 0 \/ y[1] <= y[2])}}
CutJobs ==
  LET lists == CutLists \cup {<<x[1], y[1]>> : x \in CutLists, y \in CutLists}
  IN  [tool : {"cut"}, mode : {"columns"}, list : lists, files : {<<Line("abcx"), Line("a"), Line("")>>}]
      \cup [tool : {"cut"}, mode : {"fields"}, list : lists, delim : {" "}, odelim : {" "}, blanks : {FALSE},
            s : {TRUE}, files : {<<Line("a b c x"), Line(" a"), Line("abc")>>}]

PasteJobs ==
  [tool : {"paste"}, serial : {FALSE}, delims : {<<"1">>, <<"1", "2">>, <<"1", "">>},
   files : [1 .. 3 -> Files({"a"}, 2)]]
  \cup [tool : {"paste"}, serial : {TRUE}, delims : {<<"1">>, <<"1", "2">>},
        files : [1 .. 2 -> Files({"a", ""}, 3) \cup {<<<<"missing">>>>}]]

HeadJobs == [tool : {"head"}, unit : {"bytes"}, count : 0 .. 5, files : {Chars("abcx"), <<>>}]
HeadLineJobs == [tool : {"head"}, unit : {"lines"}, count : 1 .. 2, files : Files({"a", "b"}, 3)]

NlDelims == {<<"x", "y", "\n">>, <<"x", "y", "x", "y", "\n">>, <<"x", "y", "x", "y", "x", "y", "\n">>}
NlJobs ==
  [tool : {"nl"}, startnum : {1}, incr : {2}, nblank : {2}, restart : BOOLEAN, delim : {<<"x", "y">>},
   delimiters : {NlDelims},
   type : {[header |-> "n", body |-> b, footer |-> f] : b \in {"a", "t"}, f \in {"a", "n"}},
   files : {Append(f, Line(l)) : f \in Files({"a", "", "xy"}, 3), l \in {"xyxy", "xyxyxy", ""}}]

CatJobs ==
  [tool : {"cat"}, n : BOOLEAN, b : BOOLEAN, e : {FALSE}, t : {FALSE}, s : BOOLEAN, plain : {TRUE},
   files : {<<f, g>> : f, g \in Files({"", "a"}, 2) \cup {<<<<"missing">>>>}}]
  \cup [tool : {"cat"}, n : {TRUE}, b : BOOLEAN, e : {TRUE}, t : BOOLEAN, s : BOOLEAN, plain : {FALSE},
        files : {<<<<Line(""), Line("a\tb")>>>>}]

-----------------------------------------------------------------------------
(* fold, expand, unexpand, fmt, center *)

Texts(chars, n) == {Append(s, "\n") : s \in [1 .. n -> chars]}

FoldJobs == [tool : {"fold"}, bytes : {FALSE}, s : BOOLEAN, width : {2, 3}, files : Texts({"a", " "}, 6)]
            \cup [tool : {"fold"}, bytes : BOOLEAN, s : BOOLEAN, width : {9},
                  files : {Chars("abcabca") \o s : s \in Texts({"a", "\t", "backspace", " "}, 3)}]

ExpandJobs == [tool : {"expand"}, stops : {<<>>, <<3>>, <<2, 5>>, <<2, 2>>}, files : Texts({"a", "\t", " "}, 5)]

UnexpandJobs == [tool : {"unexpand"}, all : {TRUE}, stops : {<<3>>}, files : Texts({"a", "\t", " "}, 6)]
                \cup [tool : {"unexpand"}, all : {FALSE}, stops : {<<8>>},
                      files : {Chars("     ") \o s : s \in Texts({"a", "\t", " ", "backspace"}, 4)}]
                \cup [tool : {"unexpand"}, all : {TRUE}, stops : {<<1>>, <<2>>, <<2, 1>>}, files : Texts({"a", "\t", " "}, 4)]
                \cup [tool : {"unexpand"}, all : {TRUE}, stops : {<<2, 4>>, <<1, 3, 6>>}, files : Texts({"a", "\t", " "}, 5)]

FmtOptions(lines, p, mail, coalesce) ==
  [tool : {"fmt"}, goal : {5}, max : {7}, tab : {8}, outtab : {0}, p : {p}, mail : {mail}, n : {FALSE},
   coalesce : {coalesce}, files : {<<Line(f), Line(g), Line(h)>> : f, g, h \in lines}]
FmtJobs == FmtOptions({"", "a bc abc", "  abcabca b", "b.  a  abcabcabc"}, FALSE, FALSE, TRUE)
           \cup FmtOptions({" a", "bc abc", "   ab abc"}, TRUE, FALSE, FALSE)
           \cup FmtOptions({"A: a bc", "  ab c", "abc", "aBa:"}, FALSE, TRUE, FALSE)
CenterJobs == [tool : {"center"}, goal : {6}, tab : {8}, n : {TRUE}, files : {<<Line(" ab"), Line("abcabcabc"), Line("")>>}]

-----------------------------------------------------------------------------
(* split, csplit, tsort, wc, tee *)

SplitOptions(by, lines, chunks, maxfiles, files) ==
  [tool : {"split"}, by : {by}, lines : lines, default : {2}, re : {"a"}, chunks : chunks, maxfiles : maxfiles, files : files]
FewLines == UNION {[1 .. n -> {Chars("a\n"), Chars("b\n")}] : n \in 0 .. 5}
SplitLineJobs == SplitOptions("lines", 1 .. 3, {0}, {2, 26}, FewLines)
                 \cup SplitOptions("pattern", {0}, {0}, {2, 26}, FewLines)
                 \cup SplitOptions("bytes", {0}, {0}, {26}, [1 .. 3 -> {Chars("a\n"), Chars("b\n")}])
SplitChunkJobs == SplitOptions("chunks", {0}, 1 .. 4, {3}, {[i \in 1 .. n |-> i] : n \in 1 .. 8})

Arg(kind, re, ofs, reps) == [kind |-> kind, re |-> re, ofs |-> ofs, reps |-> reps]
CsplitArgs == {Arg(kind, "b", ofs, reps) : kind \in {"/", "%"}, ofs \in -1 .. 2, reps \in 0 .. 1}
              \cup {Arg("line", "b", ofs, reps) : ofs \in 1 .. 3, reps \in 0 .. 1}
CsplitJobs == {[tool |-> "csplit", args |-> args, maxfiles |-> IF k THEN 3 ELSE 100, bufsiz |-> 100, k |-> k, signal |-> TRUE, files |-> f] :
                 args \in {<<a>> : a \in CsplitArgs} \cup
                          {<<a, b>> : a \in CsplitArgs, b \in {Arg("/", "b", 0, 0), Arg("line", "b", 4, 0), Arg("/", "a", 1, 0)}},
                 k \in BOOLEAN,
                 f \in [1 .. 4 -> {Chars("a\n"), Chars("b\n")}]}

TsortJobs == [tool : {"tsort"}, longest : BOOLEAN, files : [1 .. 6 -> {"x", "y", "z"}]]
             \cup [tool : {"tsort"}, longest : BOOLEAN,
                   files : {<<"w", "x", "x", "y", "y", "w">> \o s : s \in [1 .. 4 -> {"w", "y", "z"}]} \cup {<<"x">>}]

NoText == <<"missing">>   \* as in Pieces
Bytes == {"a", " ", "\n"}
Reads == UNION {[1 .. n -> Bytes] : n \in 0 .. 3} \cup {<<"a", "L", "C", "\n", " ", "L", "C">>, <<"L", "C", "L", "C", "\n">>}
WcJobs == [tool : {"wc"}, w : BOOLEAN, m : BOOLEAN, files : {<<f>> : f \in Reads} \cup {<<f, g>> : f, g \in {NoText, <<"a", "\n">>, <<" ", "a">>}}]
TeeJobs == [tool : {"tee"}, outputs : {3}, files : {[i \in 1 .. n |-> i] : n \in {0, 4}}]

-----------------------------------------------------------------------------
(* tr *)

Item(c) == [k |-> "char", c |-> c]
Range_(lo, hi, octal) == [k |-> "range", lo |-> lo, hi |-> hi, octal |-> octal]
Class(name) == [k |-> "class", name |-> name]
Times(c, n) == [k |-> "seq", c |-> c, n |-> n]
String1 == {<<Item(6), Item(2), Item(4)>>, <<Range_(3, 6, FALSE)>>, <<Range_(4, 7, TRUE), Item(0)>>, <<Range_(6, 3, FALSE)>>,
            <<Class("lower")>>, <<Item(2), Class("lower"), Class("upper")>>, <<Class("alpha"), Item(6)>>,
            <<[k |-> "equiv", c |-> 5], Class("upper")>>, <<Item(8), Range_(1, 2, FALSE), Item(9), Item(5)>>}
String2 == {<<Item(3)>>, <<Item(5), Item(1), Item(4)>>, <<Range_(2, 5, FALSE)>>, <<Class("upper")>>,
            <<Item(1), Class("upper"), Class("lower"), Item(2)>>, <<Times(2, 2), Item(3), Times(4, 0)>>, <<Class("lower"), Item(2)>>}
Wide(items) == \E i \in DOMAIN items : items[i].k = "char" /\ items[i].c > 7
Doubled(n) == FlattenSeq([i \in 1 .. n |-> IF i = 5 THEN <<4, 3, 5, 4, 4>> ELSE <<i - 1, i - 1>>])
TrJobs ==
  {j \in UNION {[tool : {"tr"}, mb : BOOLEAN, c : BOOLEAN, C : BOOLEAN, d : {FALSE}, s : BOOLEAN, two : {TRUE},
                 string1 : String1, string2 : String2, files : {<<>>}],
                [tool : {"tr"}, mb : BOOLEAN, c : BOOLEAN, C : BOOLEAN, d : BOOLEAN, s : BOOLEAN, two : {FALSE},
                 string1 : String1, string2 : {<<>>}, files : {<<>>}],
                [tool : {"tr"}, mb : BOOLEAN, c : BOOLEAN, C : BOOLEAN, d : {TRUE}, s : {TRUE}, two : {TRUE},
                 string1 : String1, string2 : {<<Range_(3, 5, FALSE)>>, <<Item(8), Item(4)>>}, files : {<<>>}],
                [tool : {"tr"}, mb : {TRUE}, c : {FALSE}, C : {FALSE}, d : {FALSE}, s : {FALSE}, two : {TRUE},
                 string1 : {<<Times(2, 2)>>, <<Item(1)>>}, string2 : {<<>>, <<Item(1)>>}, files : {<<>>}]} :
     /\ ~(j.c /\ j.C)
     /\ j.d \/ j.two \/ j.s
     /\ j.d => (j.s = j.two)
     /\ j.s => \A i \in DOMAIN j.string2 : j.string2[i] # Class("lower") \/ Len(j.string2) < 4
     /\ j.mb \/ ~(Wide(j.string1) \/ Wide(j.string2))}
TrInput(j) == [j EXCEPT !.files = Doubled(IF j.mb THEN 10 ELSE 8)]
TranslateJobs == {TrInput(j) : j \in TrJobs}

-----------------------------------------------------------------------------
(* sed: scripts of which it is known what they are for (spec) *)

None == [type |-> "none"]
Re(s) == [type |-> "re", re |-> Chars(s)]
At(n) == [type |-> "line", l |-> n]
End == [type |-> "last"]
Rel(n) == [type |-> "rel", l |-> n]
Digits == <<"1", "2", "3", "4">>
Written(a) == CASE a.type = "re" -> Chars("/") \o a.re \o Chars("/")
                [] a.type = "line" -> <<Digits[a.l]>>
                [] a.type = "last" -> <<"$">>
                [] a.type = "rel" -> <<"+", Digits[a.l]>>
                [] OTHER -> <<>>
Addressed(s) == Written(s.a1) \o (IF s.a2 = None THEN <<>> ELSE Chars(" , ") \o Written(s.a2)) \o (IF s.neg THEN <<"!", " ">> ELSE <<>>)
Command(s, text) == Addressed(s) \o Line(text)

Job(kind, script, spec, n, in, ext, files) ==
  [tool |-> "sed", kind |-> kind, script |-> script, spec |-> spec, n |-> n, in |-> in, ext |-> ext, width |-> 5,
   text |-> Line("x"), files |-> files]
Spec0 == [a1 |-> None, a2 |-> None, neg |-> FALSE, re |-> <<>>, new |-> <<>>, n |-> 1, text |-> <<>>]
Absent == <<<<"missing">>>>
Ways == {<<"", FALSE>>, <<"i", FALSE>>, <<"i", TRUE>>, <<"I", TRUE>>}

Firsts == {Re("a"), Re("^$"), At(1), At(2), At(4), End}
Seconds == {None, Re("a"), At(1), At(3), End, Rel(1), Rel(2)}
Letters == UNION {[1 .. n -> {Line("a"), Line("b")}] : n \in 0 .. 3} \cup {<<Line(""), Line("b"), Line("a"), Chars("a")>>}
ASpec(a1, a2, neg) == [Spec0 EXCEPT !.a1 = a1, !.a2 = a2, !.neg = neg]
Selects == {ASpec(a1, a2, FALSE) : a1 \in Firsts, a2 \in Seconds} \cup {ASpec(a1, a2, TRUE) : a1 \in {Re("a"), At(2)}, a2 \in Seconds}
Some == {ASpec(a1, a2, FALSE) : a1 \in {Re("a"), At(2), End}, a2 \in {None, Re("a"), At(1), End, Rel(1)}}
SelectJobs ==
  {Job("select", <<Command(s, "p")>>, s, TRUE, "", FALSE, <<f>>) : s \in Selects, f \in Letters}
Pairs == {<<<<Line("a"), Line("b")>>, <<>>, <<Chars("b")>>, <<Line("b"), Chars("a")>>>>, <<<<Chars("a")>>, <<Line("b")>>>>,
          <<<<Line("a")>>, Absent, <<Line("b")>>>>}
\* A block, a negated delete: the same lines, edited in place
SelectedJobs ==
  {Job("select", <<Command(s, "{"), Line(" /b/ p;#"), Line("/b/!p ;  };")>>, s, TRUE, w[1], w[2], f) :
     s \in Some, w \in Ways, f \in Pairs}
  \cup {Job("select", <<Command([s EXCEPT !.neg = TRUE], "d;:x")>>, s, FALSE, w[1], w[2], f) : s \in Some, w \in Ways, f \in Pairs}
ChangeJobs ==
  {Job("change", <<Command(s, "c\\"), Line("x\\"), Line("y")>>, [s EXCEPT !.text = Line("x") \o Line("y")], FALSE, w[1], w[2], f) :
     s \in Some, w \in Ways, f \in Pairs}
  \cup {Job("around", <<Command(s, "{"), Line("i\\"), Line("\\x")>> \o after \o <<Line("}")>>,
          [s EXCEPT !.text = Line("x")], FALSE, w[1], w[2], f) :
          s \in Some, w \in Ways, f \in Pairs, after \in {<<Line("r f")>>, <<Line("a\\"), Line("x")>>}}

Regexps == {"x*", "a", "ab*", "^a", "a$", "a*$", "^a*", "[ab]"}
Groups == {"a\\(b*\\)", "\\(a*\\)b"}
SedTexts == UNION {[1 .. n -> {"a", "b", "x"}] : n \in 0 .. 1} \cup {Chars("ab"), Chars("ba"), Chars("xa"), Chars("bx"), Chars("abxa"), Chars("aabb"), Chars("xxax"), Chars("baab")}
News == {<<<<"y">>, "y">>, <<<<>>, "">>, <<<<"<", "&", "&", ">">>, "<&&>">>, <<<<"&", "z">>, "&z">>}
Counts == {<<0, "g">>, <<1, "">>, <<2, "2">>}
SSpec(re, new, n) == [Spec0 EXCEPT !.re = Chars(re), !.new = new, !.n = n]
SubstJobs ==
  {Job("subst", <<Line("s/" \o re \o "/" \o new[2] \o "/" \o n[2])>>, SSpec(re, new[1], n[1]), FALSE, "", FALSE, <<<<Append(t, "\n")>>>>) :
     re \in Regexps, new \in News, n \in Counts, t \in SedTexts}
GroupJobs ==
  {Job("subst", <<Line("s," \o re \o ",[\\1],  " \o n[2] \o " ;")>>, SSpec(re, <<"[", "\\1", "]">>, n[1]), FALSE, "", FALSE,
       <<<<Append(t, "\n")>>>>) : re \in Groups, n \in Counts, t \in SedTexts}

Scripts ==
  {<<"reverse", FALSE, <<Line("1!G"), Line("h;$!d")>>>>,
   <<"plain", FALSE, <<Line("$!N;P;D")>>>>,
   <<"join", FALSE, <<Line(":a"), Line("$!{N;ba"), Line("}"), Line("s/\\n/x/g")>>>>,
   <<"double", FALSE, <<Line("G")>>>>,
   <<"shift", FALSE, <<Line("x")>>>>,
   <<"odd", FALSE, <<Line("n;d")>>>>,
   <<"swap", TRUE, <<Line("y/ab/ba/;p")>>>>,
   <<"squeeze", FALSE, <<Line(":again"), Line("s/aa/a/"), Line("t again")>>>>,
   <<"number", FALSE, <<Line("=")>>>>,
   <<"odd", FALSE, <<Line("$!N;P;d")>>>>,
   <<"head", FALSE, <<Line("1q")>>>>,
   <<"collect", FALSE, <<Line("H;$!d;x")>>>>,
   <<"collect", FALSE, <<Line("H;$!d"), Line("g")>>>>,
   <<"filed", TRUE, <<Line("/a/!w f"), Line("s/a/&/w f")>>>>,
   <<"fold", TRUE, <<Line("l")>>>>}
Several == UNION {[1 .. n -> {Line("aaa"), Line("b")}] : n \in 1 .. 3} \cup {<<Line("ab"), Chars("aab")>>, <<>>}
ScriptJobs ==
  {Job(s[1], s[3], Spec0, s[2], "", FALSE, <<f>>) : s \in Scripts, f \in Several}
  \cup {Job(s[1], s[3], Spec0, s[2], w[1], w[2], f) : s \in {x \in Scripts : x[1] \notin {"fold", "odd", "head"}}, w \in {<<"", FALSE>>, <<"i", TRUE>>}, f \in Pairs}
QuitJobs == {Job("plain", <<Line("$q")>>, Spec0, FALSE, w[1], w[2], <<f>>) : w \in Ways, f \in Several}
JoinedJobs == {Job("fold", <<Line("l")>>, Spec0, TRUE, "", FALSE, <<<<Chars(s)>>>>) : s \in {"abcde\n", "abcd\n", "ab\\\n", "a\t\t\n", "\t\\\n", "abcdabcd\n", "\n"}}
\* Scripts that are refused, and commands that print to a file
BadJobs == {Job("plain", <<Line(s)>>, Spec0, FALSE, "i", FALSE, <<<<Line("a")>>>>) :
              s \in {"}", "{", "p p", "1,2=", "b x", "s/a/b", "y/a/bb/", "s/a/\\1/", "5k", "/[a/p", "a x", "s/a/b/gg", "1,p", ":", "s/a/b/w"}}

-----------------------------------------------------------------------------
(* pr: files shorter and longer than a page, in every layout *)

C(n) == <<"1", "2", "3", "4", "5", "6", "7", "8", "9", "a", "b", "c", "d">>[n]
\* n short lines; the lines of given lengths, the last one with its newline or not
Short(n) == FlattenSeq([i \in 1 .. n |-> <<C(i), "\n">>])
Lines(lengths) == FlattenSeq([i \in DOMAIN lengths |-> [k \in 1 .. lengths[i] |-> C(i)] \o <<"\n">>])
Base == [tool |-> "pr", cols |-> 0, merge |-> FALSE, across |-> FALSE, dspace |-> FALSE, formfeed |-> FALSE, ingap |-> 0, ogap |-> 0, nmwd |-> 0,
         offst |-> 0, sflag |-> FALSE, nohead |-> FALSE, lines |-> 12, width |-> 0, page |-> 0, lbuf |-> 20, files |-> <<>>]
Spaced == {<<"a", "\t", "b", "\n", " ", " ", "c", "\n">>, <<"a", " ", " ", " ", " ", "b", " ", "\t", "c", "\n", "\t", "\n", "d">>}
\* One column, with every option that changes the page
OneJobs == {[Base EXCEPT !.dspace = d, !.formfeed = f, !.nmwd = n, !.nohead = h, !.lines = l, !.page = p, !.files = <<fs>>] :
              d \in BOOLEAN, f \in BOOLEAN, n \in {0, 1}, h \in BOOLEAN, l \in {4, 12, 13}, p \in {0, 2}, fs \in {Short(n) : n \in {0, 1, 2, 4, 5}}}
TabJobs == {[Base EXCEPT !.ingap = i, !.ogap = o, !.offst = s, !.files = <<f>>] : i \in {0, 3}, o \in {0, 3, 4}, s \in {0, 3}, f \in Spaced}
LongJobs == {[Base EXCEPT !.lbuf = 3, !.nohead = TRUE, !.nmwd = n, !.lines = 2, !.ogap = o, !.ingap = i, !.files = <<f>>] :
               n \in {0, 2}, o \in {0, 2}, i \in {0, 4}, f \in {Lines(<<a, b, c>>) : a \in 0 .. 4, b \in {0, 3, 7}, c \in {1, 6}} \cup Spaced}
SomeJobs == {[Base EXCEPT !.files = fs, !.page = p] : fs \in {<<Short(3), Absent, Short(1)>>, <<Absent>>, <<<<>>, Short(2)>>}, p \in {0, 2}}
            \cup {[Base EXCEPT !.cols = c, !.across = a, !.merge = m, !.files = <<Short(2)>>, !.width = 5] : c \in {1, 4}, a \in BOOLEAN, m \in {FALSE}}
            \cup {[Base EXCEPT !.cols = 2, !.merge = TRUE, !.files = <<Short(2)>>], [Base EXCEPT !.merge = TRUE, !.across = TRUE, !.files = <<Short(2)>>]}
\* Columns: every number of lines up to more than a page, and lines too long for a column
ColumnJobs == {[Base EXCEPT !.cols = c, !.across = a, !.width = w, !.nohead = h, !.lines = l, !.sflag = s, !.nmwd = n, !.offst = o, !.files = <<f>>] :
                 c \in {2, 3}, a \in BOOLEAN, w \in {19}, h \in {TRUE}, l \in {3}, s \in BOOLEAN, n \in {0, 2}, o \in {0, 2}, f \in {Short(k) : k \in 1 .. 11}}
              \cup {[Base EXCEPT !.cols = c, !.across = a, !.width = 21, !.dspace = d, !.lines = 14, !.formfeed = f, !.files = <<Lines(<<1, 12, 6, 7, 2>>), Short(1)>>] :
                     c \in {2, 3}, a \in BOOLEAN, d \in BOOLEAN, f \in BOOLEAN}
MergeJobs == {[Base EXCEPT !.merge = TRUE, !.width = w, !.sflag = s, !.nohead = h, !.page = p, !.lines = IF h THEN 3 ELSE 13, !.offst = o, !.files = fs] :
                w \in {19}, s \in BOOLEAN, h \in BOOLEAN, p \in {0}, o \in {0, 2},
                fs \in {<<Short(a), Short(b)>> : a \in {1, 3, 4}, b \in {0, 1, 3}} \cup {<<Lines(<<3, 12>>), Short(1), Absent, Short(4)>>, <<Absent, Absent>>}}

-----------------------------------------------------------------------------
(* sort: every key of two fields, pairs of words for each way to compare,  *)
(* contradicting options, -c, and the radix sort with and without threads  *)

SortJob(options, sep, flags, method, threads, f) ==
  [tool |-> "sort", options |-> options, sep |-> sep, s |-> "s" \in flags, u |-> "u" \in flags, c |-> "c" \in flags,
   method |-> method, threads |-> threads, files |-> f]
Opt(c) == [o |-> c]
Pos(f, c, m) == [f |-> f, c |-> c, m |-> m]
KeyOpt(o, p, q) == [o |-> o, p1 |-> p, p2 |-> q]
LinesOf(words) == [i \in DOMAIN words |-> Line(words[i])]
\* Words in an order that no method finds sorted
WordPairs(words) == {<<Line(v), Line(w)>> : v, w \in words}

SortKeyJobs ==
  LET starts == {Pos(f, c, m) : f \in 1 .. 3, c \in {-1, 2}, m \in {<<>>, <<"b">>}}
      ends == {<<>>} \cup {<<Pos(f, c, m)>> : f \in 1 .. 2, c \in {-1, 1, 3}, m \in {<<>>, <<"b">>}}
      old == {KeyOpt("+", p, q) : p \in {Pos(0, -1, <<>>), Pos(1, 1, <<"b">>)}, q \in {<<>>} \cup {<<Pos(f, c, m)>> : f \in 0 .. 2, c \in {-1, 1}, m \in {<<>>, <<"b">>}}}
      keys == {KeyOpt("k", p, q) : p \in starts, q \in ends} \cup old
  IN  {SortJob(<<k>>, "", {"s"}, "mergesort", 1, LinesOf(<<"b  ab a", " a b", "a b  ", "", "ba">>)) : k \in keys}
      \cup {SortJob(<<k>>, ":", {}, "default", 1, LinesOf(<<"b: ab:a", ":a:b", "a:", " b::a", "ab">>)) : k \in keys}
SortWordJobs ==
  LET by(m, words) == {SortJob(<<Opt(m)>>, "", {"s"}, "default", 1, f) : f \in WordPairs(words)}
  IN  by("n", {"", "-0", "7", "8", "10", "-1", "-9", "1.5", "1.05", "1.50", "-.5", ".5", "01", "x", " 3"})
      \cup by("h", {"", "1", "9", "2K", "10K", "1M", "-2", "-1K", "0M", "1.5k"})
      \cup by("g", {"x", "nan", " 1", "2", "-1", "inf", "-inf", "1e999", "-1e999"})
      \cup by("M", {"mar", " MAY", "may2", "ma", ""})
      \cup by("V", {"", ".", "..", ".a", "a", "a~", "a1", "a01", "a10", "a9.b", "a10.b", "a.b", "b1-", "1.2", "1.10", "a0"})
      \cup by("d", {"a-b", "ab", "a b", "-b"}) \cup by("i", {"a\tb", "ab", "b"}) \cup by("f", {"a", "B", "A", "b"})
SortOptionJobs ==
  LET f == LinesOf(<<"b 2 x", "a 10 y", "B 10 x", "b 1 y">>)
      k(n, m) == KeyOpt("k", Pos(n, -1, m), <<Pos(n, -1, <<>>)>>)
      several == {<<k(1, <<>>), k(2, <<"n">>)>>, <<k(2, <<"n", "r">>), k(3, <<>>)>>, <<Opt("r"), k(1, <<"f">>), k(3, <<>>)>>,
                  <<k(2, <<>>), Opt("n")>>, <<Opt("r")>>, <<Opt("f"), Opt("r")>>, <<k(1, <<"i">>), Opt("r")>>, <<k(1, <<"b">>), Opt("f")>>}
      wrong == {<<Opt("n"), Opt("M")>>, <<k(1, <<"n", "g">>)>>, <<Opt("V"), k(1, <<"n">>)>>, <<k(0, <<>>)>>, <<KeyOpt("k", Pos(1, 0, <<>>), <<>>)>>,
                <<KeyOpt("k", Pos(1, -1, <<"h">>), <<Pos(2, -1, <<"n">>)>>)>>, <<KeyOpt("k", Pos(1, -1, <<>>), <<Pos(0, 2, <<>>)>>)>>}
  IN  {SortJob(o, "", fl, m, 1, f) : o \in several, fl \in {{}, {"s"}, {"u"}, {"c"}}, m \in {"default", "mergesort", "qsort", "radixsort"}}
      \cup {SortJob(o, "", {}, "default", 1, f) : o \in wrong}
      \cup {SortJob(o, "", fl, "default", 1, g) : o \in {<<>>, <<Opt("f")>>, <<Opt("r")>>}, fl \in {{"c"}, {"c", "u"}}, g \in Files({"a", "A", "b"}, 3)}
SortRadixJobs ==
  LET deep == LinesOf(<<"ab", "b", "aab", "aa", "ab", "aabb">>)
      wide == LinesOf(<<"b", "", "ab", "ba", "aa", "b">>)
      key1 == KeyOpt("k", Pos(1, -1, <<>>), <<Pos(1, -1, <<>>)>>)
      two == LinesOf(<<"aa 1", "aa 0", "ab 0", "aa 1", "ab 1", "aab 0">>)
  IN  {SortJob(o, "", fl, "default", t, f) : o \in {<<>>, <<Opt("r")>>}, fl \in {{}, {"u"}}, t \in 1 .. 2, f \in {deep, wide}}
      \cup {SortJob(o, "", fl, "radixsort", t, two) : o \in {<<key1>>, <<key1, Opt("r")>>, <<key1, KeyOpt("k", Pos(2, -1, <<"n", "r">>), <<>>)>>}, fl \in {{}, {"s"}}, t \in 1 .. 2}
      \cup {SortJob(<<>>, "", {}, "default", 2, f) : f \in Files({"", "a", "ab"}, 4)}

-----------------------------------------------------------------------------
(* xargs *)

XargsJob == [tool |-> "xargs", words |-> <<Chars("u")>>, E |-> <<>>, I |-> <<>>, J |-> <<>>, L |-> 0, n |-> 50, nflag |-> FALSE,
             R |-> 0, S |-> 0, s |-> 99, x |-> FALSE, z |-> FALSE, files |-> <<>>]
Inputs(chars, n) == UNION {[1 .. m -> chars] : m \in 0 .. n}
XargsQuoteJobs == {[XargsJob EXCEPT !.files = f, !.L = l] : l \in 0 .. 1, f \in Inputs({"a", " ", "\n", "'", "\"", "\\"}, 3)}
                  \cup {[XargsJob EXCEPT !.files = f] : f \in {Append(g, "\n") : g \in [1 .. 4 -> {"a", " ", "'", "\"", "\\"}]}}
XargsLimitJobs ==
  LET limit(l, n, s, x) == {[XargsJob EXCEPT !.L = l, !.n = n, !.s = s, !.x = x, !.nflag = n < 50, !.files = Append(f, "\n")] : f \in [1 .. 5 -> {"a", " ", "\n"}]}
      ended(s) == {[XargsJob EXCEPT !.s = s, !.files = f] : f \in [1 .. 6 -> {"a", " ", "'"}]}
  IN  limit(0, 1, 99, FALSE) \cup limit(0, 2, 6, FALSE) \cup limit(0, 50, 6, FALSE)
      \cup limit(0, 2, 7, TRUE) \cup limit(1, 50, 7, FALSE) \cup limit(2, 50, 8, FALSE) \cup limit(2, 2, 99, FALSE)
      \cup ended(6) \cup {[XargsJob EXCEPT !.s = s, !.L = l, !.files = f \o <<"\\", c>>] : s \in 4 .. 6, l \in 0 .. 1, c \in {" ", "a"}, f \in [1 .. 3 -> {"a", " "}]}
XargsEndJobs == {[XargsJob EXCEPT !.E = Chars("ab"), !.n = n, !.files = Append(f, "\n")] : n \in {1, 50}, f \in [1 .. 4 -> {"a", "b", " "}]}
                \cup {[XargsJob EXCEPT !.z = TRUE, !.L = l, !.files = f] : l \in 0 .. 1, f \in [1 .. 4 -> {"a", " ", "nul", "'"}]}
XargsReplaceJobs ==
  {[XargsJob EXCEPT !.I = <<"x">>, !.R = r, !.S = s, !.words = <<Chars("ux"), Chars("xbx"), <<>>, Chars("x"), Chars("ab")>>, !.files = Append(f, "\n")] :
     r \in {0, 1, -1}, s \in {0, 3, 4}, f \in [1 .. 3 -> {"a", "x", " ", "\n"}]}
  \cup {[XargsJob EXCEPT !.J = <<"x">>, !.n = 2, !.words = w, !.files = f] : w \in {<<Chars("u"), <<"x">>, <<"b">>, <<"x">>>>, <<Chars("u"), Chars("xb")>>, <<<<"x">>>>, <<>>},
          f \in [1 .. 5 -> {"a", " "}]}
  \cup {[XargsJob EXCEPT !.words = w, !.s = s, !.x = x, !.R = r, !.files = Chars("a a")] : w \in {<<>>, <<Chars("uuu")>>}, s \in 3 .. 6, x \in BOOLEAN, r \in 0 .. 1}

-----------------------------------------------------------------------------
(* mv, ln, rm, rmdir, mkdir, cp, install *)

file(data) == [type |-> "file", data |-> data, mode |-> "old"]
dir == [type |-> "dir", data |-> <<>>, mode |-> "own"]
link(p) == [type |-> "link", data |-> p, mode |-> ""]
\* The tree in which the paths have the nodes
Numbered(paths) == FoldSet(LAMBDA p, f : (p :> Cardinality(DOMAIN f) + 1) @@ f, <<>>, paths)
Tree(nodes) == LET at == Numbered(DOMAIN nodes)
               IN  [at |-> at, node |-> [i \in Range(at) |-> nodes[CHOOSE p \in DOMAIN at : at[p] = i]],
                    next |-> Cardinality(DOMAIN nodes) + 1, dev |-> {"m"}, fixed |-> {}, unwritable |-> {}]
SameFile(fs, p, q) == [fs EXCEPT !.at = (q :> fs.at[p]) @@ @]
Root == <<>> :> dir @@ <<"a">> :> file(<<"1", "2">>) @@ <<"d">> :> dir @@ <<"d", "a">> :> file(<<"3">>) @@ <<"d", "e">> :> dir
        @@ <<"l">> :> link(<<"d">>) @@ <<"k">> :> link(<<"a">>) @@ <<"m">> :> dir @@ <<"m", "b">> :> file(<<"4">>)
        @@ <<"d", "l">> :> link(<<"m">>)
Plain == Tree(Root)
Linked == SameFile(Plain, <<"m", "b">>, <<"m", "c">>)
Held == [Plain EXCEPT !.fixed = {<<"d">>}, !.unwritable = {<<"d", "a">>}]

MvJobs ==
  [tool : {"mv"}, fs : {Linked}, others : {<<>>}, ask : {"f", "n", "i", ""}, h : BOOLEAN, to : {<<"m">>, <<"m", "b">>, <<"d">>, <<"l">>, <<"x">>},
   files : {<<<<"a">>>>, <<<<"k">>>>, <<<<"d">>>>, <<<<"a">>, <<"d">>>>, <<<<"none">>>>}]
  \cup
  [tool : {"mv"}, fs : {Linked}, others : {<<[op |-> "create", p |-> p]>> : p \in {<<"x">>, <<"m", "a">>, <<"m", "d">>}},
   ask : {"f", "n", ""}, h : {FALSE}, to : {<<"m">>, <<"x">>}, files : {<<<<"a">>>>, <<<<"k">>>>, <<<<"d">>>>}]
  \cup
  [tool : {"mv"}, fs : {Linked, [Linked EXCEPT !.fixed = {<<"m">>}]}, others : {<<>>}, ask : {"f"}, h : {FALSE},
   to : {<<"d">>, <<"x">>}, files : {<<<<"m">>>>, <<<<"m", "c">>>>}]
LnJobs ==
  [tool : {"ln"}, fs : {Linked}, others : {<<>>}, ask : {"f", "i", ""}, h : BOOLEAN, F : BOOLEAN, P : BOOLEAN, s : BOOLEAN,
   to : {<<"d">>, <<"l">>, <<"m", "b">>, <<"x">>}, files : {<<<<"a">>>>, <<<<"k">>>>, <<<<"d", "a">>>>, <<<<"a">>, <<"m", "b">>>>}]
  \cup
  [tool : {"ln"}, fs : {Linked}, others : {<<[op |-> "create", p |-> <<"x">>]>>}, ask : {"f", ""}, h : {FALSE}, F : BOOLEAN, P : BOOLEAN,
   s : BOOLEAN, to : {<<"x">>}, files : {<<<<"a">>>>, <<<<"k">>>>, <<<<"a">>, <<"d", "a">>>>}]
RmJobs ==
  [tool : {"rm"}, fs : {Plain, Held}, others : {<<>>, <<[op |-> "unlink", p |-> <<"d", "a">>]>>, <<[op |-> "create", p |-> <<"d", "new">>]>>},
   f : BOOLEAN, r : BOOLEAN, d : BOOLEAN, i : {FALSE}, I : BOOLEAN, tty : {FALSE},
   files : {<<<<"d">>>>, <<<<"l">>, <<"a">>>>, <<<<"d", ".">>, <<"d", "a">>>>, <<<<"d", "e">>, <<"none">>>>}]
  \cup
  [tool : {"rm"}, fs : {Held}, others : {<<>>}, f : {FALSE}, r : BOOLEAN, d : {FALSE}, i : BOOLEAN, I : {FALSE}, tty : BOOLEAN,
   files : {<<<<"d">>>>, <<<<"d", "a">>, <<"a">>>>}]
Deep == Tree(<<>> :> dir @@ <<"d">> :> dir @@ <<"d", "e">> :> dir @@ <<"d", "e", "f">> :> dir @@ <<"a">> :> file(<<>>) @@ <<"l">> :> link(<<"d">>))
RmdirJobs ==
  [tool : {"rmdir"}, fs : {Deep}, others : {<<>>, <<[op |-> "create", p |-> <<"d", "new">>]>>, <<[op |-> "rmdir", p |-> <<"d", "e", "f">>]>>},
   p : BOOLEAN, files : {<<<<"d", "e", "f">>>>, <<<<"a">>, <<"d", "e", "f">>, <<"d", "e">>>>, <<<<"l">>>>, <<<<"l", "e", "f">>>>}]
MkdirJobs ==
  [tool : {"mkdir"}, fs : {Deep}, p : BOOLEAN, m : BOOLEAN,
   others : {<<>>, <<[op |-> "mkdir", p |-> <<"d", "x">>]>>, <<[op |-> "create", p |-> <<"d", "x">>]>>},
   files : {<<<<"d", "x", "y">>>>, <<<<"d">>, <<"d", "x">>>>, <<<<"a">>>>, <<<<"l", "x">>>>}]

Copies == Tree(Root @@ <<"s">> :> dir @@ <<"s", "a">> :> file(<<"5", "6">>) @@ <<"s", "f">> :> [dir EXCEPT !.type = "fifo"]
               @@ <<"s", "up">> :> link(<<"s">>) @@ <<"s", "t">> :> dir @@ <<"s", "t", "a">> :> file(<<"7">>))
CpJobs ==
  [tool : {"cp"}, fs : {Copies}, others : {<<>>}, R : {TRUE}, follow : {"P", "H", "L"}, p : {FALSE}, ask : {"", "n", "f"}, link : {""},
   to : {<<"d">>, <<"x">>, <<"s", "t">>, <<"s", "new">>, <<"a">>}, files : {<<<<"s">>>>, <<<<"k">>, <<"l">>>>, <<<<"s", "t">>, <<"s">>, <<"s">>>>}]
  \cup
  [tool : {"cp"}, fs : {Copies}, others : {<<>>}, R : {TRUE}, follow : {"P"}, p : {TRUE}, ask : {""}, link : {""},
   to : {<<"d">>, <<"x">>, <<"s", "t">>, <<"s", "new">>, <<"a">>}, files : {<<<<"s">>>>, <<<<"k">>, <<"l">>>>, <<<<"s", "t">>, <<"s">>, <<"s">>>>}]
  \cup
  [tool : {"cp"}, fs : {Copies}, others : {<<>>}, R : {FALSE}, follow : {"", "P"}, p : {FALSE}, ask : {"", "n", "f", "i"}, link : {"", "l", "s"},
   to : {<<"d">>, <<"k">>, <<"x">>, <<"m", "b">>}, files : {<<<<"a">>>>, <<<<"s", "a">>, <<"m", "b">>>>, <<<<"d">>>>, <<<<"k">>>>}]

Built == Tree(Root @@ <<"new">> :> file(<<"1", "symbols">>) @@ <<"was">> :> file(<<"1">>) @@ <<"m", "new">> :> file(<<"8">>)
              @@ <<"d", "new">> :> dir)
BuiltTwice == SameFile(Built, <<"was">>, <<"is">>)
InstallJobs ==
  [tool : {"install"}, fs : {BuiltTwice}, others : {<<>>}, d : {FALSE}, S : BOOLEAN, b : BOOLEAN, C : BOOLEAN, s : BOOLEAN, l : {""},
   to : {<<"m">>, <<"was">>, <<"k">>, <<"x">>}, files : {<<<<"new">>>>}]
  \cup
  [tool : {"install"}, fs : {Built}, others : {<<>>}, d : {FALSE}, S : BOOLEAN, b : {FALSE}, C : {TRUE}, s : BOOLEAN, l : {""},
   to : {<<"was">>, <<"new">>, <<"m">>, <<"d">>}, files : {<<<<"new">>>>, <<<<"new">>, <<"a">>>>}]
  \cup
  [tool : {"install"}, fs : {Built}, others : {<<>>}, d : {FALSE}, S : BOOLEAN, b : {FALSE}, C : {FALSE}, s : {FALSE}, l : {"h", "s", "m"},
   to : {<<"l">>, <<"m">>, <<"was">>, <<"x">>, <<"k">>, <<"d">>}, files : {<<<<"new">>>>}]
  \cup
  [tool : {"install"}, fs : {Deep}, d : {TRUE}, S : {FALSE}, b : {FALSE}, C : {FALSE}, s : {FALSE}, l : {""}, to : {<<>>},
   others : {<<>>, <<[op |-> "mkdir", p |-> <<"d", "x">>]>>, <<[op |-> "create", p |-> <<"d", "x">>]>>},
   files : {<<<<"d", "x", "y">>>>, <<<<"d", "e">>, <<"x">>>>, <<<<"a", "x">>>>}]

-----------------------------------------------------------------------------
(* find: expressions, and trees for them *)

NoWord == [w |-> "", sign |-> "", n |-> 0, unit |-> "", times |-> <<>>, path |-> <<>>, bits |-> {}, parts |-> <<>>]
W(s) == [NoWord EXCEPT !.w = s, !.parts = <<s>>]
P(s, path) == [NoWord EXCEPT !.w = s, !.path = path]
N(sign, n) == [NoWord EXCEPT !.sign = sign, !.n = n]
U(sign, n, unit) == [N(sign, n) EXCEPT !.unit = unit]
Ws(s) == [i \in DOMAIN s |-> W(s[i])]

File(type, size, ino) ==
  [type |-> type, size |-> size, m |-> 60 * ino, a |-> 86400 * ino, c |-> 100000, ino |-> ino, links |-> (ino % 2) + 1, uid |-> ino % 3, gid |-> ino % 2,
   perm |-> IF ino % 2 = 0 THEN {"r", "w"} ELSE {"r"}, to |-> <<"t", "none">>, closed |-> FALSE, dev |-> 1]
T(rest) == <<"t">> \o rest
FindTree ==
  T(<<>>) :> File("d", 0, 1) @@ T(<<"a">>) :> File("d", 0, 2) @@ T(<<"a", "b">>) :> File("f", 512, 3) @@ T(<<"a", "c">>) :> File("f", 0, 4)
  @@ T(<<"b">>) :> File("f", 1024, 5) @@ T(<<"c">>) :> File("d", 0, 6)
LinkedTree == FindTree @@ T(<<"d">>) :> [File("l", 3, 7) EXCEPT !.to = T(<<"a">>)] @@ T(<<"a", "d">>) :> [File("l", 3, 8) EXCEPT !.to = T(<<>>)]
               @@ T(<<"e">>) :> File("l", 2, 9)
Shut == [FindTree EXCEPT ![T(<<"a">>)].closed = TRUE, ![T(<<"c">>)].dev = 2] @@ T(<<"c", "x y">>) :> File("f", 1, 10)
FindJob(args, flags, fs) ==
  [tool |-> "find", args |-> args, flags |-> flags, files |-> <<T(<<>>)>>, fs |-> fs, names |-> <<"a", "b", "c", "d", "e", "x y">>,
   fails |-> {T(<<"a", "c">>)}, answers |-> <<TRUE, FALSE, TRUE>>, nummax |-> 4, sizemax |-> 20, bad |-> {"x y"}, gone |-> {},
   users |-> "root" :> 0, groups |-> "wheel" :> 1]

Units == {<<"-name", "b">>, <<"-type", "d">>, <<"-print">>, <<"-prune">>, <<"!">>, <<"-o">>, <<"(">>, <<")">>}
Expressions == UNION {{FlattenSeq(s) : s \in [1 .. n -> Units]} : n \in 0 .. 3}
               \cup {<<"-name", "b">> \o FlattenSeq(s) : s \in [1 .. 3 -> {<<"-o">>, <<"-print">>, <<"!">>, <<"-type", "d">>}]}
ExpressionJobs == {FindJob(Ws(x), {"s"}, FindTree) : x \in Expressions}

Given ==
  {<<"(", "-type", "d", "-o", "-name", "b", ")", "!", "-name", "c", "-print">>, <<"!", "(", "-name", "a", "-prune", "-o", "-print", ")">>,
   <<"!", "!", "!", "-type", "f">>, <<"!", "(", "!", "-name", "b", "-o", "-name", "b", ")", "-o", "-print">>,
   <<"-name", "a", "-prune", "-o", "-type", "f", "-print", "-o", "-name", "c", "-print">>, <<"-name", "b", "-quit", "-o", "-print">>,
   <<"-type", "f", "-exec", "cmd", "{}", ";", "-print">>, <<"-type", "f", "!", "-exec", "cmd", "{}", "+", "-o", "-print">>,
   <<"-exec", "cmd", "{}", "+", "-exec", "x", "{}", "+", "-name", "b", "-quit">>, <<"-execdir", "cmd", "{}", "+">>,
   <<"-execdir", "cmd", "{}", "{}", ";">>, <<"-ok", "cmd", "{}", ";", "-print">>, <<"-exec", ";">>, <<"-exec", "cmd", "{}">>, <<"-size">>,
   <<"-type", "f", "-delete">>, <<"-name", "a", "-delete">>, <<"-delete">>, <<"-name", "b", "-delete", "-print">>, <<"-d", "-prune", "-print">>,
   <<"-type", "f", "-delete", "-follow">>, <<"-nothing">>, <<"-false", "-o", "-true", "-a", "-empty">>, <<"-empty", "-xdev">>, <<"-follow", "-type", "f">>,
   <<"-depth">>, <<"-noleaf", "-ls">>, <<"-empty", "-delete">>}
GivenJobs == {FindJob(Ws(x), fl, fs) : x \in Given, fl \in {{"s"}, {}, {"L", "s"}}, fs \in {FindTree, LinkedTree}}
             \cup {FindJob(Ws(x), fl, Shut) : x \in {<<>>, <<"-name", "a", "-prune", "-o", "-print">>, <<"-type", "f", "-delete">>}, fl \in {{"s"}, {"x"}, {"X", "d"}, {"s", "d"}}}
             \cup {[FindJob(Ws(x), {"s"}, LinkedTree) EXCEPT !.gone = g] : g \in {{T(<<"a">>)}, {T(<<"b">>), T(<<"a", "b">>)}},
                     x \in {<<>>, <<"-ignore_readdir_race">>, <<"-noignore_readdir_race", "-type", "f", "-exec", "cmd", "{}", "+">>}}
             \cup {[FindJob(<<>>, {"H"}, LinkedTree) EXCEPT !.files = <<T(<<"d">>), T(<<"a", "none">>)>>]}
             \cup {[FindJob(Ws(<<"-execdir", "x", "{}", ";">>), {"H"}, FindTree) EXCEPT !.args[3].parts = <<"y", "{}", "z", "{}">>]}

Signs == {"", "-", "+"}
Tests == {<<W(o), N(s, n)>> : o \in {"-mmin", "-mtime", "-amin", "-atime", "-ctime", "-inum", "-links", "-uid", "-gid", "-size", "-depth"}, s \in Signs, n \in 0 .. 5}
         \cup {<<W("-size"), U(s, n, u)>> : s \in Signs, n \in 0 .. 1, u \in {"c", "k"}}
         \cup {<<W("-mtime"), [N(s, 0) EXCEPT !.times = t]>> : s \in Signs, t \in {<<<<180, "s">>>>, <<<<3, "m">>>>, <<<<2, "m">>, <<60, "s">>>>, <<<<1, "m">>, <<9, "">>>>}}
         \cup {<<W(o), P("t/b", T(<<"b">>))>> : o \in {"-newer", "-cnewer", "-samefile", "-path", "-lname"}}
         \cup {<<W(o), W(w)>> : o \in {"-user", "-group"}, w \in {"root", "wheel"}} \cup {<<W("-type"), W(w)>> : w \in {"l", "x"}}
         \cup {<<W("-lname"), P("t/a", T(<<"a">>))>>, <<W("-newer"), P("t/e", T(<<"e">>))>>, <<W("-newer"), P("t/x", T(<<"x">>))>>}
         \cup {<<W("-perm"), [NoWord EXCEPT !.sign = s, !.bits = b]>> : s \in Signs, b \in {{"r"}, {"w"}, {"r", "w"}}}
         \cup {<<W(o), N(s, n)>> : o \in {"-maxdepth", "-mindepth"}, s \in {"", "-"}, n \in 0 .. 3}
TestJobs == {FindJob(t, {"s"}, LinkedTree) : t \in Tests}
            \cup {FindJob(t \o Ws(<<"-depth">>), {"s", "L"}, LinkedTree) : t \in {x \in Tests : x[1].w \in {"-newer", "-type", "-maxdepth", "-lname"}}}
=============================================================================
