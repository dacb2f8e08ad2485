----------------------------- MODULE MCCommands -----------------------------
(***************************************************************************)
(* The commands, each run on every job of its own: the composition of the  *)
(* modules of the commands, and what each of them has to keep. A job is    *)
(* one command with its arguments and files.                               *)
(***************************************************************************)
EXTENDS FileMeaning

Line == INSTANCE LineMeaning
Texts == INSTANCE TextMeaning
Stream == INSTANCE Sed
Walk == INSTANCE FindMeaning
Pages == INSTANCE Pr
Value == INSTANCE Evaluate
Order == INSTANCE SortMeaning WITH UllMax <- 8, MaxNumSize <- 3, SmallNode <- 3, TinyNode <- 4, MaxLevel <- 2, Threshold <- 4
Args == INSTANCE XargsInput
J == INSTANCE CommandJobs

-----------------------------------------------------------------------------
(* comm and join, on files that are sorted as they expect *)

SortedOn(lines, n, lt(_,_)) == {f \in J!Files(lines, n) : J!Ascending(f, lt)}
ByKey(x, y) == Collate(Fold(Chomp(x)), Fold(Chomp(y))) < 0
Plain(x, y) == Collate(Chomp(x), Chomp(y)) < 0
CommJobs == [tool : {"comm"}, fold : {FALSE}, shown : [1 .. 3 -> BOOLEAN], files : {<<f, g>> : f, g \in SortedOn({"a", "b"}, 3, Plain)}]
  \cup [tool : {"comm"}, fold : {TRUE}, shown : {<<TRUE, TRUE, TRUE>>}, files : {<<f, g>> : f, g \in SortedOn({"a", "A", "b"}, 2, ByKey)}]
First(x, y) == Collate(<<x[1]>>, <<y[1]>>) < 0
Third(x, y) == Collate(<<x[3]>>, <<y[3]>>) < 0
JoinJobs == [tool : {"join"}, delim : {""}, joinf : {<<1, 1>>}, joinout : {TRUE}, unpair : [1 .. 2 -> BOOLEAN],
   olist : {<<>>, <<<<0, 0>>, <<2, 2>>, <<1, 3>>>>}, empty : {<<"-">>},
   files : {<<f, g>> : f \in SortedOn({"a x", "a  y", "b z"}, 3, First), g \in SortedOn({"a 1", "b 2", "c 1"}, 2, First)}]
  \cup [tool : {"join"}, delim : {" "}, joinf : {<<1, 2>>}, joinout : {FALSE}, unpair : {<<TRUE, FALSE>>, <<TRUE, TRUE>>},
   olist : {<<>>}, empty : {<<>>},
   files : {<<f, g>> : f \in SortedOn({"a x", "b y", "c z"}, 2, First), g \in SortedOn({"1 a x", "2 a y", "1 b z"}, 2, Third)}]
  \cup [tool : {"join"}, delim : {""}, joinf : {<<1, 1>>}, joinout : {TRUE}, unpair : {<<TRUE, TRUE>>}, olist : {<<>>}, empty : {<<>>},
   files : {<<f, g>> : f \in SortedOn({"a", "a x"}, 2, First), g \in SortedOn({"a 1", "b"}, 2, First)}]

-----------------------------------------------------------------------------
(* expr and test: every pair of numbers at the limits of the range under   *)
(* every operator, chains of operators of every precedence, words that are *)
(* no expression; for test, every few words, and those of given trees      *)

Written(words) == {J!Chars(w) : w \in words}
Expr(args, e) == [tool : {"expr"}, args : args, e : e, compat : e, files : {<<>>}]
After(words) == {<<<<"-", "-">>>> \o w : w \in words}
Binary == Written({"|", "&", "=", ">", "<", ">=", "<=", "!=", "+", "-", "*", "/", "%"})
Numbers == Written({"-8", "-2", "-1", "0", "1", "7", "8", "007", "", "a", "-"})
ExprJobs ==
  LET ops == Written({"|", "&", "=", "+", "-", "*", "%", ":"})
      few == Written({"-8", "-1", "2", "7", "a"})
      pattern == Written({"ab", "a*", "a\\(b*\\)", "\\(a*\\)b", "\\(.*\\)a*", "\\(a", "b", "\\(0*\\)1", ".*"})
      odd == Written({"1", "(", ")", "+", "-1", "-e"})
  IN  {[tool |-> "expr", args |-> a, e |-> e, compat |-> e, files |-> <<>>] :
         a \in {<<x, o, y>> : x \in Written({" 1", "+1", "", "-8"}), o \in Binary, y \in Numbers}, e \in {TRUE}}
      \cup Expr(After({<<x, o, y>> : x \in Numbers, o \in Binary, y \in Numbers}), {FALSE})
      \cup Expr(After({<<x, o, y, p, z>> : x \in Written({"-8", "7", "a"}), o \in ops, y \in few, p \in ops, z \in Written({"-1", "2"})}), {FALSE})
      \cup Expr(After({<<x, <<":">>, p>> : x \in Written({"", "aab", "ab", "ba", "001"}), p \in pattern}), {FALSE})
      \cup Expr(UNION {[1 .. n -> odd] : n \in 0 .. 3} \cup [1 .. 4 -> odd \ Written({"-e", "-1"})], {FALSE})
      \cup Expr(After({<<x, o, <<"(">>, y, p, z, <<")">>>> : x \in Written({"3", "-8"}), o \in ops, y \in Written({"1", "7"}), p \in ops, z \in Written({"1", "a"})}), {FALSE})

Inode(type, mtime, ino, access, mode) ==
  [type |-> type, to |-> "", size |-> IF type = "f" THEN ino - 1 ELSE 1, access |-> access, mode |-> mode, uid |-> ino - 1, gid |-> 2 - ino, mtime |-> mtime, ino |-> ino]
Fs == "f" :> Inode("f", 1, 1, {"-r", "-w", "-x"}, {"-u"}) @@ "g" :> Inode("f", 2, 2, {"-r", "-x"}, {"x"})
      @@ "d" :> Inode("d", 1, 3, {"-x"}, {}) @@ "l" :> [Inode("l", 3, 4, {}, {}) EXCEPT !.to = "g"] @@ "m" :> [Inode("l", 3, 5, {}, {}) EXCEPT !.to = "none"]
Test(words, tree, bracket) == [tool |-> "test", words |-> words, bracket |-> bracket, tree |-> tree, root |-> bracket, ttys |-> {0}, fs |-> Fs, files |-> <<>>]
NoTree == [op |-> "none"]
Some == {"", "a", "!", "(", ")", "-n", "=", "-a", "-f"}
WordJobs == {Test(w, NoTree, FALSE) : w \in UNION {[1 .. n -> Some] : n \in 0 .. 3} \cup [1 .. 4 -> Some \ {"-f", "-n", ""}]}
            \cup {Test(w, NoTree, TRUE) : w \in UNION {[1 .. n -> {"a", "=", "]"}] : n \in 0 .. 4}}
PrimaryJobs ==
  {Test(<<op, f, "]">>, NoTree, TRUE) : op \in {"-r", "-w", "-x", "-e", "-f", "-d", "-c", "-u", "-g", "-k", "-s", "-h", "-O", "-G", "-L"}, f \in {"f", "g", "d", "l", "m", "none"}}
  \cup {Test(<<op, f>>, NoTree, FALSE) : op \in {"-x", "-z", "-n", "-t"}, f \in {"f", "", "0", "9"}}
  \cup {Test(<<f, op, g>>, NoTree, FALSE) : f, g \in {"f", "g", "l", "m"}, op \in {"-nt", "-ot", "-ef"}}
  \cup {Test(<<f, op, g>>, NoTree, FALSE) : f, g \in {"-1", "0", "01", " 1 ", "9", "a"}, op \in {"-eq", "-ne", "-ge", "-gt", "-le", "-lt", "=", "==", "!=", "<", ">"}}

W(w) == [op |-> "word", w |-> w]
Leaves == {W("a"), W(""), [op |-> "un", u |-> "-n", w |-> ""], [op |-> "bin", a |-> "a", b |-> "=", w |-> "b"], [op |-> "bin", a |-> "0", b |-> "-lt", w |-> "1"]}
Not(S) == {[op |-> "not", l |-> t] : t \in S}
Paren(S) == {[op |-> "paren", l |-> t] : t \in S}
Two(op, S, T) == {[op |-> op, l |-> s, r |-> t] : s \in S, t \in T}
RECURSIVE WordsOf(_)
WordsOf(t) == CASE t.op = "word" -> <<t.w>>
                [] t.op = "un" -> <<t.u, t.w>>
                [] t.op = "bin" -> <<t.a, t.b, t.w>>
                [] t.op = "not" -> <<"!">> \o WordsOf(t.l)
                [] t.op = "paren" -> <<"(">> \o WordsOf(t.l) \o <<")">>
                [] OTHER -> WordsOf(t.l) \o (IF t.op = "and" THEN <<"-a">> ELSE <<"-o">>) \o WordsOf(t.r)
TreeJobs ==
  LET nots == Leaves \cup Not(Leaves)
      ands == Leaves \cup Two("and", nots, Leaves)
      ors == Two("or", ands, Leaves) \cup Two("or", Leaves, Two("and", Leaves, Leaves))
      parens == Paren(Leaves \cup Two("or", {W("a"), W("")}, Leaves) \cup Not({W("a"), W("")}))
      trees == ands \cup ors \cup Two("and", parens \cup Not(parens), Leaves) \cup Two("and", Leaves, parens) \cup Paren(Two("and", parens, {W("a")}))
  IN  {Test(WordsOf(t), t, FALSE) : t \in trees}

-----------------------------------------------------------------------------
vars == <<job, inp, mem, out, status>>

LineJob == job \in J!UniqJobs \/ job \in CommJobs \/ job \in JoinJobs \/ job \in J!CutJobs \/ job \in J!PasteJobs
           \/ job \in J!HeadJobs \/ job \in J!HeadLineJobs \/ job \in J!NlJobs \/ job \in J!CatJobs
TextJob == job \in J!FoldJobs \/ job \in J!ExpandJobs \/ job \in J!UnexpandJobs \/ job \in J!FmtJobs \/ job \in J!CenterJobs
PieceJob == job \in J!SplitLineJobs \/ job \in J!SplitChunkJobs \/ job \in J!CsplitJobs \/ job \in J!TsortJobs
            \/ job \in J!WcJobs \/ job \in J!TeeJobs
SedJob == job \in J!SelectJobs \/ job \in J!SelectedJobs \/ job \in J!ChangeJobs \/ job \in J!SubstJobs \/ job \in J!GroupJobs
          \/ job \in J!ScriptJobs \/ job \in J!JoinedJobs \/ job \in J!BadJobs \/ job \in J!QuitJobs
PrJob == job \in J!OneJobs \/ job \in J!TabJobs \/ job \in J!LongJobs \/ job \in J!SomeJobs \/ job \in J!ColumnJobs \/ job \in J!MergeJobs
FileJob == job \in J!MvJobs \/ job \in J!LnJobs \/ job \in J!RmJobs \/ job \in J!RmdirJobs \/ job \in J!MkdirJobs
           \/ job \in J!CpJobs \/ job \in J!InstallJobs
\* The files and the operands are as the theorems of FileProofs assume them.
ASSUME FileJobsAssumption ==
  /\ \A j \in J!MvJobs : IsJob(j) /\ Blocks(j) /\ (Len(j.files) = 1 => Single(j) /\ Distinct(j))
  /\ \A j \in J!LnJobs : IsJob(j) /\ (Len(j.files) = 1 => Single(j) /\ Aside(j))
  /\ \A j \in J!RmJobs : IsJob(j) /\ Straight(j)
  /\ \A j \in J!RmdirJobs : IsJob(j)
  /\ \A j \in J!MkdirJobs : IsJob(j) /\ Nameable(j)
FindJob == job \in J!ExpressionJobs \/ job \in J!GivenJobs \/ job \in J!TestJobs
WordJob == job \in ExprJobs \/ job \in WordJobs \/ job \in PrimaryJobs \/ job \in TreeJobs
XargsJob == job \in J!XargsQuoteJobs \/ job \in J!XargsLimitJobs \/ job \in J!XargsEndJobs \/ job \in J!XargsReplaceJobs
SortedJob == job \in J!SortKeyJobs \/ job \in J!SortWordJobs \/ job \in J!SortOptionJobs \/ job \in J!SortRadixJobs

Init ==
  /\ \/ (LineJob \/ TextJob \/ PieceJob \/ job \in J!TranslateJobs \/ SedJob \/ FileJob \/ SortedJob \/ XargsJob) /\ inp = job.files
     \/ (PrJob \/ FindJob \/ WordJob) /\ inp = <<>>
  /\ mem = <<>> /\ out = <<>> /\ status = -1
Ended == status # -1 /\ UNCHANGED vars
Next == \/ Line!LineToolStep \/ Line!PieceToolStep \/ Texts!TextToolStep \/ Texts!TranslateStep \/ Stream!SedToolStep
        \/ CopyToolStep \/ Walk!FindStep \/ Pages!PrStep \/ Value!EvaluateStep \/ Order!SortStep \/ Args!XargsStep \/ Ended
\* A command that can go on goes on: weak fairness of Next. It is written without ENABLED,
\* which TLC would find by enumerating each step again: the check for deadlock shows that a
\* command which has not ended always has a step.
Spec == Init /\ [][Next]_vars /\ ([]<>(status # -1) \/ []<><<Next>>_vars)

-----------------------------------------------------------------------------
\* uniq, comm and join: what is adjacent and equal is one group, and each line of the files
\* is in the group it belongs to: the merge never passes the partner of a line. cut, paste,
\* head, nl and cat print the part of each line that was asked for, from the files as they
\* are, whatever ends without a newline or cannot be opened. Exceptions are WithoutNewlines and
\* JoinsOnLast (join) and HeadRight (head -n): getline()'s capacity is not a line's length.
LinesRight == Line!Grouped /\ Line!SelectedRight

\* fold, expand, unexpand, fmt: a text laid out anew is the same text, wherever a tab, a
\* backspace, a long word or an indentation meets the end of a line.
\* tr maps, deletes and squeezes the characters its strings denote, and the caches of its
\* sets hold what their trees hold. Exceptions are Unmet (tr -s with two strings) and Misled
\* (unexpand with a list of stops).
TextRight == Texts!TextKept /\ Texts!Translated

\* split, csplit, tsort, wc, tee: the pieces are the whole in its order, an error or a signal
\* leaves nothing half done, counts and order do not depend on how the input comes.
\* xargs: every argument is in one command line, in order, whatever is quoted and wherever the
\* buffer, -n or -L cut them, and bad quoting or what does not fit ends it with 1. Exceptions are
\* named: split -b, csplit beyond the end, wc -L (in LineMeaning); TakenForEof, OneByOne and
\* Unseen of xargs.
PiecesRight == Line!PiecesRight /\ Args!CommandLines

\* sed: every line goes through the commands that select it, once and in order (not claimed
\* where a range with +n is concerned as OverPlus says).
Edits == Stream!Edits

\* find does to every file it is to find what the expression says, in the order of the walk,
\* and gives each one to a `+' utility once.
Found == Walk!Found

\* pr: the lines of the files are on the pages in their order and under their heads.
PagesRight == Pages!PagesRight

\* expr and test: the value of the words does not depend on how the parsers reduce,
\* convert and look ahead, and no overflow is taken for a value (not claimed: arguments that
\* getopt() permutes, and the remainder that traps; see Permuted and Trap).
Evaluated == Value!Evaluated

\* sort: the keys are the characters that were asked for, every line is at the place its keys
\* give it (a key with the modifier i alone excepted, see Overlooked), and the threads of the
\* radix sort lose no line and no count of them.
Collated == Order!KeysRight /\ Order!RadixAccounted

\* Every command ends, for every one of its jobs.
Ends == <>(status # -1)
=============================================================================
