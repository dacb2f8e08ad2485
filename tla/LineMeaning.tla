---------------------------- MODULE LineMeaning ----------------------------
(***************************************************************************)
(* What the commands of LineTools promise about their whole input, stated  *)
(* over the files as sets and sequences of lines, without a reading loop;  *)
(* and those of Pieces about the pieces, the order and the counts, said    *)
(* without their loops, buffers and temporary files. Where the code does   *)
(* not do what its manual page says, the property names the exception.     *)
(***************************************************************************)
EXTENDS LineTools, Pieces

File(k) == job.files[k]
Occurrences(x, s) == Cardinality({i \in DOMAIN s : s[i] = x})
SameBag(s, t) == /\ Len(s) = Len(t)
                 /\ \A i \in DOMAIN s : Occurrences(s[i], s) = Occurrences(s[i], t)
Concat(f(_), n) == FlattenSeq([i \in 1 .. n |-> f(i)])

\* uniq: the maximal runs of adjacent lines with one key, as intervals
Runs(lines) ==
  LET same(i) == Key(lines[i]) = Key(lines[i - 1])
      starts == {i \in DOMAIN lines : i = 1 \/ ~same(i)}
  IN  {<<i, Min({j - 1 : j \in {k \in starts : k > i} \cup {Len(lines) + 1}})>> : i \in starts}
UniqLines(lines) ==
  LET run(i) == CHOOSE r \in Runs(lines) : i \in r[1] .. r[2]
      n(i) == run(i)[2] - run(i)[1] + 1
      line(i) ==
        IF job.D # ""
        THEN IF n(i) = 1 THEN <<>> ELSE <<<<lines[i]>>>>
        ELSE IF i # run(i)[1] \/ (job.d /\ n(i) = 1) \/ (job.u /\ n(i) > 1) THEN <<>>
        ELSE IF job.c THEN <<<<n(i), lines[i]>>>> ELSE <<<<lines[i]>>>>
  IN  Concat(line, Len(lines))

\* comm: of two sorted files, per line the smaller count is in common and the
\* rest of each file is its own
CommLines ==
  LET n(k, l) == Cardinality({i \in DOMAIN File(k) : CommKey(File(k)[i]) = CommKey(l)})
      nth(k, i) == Cardinality({j \in 1 .. i : CommKey(File(k)[j]) = CommKey(File(k)[i])})
      own(k, i) == nth(k, i) > n(3 - k, File(k)[i])
      common(i) == InColumn(3, File(1)[i])
      lines(k) == Concat(LAMBDA i : IF own(k, i) THEN InColumn(k, File(k)[i])
                                    ELSE IF k = 1 THEN common(i) ELSE <<>>, Len(File(k)))
  IN  lines(1) \o lines(2)

\* join: of two files sorted on their join fields, every pair of lines that
\* agree, and with -a or -v every line that agrees with none
JoinLines ==
  LET f(k, i) == JoinFields(Chomp(File(k)[i]))
      pairs(i, j) == JoinCmp(f(1, i), job.joinf[1], f(2, j), job.joinf[2]) = 0
      row(i) == Concat(LAMBDA j : IF job.joinout /\ pairs(i, j) THEN <<TwoLines(f(1, i), f(2, j))>> ELSE <<>>,
                       Len(File(2)))
      alone(k, i) == ~ \E j \in DOMAIN File(3 - k) : IF k = 1 THEN pairs(i, j) ELSE pairs(j, i)
      single(k) == Concat(LAMBDA i : IF job.unpair[k] /\ alone(k, i) THEN <<OneLine(k, f(k, i))>> ELSE <<>>,
                          Len(File(k)))
  IN  Concat(row, Len(File(1))) \o single(1) \o single(2)
\* Exception: slurp() takes the size of getline()'s buffer for the length of the line
\* (join.c:325-340), and the newline stays in the last field, of which join.1:68-71 knows
\* nothing. So rows are compared without it, and nothing is claimed when a join field is
\* the last one of its line: such a line agrees only with one that ends there as well.
WithoutNewlines(rows) == [i \in DOMAIN rows |-> [n \in DOMAIN rows[i] |-> Chomp(rows[i][n])]]
JoinsOnLast == \E k \in 1 .. 2 : \E i \in DOMAIN File(k) : Len(JoinFields(File(k)[i])) <= job.joinf[k]
\* cut: the positions of the list, as the manual defines them
Selected(n) == \E i \in DOMAIN job.list :
                  LET r == job.list[i]
                  IN  r[1] <= n /\ (r[2] = 0 \/ n <= r[2])
Joined(pieces, d) == FlattenSeq([i \in DOMAIN pieces |-> (IF i = 1 THEN <<>> ELSE <<d>>) \o pieces[i]])
CutText(l) ==
  IF job.mode = "columns"
  THEN Concat(LAMBDA n : IF Selected(n) THEN <<l[n]>> ELSE <<>>, Len(l))
  ELSE LET fields == Split(l, CutDelim, FALSE)
           chosen == SelectSeq([n \in DOMAIN fields |-> n], Selected)
       IN  Joined([i \in DOMAIN chosen |-> fields[chosen[i]]], job.odelim)

\* paste: row i is the i-th lines, and the n-th delimiter stands before column n + 1
PasteRows ==
  LET height == Max({Len(File(k)) : k \in DOMAIN job.files})
      cell(k, i) == IF i <= Len(File(k)) THEN Chomp(File(k)[i]) ELSE <<>>
      row(i) == Concat(LAMBDA k : (IF k = 1 THEN <<>> ELSE DelimAt(k - 2)) \o cell(k, i), Len(job.files))
  IN  Concat(LAMBDA i : row(i) \o <<NL>>, height)
PasteSerial ==
  LET file(k) == IF File(k) \in {<<>>, Missing} THEN <<>>
                 ELSE Concat(LAMBDA i : (IF i = 1 THEN <<>> ELSE DelimAt(i - 2)) \o Chomp(File(k)[i]),
                             Len(File(k))) \o <<NL>>
  IN  Concat(file, Len(job.files))

\* The numbers nl and cat give are consecutive where they are given at all.
Numbers(s) == SelectSeq(s, LAMBDA x : x # -1)
Consecutive(s, first, step) == s = [i \in DOMAIN s |-> first + step * (i - 1)]
CatPlain(k) == IF File(k) = Missing THEN <<>>
               ELSE LET l == File(k)
                        dropped(i) == job.s /\ i > 1 /\ l[i] = <<NL>> /\ l[i - 1] = <<NL>>
                    IN  Concat(LAMBDA i : IF dropped(i) THEN <<>> ELSE l[i], Len(l))

\* uniq, comm and join find, in one pass over sorted files, the groups that a
\* comparison of all lines with all lines finds (join: but for the newlines it keeps,
\* and unless it JoinsOnLast fields): nothing is lost or doubled where
\* a group ends, where one file ends first, or at a key that comes several times
\* in both files.
Grouped ==
  status = 0 =>
    CASE job.tool = "uniq" -> SelectSeq(out, LAMBDA l : l # <<"">>) = UniqLines(job.files)
      [] job.tool = "comm" -> SameBag(out, CommLines)
      [] job.tool = "join" -> JoinsOnLast \/ SameBag(WithoutNewlines(out), JoinLines)
      [] OTHER -> TRUE

\* head: the bytes asked for, however read(2) returns them. Exception: head -n does not
\* "print count lines of each of the specified files" (head.1:58-61), as head() writes the
\* whole buffer of getline() for each line (head.c:146-147). Of its output it is only
\* claimed that it has the first count lines, each followed by the rest of the buffer.
HeadRight ==
  LET n == IF job.count < Len(job.files) THEN job.count ELSE Len(job.files)
  IN  IF job.unit = "bytes" THEN out = SubSeq(job.files, 1, n) ELSE out = Concat(LAMBDA i : Buffer(job.files[i]), n)

\* cut prints exactly the positions its list names, whatever the order and the
\* overlaps of the ranges in the list; paste aligns files of any lengths; nl and cat
\* number without gaps and change nothing else; head -c prints a prefix, head -n more.
SelectedRight ==
  status # -1 =>
    CASE job.tool = "cut" -> out = Concat(LAMBDA i : LET l == Chomp(job.files[i])
                                                     IN  IF job.mode = "fields" /\ job.s /\ ~\E c \in DOMAIN l : CutDelim(l[c])
                                                         THEN <<>> ELSE CutText(l) \o <<NL>>, Len(job.files))
      [] job.tool = "paste" -> out = IF job.serial THEN PasteSerial ELSE PasteRows
      [] job.tool = "head" -> HeadRight
      [] job.tool = "nl" -> /\ ~job.restart => Consecutive(Numbers([i \in DOMAIN out |-> out[i][1]]), job.startnum, job.incr)
                            /\ [i \in DOMAIN out |-> out[i][2]] = SelectSeq(job.files, LAMBDA l : l \notin job.delimiters)
      [] job.tool = "cat" /\ job.plain ->
           /\ SelectSeq(out, LAMBDA x : Len(x) = 1) = Concat(CatPlain, Len(job.files))
           /\ status = 0 <=> \A k \in DOMAIN job.files : File(k) # Missing
      [] OTHER -> TRUE

-----------------------------------------------------------------------------
Matches(l, re) == \E i \in DOMAIN l : l[i] = re
From(s, starts) ==
  LET at == InOrder(starts)
  IN  [k \in DOMAIN at |-> FlattenSeq(SubSeq(s, at[k], IF k = Len(at) THEN Len(s) ELSE at[k + 1] - 1))]

\* split: where a file begins. Exception: split -b N does not "create split files byte_count
\* bytes in length" (split.1:91-93): main() reads N into a variable that nothing uses
\* (split.c:122) and goes on with lines. Nothing is claimed of it.
SplitStarts ==
  CASE job.by = "pattern" -> {i \in DOMAIN job.files : i = 1 \/ Matches(job.files[i], job.re)}
    [] job.by = "lines" -> {i \in DOMAIN job.files : i % job.lines = 1 % job.lines}
    [] OTHER -> {i \in DOMAIN job.files : (i - 1) % ByteCount = 0 /\ (i - 1) \div ByteCount < job.chunks}
SplitPieces == With(IF job.by = "chunks" THEN [i \in DOMAIN job.files |-> <<job.files[i]>>] ELSE job.files,
                    LAMBDA s : From(s, SplitStarts))
SplitRight ==
  job.by # "bytes" =>
    /\ status = 0 => mem.files = SplitPieces
    /\ status = 65 => Len(SplitPieces) > job.maxfiles /\ mem.files = SubSeq(SplitPieces, 1, job.maxfiles)

\* csplit: where each argument cuts the file: after line p, of which the first
\* `files' pieces are made. A cut before line p or beyond the end is an error
\* (csplit.1:128-129); exceptions: an offset that leads beyond the end ends the file
\* there (csplit.c:432-436), and a rest that is empty becomes a file (csplit.c:198-206
\* against csplit.1:125-126).
Repeats == FlattenSeq([a \in DOMAIN job.args |-> [r \in 1 .. (job.args[a].reps + 1) |-> [job.args[a] EXCEPT !.reps = r]]])
Cut(st, arg) ==
  LET match == {i \in (st.p + 2) .. Len(job.files) : Matches(job.files[i], arg.re)}
      line == Min(match) + arg.ofs - 1
      wanted == CASE arg.kind = "line" -> arg.ofs * arg.reps - 1
                  [] OTHER -> line
      text(to) == FlattenSeq(SubSeq(job.files, st.p + 1, to))
  IN  IF st.fails \/ Len(st.files) >= job.maxfiles - 1 THEN st
      ELSE IF (arg.kind # "line" /\ match = {}) \/ wanted \notin st.p .. Len(job.files)
      THEN [st EXCEPT !.fails = TRUE, !.beyond = arg.kind # "line" /\ match # {} /\ wanted > Len(job.files)]
      ELSE [st EXCEPT !.files = IF arg.kind = "%" THEN @ ELSE Append(@, text(wanted)), !.p = wanted]
CutAll == With(Scan(Cut, [p |-> 0, files |-> <<>>, fails |-> FALSE, beyond |-> FALSE], Repeats),
               LAMBDA st : [st EXCEPT !.files = IF st.p = Len(job.files) THEN @ ELSE
                              Append(@, FlattenSeq(SubSeq(job.files, st.p + 1, Len(job.files))))])
AsCut(files, cut) == files = cut.files \/ (cut.p = Len(job.files) /\ files = Append(cut.files, <<>>))
CsplitRight ==
  status # -1 => \E cut \in {CutAll} :
    /\ status = 0 => cut.beyond \/ (~cut.fails /\ AsCut(mem.files, cut))
    /\ status = 1 => cut.fails /\ (job.k \/ mem.files = <<>>)
    \* Exception to "all files previously written are removed" (csplit.1:63-66): a signal between
    \* fopen() and the counting of the file (csplit.c:245-249) leaves that file behind.
    /\ status = 2 => Len(mem.files) <= 1 \/ cut.beyond \/ AsCut(mem.files, cut)

\* tsort: each node once, after all its predecessors unless it was taken to break
\* a cycle, which was one of the graph
Arcs == {<<job.files[2 * i - 1], job.files[2 * i]>> : i \in 1 .. (Len(job.files) \div 2)}
Place(n) == CHOOSE i \in DOMAIN out : out[i] = n
TsortRight ==
  /\ status = 1 => Len(job.files) % 2 = 1
  /\ status = 0 =>
       LET broken == {Last(mem.cycles[i]) : i \in DOMAIN mem.cycles}
       IN  /\ {out[i] : i \in DOMAIN out} = {job.files[i] : i \in DOMAIN job.files}
           /\ IsInjective(out)
           /\ \A arc \in Arcs : arc[1] = arc[2] \/ arc[2] \in broken \/ Place(arc[1]) < Place(arc[2])
           /\ \A i \in DOMAIN mem.cycles :
                LET c == mem.cycles[i]
                IN  /\ IsInjective(c)
                    /\ \A k \in DOMAIN c : <<c[k], c[IF k = Len(c) THEN 1 ELSE k + 1]>> \in Arcs

\* wc: the counts do not depend on how the file comes. Exception: a last line that does not
\* end in a newline is never measured (wc.c:250-256), though it may be "the line containing
\* the most bytes" (wc.1:79): nothing is claimed of -L then.
Ended(f) == {i \in DOMAIN f : f[i] = NL}
CountOf(f, i) == Cardinality({j \in DOMAIN f : j <= i /\ ~(job.m /\ f[j] = "L")})
Space(c) == Blank(c) \/ c = NL
Counted(f) ==
  [line |-> Cardinality(Ended(f)),
   word |-> IF ~(job.w \/ job.m) THEN 0 ELSE Cardinality({i \in DOMAIN f : ~Space(f[i]) /\ (i = 1 \/ Space(f[i - 1]))}),
   char |-> CountOf(f, Len(f)),
   long |-> Max({CountOf(f, i - 1) - CountOf(f, Max({0} \cup {j \in Ended(f) : j < i})) : i \in Ended(f) \cup {Len(f) + 1}})]
Measured(f) == f = <<>> \/ Last(f) = NL
WcRight ==
  LET readable == SelectSeq(job.files, LAMBDA f : f # NoText)
      counts == SubSeq(out, 1, Len(readable))
  IN  status \in {0, 1} =>
        /\ Len(counts) = Len(readable)
        /\ \A i \in DOMAIN counts : \E c \in {Counted(readable[i])} :
             counts[i] = c \/ (~Measured(readable[i]) /\ counts[i] = [c EXCEPT !.long = counts[i].long])
        /\ Len(job.files) > 1 => Last(out) = Scan(Summed, Counts, counts)
        /\ (status = 0) = (Len(readable) = Len(job.files))

\* tee: an output that could always be written has everything that was read
TeeRight ==
  status # -1 =>
    /\ \A k \in DOMAIN mem.files : k \in mem.failed \/ mem.files[k] = job.files
    /\ (status = 0) = (mem.failed = {})

\* The pieces are the whole in its order, each where it was asked for, and an
\* error or a signal leaves nothing half done; the counts and the order are right
\* however the input comes, whatever cycles it has and whichever output fails.
PiecesRight ==
  CASE job.tool = "split" -> SplitRight
    [] job.tool = "csplit" -> CsplitRight
    [] job.tool = "tsort" -> TsortRight
    [] job.tool = "wc" -> WcRight
    [] job.tool = "tee" -> TeeRight
    [] OTHER -> TRUE
=============================================================================
