-------------------------------- MODULE Sed --------------------------------
(***************************************************************************)
(* sed: process.c, and the input files of main.c. job: script, n (-n), in  *)
(* ("" or "i" or "I"), ext (-i with an extension), width (COLUMNS), files. *)
(* mem.disk are the files, mem.backup their backups, mem.tmp the temporary *)
(* file, which is written as one piece; mem.to what was printed; ps, hs and their newline flag the spaces *)
(***************************************************************************)
EXTENDS SedScript

Absent == <<<<"absent">>>>
SedStart ==
  /\ Running("sed") /\ mem = <<>>
  /\ \E prog \in {Compile(job.script)} :
       IF prog.err THEN Exit(1) /\ UNCHANGED mem
       ELSE /\ mem' = [prog |-> prog, start |-> [i \in DOMAIN prog.cmd |-> 0], cp |-> 0, at |-> "read", want |-> "cycle",
                       ps |-> <<>>, nl |-> TRUE, hs |-> <<>>, sdone |-> FALSE, pd |-> FALSE, line |-> 0, apps |-> <<>>,
                       quit |-> FALSE, file |-> 0, rest |-> <<>>, disk |-> job.files, backup |-> [i \in DOMAIN job.files |-> Absent],
                       tmp |-> Absent, to |-> <<>>, w |-> <<>>, def |-> <<>>, last |-> FALSE, rval |-> 0]
            /\ UNCHANGED status
  /\ UNCHANGED <<job, inp, out>>
AtSed(at) == Running("sed") /\ mem # <<>> /\ mem.at = at
Goes(m, at) == mem' = [m EXCEPT !.at = at]
Written(m, x) == IF job.in = "" THEN [m EXCEPT !.to = @ \o x] ELSE [m EXCEPT !.tmp[1] = @ \o x]
Space(m) == m.ps \o (IF m.nl THEN <<NL>> ELSE <<>>)
Out(m) == Written(m, Space(m))

-----------------------------------------------------------------------------
(* mf_fgets(), lastline(): one step for each system call on a file           *)

More(m) == /\ job.in # "i"
           /\ \E i \in m.file + 1 .. Len(m.disk) : m.disk[i] \notin {Missing, <<>>}
\* A slip: the last line of a file is taken for the last line.
LastOfFile(m) == m.rest = <<>>

Lastline(m) == m.rest = <<>> /\ ~More(m)
\* A line of the current file, or the file is done with
SedRead ==
  /\ AtSed("read")
  /\ IF mem.rest # <<>> /\ ~mem.quit
     THEN LET l == Head(mem.rest)
              m == [mem EXCEPT !.rest = Tail(@), !.line = @ + 1,
                               !.ps = IF mem.want = "N" THEN @ \o Chomp(l) ELSE Chomp(l)]
              nl == Last(l) = NL \/ ~Lastline(m)
          IN  mem' = [m EXCEPT !.nl = nl, !.at = "exec", !.pd = IF mem.want = "N" THEN @ ELSE FALSE,
                               !.cp = IF mem.want = "cycle" THEN mem.prog.next[0] ELSE mem.prog.next[@]]
     ELSE Goes([mem EXCEPT !.rest = <<>>],
               IF mem.file = 0 \/ job.in = "" \/ mem.tmp = Absent THEN "open" ELSE IF job.ext THEN "unbackup" ELSE "rename")
  /\ UNCHANGED <<job, inp, out, status>>
SedUnbackup ==
  /\ AtSed("unbackup")
  /\ Goes([mem EXCEPT !.backup[mem.file] = Absent], "backup")
  /\ UNCHANGED <<job, inp, out, status>>
SedBackup ==
  /\ AtSed("backup")
  /\ \/ Goes([mem EXCEPT !.backup[mem.file] = mem.disk[mem.file]], "rename") /\ UNCHANGED status       \* link(2)
     \/ Goes([mem EXCEPT !.backup[mem.file] = mem.disk[mem.file], !.disk[mem.file] = Absent], "rename") /\ UNCHANGED status
     \/ mem' = [mem EXCEPT !.tmp = Absent] /\ Exit(1)
  /\ UNCHANGED <<job, inp, out>>
SedRename ==
  /\ AtSed("rename")
  /\ \/ Goes([mem EXCEPT !.disk[mem.file] = mem.tmp, !.tmp = Absent], "open") /\ UNCHANGED status
     \/ mem' = [mem EXCEPT !.tmp = Absent] /\ Exit(1)
  /\ UNCHANGED <<job, inp, out>>
\* The next file; with -i the temporary file is made before the file is read, and resetstate() is called
SedOpen ==
  /\ AtSed("open")
  /\ LET i == mem.file + 1
         m == [mem EXCEPT !.file = i]
         fresh == [m EXCEPT !.tmp = <<<<>>>>, !.rest = mem.disk[i]]
     IN  IF i > Len(job.files) THEN Exit(IF mem.want = "cycle" THEN mem.rval ELSE 0) /\ UNCHANGED mem
         ELSE IF mem.disk[i] = Missing THEN IF job.in = "" THEN Goes([m EXCEPT !.rval = 1], "open") /\ UNCHANGED status
                                                         ELSE Exit(1) /\ UNCHANGED mem
         ELSE /\ Goes(CASE job.in = "" -> [m EXCEPT !.rest = mem.disk[i]]
                        [] job.in = "I" -> fresh
                        [] job.in = "i" -> [fresh EXCEPT !.line = 0, !.hs = <<>>, !.start = [c \in DOMAIN @ |-> 0]], "read")
              /\ UNCHANGED status
  /\ UNCHANGED <<job, inp, out>>
\* exit(3) flushes what was printed
SedKilled ==
  /\ Running("sed") /\ mem # <<>> /\ job.in # ""
  /\ Exit(9)
  /\ UNCHANGED <<job, inp, mem, out>>

-----------------------------------------------------------------------------
(* The matcher of the library: the ends of the items i .. n matched from k   *)

RECURSIVE EndsOf(_, _, _, _)
EndsOf(items, i, s, k) ==
  IF i > Len(items) THEN {k}
  ELSE LET fits == k < Len(s) /\ (items[i].set = {} \/ s[k + 1] \in items[i].set)
       IN  IF items[i].star THEN EndsOf(items, i + 1, s, k) \cup (IF fits THEN EndsOf(items, i, s, k + 1) ELSE {})
           ELSE IF fits THEN EndsOf(items, i + 1, s, k + 1) ELSE {}
Until(re, n) == SubSeq(re.items, 1, n)
\* regexec_e(): [so, eo, gs, ge] for the leftmost longest match from k on, or none
NoMatch == [so |-> -1]
Regexec(re, s, k, notbol) ==
  LET ends(b) == {e \in EndsOf(re.items, 1, s, b) : re.eol => e = Len(s)}
      begins == {b \in k .. Len(s) : (re.bol => b = 0 /\ ~notbol) /\ ends(b) # {}}
  IN  IF begins = {} THEN NoMatch
      ELSE LET b == Min(begins)
               e == Max(ends(b))
               from == Max(EndsOf(Until(re, re.open - 1), 1, s, b))
               to == Max({g \in EndsOf(Until(re, re.shut - 1), 1, s, b) : e \in EndsOf(Past(re.items, re.shut - 1), 1, s, g)})
           IN  [so |-> b, eo |-> e, gs |-> from, ge |-> to]
Matches(re, m) == With(CompileRe(IF re = <<>> THEN m.def ELSE re), LAMBDA x : Regexec(x, m.ps, 0, FALSE)) # NoMatch

\* applies(): [r, m], with the start of the range and the last regular expression kept in m
Used(m, a) == IF a.type = "re" /\ a.re # <<>> THEN [m EXCEPT !.def = a.re] ELSE m
Match(m, a) == CASE a.type = "re" -> Matches(a.re, m)
                 [] a.type = "line" -> m.line = a.l
                 [] OTHER -> Lastline(m)
Applies(m0, i) ==
  LET c == m0.prog.cmd[i]
      m == [m0 EXCEPT !.last = FALSE]
      started == m.start[i] > 0
      closed(r, last) == <<r, [Used(m, c.a2) EXCEPT !.start[i] = 0, !.last = last]>>
      res ==
        CASE c.a1.type = "none" -> <<TRUE, m>>
          [] c.a1.type # "none" /\ c.a2.type = "none" -> <<Match(m, c.a1), Used(m, c.a1)>>
          [] c.a2.type = "rel" /\ started -> IF m.line - m.start[i] <= c.a2.l THEN <<TRUE, m>> ELSE closed(FALSE, FALSE)
          [] c.a2.type \notin {"rel", "none"} /\ started ->
               IF Match(m, c.a2) THEN closed(TRUE, TRUE)
               ELSE IF c.a2.type = "line" /\ m.line > c.a2.l THEN closed(FALSE, FALSE)
               ELSE <<TRUE, Used(m, c.a2)>>
          [] c.a2.type # "none" /\ ~started ->
               LET used == Used(m, c.a1)
               IN  IF ~Match(m, c.a1) THEN <<FALSE, used>>
                   ELSE IF (c.a2.type = "line" /\ m.line >= c.a2.l) \/ (c.a2.type = "rel" /\ c.a2.l = 0)
                   THEN <<TRUE, [used EXCEPT !.last = TRUE]>>
                   ELSE <<TRUE, [used EXCEPT !.start[i] = m.line]>>
  IN  <<res[1] # c.nonsel, res[2]>>

-----------------------------------------------------------------------------
(* substitute(), regsub(), do_tr(), lputs()                                  *)

RECURSIVE Regsub(_, _, _)
Regsub(new, s, mt) ==
  IF new = <<>> THEN <<>>
  ELSE LET second == IF Len(new) > 1 THEN new[2] ELSE ""
       IN  CASE new[1] = "&" -> SubSeq(s, mt.so + 1, mt.eo) \o Regsub(Tail(new), s, mt)
             [] new[1] = "\\" /\ second \in DOMAIN Digit -> SubSeq(s, mt.gs + 1, mt.ge) \o Regsub(Past(new, 2), s, mt)
             [] new[1] = "\\" /\ second \in {"\\", "&"} -> <<second>> \o Regsub(Past(new, 2), s, mt)
             [] OTHER -> <<new[1]>> \o Regsub(Tail(new), s, mt)
\* st: ss, le, n, lastempty, and whether the loop has ended at an end of line
RECURSIVE Replaced(_, _, _, _, _)
Replaced(re, new, s, match, before) == With(<<match, before>>, LAMBDA args :
  LET mt == args[1]
      st == args[2]
      wanted == st.lastempty \/ mt.so > st.le \/ mt.so # mt.eo
      lead == IF st.n <= 1 THEN SubSeq(s, st.le + 1, mt.so) ELSE <<>>
      this == IF ~wanted THEN <<>> ELSE IF st.n <= 1 THEN Regsub(new, s, mt) ELSE SubSeq(s, st.le + 1, mt.eo)
      n == IF ~wanted THEN st.n ELSE IF st.n = 1 THEN -1 ELSE IF st.n > 1 THEN st.n - 1 ELSE st.n
      empty == mt.so = mt.eo
      next == IF mt.eo < Len(s) THEN s[mt.eo + 1] ELSE ""
      step == IF empty /\ next # "" THEN 1 ELSE 0
      st2 == [ss |-> st.ss \o lead \o this \o (IF step = 1 THEN <<next>> ELSE <<>>), le |-> mt.eo + step, n |-> n,
              lastempty |-> empty, stop |-> empty /\ next \in {"", NL}]
  IN  With(<<Regexec(re, s, st2.le, TRUE), st2>>, LAMBDA x :
        IF n >= 0 /\ ~st2.stop /\ x[1] # NoMatch THEN Replaced(re, new, s, x[1], x[2]) ELSE x[2]))
Substitute(m, c) == With(CompileRe(IF c.re = <<>> THEN m.def ELSE c.re), LAMBDA re :
  LET used == IF c.re = <<>> THEN m ELSE [m EXCEPT !.def = c.re]
      first == Regexec(re, m.ps, 0, FALSE)
      all == Replaced(re, c.new, m.ps, first, [ss |-> <<>>, le |-> 0, n |-> c.n, lastempty |-> TRUE, stop |-> FALSE])
      done(st) == [used EXCEPT !.ps = st.ss \o (IF st.stop THEN <<>> ELSE Past(m.ps, st.le)), !.sdone = TRUE]
      shown(x) == IF c.p THEN Out(x) ELSE x
      filed(x) == IF c.w /\ ~m.pd THEN [x EXCEPT !.w = @ \o Append(x.ps, NL)] ELSE x
  IN  IF first = NoMatch THEN used
      ELSE With(all, LAMBDA st : IF st.n > 0 THEN used ELSE With(done(st), LAMBDA x : filed(shown(x)))))
Tr(s, c) == [i \in DOMAIN s |-> LET at == {k \in DOMAIN c.from : c.from[k] = s[i]}
                                IN  IF at = {} THEN s[i] ELSE c.to[Max(at)]]
\* `l': a line of the output is never as wide as the terminal
Visible(ch) == CASE ch = "\t" -> <<"\\", "t">> [] ch = "\\" -> <<"\\", "\\">> [] OTHER -> <<ch>>
Fold1 == <<"\\", NL>>
Lputs(s, width) ==
  LET st == Scan(LAMBDA a, ch :
                   IF ch = NL THEN [o |-> a.o \o (IF a.col + 1 >= width THEN Fold1 ELSE <<>>) \o <<"$", NL>>, col |-> 0]
                   ELSE LET v == Visible(ch)
                        IN  IF a.col + Len(v) >= width THEN [o |-> a.o \o Fold1 \o v, col |-> Len(v)]
                            ELSE [o |-> a.o \o v, col |-> a.col + Len(v)],
                 [o |-> <<>>, col |-> 0], s)
  IN  st.o \o (IF st.col + 1 >= width THEN Fold1 ELSE <<>>) \o <<"$", NL>>

-----------------------------------------------------------------------------
(* process(): a command                                                      *)

FirstLine(s) == IF NL \in Range(s) THEN Min({i \in DOMAIN s : s[i] = NL}) ELSE 0
Flushed(m) ==
  LET text == FlattenSeq(m.apps)
  IN  [Written(m, text) EXCEPT !.apps = <<>>, !.sdone = FALSE]
To(m, k) == mem' = [m EXCEPT !.cp = k] /\ UNCHANGED status
Reads(m, want) == Goes([m EXCEPT !.want = want], "read")
\* What `r' reads: job.text, or nothing where there is no such file
SedExec ==
  /\ AtSed("exec")
  /\ IF mem.cp = 0 THEN Goes(mem, "new") /\ UNCHANGED status
     ELSE \E ap \in {Applies(mem, mem.cp)} :
       LET c == mem.prog.cmd[mem.cp]
           m == ap[2]
           n == mem.prog.next[mem.cp]
           first == FirstLine(m.ps)
       IN  IF ~ap[1] THEN To(m, n)
           ELSE CASE c.code = "{" -> To(m, mem.prog.inner[mem.cp])
                  [] c.code = "a" -> To([m EXCEPT !.apps = Append(@, c.t)], n)
                  [] c.code = "r" -> To([m EXCEPT !.apps = Append(@, job.text)], n)
                  [] c.code = "b" -> To(m, mem.prog.inner[mem.cp])
                  [] c.code = "t" -> IF m.sdone THEN To([m EXCEPT !.sdone = FALSE], mem.prog.inner[mem.cp]) ELSE To(m, n)
                  [] c.code = "c" -> To([(IF c.a2.type = "none" \/ m.last \/ Lastline(m) THEN Written(m, c.t) ELSE m)
                                           EXCEPT !.pd = TRUE, !.ps = <<>>], n)
                  [] c.code = "d" -> Goes([m EXCEPT !.pd = TRUE], "new") /\ UNCHANGED status
                  [] c.code = "D" -> IF m.pd \/ first = 0 THEN Goes([m EXCEPT !.pd = TRUE], "new") /\ UNCHANGED status
                                     ELSE To([m EXCEPT !.ps = Past(@, first)], mem.prog.next[0])
                  [] c.code = "g" -> To([m EXCEPT !.ps = m.hs], n)
                  [] c.code = "G" -> To([m EXCEPT !.ps = @ \o <<NL>> \o m.hs], n)
                  [] c.code = "h" -> To([m EXCEPT !.hs = m.ps], n)
                  [] c.code = "H" -> To([m EXCEPT !.hs = @ \o <<NL>> \o m.ps], n)
                  [] c.code = "x" -> To([m EXCEPT !.hs = m.ps, !.ps = m.hs], n)
                  [] c.code = "i" -> To(Written(m, c.t), n)
                  [] c.code = "l" -> To(Written(m, Lputs(m.ps, job.width)), n)
                  [] c.code = "=" -> To(Written(m, <<ToString(m.line), NL>>), n)
                  [] c.code = "n" -> Reads(Flushed(IF ~job.n /\ ~m.pd THEN Out(m) ELSE m), "n") /\ UNCHANGED status
                  [] c.code = "N" -> Reads([Flushed(m) EXCEPT !.ps = Append(@, NL)], "N") /\ UNCHANGED status
                  [] c.code = "p" -> To(IF m.pd THEN m ELSE Out(m), n)
                  [] c.code = "P" -> To(IF m.pd THEN m ELSE IF first = 0 THEN Out(m) ELSE Written(m, SubSeq(m.ps, 1, first)), n)
                  [] c.code = "q" -> IF job.in # "" THEN To([m EXCEPT !.quit = TRUE], n)
                                     ELSE mem' = Flushed(IF ~job.n /\ ~m.pd THEN Out(m) ELSE m) /\ Exit(0)
                  [] c.code = "s" -> To(Substitute(m, c), n)
                  [] c.code = "w" -> To(IF m.pd THEN m ELSE [m EXCEPT !.w = @ \o Append(m.ps, NL)], n)
                  [] c.code = "y" -> To(IF m.pd THEN m ELSE [m EXCEPT !.ps = Tr(@, c)], n)
                  [] OTHER -> To(m, n)
  /\ UNCHANGED <<job, inp, out>>
SedNew ==
  /\ AtSed("new")
  /\ Reads(Flushed(IF ~job.n /\ ~mem.pd THEN Out(mem) ELSE mem), "cycle")
  /\ UNCHANGED <<job, inp, out, status>>
SedToolStep ==
  /\ job.tool = "sed"
  /\ \/ SedStart \/ SedRead \/ SedUnbackup \/ SedBackup \/ SedRename \/ SedOpen \/ SedKilled \/ SedExec \/ SedNew

-----------------------------------------------------------------------------
(* What sed promises: job.kind names what the script is for, job.spec the  *)
(* addresses or the substitution it was written from.                      *)

\* The stream a file belongs to, as it is printed: every line but the last has a newline
Readable(f) == f \notin {Missing, <<>>}
Stream1(files) == FlattenSeq(SelectSeq(files, Readable))
Streams == IF job.in = "i" THEN [i \in DOMAIN job.files |-> Stream1(<<job.files[i]>>)] ELSE <<Stream1(job.files)>>
Whole(s, k) == IF k < Len(s) THEN Append(Chomp(s[k]), NL) ELSE s[k]

\* A regular expression accepts a piece: it can be cut into one piece for each item
Accepts(re, l, b, e) ==
  /\ re.bol => b = 0
  /\ re.eol => e = Len(l)
  /\ LET n == Len(re.items)
     IN  \E cut \in [0 .. n -> b .. e] :
           /\ cut[0] = b /\ cut[n] = e
           /\ \A i \in 1 .. n :
                /\ cut[i] >= cut[i - 1] /\ (re.items[i].star \/ cut[i] = cut[i - 1] + 1)
                /\ \A k \in cut[i - 1] + 1 .. cut[i] : re.items[i].set = {} \/ l[k] \in re.items[i].set
Found(re, l) == \E b, e \in 0 .. Len(l) : b <= e /\ Accepts(re, l, b, e)

\* The lines the addresses select: after the end of a range the first address is looked for
\* again, from the next line on (sed.1:235-238)
At(s, a, k) == CASE a.type = "re" -> Found(CompileRe(a.re), Chomp(s[k]))
                 [] a.type = "line" -> k = a.l
                 [] OTHER -> k = Len(s)
RangeEnd(s, a2, k) ==
  LET ends == {j \in k + 1 .. Len(s) : At(s, a2, j)}
  IN  CASE a2.type = "none" -> k
        [] a2.type = "rel" -> k + a2.l
        [] a2.type = "line" /\ a2.l <= k -> k
        [] OTHER -> IF ends = {} THEN Len(s) + 1 ELSE Min(ends)
RECURSIVE Ranges(_, _)
Ranges(s, from) ==
  LET starts == {k \in from .. Len(s) : At(s, job.spec.a1, k)}
  IN  IF starts = {} THEN {}
      ELSE LET k == Min(starts)
               e == RangeEnd(s, job.spec.a2, k)
           IN  {<<k, e>>} \cup Ranges(s, e + 1)
Selected(s, k) == (\E r \in Ranges(s, 1) : k \in r[1] .. r[2]) # job.spec.neg
EndsRange(s, k) == k = Len(s) \/ \E r \in Ranges(s, 1) : r[2] = k
\* Exception: applies() finds that a range with +n is over only at the line after it
\* (process.c:311-316), which is then not tried as a first address. And it does not tell `c' of
\* the end of the range, so that no text comes "at the end of a 2-address range"
\* (sed.1:378-381, process.c:140) unless the stream ends there. What is printed of a stream is
\* not claimed when such a line is one to select, or such an end one to print text at.
SkipsAddress(s) == \E r, q \in Ranges(s, 1) : r[2] > r[1] /\ q[1] = r[2] + 1
SkipsText(s) == job.kind = "change" /\ \E r \in Ranges(s, 1) : r[2] \in r[1] + 1 .. Len(s) - 1
OverPlus(s) == job.spec.a2.type = "rel" /\ (SkipsAddress(s) \/ SkipsText(s))

\* The matches a substitution is about: leftmost, longest, none inside another, an
\* empty one never next to the one before
RECURSIVE MatchesFrom(_, _, _, _)
MatchesFrom(re, l, from, was) ==
  LET here(b) == {e \in b .. Len(l) : Accepts(re, l, b, e) /\ ~(b = e /\ b = was)}
      begins == {b \in from .. Len(l) : here(b) # {}}
  IN  IF begins = {} THEN <<>>
      ELSE LET b == Min(begins)
               e == Max(here(b))
           IN  <<<<b, e>>>> \o MatchesFrom(re, l, IF e = b THEN e + 1 ELSE e, e)
\* new is a sequence of characters, of "&" and of "\1", which is the longest group there can be
Group(re, l, mt) ==
  LET open == [re EXCEPT !.items = SubSeq(@, 1, re.open - 1), !.eol = FALSE]
      shut == [re EXCEPT !.items = SubSeq(@, re.shut, Len(@)), !.bol = FALSE]
  IN  SubSeq(l, 1 + Max({g \in mt[1] .. mt[2] : Accepts(open, l, mt[1], g)}),
             Max({g \in mt[1] .. mt[2] : Accepts(shut, l, g, mt[2])}))
Replacement(re, l, mt) ==
  FlattenSeq([i \in DOMAIN job.spec.new |->
                CASE job.spec.new[i] = "&" -> SubSeq(l, mt[1] + 1, mt[2])
                  [] job.spec.new[i] = "\\1" -> Group(re, l, mt)
                  [] OTHER -> <<job.spec.new[i]>>])
Substituted(l) ==
  LET re == CompileRe(job.spec.re)
      all == MatchesFrom(re, l, 0, -1)
      which == IF job.spec.n = 0 THEN DOMAIN all ELSE DOMAIN all \cap {job.spec.n}
      upto(k) == IF k = 0 THEN 0 ELSE all[k][2]
      piece(k) == SubSeq(l, upto(k - 1) + 1, all[k][1])
                  \o (IF k \in which THEN Replacement(re, l, all[k]) ELSE SubSeq(l, all[k][1] + 1, all[k][2]))
  IN  FlattenSeq([k \in DOMAIN all |-> piece(k)]) \o SubSeq(l, upto(Len(all)) + 1, Len(l))

\* `l' can be read back
RECURSIVE Unfolded(_)
Unfolded(x) ==
  IF x = <<>> THEN <<>>
  ELSE IF Len(x) = 1 THEN <<Chomp(<<x[1]>>)>>
  ELSE IF x[1] = "\\" THEN (CASE x[2] = NL -> <<>> [] x[2] = "t" -> <<"\t">> [] OTHER -> <<"\\">>) \o Unfolded(SubSeq(x, 3, Len(x)))
  ELSE IF x[1] = "$" THEN <<NL>> \o Unfolded(SubSeq(x, 3, Len(x)))
  ELSE <<x[1]>> \o Unfolded(Tail(x))
Narrow(x) == \A i \in DOMAIN x : i + job.width \in DOMAIN x => \E k \in i .. i + job.width : x[k] = NL

\* What is printed for line k of a stream, and for all of it
Text == job.spec.text
LineOf(s, k) ==
  LET l == Whole(s, k)
      sel == Selected(s, k)
      end(t) == t \o SubSeq(l, Len(Chomp(l)) + 1, Len(l))
  IN  CASE job.kind = "select" -> IF sel THEN l ELSE <<>>
        [] job.kind = "subst" -> end(Substituted(Chomp(l)))
        [] job.kind = "change" -> IF ~sel THEN l ELSE IF EndsRange(s, k) THEN Text ELSE <<>>
        [] job.kind = "around" -> IF sel THEN Text \o l \o Text ELSE l
        [] job.kind = "swap" -> [i \in DOMAIN l |-> CASE l[i] = "a" -> "b" [] l[i] = "b" -> "a" [] OTHER -> l[i]]
        [] job.kind = "head" -> IF k = 1 THEN l ELSE <<>>
        [] job.kind = "filed" -> <<>>
        [] job.kind = "odd" -> IF k % 2 = 1 THEN l ELSE <<>>
        [] job.kind = "squeeze" -> LET t == Chomp(l) IN end(FlattenSeq([i \in DOMAIN t |-> IF i > 1 /\ t[i] = "a" /\ t[i - 1] = "a" THEN <<>> ELSE <<t[i]>>]))
        [] job.kind = "number" -> <<ToString(k), NL>> \o l
        [] OTHER -> l
Lines(s) == FlattenSeq([i \in DOMAIN s |-> Append(Chomp(s[i]), NL)])
Printed(s) ==
  LET n == Len(s)
      nl == IF Last(Last(s)) = NL THEN <<NL>> ELSE <<>>
      ended(i) == Append(Chomp(s[i]), NL)
  IN  CASE s = <<>> -> <<>>
        [] s # <<>> /\ job.kind = "reverse" -> FlattenSeq([i \in 1 .. n - 1 |-> ended(n + 1 - i)]) \o Chomp(s[1]) \o nl
        [] s # <<>> /\ job.kind = "join" -> FlattenSeq([i \in 1 .. n - 1 |-> Append(Chomp(s[i]), "x")]) \o Chomp(s[n]) \o nl
        [] s # <<>> /\ job.kind = "collect" -> FlattenSeq([i \in 1 .. n |-> <<NL>> \o Chomp(s[i])]) \o nl
        [] s # <<>> /\ job.kind = "double" -> FlattenSeq([i \in 1 .. n - 1 |-> ended(i) \o <<NL>>]) \o ended(n) \o nl
        [] s # <<>> /\ job.kind = "shift" -> FlattenSeq([i \in 1 .. n |-> IF i = 1 THEN (IF n = 1 THEN nl ELSE <<NL>>)
                                                                       ELSE Chomp(s[i - 1]) \o (IF i = n THEN nl ELSE <<NL>>)])
        [] OTHER -> FlattenSeq([k \in 1 .. n |-> LineOf(s, k)])

\* What becomes of a file: with -I a part of the one stream
Before(i) == Len(Stream1(SubSeq(job.files, 1, i - 1)))
Edited(i) ==
  CASE job.files[i] = Missing -> Missing
    [] job.files[i] # Missing /\ job.in = "i" -> Printed(Streams[i])
    [] OTHER -> FlattenSeq([k \in 1 .. Len(job.files[i]) |-> LineOf(Streams[1], Before(i) + k)])

\* The output is what the script says of the lines of all the files, or, with -i, of
\* each file (unless it is one of those OverPlus excepts); and where a file is edited it
\* is, whenever sed is killed and whatever fails, as it was or as it is to be, and with an
\* extension the old one can be found.
Content(f) == IF f \in {Missing, Absent} THEN f ELSE FlattenSeq(f)
Edits ==
  LET done == status = 0
      ok == job.tool = "sed" /\ mem # <<>>
      over(i) == OverPlus(Streams[IF job.in = "i" THEN i ELSE 1])
  IN  /\ (ok /\ job.in = "" /\ status \in {0, 1} /\ job.kind # "fold") => over(1) \/ mem.to = Printed(Streams[1])
      /\ (ok /\ job.kind = "fold" /\ status = 0) => Unfolded(mem.to) = Lines(Streams[1]) /\ Narrow(mem.to)
      /\ (ok /\ job.kind = "filed" /\ job.in = "" /\ status = 0) => mem.w = Lines(Streams[1])
      /\ (ok /\ job.in # "") =>
           \A i \in DOMAIN job.files :
             /\ IF mem.disk[i] = job.files[i] THEN done => over(i) \/ Edited(i) = Content(job.files[i])
                ELSE /\ mem.disk[i] # Absent => over(i) \/ Content(mem.disk[i]) = Edited(i)
                     /\ job.ext \/ mem.disk[i] = Absent => mem.backup[i] = job.files[i]
=============================================================================
