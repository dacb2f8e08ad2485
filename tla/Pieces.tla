------------------------------- MODULE Pieces -------------------------------
(***************************************************************************)
(* Commands that divide, order or count what they read: split, csplit,     *)
(* tsort, wc and tee. For split, csplit and tee mem.files is what is on    *)
(* the disk: the texts of the output files.                                *)
(***************************************************************************)
EXTENDS Process

AddTo(files, k, s) == [files EXCEPT ![k] = @ \o s]

-----------------------------------------------------------------------------
(* split. inp is a sequence of characters with job.by = "chunks", of lines  *)
(* otherwise. The operand of -b is read into a variable that nothing uses,  *)
(* so that -b splits into files of the default number of lines.             *)

SplitStart ==
  /\ Running("split")
  /\ mem = <<>>
  /\ IF job.by = "chunks" /\ job.chunks > Len(inp) THEN Exit(1) /\ UNCHANGED mem
     ELSE /\ mem' = [files |-> <<>>, open |-> FALSE, count |-> 0, full |-> FALSE]
          /\ UNCHANGED status
  /\ UNCHANGED <<job, inp, out>>

\* newfile(): no suffix is left for the file after the last one
NewPiece(m) == IF Len(m.files) = job.maxfiles THEN [m EXCEPT !.full = TRUE]
               ELSE [m EXCEPT !.files = Append(@, <<>>), !.open = TRUE]
WritePiece(m, s) == IF m.full THEN m ELSE [m EXCEPT !.files = AddTo(@, Len(@), s)]
StopIfFull(m) == IF m.full THEN Exit(65) ELSE UNCHANGED status

\* split2()
NumLines == IF job.by = "bytes" THEN job.default ELSE job.lines
SplitLine ==
  /\ Running("split")
  /\ job.by # "chunks"
  /\ mem # <<>> /\ inp # <<>>
  /\ LET l == Head(inp)
         cut == IF job.by = "pattern" THEN \E i \in DOMAIN l : l[i] = job.re ELSE mem.count = NumLines
         counted == [mem EXCEPT !.count = IF job.by = "pattern" THEN 0 ELSE IF cut THEN 1 ELSE @ + 1]
         fresh == IF cut THEN NewPiece(counted) ELSE counted
         opened == IF fresh.open \/ fresh.full THEN fresh ELSE NewPiece(fresh)
     IN  /\ mem' = WritePiece(opened, l)
         /\ StopIfFull(opened)
  /\ inp' = Tail(inp)
  /\ UNCHANGED <<job, out>>

\* split1() for split3(): a file more, as long as there are fewer than `chunks'
ByteCount == Len(job.files) \div job.chunks
NextChunk(m) == IF Len(m.files) < job.chunks THEN NewPiece(m) ELSE m
SplitRead ==
  /\ Running("split")
  /\ job.by = "chunks"
  /\ mem # <<>> /\ inp # <<>>
  /\ \E len \in 1 .. Len(inp) :
       LET bfr == SubSeq(inp, 1, len)
           first == IF mem.open THEN mem ELSE NextChunk(mem)
           dist == ByteCount - mem.count
           pieces == (len - dist) \div ByteCount
           rest == (len - dist) % ByteCount
           slice(k) == SubSeq(bfr, dist + (k - 1) * ByteCount + 1, IF k > pieces THEN len ELSE dist + k * ByteCount)
           slices == [k \in 1 .. (pieces + IF rest = 0 THEN 0 ELSE 1) |-> slice(k)]
       IN  /\ mem' = IF mem.count + len < ByteCount
                     THEN [WritePiece(first, bfr) EXCEPT !.count = @ + len]
                     ELSE [Scan(LAMBDA m, s : WritePiece(NextChunk(m), s),
                                WritePiece(first, SubSeq(bfr, 1, dist)), slices)
                           EXCEPT !.count = rest, !.open = rest # 0]
           /\ inp' = SubSeq(inp, len + 1, Len(inp))
           /\ StopIfFull(mem')
  /\ UNCHANGED <<job, out>>

SplitEnd ==
  /\ Running("split")
  /\ mem # <<>> /\ inp = <<>>
  /\ Exit(0)
  /\ UNCHANGED <<job, inp, mem, out>>

-----------------------------------------------------------------------------
(* csplit. job.args are patterns [kind, re, ofs, reps] with kind "/" or "%"  *)
(* (a line matches re if it has that character) or "line" (ofs is the line   *)
(* number). mem.out is the file written to (0 for the temporary one of %),   *)
(* mem.over the overflow file with the place to read at, <<>> if there is    *)
(* none, eof the end-of-file flag of the input.                              *)

CsplitStart ==
  /\ Running("csplit")
  /\ mem = <<>>
  /\ mem' = [files |-> <<>>, nfiles |-> 0, tmp |-> <<>>, at |-> "next", args |-> job.args, reps |-> -1,
             lineno |-> 0, first |-> TRUE, left |-> 0, out |-> 0, over |-> <<>>, truncofs |-> 0,
             eof |-> FALSE, doclean |-> ~job.k]
  /\ UNCHANGED <<job, inp, out, status>>

Arg == Head(mem.args)
Csplitting(at) == Running("csplit") /\ mem # <<>> /\ mem.at = at
TextOf(m, k) == IF k = 0 THEN m.tmp ELSE m.files[k]
Put(m, k, s) == IF k = 0 THEN [m EXCEPT !.tmp = s] ELSE [m EXCEPT !.files[k] = s]
\* What is left to read in the overflow file
Left(m) == IF m.over = <<>> THEN <<>> ELSE m.over.rest
\* get_line(): a line of the overflow file, or of the input when that is at its
\* end: <<line>> or <<>>, and the state and the input after it
LineOfOver(m) == LET s == Left(m)
                     ends == {i \in DOMAIN s : s[i] = NL}
                 IN  SubSeq(s, 1, IF ends = {} THEN Len(s) ELSE Min(ends))
GetLineOf(m) ==
  IF Left(m) # <<>>
  THEN [line |-> <<LineOfOver(m)>>, inp |-> inp,
        m |-> [m EXCEPT !.over.rest = SubSeq(@, Len(LineOfOver(m)) + 1, Len(@)), !.lineno = @ + 1]]
  ELSE IF inp = <<>> THEN [line |-> <<>>, inp |-> inp, m |-> [m EXCEPT !.eof = TRUE]]
  ELSE [line |-> <<Head(inp)>>, inp |-> Tail(inp),
        m |-> [m EXCEPT !.lineno = @ + 1, !.eof = Last(Head(inp)) # NL]]
\* A line read is written to the output file
Copied(m, l) == Put(m, m.out, TextOf(m, m.out) \o l)

\* A slip: the file keeps the lines that were thrown back.
KeptOver(m) == [m EXCEPT !.over = <<>>]

\* toomuch(): the file of the last overflow is cut where it was read from
Truncated(m) == IF m.over = <<>> \/ m.over.file = 0 THEN [m EXCEPT !.over = <<>>]
                ELSE [Put(m, m.over.file, SubSeq(m.files[m.over.file], 1, m.truncofs)) EXCEPT !.over = <<>>]
\* ... and the place n lines before the end of the text is sought, in blocks of
\* the buffer's size that overlap at the beginning of the file
Rewound(text, n) ==
  LET back[st \in [pos : 0 .. Len(text), n : 0 .. n]] ==
        LET from == IF st.pos < job.bufsiz THEN 0 ELSE st.pos - job.bufsiz
            to == IF from + job.bufsiz < Len(text) THEN from + job.bufsiz ELSE Len(text)
            ends == {i \in (from + 1) .. to : text[i] = NL}
            k == Cardinality(ends)
        IN  IF k > st.n THEN CHOOSE i \in ends : Cardinality({j \in ends : j > i}) = st.n
            ELSE IF from = 0 \/ st.n = k THEN from
            ELSE back[[pos |-> from, n |-> st.n - k]]
  IN  back[[pos |-> Len(text), n |-> n]]
Thrown(m, n) ==
  With(Rewound(TextOf(m, m.out), n),
       LAMBDA pos : [m EXCEPT !.over = [file |-> m.out, rest |-> SubSeq(TextOf(m, m.out), pos + 1, Len(TextOf(m, m.out)))],
                              !.truncofs = pos, !.lineno = @ - n])

Cleaned(m) == IF m.doclean THEN [m EXCEPT !.files = SubSeq(@, m.nfiles + 1, Len(@))] ELSE m
Fails(m) == mem' = Cleaned(m) /\ Exit(1)
Goes(m, at) == mem' = [m EXCEPT !.at = at] /\ UNCHANGED status

\* main(): the next pattern, or a repetition of it
Next1 == IF mem.reps = -1 THEN [mem EXCEPT !.reps = Arg.reps] ELSE mem
CsplitNext ==
  /\ Csplitting("next")
  /\ mem.args # <<>> /\ mem.nfiles < job.maxfiles - 1
  /\ IF Arg.kind = "line" /\ Arg.ofs <= mem.lineno THEN Fails(mem)
     ELSE Goes([Next1 EXCEPT !.first = TRUE, !.left = Arg.ofs], IF Arg.kind = "%" THEN "tmpfile" ELSE "create")
  /\ UNCHANGED <<job, inp, out>>
CsplitRest ==
  /\ Csplitting("next")
  /\ mem.args = <<>> \/ mem.nfiles >= job.maxfiles - 1
  /\ IF mem.eof THEN Goes(mem, "tidy") ELSE Goes([mem EXCEPT !.args = <<>>], "create")
  /\ UNCHANGED <<job, inp, out>>

\* newfile(): a file is there before it is counted
CsplitCreate ==
  /\ Csplitting("create")
  /\ Goes([mem EXCEPT !.files = Append(@, <<>>), !.out = Len(mem.files) + 1], "count")
  /\ UNCHANGED <<job, inp, out>>
CsplitCount ==
  /\ Csplitting("count")
  /\ Goes([mem EXCEPT !.nfiles = @ + 1], CASE mem.args = <<>> -> "rest" [] Arg.kind = "line" -> "lines" [] OTHER -> "match")
  /\ UNCHANGED <<job, inp, out>>
CsplitTmpfile ==
  /\ Csplitting("tmpfile")
  /\ Goes([mem EXCEPT !.out = 0, !.tmp = <<>>], "match")
  /\ UNCHANGED <<job, inp, out>>

\* The pattern is done with unless it is to be repeated
Again(m) == IF m.reps = 0 \/ m.nfiles >= job.maxfiles - 1
            THEN [m EXCEPT !.args = Tail(@), !.reps = -1] ELSE [m EXCEPT !.reps = @ - 1]
Size(m, n) == IF Arg.kind = "%" THEN <<>> ELSE <<n>>

\* do_rexp(): lines up to a match, which the first one never is
CsplitMatch ==
  /\ Csplitting("match")
  /\ \E g \in {GetLineOf(mem)} :
       /\ inp' = g.inp
       /\ IF g.line = <<>> THEN Fails(Truncated(g.m)) /\ UNCHANGED out
          ELSE \E m \in {Copied(g.m, g.line[1])} :
            IF mem.first \/ ~\E i \in DOMAIN g.line[1] : g.line[1][i] = Arg.re
            THEN Goes([m EXCEPT !.first = FALSE], "match") /\ UNCHANGED out
            ELSE IF Arg.ofs > 0 THEN Goes(m, "after") /\ UNCHANGED out
            ELSE \E t \in {Thrown(Truncated(m), 1 - Arg.ofs)} :
                   Goes(Again(t), "next") /\ Emit(Size(t, t.truncofs))
  /\ UNCHANGED job
\* ... and with a positive offset as many after it
CsplitAfter ==
  /\ Csplitting("after")
  /\ \E g \in {GetLineOf(mem)} :
       IF mem.left > 1 /\ g.line # <<>>
       THEN Goes([Copied(g.m, g.line[1]) EXCEPT !.left = @ - 1], "after") /\ inp' = g.inp /\ UNCHANGED out
       ELSE LET m == IF mem.left > 1 THEN g.m ELSE mem
            IN  /\ Goes(Again(Truncated(m)), "next") /\ inp' = inp
                /\ Emit(Size(m, Len(TextOf(m, m.out))))
  /\ UNCHANGED job

\* do_lineno(): the lines before line number `left'
CsplitLines ==
  /\ Csplitting("lines")
  /\ IF mem.lineno + 1 # mem.left
     THEN \E g \in {GetLineOf(mem)} :
            /\ inp' = g.inp
            /\ IF g.line = <<>> THEN Fails(g.m) ELSE Goes(Copied(g.m, g.line[1]), "lines")
            /\ UNCHANGED out
     ELSE /\ Emit(<<Len(mem.files[mem.out])>>)
          /\ IF mem.reps = 0 THEN Goes([mem EXCEPT !.args = Tail(@), !.reps = -1], "next")
             ELSE IF mem.nfiles < job.maxfiles - 1
             THEN Goes([mem EXCEPT !.reps = @ - 1, !.left = @ + Arg.ofs], "create")
             ELSE Goes([mem EXCEPT !.args = Tail(@), !.reps = -1], "next")
          /\ UNCHANGED inp
  /\ UNCHANGED job

CsplitCopy ==
  /\ Csplitting("rest")
  /\ \E g \in {GetLineOf(mem)} :
       /\ inp' = g.inp
       /\ IF g.line = <<>> THEN Goes(g.m, "tidy") /\ Emit(<<Len(mem.files[mem.out])>>)
          ELSE Goes(Copied(g.m, g.line[1]), "rest") /\ UNCHANGED out
  /\ UNCHANGED job
CsplitTidy ==
  /\ Csplitting("tidy")
  /\ Goes([Truncated(mem) EXCEPT !.doclean = FALSE], "exit")
  /\ UNCHANGED <<job, inp, out>>
CsplitExit ==
  /\ Csplitting("exit")
  /\ Exit(0)
  /\ UNCHANGED <<job, inp, mem, out>>

\* handlesig(), at any time
CsplitSignal ==
  /\ Running("csplit")
  /\ job.signal /\ ~job.k
  /\ mem # <<>>
  /\ mem' = Cleaned(mem)
  /\ Exit(2)
  /\ UNCHANGED <<job, inp, out>>

-----------------------------------------------------------------------------
(* tsort. job.files is the sequence of words; mem.list are the nodes of the  *)
(* graph, the newest first, mem.cycles the cycles that were reported.        *)

TsortStart ==
  /\ Running("tsort")
  /\ mem = <<>>
  /\ mem' = [list |-> <<>>, arcs |-> <<>>, refs |-> <<>>, acyclic |-> {}, cycles |-> <<>>]
  /\ UNCHANGED <<job, inp, out, status>>

\* get_node(); the table of the names is a set
Known(m, n) == n \in DOMAIN m.refs
GetNode(m, n) == IF Known(m, n) THEN m
                 ELSE [m EXCEPT !.list = <<n>> \o @, !.arcs = (n :> <<>>) @@ @, !.refs = (n :> 0) @@ @]
\* add_arc()
AddArc(m, s1, s2) ==
  LET with1 == GetNode(m, s1)
      with2 == GetNode(with1, s2)
  IN  IF s1 = s2 THEN with1
      ELSE IF \E i \in DOMAIN with2.arcs[s1] : with2.arcs[s1][i] = s2 THEN with2
      ELSE [with2 EXCEPT !.arcs[s1] = Append(@, s2), !.refs[s2] = @ + 1]
TsortRead ==
  /\ Running("tsort")
  /\ mem # <<>> /\ inp # <<>>
  /\ IF Len(inp) = 1 THEN Exit(1) /\ UNCHANGED <<inp, mem>>
     ELSE mem' = AddArc(mem, inp[1], inp[2]) /\ inp' = SubSeq(inp, 3, Len(inp)) /\ UNCHANGED status
  /\ UNCHANGED <<job, out>>

\* remove_node()
RemoveNode(m, n) ==
  [m EXCEPT !.list = SelectSeq(@, LAMBDA x : x # n), !.arcs[n] = <<>>,
            !.refs = [x \in DOMAIN @ |-> @[x] - Cardinality({i \in DOMAIN m.arcs[n] : m.arcs[n][i] = x})]]

\* tsort(): one pass over the list; a node whose last arc goes away before it is
\* come to is removed in the same pass
Removable(m, n) == m.refs[n] = 0
TsortPass ==
  /\ Running("tsort")
  /\ mem # <<>> /\ inp = <<>>
  /\ \E n \in DOMAIN mem.list : Removable(mem, mem.list[n])
  /\ LET pass == Scan(LAMBDA st, n : IF Removable(st.m, n)
                                     THEN [m |-> RemoveNode(st.m, n), printed |-> Append(st.printed, n)] ELSE st,
                      [m |-> mem, printed |-> <<>>], mem.list)
     IN  mem' = pass.m /\ Emit(pass.printed)
  /\ UNCHANGED <<job, inp, status>>

\* find_cycle(): [len, mark, nodest, cycle]; path is what cycle_buf holds
RECURSIVE FindCycle(_, _, _, _)
Follow(st, np, to, path) ==
  IF st.stop \/ (np # to /\ np \in st.mark \cup st.nodest \cup mem.acyclic) THEN st
  ELSE IF np = to
  THEN IF Len(path) + 1 > st.len THEN [st EXCEPT !.len = Len(path) + 1, !.cycle = Append(path, np)] ELSE st
  ELSE With(FindCycle(np, to, Append(path, np), st),
            LAMBDA r : [r EXCEPT !.nodest = IF r.len = 0 THEN @ \cup {np} ELSE @,
                                 !.len = IF r.len > st.len THEN r.len ELSE st.len,
                                 !.stop = r.len > 0 /\ ~job.longest])
FindCycle(from, to, path, st) ==
  IF from \in st.mark \cup st.nodest \cup mem.acyclic THEN [st EXCEPT !.len = 0]
  ELSE With(Scan(LAMBDA s, np : Follow(s, np, to, path),
                 [st EXCEPT !.mark = @ \cup {from}, !.stop = FALSE], mem.arcs[from]),
            LAMBDA s : [s EXCEPT !.mark = @ \ {from}, !.stop = FALSE])
CycleOf(n) == FindCycle(n, n, <<>>, [len |-> 0, mark |-> {}, nodest |-> {}, cycle |-> <<>>, stop |-> FALSE])

\* Only nodes on or behind cycles are left: the first one in a cycle is removed
TsortCycle ==
  /\ Running("tsort")
  /\ mem # <<>> /\ inp = <<>> /\ mem.list # <<>>
  /\ ~\E n \in DOMAIN mem.list : Removable(mem, mem.list[n])
  /\ LET open == SelectSeq(mem.list, LAMBDA n : n \notin mem.acyclic)
     IN  \E c \in {[i \in DOMAIN open |-> CycleOf(open[i])]} :
         \E on \in {{i \in DOMAIN open : c[i].len > 0}} :
           IF on = {} THEN Exit(1) /\ UNCHANGED <<mem, out>>
           ELSE /\ mem' = [RemoveNode(mem, open[Min(on)]) EXCEPT
                             !.acyclic = @ \cup {open[i] : i \in 1 .. (Min(on) - 1)},
                             !.cycles = Append(@, c[Min(on)].cycle)]
                /\ Emit(<<open[Min(on)]>>)
                /\ UNCHANGED status
  /\ UNCHANGED <<job, inp>>

TsortEnd ==
  /\ Running("tsort")
  /\ mem # <<>> /\ inp = <<>> /\ mem.list = <<>>
  /\ Exit(0)
  /\ UNCHANGED <<job, inp, mem, out>>

-----------------------------------------------------------------------------
(* wc: cnt() of each file. Any part of the file may come with a read. "L"    *)
(* and "C" are the two bytes of a character, NoText a file that cannot be opened.                               *)

NoText == <<"missing">>
Counts == [line |-> 0, word |-> 0, char |-> 0, long |-> 0]
WcOpen ==
  /\ Running("wc")
  /\ mem = <<>>
  /\ mem' = [n |-> Counts, total |-> Counts, cur |-> 0, gotsp |-> TRUE, pending |-> FALSE, errors |-> FALSE]
  /\ UNCHANGED <<job, inp, out, status>>

\* The loop over lines, where bytes are counted
LineEnds(m) == [m EXCEPT !.n.line = @ + 1, !.n.long = IF m.cur > @ THEN m.cur ELSE @, !.cur = 0]
ByLine(m, c) == LET one == [m EXCEPT !.n.char = @ + 1]
                IN  IF c = NL THEN LineEnds(one) ELSE [one EXCEPT !.cur = @ + 1]
\* The loop over words: with -m a character may be cut by the end of the buffer
ByWord(m, c) ==
  IF job.m /\ c = "L" THEN [m EXCEPT !.pending = TRUE]
  ELSE LET one == [m EXCEPT !.n.char = @ + 1, !.cur = IF c = NL THEN @ ELSE @ + 1, !.pending = FALSE]
           ended == IF c = NL THEN LineEnds(one) ELSE one
       IN  IF Blank(c) \/ c = NL THEN [ended EXCEPT !.gotsp = TRUE]
           ELSE [ended EXCEPT !.gotsp = FALSE, !.n.word = IF m.gotsp THEN @ + 1 ELSE @]
WcRead ==
  /\ Running("wc")
  /\ mem # <<>> /\ inp # <<>>
  /\ inp[1] # <<>> /\ inp[1] # NoText
  /\ \E len \in 1 .. Len(inp[1]) :
       /\ mem' = Scan(LAMBDA m, c : IF job.w \/ job.m THEN ByWord(m, c) ELSE ByLine(m, c), mem, SubSeq(inp[1], 1, len))
       /\ inp' = [inp EXCEPT ![1] = SubSeq(@, len + 1, Len(@))]
  /\ UNCHANGED <<job, out, status>>

\* show_cnt() and the totals
Summed(t, n) == [line |-> t.line + n.line, word |-> t.word + n.word, char |-> t.char + n.char,
                 long |-> IF n.long > t.long THEN n.long ELSE t.long]
WcClose ==
  /\ Running("wc")
  /\ mem # <<>> /\ inp # <<>>
  /\ inp[1] = <<>> \/ inp[1] = NoText
  /\ IF inp[1] = NoText THEN mem' = [mem EXCEPT !.errors = TRUE] /\ UNCHANGED out
     ELSE /\ Emit(<<mem.n>>)
          /\ mem' = [mem EXCEPT !.n = Counts, !.total = Summed(@, mem.n), !.cur = 0, !.gotsp = TRUE, !.pending = FALSE]
  /\ inp' = Tail(inp)
  /\ UNCHANGED <<job, status>>
WcEnd ==
  /\ Running("wc")
  /\ mem # <<>> /\ inp = <<>>
  /\ Emit(IF Len(job.files) > 1 THEN <<mem.total>> ELSE <<>>)
  /\ Exit(IF mem.errors THEN 1 ELSE 0)
  /\ UNCHANGED <<job, inp, mem>>

-----------------------------------------------------------------------------
(* tee: mem.open are the outputs, the last one added first; 1 is stdout      *)

TeeOpen ==
  /\ Running("tee")
  /\ mem = <<>>
  /\ \E refused \in SUBSET (2 .. job.outputs) :
       mem' = [files |-> [k \in 1 .. job.outputs |-> <<>>], exit |-> IF refused = {} THEN 0 ELSE 1,
               open |-> Reverse(InOrder((1 .. job.outputs) \ refused)), failed |-> refused]
  /\ UNCHANGED <<job, inp, out, status>>

\* A buffer is written to each output, in parts, until one of the writes fails
TeeWrite ==
  /\ Running("tee")
  /\ mem # <<>> /\ inp # <<>>
  /\ \E rval \in 1 .. Len(inp), cut \in 0 .. 1 :
     \E fails \in SUBSET {mem.open[i] : i \in DOMAIN mem.open} :
       LET buf == SubSeq(inp, 1, rval)
           part == SubSeq(buf, 1, cut)
       IN  /\ mem' = [mem EXCEPT !.files = [k \in DOMAIN @ |-> IF k \in fails THEN @[k] \o part
                                                              ELSE IF \E i \in DOMAIN mem.open : mem.open[i] = k
                                                                   THEN @[k] \o buf ELSE @[k]],
                                 !.exit = IF fails = {} THEN @ ELSE 1, !.failed = @ \cup fails]
           /\ inp' = SubSeq(inp, rval + 1, Len(inp))
  /\ UNCHANGED <<job, out, status>>
TeeEnd ==
  /\ Running("tee")
  /\ mem # <<>> /\ inp = <<>>
  /\ Exit(mem.exit)
  /\ UNCHANGED <<job, inp, mem, out>>

PieceToolStep ==
  /\ job.tool \in {"split", "csplit", "tsort", "wc", "tee"}
  /\ \/ SplitStart \/ SplitLine \/ SplitRead \/ SplitEnd
     \/ CsplitStart \/ CsplitNext \/ CsplitRest \/ CsplitCreate \/ CsplitCount \/ CsplitTmpfile
     \/ CsplitMatch \/ CsplitAfter \/ CsplitLines \/ CsplitCopy \/ CsplitTidy \/ CsplitExit \/ CsplitSignal
     \/ TsortStart \/ TsortRead \/ TsortPass \/ TsortCycle \/ TsortEnd
     \/ WcOpen \/ WcRead \/ WcClose \/ WcEnd
     \/ TeeOpen \/ TeeWrite \/ TeeEnd
=============================================================================
