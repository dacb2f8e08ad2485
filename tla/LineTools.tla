----------------------------- MODULE LineTools -----------------------------
(***************************************************************************)
(* Commands that go through their input line by line: uniq, comm, join,    *)
(* nl, paste, cut, head and cat. job.files holds the lines of each file;   *)
(* inp is what is left of them. One step is one turn of the command's      *)
(* reading loop.                                                           *)
(***************************************************************************)
EXTENDS Process

-----------------------------------------------------------------------------
(* uniq                                                                    *)

\* skip(): the fields, then the characters, that do not count
DropField(s) == LET rest == Dropped(s, LAMBDA c : Blank(c)) IN Dropped(rest, LAMBDA c : ~Blank(c))
Skip(s) == LET f[i \in 0 .. job.fields] == IF i = 0 THEN s ELSE DropField(f[i - 1])
           IN  SubSeq(f[job.fields], job.chars + 1, Len(f[job.fields]))
\* convert()
Key(l) == IF job.fold THEN Fold(Skip(Chomp(l))) ELSE Skip(Chomp(l))
\* show()
Show(l, repeats) == IF (job.D = "" /\ job.d /\ repeats = 0) \/ (job.u /\ repeats > 0) THEN <<>>
                    ELSE IF job.c THEN <<<<repeats + 1, l>>>> ELSE <<<<l>>>>
Separator(on) == IF on THEN <<<<"">>>> ELSE <<>>

UniqFirst ==
  /\ Running("uniq")
  /\ mem = <<>>
  /\ IF inp = <<>> THEN Exit(0) /\ UNCHANGED <<mem, inp>>
     ELSE /\ mem' = [prev |-> inp[1], repeats |-> 0]
          /\ inp' = Tail(inp)
          /\ UNCHANGED status
  /\ UNCHANGED <<job, out>>

UniqLine ==
  /\ Running("uniq")
  /\ mem # <<>> /\ inp # <<>>
  /\ IF Key(inp[1]) # Key(mem.prev)
     THEN /\ Emit(Separator(job.D = "separate" /\ mem.repeats > 0)
                  \o IF job.D = "" THEN Show(mem.prev, mem.repeats) ELSE <<>>)
          /\ mem' = [prev |-> inp[1], repeats |-> 0]
     ELSE /\ Emit(IF job.D = "" THEN <<>>
                  ELSE (IF mem.repeats > 0 THEN <<>>
                        ELSE Separator(job.D = "prepend") \o Show(mem.prev, 0))
                       \o Show(inp[1], mem.repeats))
          /\ mem' = [mem EXCEPT !.repeats = @ + 1]
  /\ inp' = Tail(inp)
  /\ UNCHANGED <<job, status>>

UniqEnd ==
  /\ Running("uniq")
  /\ mem # <<>> /\ inp = <<>>
  /\ Emit(IF job.D = "" THEN Show(mem.prev, mem.repeats) ELSE <<>>)
  /\ Exit(0)
  /\ UNCHANGED <<job, inp, mem>>

-----------------------------------------------------------------------------
(* comm: mem holds the two lines, each <<>> or <<line>>                    *)

CommKey(l) == IF job.fold THEN Fold(Chomp(l)) ELSE Chomp(l)
Column(k) == Cardinality({i \in 1 .. (k - 1) : job.shown[i]})   \* the tabs before it
InColumn(k, l) == IF job.shown[k] THEN <<<<Column(k), Chomp(l)>>>> ELSE <<>>
Lines(s) == IF s = <<>> THEN s ELSE <<s[1]>>

CommRead ==
  /\ Running("comm")
  /\ mem = <<>>
  /\ mem' = [i \in 1 .. 2 |-> Lines(inp[i])]
  /\ inp' = [i \in 1 .. 2 |-> SubSeq(inp[i], 2, Len(inp[i]))]
  /\ UNCHANGED <<job, out, status>>

\* The lines of `which' are consumed and the next ones read in their place.
Advance(which) ==
  /\ mem' = [i \in 1 .. 2 |-> IF i \in which THEN Lines(inp[i]) ELSE mem[i]]
  /\ inp' = [i \in 1 .. 2 |-> IF i \in which THEN SubSeq(inp[i], 2, Len(inp[i])) ELSE inp[i]]

CommCompare ==
  /\ Running("comm")
  /\ mem # <<>>
  /\ mem[1] # <<>> /\ mem[2] # <<>>
  /\ LET comp == Collate(CommKey(mem[1][1]), CommKey(mem[2][1]))
     IN  \/ comp = 0 /\ Emit(InColumn(3, mem[1][1])) /\ Advance({1, 2})
         \/ comp < 0 /\ Emit(InColumn(1, mem[1][1])) /\ Advance({1})
         \/ comp > 0 /\ Emit(InColumn(2, mem[2][1])) /\ Advance({2})
  /\ UNCHANGED <<job, status>>

\* show(): the rest of the other file
CommRest ==
  /\ Running("comm")
  /\ mem # <<>>
  /\ mem[1] = <<>> \/ mem[2] = <<>>
  /\ LET k == IF mem[1] = <<>> THEN 2 ELSE 1
         rest == mem[k] \o inp[k]
     IN  Emit(IF job.shown[k] THEN [i \in DOMAIN rest |-> <<Column(k), Chomp(rest[i])>>] ELSE <<>>)
  /\ Exit(0)
  /\ UNCHANGED <<job, inp, mem>>

-----------------------------------------------------------------------------
(* join. The length slurp() works with is the capacity getline() reports,  *)
(* so the newline stays where it is: in the last field.                    *)

\* mbssep() and the loop around it
Split(s, isDelim(_), spans) ==
  LET cuts == {i \in DOMAIN s : isDelim(s[i])}
      starts == {1} \cup {i + 1 : i \in cuts}
      field(i) == LET ends == {j \in cuts : j >= i} IN SubSeq(s, i, IF ends = {} THEN Len(s) ELSE Min(ends) - 1)
      all == [i \in 1 .. Cardinality(starts) |-> field(InOrder(starts)[i])]
  IN  IF spans THEN SelectSeq(all, LAMBDA f : f # <<>>) ELSE all
JoinFields(l) == IF job.delim = "" THEN Split(l, LAMBDA c : Blank(c), TRUE) ELSE Split(l, LAMBDA c : c = job.delim, FALSE)

\* cmp(): a line without the field comes last, and equals another without it
JoinCmp(f, i, g, j) ==
  IF Len(f) < i THEN (IF Len(g) < j THEN 0 ELSE 1)
  ELSE IF Len(g) < j THEN -1 ELSE Collate(f[i], g[j])

\* A slip: the line that was read ahead is taken for one of the set.
SetEndTooFar(k, lines) ==
  LET f == job.joinf[k]
      differs == {i \in 2 .. Len(lines) : JoinCmp(JoinFields(lines[i]), f, JoinFields(lines[i - 1]), f) # 0}
  IN  IF differs = {} THEN Len(lines) ELSE Min(differs)

\* slurp(): the lines that have the join field of the first one
SetEnd(k, lines) ==
  LET f == job.joinf[k]
      differs == {i \in 2 .. Len(lines) : JoinCmp(JoinFields(lines[i]), f, JoinFields(lines[i - 1]), f) # 0}
  IN  IF differs = {} THEN Len(lines) ELSE Min(differs) - 1
Slurped(k, lines) == [i \in 1 .. SetEnd(k, lines) |-> JoinFields(lines[i])]
AfterSet(k, lines) == SubSeq(lines, SetEnd(k, lines) + 1, Len(lines))
Slurp(which) ==
  /\ mem' = [k \in 1 .. 2 |-> IF k \in which THEN Slurped(k, inp[k]) ELSE mem[k]]
  /\ inp' = [k \in 1 .. 2 |-> IF k \in which THEN AfterSet(k, inp[k]) ELSE inp[k]]

\* outfield(): -e for a field that is not there
OutField(f, i) == IF i = 0 \/ i > Len(f) THEN job.empty ELSE f[i]
Others(f, j) == SelectSeq([i \in DOMAIN f |-> <<i, f[i]>>], LAMBDA p : p[1] # j)
Rest(f, j) == [i \in DOMAIN Others(f, j) |-> Others(f, j)[i][2]]

\* outoneline(), outtwoline()
OneLine(k, f) ==
  IF job.olist = <<>> THEN <<OutField(f, job.joinf[k])>> \o Rest(f, job.joinf[k])
  ELSE [n \in DOMAIN job.olist |->
          CASE job.olist[n][1] = k -> OutField(f, job.olist[n][2])
            [] job.olist[n][1] = 0 -> OutField(f, job.joinf[k])
            [] OTHER -> OutField(f, 0)]
TwoLines(f, g) ==
  IF job.olist = <<>>
  THEN <<OutField(f, job.joinf[1])>> \o Rest(f, job.joinf[1]) \o Rest(g, job.joinf[2])
  ELSE [n \in DOMAIN job.olist |->
          CASE job.olist[n][1] = 0 -> IF Len(f) >= job.joinf[1] - 1 THEN OutField(f, job.joinf[1])
                                      ELSE OutField(g, job.joinf[2])
            [] job.olist[n][1] = 1 -> OutField(f, job.olist[n][2])
            [] job.olist[n][1] = 2 -> OutField(g, job.olist[n][2])]

\* joinlines()
Unpaired(k) == IF job.unpair[k] THEN [i \in DOMAIN mem[k] |-> OneLine(k, mem[k][i])] ELSE <<>>
Paired == IF ~job.joinout THEN <<>>
          ELSE [n \in 1 .. (Len(mem[1]) * Len(mem[2])) |->
                 TwoLines(mem[1][1 + (n - 1) \div Len(mem[2])], mem[2][((n - 1) % Len(mem[2])) + 1])]

JoinStart ==
  /\ Running("join")
  /\ mem = <<>>
  /\ mem' = [k \in 1 .. 2 |-> Slurped(k, inp[k])]
  /\ inp' = [k \in 1 .. 2 |-> AfterSet(k, inp[k])]
  /\ UNCHANGED <<job, out, status>>

JoinSets ==
  /\ Running("join")
  /\ mem # <<>>
  /\ mem[1] # <<>> /\ mem[2] # <<>>
  /\ LET cval == JoinCmp(mem[1][1], job.joinf[1], mem[2][1], job.joinf[2])
     IN  \/ cval = 0 /\ Emit(Paired) /\ Slurp({1, 2})
         \/ cval < 0 /\ Emit(Unpaired(1)) /\ Slurp({1})
         \/ cval > 0 /\ Emit(Unpaired(2)) /\ Slurp({2})
  /\ UNCHANGED <<job, status>>

JoinRest ==
  /\ Running("join")
  /\ mem # <<>>
  /\ mem[1] = <<>> \/ mem[2] = <<>>
  /\ LET left == {k \in 1 .. 2 : mem[k] # <<>> /\ job.unpair[k]}
     IN  \/ left = {} /\ Exit(0) /\ UNCHANGED <<mem, inp, out>>
         \/ \E k \in left : Emit(Unpaired(k)) /\ Slurp({k}) /\ UNCHANGED status
  /\ UNCHANGED job

-----------------------------------------------------------------------------
(* nl: mem is the line number, the section and the blank lines passed      *)

\* filter(): the section a delimiter line begins (1 to 3 pairs of characters)
Sections == <<"footer", "body", "header">>
Delimits(l) == {idx \in 1 .. 3 : l = [i \in 1 .. (2 * idx + 1) |->
                                        IF i = 2 * idx + 1 THEN NL ELSE job.delim[2 - (i % 2)]]}
Numbered(l, blanks) ==
  CASE job.type[mem.section] = "a" -> ~(l[1] = NL /\ blanks + 1 < job.nblank)
    [] job.type[mem.section] = "t" -> l[1] # NL
    [] job.type[mem.section] = "n" -> FALSE

NlStart ==
  /\ Running("nl")
  /\ mem = <<>>
  /\ mem' = [line |-> job.startnum, section |-> "body", blanks |-> 0]
  /\ UNCHANGED <<job, inp, out, status>>

NlLine ==
  /\ Running("nl")
  /\ mem # <<>> /\ inp # <<>>
  /\ LET l == inp[1]
         yes == Numbered(l, mem.blanks)
     IN  IF Delimits(l) # {}
         THEN /\ mem' = [line |-> IF job.restart THEN job.startnum ELSE mem.line, blanks |-> 0,
                         section |-> Sections[CHOOSE i \in Delimits(l) : TRUE]]
              /\ out' = out
         ELSE /\ Emit(<<<<IF yes THEN mem.line ELSE -1, l>>>>)
              /\ mem' = [mem EXCEPT !.line = IF yes THEN @ + job.incr ELSE @,
                                    !.blanks = IF job.type[mem.section] # "a" THEN @
                                               ELSE IF yes THEN 0 ELSE @ + 1]
  /\ inp' = Tail(inp)
  /\ UNCHANGED <<job, status>>

-----------------------------------------------------------------------------
(* paste                                                                   *)

DelimAt(i) == LET d == job.delims[(i % Len(job.delims)) + 1] IN IF d = "" THEN <<>> ELSE <<d>>
DelimsBefore(n) == FlattenSeq([i \in 1 .. n |-> DelimAt(i - 1)])

\* parallel(): one line of the output. Nothing is printed when no file has a line.
PasteRow ==
  /\ Running("paste")
  /\ ~job.serial
  /\ LET has == {i \in DOMAIN inp : inp[i] # <<>>}
         cell(i) == (IF i = Min(has) THEN DelimsBefore(i - 1)
                     ELSE IF i > Min(has) THEN DelimAt(i - 2) ELSE <<>>)
                    \o (IF i \in has THEN Chomp(inp[i][1]) ELSE <<>>)
     IN  IF has = {} THEN Exit(0) /\ out' = out
         ELSE /\ Emit(FlattenSeq([i \in DOMAIN inp |-> cell(i)]) \o <<NL>>)
              /\ UNCHANGED status
  /\ inp' = [i \in DOMAIN inp |-> SubSeq(inp[i], 2, Len(inp[i]))]
  /\ UNCHANGED <<job, mem>>

\* sequential(): a file that cannot be opened (inp[1] = "missing") is warned of;
\* the delimiters start again with each file
PasteFile ==
  /\ Running("paste")
  /\ job.serial
  /\ IF inp = <<>> THEN Exit(IF mem = <<>> THEN 0 ELSE 1) /\ UNCHANGED <<inp, mem, out>>
     ELSE /\ mem' = IF inp[1] = Missing THEN <<"failed">> ELSE mem
          /\ out' = IF inp[1] = Missing \/ inp[1] = <<>> THEN out
                    ELSE out \o FlattenSeq([i \in DOMAIN inp[1] |->
                                  (IF i = 1 THEN <<>> ELSE DelimAt(i - 2)) \o Chomp(inp[1][i])])
                             \o (IF Last(Last(inp[1])) = NL THEN <<NL>> ELSE <<>>)
          /\ inp' = Tail(inp)
          /\ UNCHANGED status
  /\ UNCHANGED job

-----------------------------------------------------------------------------
(* cut                                                                     *)

\* get_list(): a range is <<from, to>>; 0 stands for the end that is left open
Positions(list) ==
  LET first(r) == IF r[1] = 0 THEN r[2] ELSE r[1]
      last(r) == IF r[2] = 0 THEN r[1] ELSE r[2]
      stops == {list[i][1] : i \in {j \in DOMAIN list : list[j][2] = 0}}
      starts == {list[i][2] : i \in {j \in DOMAIN list : list[j][1] = 0}} \cup {0}
      highest == Max({last(list[i]) : i \in DOMAIN list})
      cut == IF stops # {} /\ highest > Min(stops) THEN Min(stops) ELSE highest
  IN  [maxval |-> Max({cut} \cup starts), autostop |-> stops # {},
       pos |-> UNION {first(list[i]) .. last(list[i]) : i \in DOMAIN list} \cup 1 .. Max(starts)]

\* A slip: what follows the list is not printed though its end is open.
ClosedColumns(l, p) == FlattenSeq([n \in DOMAIN l |-> IF n \in p.pos /\ n <= p.maxval THEN <<l[n]>> ELSE <<>>])

\* b_cut(), c_cut(): the columns of a line
CutColumns(l, p) ==
  FlattenSeq([n \in DOMAIN l |-> IF (n \in p.pos /\ n <= p.maxval) \/ (n > p.maxval /\ p.autostop)
                                 THEN <<l[n]>> ELSE <<>>])

\* The buffer getline() returns, with the capacity it reports: what follows the
\* line is a zero and whatever the memory held.
Buffer(l) == l \o <<"NUL", "residue">>

\* f_cut(): a line without a delimiter is printed whole, with that length; a run
\* of blanks is one delimiter with -w. The fields beyond the last one named are
\* copied as they stand when the list is open.
CutDelim(c) == IF job.blanks THEN Blank(c) ELSE c = job.delim
FieldStarts(l) ==
  {1} \cup {i \in 2 .. (Len(l) + 1) :
              CutDelim(l[i - 1]) /\ (job.blanks /\ i <= Len(l) => ~Blank(l[i]))}
FieldAt(l, i) == LET ends == {j \in i .. Len(l) : CutDelim(l[j])}
                 IN  SubSeq(l, i, IF ends = {} THEN Len(l) ELSE Min(ends) - 1)
CutFields(l, p) ==
  LET starts == InOrder(FieldStarts(l))
      chosen == {n \in DOMAIN starts : n \in p.pos /\ n <= p.maxval}
      before(n) == IF \E m \in chosen : m < n THEN <<job.odelim>> ELSE <<>>
  IN  FlattenSeq([n \in DOMAIN starts |-> IF n \in chosen THEN before(n) \o FieldAt(l, starts[n]) ELSE <<>>])
      \o IF p.autostop /\ Len(starts) > p.maxval
         THEN before(p.maxval + 1) \o SubSeq(l, starts[p.maxval + 1], Len(l))
         ELSE <<>>

CutLine ==
  /\ Running("cut")
  /\ inp # <<>>
  /\ LET l == Chomp(inp[1])
         p == Positions(job.list)
     IN  Emit(CASE job.mode = "columns" ->
                     CutColumns(l, p) \o (IF l = inp[1] /\ Len(l) < p.maxval THEN <<>> ELSE <<NL>>)
                [] job.mode = "fields" ->
                     IF \E i \in DOMAIN l : CutDelim(l[i]) THEN CutFields(l, p) \o <<NL>>
                     ELSE IF job.s THEN <<>> ELSE Buffer(inp[1]))
  /\ inp' = Tail(inp)
  /\ UNCHANGED <<job, mem, status>>

-----------------------------------------------------------------------------
(* head: mem is what is left of the count                                  *)

HeadStart ==
  /\ Running("head")
  /\ mem = <<>>
  /\ mem' = <<job.count>>
  /\ UNCHANGED <<job, inp, out, status>>

\* head(): the whole buffer is written for each line
HeadLine ==
  /\ Running("head")
  /\ job.unit = "lines"
  /\ mem # <<>> /\ mem[1] > 0 /\ inp # <<>>
  /\ Emit(Buffer(inp[1]))
  /\ mem' = <<mem[1] - 1>>
  /\ inp' = Tail(inp)
  /\ UNCHANGED <<job, status>>

\* head_bytes(): inp is a sequence of characters here; read(2) may return any
\* part of what was asked for
HeadBytes ==
  /\ Running("head")
  /\ job.unit = "bytes"
  /\ mem # <<>> /\ mem[1] > 0 /\ inp # <<>>
  /\ \E n \in 1 .. Len(inp) :
        /\ n <= mem[1]
        /\ Emit(SubSeq(inp, 1, n))
        /\ mem' = <<mem[1] - n>>
        /\ inp' = SubSeq(inp, n + 1, Len(inp))
  /\ UNCHANGED <<job, status>>

-----------------------------------------------------------------------------
(* cat: mem is the file it is in (what is left of it, the line number,      *)
(* whether a blank line was printed) and the exit status so far            *)

\* scanfiles(): the next file, if it can be opened
CatOpen ==
  /\ Running("cat")
  /\ mem # <<>> => mem.left = <<>>
  /\ LET rval == IF mem = <<>> THEN 0 ELSE mem.rval
     IN  IF inp = <<>> THEN Exit(rval) /\ UNCHANGED <<inp, mem>>
         ELSE /\ mem' = IF Head(inp) = Missing THEN [left |-> <<>>, line |-> 0, gobble |-> FALSE, rval |-> 1]
                        ELSE [left |-> Head(inp), line |-> 0, gobble |-> FALSE, rval |-> rval]
              /\ inp' = Tail(inp)
              /\ UNCHANGED status
  /\ UNCHANGED <<job, out>>

\* cook_cat(): one line; the number is printed at its beginning, $ before its newline
CatNumber(l) == IF job.n /\ ~(job.b /\ l[1] = NL) THEN <<ToString(mem.line + 1) \o "\t">>
                ELSE IF job.n /\ job.e THEN <<"  \t">> ELSE <<>>
CatText(l) == FlattenSeq([i \in DOMAIN l |-> IF l[i] = "\t" /\ job.t THEN <<"^", "I">>
                                             ELSE IF l[i] = NL /\ job.e THEN <<"$", NL>> ELSE <<l[i]>>])
CatLine ==
  /\ Running("cat")
  /\ mem # <<>>
  /\ mem.left # <<>>
  /\ LET l == Head(mem.left)
         blank == l = <<NL>>
         gobbled == job.s /\ blank /\ mem.gobble
     IN  /\ Emit(IF gobbled THEN <<>> ELSE CatNumber(l) \o CatText(l))
         /\ mem' = [mem EXCEPT !.left = Tail(@), !.gobble = job.s /\ blank,
                               !.line = IF ~gobbled /\ job.n /\ ~(job.b /\ blank) THEN @ + 1 ELSE @]
  /\ UNCHANGED <<job, inp, status>>

\* The end of the input
LinesEnd ==
  /\ Running("nl") \/ Running("cut") \/ Running("head")
  /\ mem # <<>> \/ job.tool = "cut"
  /\ inp = <<>> \/ (job.tool = "head" /\ mem = <<0>>)
  /\ Exit(0)
  /\ UNCHANGED <<job, inp, mem, out>>

LineToolStep ==
  /\ job.tool \in {"uniq", "comm", "join", "nl", "paste", "cut", "head", "cat"}
  /\ \/ UniqFirst \/ UniqLine \/ UniqEnd
     \/ CommRead \/ CommCompare \/ CommRest
     \/ JoinStart \/ JoinSets \/ JoinRest
     \/ NlStart \/ NlLine \/ PasteRow \/ PasteFile \/ CutLine
     \/ HeadStart \/ HeadLine \/ HeadBytes \/ CatOpen \/ CatLine
     \/ LinesEnd
=============================================================================
