----------------------------- MODULE TextTools -----------------------------
(***************************************************************************)
(* Commands that lay a text out anew: fold, expand, unexpand and fmt.      *)
(* job.files is the text, a sequence of characters (of lines for fmt), and *)
(* one step is one turn of the reading loop.                               *)
(***************************************************************************)
EXTENDS Process

Spaces(n) == [i \in 1 .. n |-> " "]

-----------------------------------------------------------------------------
(* fold: mem is the column and the buffered line                           *)

\* newpos()
NewPos(col, ch) ==
  IF job.bytes THEN col + 1
  ELSE CASE ch = BS -> IF col > 0 THEN col - 1 ELSE 0
         [] ch = "\r" -> 0
         [] ch = "\t" -> 8 * (col \div 8 + 1)
         [] OTHER -> col + 1
Width(s) == Scan(LAMBDA col, ch : NewPos(col, ch), 0, s)

\* fold()
FoldStart ==
  /\ Running("fold")
  /\ mem = <<>>
  /\ mem' = [col |-> 0, buf |-> <<>>]
  /\ UNCHANGED <<job, inp, out, status>>

FoldNewline ==
  /\ Running("fold")
  /\ mem # <<>> /\ inp # <<>>
  /\ Head(inp) = NL
  /\ Emit(Append(mem.buf, NL))
  /\ mem' = [col |-> 0, buf |-> <<>>]
  /\ inp' = Tail(inp)
  /\ UNCHANGED <<job, status>>

\* A character that does not fit: the line is cut behind its last blank with -s,
\* and what follows the blank begins the next one.
FoldChar ==
  /\ Running("fold")
  /\ mem # <<>> /\ inp # <<>>
  /\ Head(inp) # NL
  /\ LET ch == Head(inp)
         blanks == {i \in DOMAIN mem.buf : Blank(mem.buf[i])}
         cut == IF job.s /\ blanks # {} THEN Max(blanks) ELSE Len(mem.buf)
         left == SubSeq(mem.buf, cut + 1, Len(mem.buf))
     IN  IF NewPos(mem.col, ch) > job.width
         THEN /\ Emit(Append(SubSeq(mem.buf, 1, cut), NL))
              /\ mem' = [col |-> NewPos(Width(left), ch), buf |-> Append(left, ch)]
         ELSE /\ mem' = [col |-> NewPos(mem.col, ch), buf |-> Append(mem.buf, ch)]
              /\ UNCHANGED out
  /\ inp' = Tail(inp)
  /\ UNCHANGED <<job, status>>

FoldEnd ==
  /\ Running("fold")
  /\ mem # <<>> /\ inp = <<>>
  /\ Emit(mem.buf)
  /\ Exit(0)
  /\ UNCHANGED <<job, inp, mem>>

-----------------------------------------------------------------------------
(* expand: mem is <<column>>                                               *)

\* getstops(): the stops ascend
BadStops(stops) == \E i \in DOMAIN stops : stops[i] <= 0 \/ (i > 1 /\ stops[i] <= stops[i - 1])

\* A slip: a tab at a stop stays there.
TabToHere(column) ==
  LET beyond == {i \in DOMAIN job.stops : job.stops[i] >= column}
  IN  CASE job.stops = <<>> -> 8 * (column \div 8 + 1)
        [] Len(job.stops) = 1 -> job.stops[1] * (column \div job.stops[1] + 1)
        [] OTHER -> IF beyond = {} THEN column + 1 ELSE job.stops[Min(beyond)]

\* The column a tab leads to
TabTo(column) ==
  LET beyond == {i \in DOMAIN job.stops : job.stops[i] > column}
  IN  CASE job.stops = <<>> -> 8 * (column \div 8 + 1)
        [] Len(job.stops) = 1 -> job.stops[1] * (column \div job.stops[1] + 1)
        [] OTHER -> IF beyond = {} THEN column + 1 ELSE job.stops[Min(beyond)]

ExpandStart ==
  /\ Running("expand")
  /\ mem = <<>>
  /\ IF BadStops(job.stops) THEN Exit(1) /\ UNCHANGED mem ELSE mem' = <<0>> /\ UNCHANGED status
  /\ UNCHANGED <<job, inp, out>>

ExpandChar ==
  /\ Running("expand")
  /\ mem # <<>> /\ inp # <<>>
  /\ LET ch == Head(inp)
         column == mem[1]
     IN  /\ Emit(IF ch = "\t" THEN Spaces(TabTo(column) - column) ELSE <<ch>>)
         /\ mem' = <<CASE ch = "\t" -> TabTo(column)
                       [] ch = BS -> IF column > 0 THEN column - 1 ELSE 0
                       [] ch = NL -> 0
                       [] OTHER -> column + 1>>
  /\ inp' = Tail(inp)
  /\ UNCHANGED <<job, status>>

-----------------------------------------------------------------------------
(* unexpand: mem is the column written to, the column reached, and whether *)
(* the rest of the line is copied (raw) or its blanks are (doneline)       *)

UnexpandStart ==
  /\ Running("unexpand")
  /\ mem = <<>>
  /\ IF BadStops(job.stops) THEN Exit(1) /\ UNCHANGED mem
     ELSE mem' = [ocol |-> 0, dcol |-> 0, doneline |-> FALSE, raw |-> FALSE] /\ UNCHANGED status
  /\ UNCHANGED <<job, inp, out>>

One == Len(job.stops) = 1
Stop == job.stops[1]
Unlimited == 1000000   \* stands for INT_MAX
Limit == IF One THEN Unlimited ELSE Last(job.stops) - 1
\* The first n with tabstops[n] - 1 >= col, counted from 1
StopFrom(col) == LET from == {n \in DOMAIN job.stops : job.stops[n] - 1 >= col}
                 IN  IF from = {} THEN Len(job.stops) + 1 ELSE Min(from)

\* A blank that only moves the column
Swallowed(ch) ==
  \/ ch = " " /\ ~mem.doneline
  \/ ch = "\t" /\ (One \/ (StopFrom(mem.dcol) < Len(job.stops)
                           /\ job.stops[StopFrom(mem.dcol)] - 1 < Limit))
UnexpandBlank ==
  /\ Running("unexpand")
  /\ mem # <<>> /\ inp # <<>>
  /\ ~mem.raw
  /\ Swallowed(Head(inp))
  /\ mem' = IF Head(inp) = " "
            THEN [mem EXCEPT !.dcol = @ + 1, !.doneline = mem.dcol + 1 >= Limit]
            ELSE [mem EXCEPT !.dcol = IF One THEN Stop * (1 + @ \div Stop) ELSE job.stops[StopFrom(@)]]
  /\ inp' = Tail(inp)
  /\ UNCHANGED <<job, out, status>>

\* The columns the tabs put lead to, from ocol on
TabsFrom(ocol, dcol) ==
  IF One
  THEN LET n == IF dcol - ocol < 2 THEN 0 ELSE dcol \div Stop - ocol \div Stop
           \* a tab that would stand for one column is not put
           steps == {k \in 1 .. n : k = 1 \/ dcol - Stop * (ocol \div Stop + k - 1) >= 2}
       IN  [k \in 1 .. Cardinality(steps) |-> Stop * (ocol \div Stop + k)]
  ELSE LET first == StopFrom(ocol)
           columns == [k \in 1 .. (Len(job.stops) + 1 - first) |-> job.stops[first + k - 1]]
           at(k) == IF k = 1 THEN ocol ELSE columns[k - 1]
       IN  SelectSeq(columns, LAMBDA c : \E k \in DOMAIN columns : columns[k] = c /\ at(k) < dcol /\ at(k) < Limit)

UnexpandChar ==
  /\ Running("unexpand")
  /\ mem # <<>> /\ inp # <<>>
  /\ ~mem.raw
  /\ ~Swallowed(Head(inp))
  /\ LET ch == Head(inp)
         done == mem.doneline \/ ch = "\t"
         tabs == TabsFrom(mem.ocol, mem.dcol)
         tabbed == IF tabs = <<>> THEN mem.ocol ELSE Last(tabs)
         upto == IF mem.dcol < Limit THEN mem.dcol ELSE Limit
         spaces == IF tabbed < upto THEN upto - tabbed ELSE 0
         ocol == tabbed + spaces
         prints == ch # " " \/ mem.dcol > Limit
         moves == CASE ch = BS -> IF ocol > 0 THEN -1 ELSE 0
                    [] ch = "\t" -> 0
                    [] OTHER -> IF prints THEN 1 ELSE 0
     IN  /\ Emit([k \in DOMAIN tabs |-> "\t"] \o Spaces(spaces) \o (IF prints THEN <<ch>> ELSE <<>>))
         /\ mem' = IF ch = NL THEN [ocol |-> 0, dcol |-> 0, doneline |-> FALSE, raw |-> FALSE]
                   ELSE [ocol |-> ocol + moves, dcol |-> mem.dcol + moves, doneline |-> done,
                         raw |-> ~job.all \/ mem.dcol + moves >= Limit]
  /\ inp' = Tail(inp)
  /\ UNCHANGED <<job, status>>

\* The rest of the line, unchanged
UnexpandRaw ==
  /\ Running("unexpand")
  /\ mem # <<>> /\ inp # <<>>
  /\ mem.raw
  /\ LET ends == {i \in DOMAIN inp : inp[i] = NL}
         n == IF ends = {} THEN Len(inp) ELSE Min(ends)
     IN  Emit(SubSeq(inp, 1, n)) /\ inp' = SubSeq(inp, n + 1, Len(inp))
  /\ mem' = [ocol |-> 0, dcol |-> 0, doneline |-> FALSE, raw |-> FALSE]
  /\ UNCHANGED <<job, status>>

-----------------------------------------------------------------------------
(* fmt: mem is the state of process_stream() and of the output machinery.  *)
(* No indentation or type has been seen yet: -1.                           *)

\* get_line(): tabs expanded, trailing blanks, other control characters and
\* what a backspace deletes gone
Control == {BS, "\r", "\f"}
GetLine(l) ==
  LET put(st, ch) ==
        IF (st.troff /\ ch # " ") \/ ch \notin Control \cup {" ", "\t"}
        THEN [st EXCEPT !.buf = @ \o Append(Spaces(st.pend), ch), !.col = @ + st.pend + 1, !.pend = 0]
        ELSE CASE ch = " " -> [st EXCEPT !.pend = @ + 1]
               [] ch = "\t" -> [st EXCEPT !.pend = @ + (job.tab - ((st.col + @) % job.tab))]
               [] ch = BS -> [st EXCEPT !.buf = IF @ = <<>> THEN @ ELSE Front(@),
                                          !.col = IF @ = 0 THEN 0 ELSE @ - 1]
               [] OTHER -> st
      read(st, ch) == put([st EXCEPT !.troff = @ \/ (Len(st.buf) + st.pend = 0 /\ ch = "." /\ ~job.n)], ch)
  IN  Scan(read, [buf |-> <<>>, pend |-> 0, col |-> 0, troff |-> FALSE], Chomp(l)).buf

Indent(l) == Len(l) - Len(Dropped(l, LAMBDA c : c = " "))
\* might_be_header()
MightBeHeader(l) ==
  /\ l # <<>> /\ l[1] \in DOMAIN Upper
  /\ \E i \in 2 .. (Len(l) - 1) : /\ l[i] = ":" /\ Blank(l[i + 1])
                                  /\ \A j \in 2 .. (i - 1) : l[j] \notin {":", " ", "."}

\* output_indent()
Indented(n) == IF job.outtab = 0 THEN Spaces(n)
               ELSE [i \in 1 .. (n \div job.outtab) |-> "\t"] \o Spaces(n % job.outtab)

\* new_paragraph()
NewParagraph(st, old, indent) ==
  [st EXCEPT !.printed = IF st.buf = <<>> THEN @ ELSE @ \o Indented(old) \o Append(st.buf, NL),
             !.x = indent, !.x0 = 0, !.buf = <<>>, !.pend = 0, !.inpara = FALSE]

\* output_word(): adding the word brings the line nearer to the goal; the
\* difference is unsigned, and huge for a line that is past the goal
Nearer(st, newx) == st.x > job.goal \/ newx - job.goal <= job.goal - st.x
OutputWord(st, word, after) ==
  LET indent == IF st.inpara THEN st.last ELSE st.first
      width == Len(word)
      newx == st.x + st.pend + width
      spaces == IF ~job.coalesce /\ after > 0 THEN after ELSE IF Last(word) = "." THEN 2 ELSE 1
      line == Indented(indent) \o st.buf
      \* the word ends its line and is not buffered
      wordOut(text) == [st EXCEPT !.printed = @ \o text \o Append(word, NL), !.x0 = 0, !.x = st.last,
                                  !.pend = 0, !.buf = <<>>, !.inpara = TRUE]
  IN  IF newx <= job.goal
      THEN [st EXCEPT !.buf = @ \o Spaces(st.pend) \o word, !.x0 = @ + st.pend + width, !.x = newx, !.pend = spaces]
      ELSE IF st.x0 = 0 \/ (newx <= job.max /\ Nearer(st, newx))
      THEN wordOut(line \o Spaces(st.pend))
      ELSE IF indent + width > job.max THEN wordOut(Append(line, NL) \o Indented(indent))
      ELSE [st EXCEPT !.printed = @ \o Append(line, NL), !.buf = word, !.x0 = width, !.x = width + st.last,
                      !.pend = spaces, !.inpara = TRUE]

\* The words of a line with the blanks behind each
WordsAt(l, starts) ==
  LET upto(k) == IF k = Len(starts) THEN Len(l) ELSE starts[k + 1] - 1
      end(k) == Max({i \in starts[k] .. upto(k) : l[i] # " "})
  IN  [k \in DOMAIN starts |-> <<SubSeq(l, starts[k], end(k)), upto(k) - end(k)>>]
WordStarts(l) == {i \in DOMAIN l : l[i] # " " /\ (i = 1 \/ l[i - 1] = " ")}
WordsOf(l) == With(InOrder(WordStarts(l)), LAMBDA starts : WordsAt(l, starts))

\* The kind of a line: 1 a mail header, 2 its continuation, 0 neither
HeaderType(l, prev) ==
  IF ~job.mail \/ prev = 0 THEN 0
  ELSE IF Indent(l) = 0 /\ MightBeHeader(l) THEN 1
  ELSE IF Indent(l) > 0 /\ prev > 0 THEN 2 ELSE 0

FmtStart ==
  /\ Running("fmt")
  /\ mem = <<>>
  /\ mem' = [x |-> 0, x0 |-> 0, buf |-> <<>>, pend |-> 0, inpara |-> FALSE, last |-> -1, first |-> -1,
             lines |-> 0, prev |-> -1, printed |-> <<>>]
  /\ UNCHANGED <<job, inp, out, status>>

\* process_stream(): what a line does to the paragraph
FmtBegins(l, kind) ==
  \/ l = <<>> \/ (l[1] = "." /\ ~job.n) \/ kind = 1 \/ (kind = 0 /\ mem.prev > 0)
  \/ (Indent(l) # mem.last /\ kind # 2 /\ (~job.p \/ mem.lines # 1))
OldIndent == IF mem.inpara THEN mem.last ELSE mem.first
Started(l, kind) ==
  IF FmtBegins(l, kind)
  THEN [NewParagraph(mem, OldIndent, Indent(l)) EXCEPT
          !.first = Indent(l), !.last = IF kind = 1 THEN 2 ELSE Indent(l), !.lines = 0]
  ELSE [mem EXCEPT !.last = IF kind # 2 THEN Indent(l) ELSE @]
WordsOut(st, l) == Scan(LAMBDA s, w : OutputWord(s, w[1], w[2]), st, WordsOf(l))
FmtLine ==
  /\ Running("fmt")
  /\ mem # <<>> /\ inp # <<>>
  /\ \E l \in {GetLine(Head(inp))} : \E kind \in {HeaderType(l, mem.prev)} :
     \E st \in {Started(l, kind)} :
     \E after \in {IF l = <<>> \/ (l[1] = "." /\ ~job.n)
                   THEN [st EXCEPT !.printed = @ \o Append(l, NL), !.prev = -1]
                   ELSE [WordsOut(st, l) EXCEPT !.prev = kind, !.lines = @ + 1]} :
        mem' = [after EXCEPT !.printed = <<>>] /\ Emit(after.printed)
  /\ inp' = Tail(inp)
  /\ UNCHANGED <<job, status>>

FmtEnd ==
  /\ Running("fmt")
  /\ mem # <<>> /\ inp = <<>>
  /\ Emit(NewParagraph(mem, OldIndent, 0).printed)
  /\ Exit(0)
  /\ UNCHANGED <<job, inp, mem>>

\* center_stream(): fmt -c
Centered(l) == LET text == Dropped(GetLine(l), LAMBDA c : Blank(c))
                   short == IF Len(text) < job.goal THEN (job.goal - Len(text) + 1) \div 2 ELSE 0
               IN  Spaces(short) \o Append(text, NL)
CenterLine ==
  /\ Running("center")
  /\ inp # <<>>
  /\ Emit(Centered(Head(inp)))
  /\ inp' = Tail(inp)
  /\ UNCHANGED <<job, mem, status>>

\* The end of the input
TextEnd ==
  /\ Running("expand") \/ Running("unexpand") \/ Running("center")
  /\ mem # <<>> \/ job.tool = "center"
  /\ inp = <<>>
  /\ Exit(0)
  /\ UNCHANGED <<job, inp, mem, out>>

TextToolStep ==
  /\ job.tool \in {"fold", "expand", "unexpand", "fmt", "center"}
  /\ \/ FoldStart \/ FoldNewline \/ FoldChar \/ FoldEnd
     \/ ExpandStart \/ ExpandChar
     \/ UnexpandStart \/ UnexpandBlank \/ UnexpandChar \/ UnexpandRaw
     \/ FmtStart \/ FmtLine \/ FmtEnd \/ CenterLine
     \/ TextEnd
=============================================================================
