--------------------------------- MODULE Pr ---------------------------------
(***************************************************************************)
(* pr: pages of one column, of columns down or across the page, or of one  *)
(* column for each file; tabs expanded on input and put back on output.    *)
(* job: the options as the letters give them (0 where one is not given),   *)
(* files (sequences of characters) and lbuf, the size of the line buffer.  *)
(***************************************************************************)
EXTENDS Process

HEADLEN == 5
TAILLEN == 5
NMCHAR == ":"
SCHAR == "|"
Spaces(n) == [i \in 1 .. n |-> " "]
Newlines(n) == [i \in 1 .. n |-> NL]
Or(n, default) == IF n # 0 THEN n ELSE default
ColWidth(width, clcnt, nmwd) == (IF nmwd > 0 THEN width + 1 - clcnt * (nmwd + 2) ELSE width + 1 - clcnt) \div clcnt
Setup ==
  LET many == job.cols = 0 /\ job.merge /\ Len(job.files) > 1
      merge == job.merge /\ (job.cols # 0 \/ many)
      clcnt == IF many THEN Len(job.files) ELSE Or(job.cols, 1)
      cflag == job.cols > 1
      width == Or(job.width, IF job.sflag THEN 512 ELSE 72)
      gaps == IF cflag \/ merge THEN 8 ELSE 0
      long == Or(job.lines, 66)
      nohead == job.nohead \/ long <= HEADLEN + TAILLEN
      body == IF nohead THEN long ELSE long - HEADLEN - TAILLEN
      dspace == job.dspace /\ body > 1
      colwd == IF cflag THEN ColWidth(width, clcnt, job.nmwd) ELSE 0
  IN  [bad |-> (job.across /\ (clcnt = 1 \/ merge)) \/ (cflag /\ merge) \/ (cflag /\ colwd < 1),
       merge |-> merge, clcnt |-> clcnt, colwd |-> colwd, width |-> width, ingap |-> Or(job.ingap, gaps), ogap |-> Or(job.ogap, gaps),
       nohead |-> nohead, dspace |-> dspace, addone |-> dspace /\ body % 2 = 1, lines |-> IF dspace THEN body \div 2 ELSE body]

-----------------------------------------------------------------------------
(* inln(): [cnt, buf, rest, cps, mor]                                        *)

RECURSIVE Got(_, _, _, _, _)
Got(gap, s, buf, lim, cps) ==
  IF lim = 0 THEN [buf |-> buf, rest |-> s, ch |-> "full"]
  ELSE IF s = <<>> THEN [buf |-> buf, rest |-> s, ch |-> "EOF"]
  ELSE IF s[1] = NL THEN [buf |-> buf, rest |-> Tail(s), ch |-> NL]
  ELSE IF gap = 0 \/ s[1] # "\t" THEN Got(gap, Tail(s), Append(buf, s[1]), lim - 1, cps)
  ELSE LET col == gap - ((Len(buf) + cps) % gap)
       IN  IF col > lim - 1 THEN [buf |-> buf \o Spaces(lim - 1), rest |-> s, ch |-> "full"]
           ELSE Got(gap, Tail(s), buf \o Spaces(col), lim - 1 - col, cps)
Discarded(s) == LET at == {i \in DOMAIN s : s[i] = NL} IN IF at = {} THEN <<>> ELSE SubSeq(s, Min(at) + 1, Len(s))
Inln(g, s, lim, cps, trnc) ==
  With(Got(g.ingap, s, <<>>, lim, cps), LAMBDA r :
    IF r.ch = "full" /\ ~trnc THEN [cnt |-> Len(r.buf), buf |-> r.buf, rest |-> r.rest, cps |-> cps + Len(r.buf), mor |-> TRUE]
    ELSE [cnt |-> IF r.ch = "EOF" /\ r.buf = <<>> THEN -1 ELSE Len(r.buf), buf |-> r.buf, cps |-> 0, mor |-> FALSE,
          rest |-> IF r.ch = "full" THEN Discarded(r.rest) ELSE r.rest])

(* otln(): [out, ips, ops]; `mor' is 1, 0 or -1                              *)
RECURSIVE Contracted(_, _, _)
Contracted(gap, ops, ips) ==
  LET tbps == ops + gap - (ops % gap)
  IN  IF ips - ops > 1 /\ tbps <= ips THEN <<"\t">> \o Contracted(gap, tbps, ips) ELSE Spaces(ips - ops)
Otln(g, buf, ips, ops, mor) ==
  LET put(x, c) == IF c = " " THEN [x EXCEPT !.ips = @ + 1]
                   ELSE IF c = "\t" THEN [x EXCEPT !.ips = @ + g.ogap - (@ % g.ogap)]
                   ELSE [out |-> x.out \o Contracted(g.ogap, x.ops, x.ips) \o <<c>>, ips |-> x.ips + 1, ops |-> x.ips + 1]
      r == IF g.ogap = 0 THEN [out |-> buf, ips |-> ips, ops |-> ops] ELSE Scan(put, [out |-> <<>>, ips |-> ips, ops |-> ops], buf)
  IN  CASE mor = 1 -> r
        [] mor = -1 -> [r EXCEPT !.out = IF g.ogap = 0 THEN @ ELSE @ \o Contracted(g.ogap, r.ops, r.ips)]
        [] mor = 0 -> [out |-> r.out \o Newlines(IF g.dspace THEN 2 ELSE 1), ips |-> ips, ops |-> ops]

Digit(n) == <<"0", "1", "2", "3", "4", "5", "6", "7", "8", "9">>[(n % 10) + 1]
AddNum(wdth, line) == [k \in 1 .. wdth |-> IF k < wdth /\ line < 10 ^ (wdth - k) THEN " " ELSE Digit(line \div 10 ^ (wdth - k))]
Number(n) == IF job.nmwd = 0 THEN <<>> ELSE AddNum(job.nmwd, n) \o <<NMCHAR>>
PrHead(g, page) ==
  IF g.nohead THEN <<>>
  ELSE <<NL, NL>> \o (IF job.offst > 0 THEN Otln(g, Spaces(job.offst), 0, 0, -1).out ELSE <<>>) \o <<"H", Digit(page)>> \o Newlines(3)
PrTail(g, cnt, incomp) ==
  IF g.nohead THEN (IF incomp THEN Newlines(IF g.dspace THEN 2 ELSE 1) ELSE <<>>) \o (IF job.formfeed THEN <<"\f">> ELSE <<>>)
  ELSE IF job.formfeed THEN (IF incomp THEN <<NL>> ELSE <<>>) \o <<"\f">>
  ELSE Newlines((IF g.dspace THEN 2 * cnt ELSE cnt) + (IF g.addone THEN 1 ELSE 0) + TAILLEN)
\* inskip(): what is left, or none
Skipped(g, s) ==
  LET at == InOrder({i \in DOMAIN s : s[i] = NL})
      n == (job.page - 1) * g.lines
  IN  IF n <= 0 THEN <<s>> ELSE IF Len(at) < n THEN <<>> ELSE <<SubSeq(s, at[n] + 1, Len(s))>>

-----------------------------------------------------------------------------
PrStart ==
  /\ Running("pr") /\ mem = <<>>
  /\ \E g \in {Setup} :
       IF g.bad THEN Exit(1) /\ UNCHANGED mem
       ELSE /\ mem' = [g |-> g, next |-> 1, errs |-> FALSE, open |-> FALSE, text |-> <<>>, page |-> 1, lncnt |-> 0, line |-> 0,
                       lrgln |-> FALSE, ips |-> 0, ops |-> 0, cps |-> 0, texts |-> <<>>, actf |-> -1]
            /\ UNCHANGED status
  /\ UNCHANGED <<job, inp, out>>
\* nxtfile(), and the end of the files
PrOpen ==
  /\ Running("pr") /\ mem # <<>> /\ ~mem.g.merge /\ ~mem.open
  /\ IF mem.next > Len(job.files) THEN Exit(IF mem.errs THEN 1 ELSE 0) /\ UNCHANGED mem
     ELSE \E s \in {IF job.files[mem.next] = Missing THEN <<>> ELSE Skipped(mem.g, job.files[mem.next])} :
            /\ mem' = IF s = <<>> THEN [mem EXCEPT !.next = @ + 1, !.errs = @ \/ job.files[mem.next] = Missing]
                      ELSE [mem EXCEPT !.next = @ + 1, !.open = TRUE, !.text = s[1], !.page = Or(job.page, 1), !.lncnt = 0, !.line = 0,
                                       !.lrgln = FALSE]
            /\ UNCHANGED status
  /\ UNCHANGED <<job, inp, out>>
\* A slip: the next page does not begin at its first line.
TurnedOnly(m) == [m EXCEPT !.page = @ + 1]

Turned(m) == [m EXCEPT !.page = @ + 1, !.line = 0]
\* onecol(): what one call of inln() returns
PrOneColumn ==
  /\ Running("pr") /\ mem # <<>> /\ mem.open /\ mem.g.clcnt = 1
  /\ \E c \in {Inln(mem.g, mem.text, job.lbuf, mem.cps, FALSE)} :
       LET g == mem.g
           long == IF mem.lrgln THEN 1 ELSE 0
           head == IF mem.line = 0 THEN PrHead(g, mem.page) ELSE <<>>
           buf == IF mem.lrgln THEN c.buf ELSE Spaces(job.offst) \o Number(mem.lncnt + 1) \o c.buf
           o == Otln(g, buf, mem.ips, mem.ops, IF c.mor THEN 1 ELSE 0)
           read == [mem EXCEPT !.text = c.rest, !.cps = c.cps, !.lncnt = @ + 1 - long]
           whole == [read EXCEPT !.line = @ + 1, !.lrgln = FALSE, !.ips = 0, !.ops = 0]
           full == mem.line + 1 = g.lines
       IN  IF c.cnt < 0
           THEN /\ Emit(IF mem.line > 0 THEN PrTail(g, g.lines - mem.line - long, mem.lrgln) ELSE <<>>)
                /\ mem' = [mem EXCEPT !.open = FALSE, !.cps = 0, !.ips = 0, !.ops = 0]
           ELSE IF c.mor THEN Emit(head \o o.out) /\ mem' = [read EXCEPT !.lrgln = TRUE, !.ips = o.ips, !.ops = o.ops]
           ELSE /\ Emit(head \o o.out \o (IF full THEN PrTail(g, 0, FALSE) ELSE <<>>))
                /\ mem' = IF full THEN Turned(whole) ELSE whole
  /\ UNCHANGED <<job, inp, status>>

\* The next n lines, each cut to the width of a column: [cells, rest, eof]
RECURSIVE Cells(_, _, _, _)
Cells(g, s, n, cells) ==
  IF n = 0 THEN [cells |-> cells, rest |-> s, eof |-> FALSE]
  ELSE With(Inln(g, s, g.colwd, 0, TRUE), LAMBDA c :
         IF c.cnt < 0 THEN [cells |-> cells, rest |-> <<>>, eof |-> TRUE] ELSE Cells(g, c.rest, n - 1, Append(cells, c.buf)))
Padded(g, cell, text) == cell \o (IF job.sflag THEN <<SCHAR>> ELSE Spaces(g.colwd + 1 - Len(text)))
\* Some of the cells, by number, in one line; the column at the edge of the page is not padded
Row(g, texts, first, ks, last) ==
  FlattenSeq([k \in DOMAIN ks |-> LET cell == Number(first + ks[k]) \o texts[ks[k]]
                                  IN  IF k = last THEN cell ELSE Padded(g, cell, texts[ks[k]])])
\* The rows of a page that is full, or whose columns cannot be made even
DownTheColumns(g, n) ==
  LET rows == IF n >= g.lines THEN g.lines ELSE n
  IN  [r \in 1 .. rows |-> LET cols == 1 + ((n - r) \div g.lines) IN [k \in 1 .. cols |-> r + (k - 1) * g.lines]]
\* The rows of the last page of a file
Balanced(g, n) ==
  LET pln == (n + g.clcnt - 1) \div g.clcnt
  IN  [r \in 1 .. pln |-> LET cols == 1 + ((n - r) \div pln) IN [k \in 1 .. cols |-> r + (k - 1) * pln]]
\* vertcol(): a page
PrVertical ==
  /\ Running("pr") /\ mem # <<>> /\ mem.open /\ mem.g.clcnt > 1 /\ ~job.across
  /\ \E c \in {Cells(mem.g, mem.text, mem.g.lines * mem.g.clcnt, <<>>)} :
       LET g == mem.g
           n == Len(c.cells)
           even == c.eof /\ n > 0 /\ g.lines * g.clcnt - n >= g.clcnt
           rows == IF even THEN Balanced(g, n) ELSE DownTheColumns(g, n)
           text(r) == Spaces(job.offst) \o Row(g, c.cells, mem.lncnt, rows[r], g.clcnt)
           balanced == [r \in DOMAIN rows |-> Otln(g, text(r), 0, 0, 1)]
           plain == [r \in DOMAIN rows |-> Otln(g, text(r), mem.ips, mem.ops, 0).out]
           lines == IF even THEN [r \in DOMAIN rows |-> balanced[r].out \o Newlines(IF g.dspace THEN 2 ELSE 1)] ELSE plain
       IN  /\ Emit(IF n = 0 THEN <<>> ELSE PrHead(g, mem.page) \o FlattenSeq(lines) \o PrTail(g, g.lines - Len(rows), FALSE))
           /\ mem' = [Turned(mem) EXCEPT !.text = c.rest, !.open = ~c.eof, !.lncnt = @ + n,
                                         !.ips = IF even /\ g.ogap > 0 THEN Last(balanced).ips ELSE @,
                                         !.ops = IF even /\ g.ogap > 0 THEN Last(balanced).ops ELSE @]
  /\ UNCHANGED <<job, inp, status>>
\* horzcol(): a line of the page
PrHorizontal ==
  /\ Running("pr") /\ mem # <<>> /\ mem.open /\ mem.g.clcnt > 1 /\ job.across
  /\ \E c \in {Cells(mem.g, mem.text, mem.g.clcnt, <<>>)} :
       LET g == mem.g
           n == Len(c.cells)
           empty == n = 0 \/ (n = 1 /\ c.cells[1] = <<>> /\ job.nmwd = 0)
           ks == [k \in 1 .. n |-> k]
           line == Otln(g, Spaces(job.offst) \o Row(g, c.cells, mem.lncnt, ks, n), 0, 0, 0).out
           full == mem.line + 1 = g.lines
       IN  IF empty THEN /\ Emit(IF mem.line > 0 THEN PrTail(g, g.lines - mem.line, FALSE) ELSE <<>>)
                         /\ mem' = [mem EXCEPT !.open = FALSE]
           ELSE /\ Emit((IF mem.line = 0 THEN PrHead(g, mem.page) ELSE <<>>) \o line \o (IF full THEN PrTail(g, 0, FALSE) ELSE <<>>))
                /\ \E m \in {[mem EXCEPT !.text = c.rest, !.lncnt = @ + n, !.line = @ + 1]} : mem' = IF full THEN Turned(m) ELSE m
  /\ UNCHANGED <<job, inp, status>>

\* mulfile(): the files that can be opened, then a line of the page
PrMergeOpen ==
  /\ Running("pr") /\ mem # <<>> /\ mem.g.merge /\ mem.actf = -1
  /\ \E there \in {SelectSeq(job.files, LAMBDA f : f # Missing)} :
       LET n == Len(there)
           colwd == (IF job.nmwd > 0 THEN mem.g.width - n - job.nmwd ELSE mem.g.width + 1 - n) \div n
           errs == n < Len(job.files)
       IN  IF n = 0 \/ (n > 0 /\ colwd < 1) THEN Exit(1) /\ UNCHANGED mem
           ELSE /\ mem' = [mem EXCEPT !.texts = [k \in 1 .. n |-> Skipped(mem.g, there[k])], !.actf = n, !.page = Or(job.page, 1),
                                      !.g.colwd = colwd, !.g.clcnt = n, !.errs = errs]
                /\ UNCHANGED status
  /\ UNCHANGED <<job, inp, out>>
\* One column after another; each open file is <<what is left>>, a closed one <<>>
Column(g, x, k) ==
  IF x.over THEN x
  ELSE LET open == x.texts[k] # <<>>
           c == Inln(g, IF open THEN x.texts[k][1] ELSE <<>>, g.colwd, 0, TRUE)
           got == open /\ c.cnt >= 0
           actf == IF open /\ ~got THEN x.actf - 1 ELSE x.actf
           line == IF got THEN x.line \o c.buf ELSE x.line
           fproc == IF got THEN x.fproc + 1 ELSE x.fproc
       IN  [texts |-> [x.texts EXCEPT ![k] = IF got THEN <<c.rest>> ELSE <<>>], actf |-> actf, fproc |-> fproc, over |-> fproc >= actf,
            line |-> IF fproc >= actf THEN line ELSE Padded(g, line, IF got THEN c.buf ELSE <<>>),
            last |-> IF got THEN Len(line) ELSE x.last]
PrMerged ==
  /\ Running("pr") /\ mem # <<>> /\ mem.g.merge /\ mem.actf >= 0
  /\ IF mem.actf = 0 /\ mem.line = 0 THEN Exit(IF mem.errs THEN 1 ELSE 0) /\ UNCHANGED <<mem, out>>
     ELSE \E x \in {Scan(LAMBDA x, k : Column(mem.g, x, k), [texts |-> mem.texts, actf |-> mem.actf, fproc |-> 0, over |-> FALSE,
                                                             line |-> Number(mem.lncnt + 1), last |-> 0], [k \in 1 .. mem.g.clcnt |-> k])} :
       LET g == mem.g
           m == [mem EXCEPT !.texts = x.texts, !.actf = x.actf, !.lncnt = @ + 1]
           line == Otln(g, Spaces(job.offst) \o SubSeq(x.line, 1, x.last), 0, 0, 0).out
           done == mem.line + 1 = g.lines \/ x.actf = 0
       IN  /\ IF x.last = 0
              THEN Emit(IF mem.line > 0 THEN PrTail(g, g.lines - mem.line, FALSE) ELSE <<>>) /\ mem' = Turned(m)
              ELSE /\ Emit((IF mem.line = 0 THEN PrHead(g, mem.page) ELSE <<>>) \o line
                           \o (IF done THEN PrTail(g, g.lines - mem.line - 1, FALSE) ELSE <<>>))
                   /\ mem' = IF done THEN Turned(m) ELSE [m EXCEPT !.line = @ + 1]
           /\ UNCHANGED status
  /\ UNCHANGED <<job, inp>>
PrStep ==
  /\ job.tool = "pr"
  /\ \/ PrStart \/ PrOpen \/ PrOneColumn \/ PrVertical \/ PrHorizontal \/ PrMergeOpen \/ PrMerged

-----------------------------------------------------------------------------
(* What pr promises: the pages as they look, drawn from the lines of the   *)
(* files and the options alone.                                            *)

Gap(n) == IF n # 0 THEN n ELSE IF job.cols > 1 \/ job.merge THEN 8 ELSE 0
\* A line with its tabs expanded, and without the blanks at its end
RECURSIVE Expanded(_, _, _)
Expanded(l, gap, done) ==
  IF l = <<>> THEN done
  ELSE Expanded(Tail(l), gap, IF l[1] = "\t" /\ gap > 0 THEN done \o [i \in 1 .. gap - (Len(done) % gap) |-> " "] ELSE Append(done, l[1]))
Trimmed(l) == LET kept == {i \in DOMAIN l : l[i] # " "} IN IF kept = {} THEN <<>> ELSE SubSeq(l, 1, Max(kept))
LinesOf(s) ==
  LET ends == InOrder({i \in DOMAIN s : s[i] = NL} \cup (IF s # <<>> /\ Last(s) # NL THEN {Len(s) + 1} ELSE {}))
  IN  [i \in DOMAIN ends |-> SubSeq(s, IF i = 1 THEN 1 ELSE ends[i - 1] + 1, ends[i] - 1)]
\* What can be seen of an output: its lines, tabs expanded
Seen(s, gap) == LET lines == LinesOf(s) IN [i \in DOMAIN lines |-> Trimmed(Expanded(lines[i], gap, <<>>))]

Total == IF job.lines = 0 THEN 66 ELSE job.lines
Headed == ~job.nohead /\ Total > 10
Room == IF Headed THEN Total - 10 ELSE Total
Doubled == job.dspace /\ Room > 1
Rows == IF Doubled THEN Room \div 2 ELSE Room
There == SelectSeq(job.files, LAMBDA f : f # Missing)
Columns == IF job.merge THEN Len(There) ELSE IF job.cols = 0 THEN 1 ELSE job.cols
Width == IF job.width # 0 THEN job.width ELSE IF job.sflag THEN 512 ELSE 72
\* The width of a column without its number and what stands between columns
Wide == ((Width + 1) \div Columns) - 1 - (IF job.nmwd > 0 THEN job.nmwd + 1 ELSE 0)
Cut(l) == IF Columns = 1 /\ ~job.merge THEN l ELSE SubSeq(l, 1, IF Wide < Len(l) THEN Wide ELSE Len(l))
Text(f) == LET lines == LinesOf(f) IN [i \in DOMAIN lines |-> Cut(Expanded(lines[i], Gap(job.ingap), <<>>))]
\* Cells side by side
Blanks(n) == [i \in 1 .. n |-> " "]
Filled(l, n) == l \o Blanks(n - Len(l))
Beside(cells) == FlattenSeq([k \in DOMAIN cells |-> IF k = Len(cells) THEN cells[k]
                                                    ELSE IF job.sflag THEN cells[k] \o <<SCHAR>>
                                                    ELSE Filled(cells[k], Wide + 1 + (IF job.nmwd > 0 /\ ~job.merge THEN job.nmwd + 1 ELSE 0))])
\* The first line that is printed has the number 1
Numbered(text) == [i \in DOMAIN text |-> (IF job.nmwd > 0 /\ i > (job.page - 1) * Rows THEN AddNum(job.nmwd, IF job.page > 1 THEN i - (job.page - 1) * Rows ELSE i) \o <<NMCHAR>> ELSE <<>>) \o text[i]]
\* The rows of the page with the cells from i to j: across, or down with as few rows as there can be
Ceil(a, b) == (a + b - 1) \div b
PageRows(cells) ==
  LET n == Len(cells)
      short == n <= (Rows - 1) * Columns
      deep == IF short THEN Ceil(n, Columns) ELSE Rows
      at(r, c) == IF job.across THEN (r - 1) * Columns + c ELSE r + (c - 1) * deep
      rows == IF job.across THEN Ceil(n, Columns) ELSE IF n < deep THEN n ELSE deep
  IN  [r \in 1 .. rows |-> LET cs == {c \in 1 .. Columns : at(r, c) <= n} IN Beside([c \in 1 .. Max(cs) |-> cells[at(r, c)]])]
FilePages(f) ==
  LET cells == Numbered(Text(f))
      each == Rows * Columns
  IN  [p \in 1 .. Ceil(Len(cells), each) |-> PageRows(SubSeq(cells, (p - 1) * each + 1, IF p * each < Len(cells) THEN p * each ELSE Len(cells)))]
MergedPages ==
  LET texts == [k \in DOMAIN There |-> Text(There[k])]
      longest == Max({Len(texts[k]) : k \in DOMAIN texts})
      row(i) == LET ks == {k \in DOMAIN texts : i <= Len(texts[k])} IN Beside([k \in 1 .. Max(ks) |-> IF k \in ks THEN texts[k][i] ELSE <<>>])
      rows == Numbered([i \in 1 .. longest |-> row(i)])
  IN  [p \in 1 .. Ceil(longest, Rows) |-> SubSeq(rows, (p - 1) * Rows + 1, IF p * Rows < longest THEN p * Rows ELSE longest)]
\* A page: its head, its rows, and as many lines as make it whole
PageText(p, rows) ==
  LET each(r) == Blanks(job.offst) \o rows[r] \o [i \in 1 .. IF Doubled THEN 2 ELSE 1 |-> NL]
      body == FlattenSeq([r \in DOMAIN rows |-> each(r)])
      used == 5 + Len(rows) * (IF Doubled THEN 2 ELSE 1)
  IN  IF Headed
      THEN <<NL, NL>> \o Blanks(job.offst) \o <<"H", Digit(p), NL, NL, NL>> \o body \o (IF job.formfeed THEN <<"\f">> ELSE [i \in 1 .. Total - used |-> NL])
      ELSE body \o (IF job.formfeed THEN <<"\f">> ELSE <<>>)
From(pages) == FlattenSeq([p \in DOMAIN pages |-> IF p >= job.page THEN PageText(p, pages[p]) ELSE <<>>])
Printed == IF job.merge THEN From(MergedPages) ELSE FlattenSeq([k \in DOMAIN There |-> From(FilePages(There[k]))])
\* Bars at the end of a line stand for empty columns
Barless(l) == LET kept == {i \in DOMAIN l : l[i] # SCHAR} IN IF kept = {} THEN <<>> ELSE SubSeq(l, 1, Max(kept))
Plainly(lines) == [i \in DOMAIN lines |-> IF job.sflag THEN Barless(lines[i]) ELSE lines[i]]

\* The pages look as they should: every line of every file is there once, in its
\* place, numbered, no wider than its column, each page with its head is as long as
\* the others, whatever is turned into tabs and however long the lines.
PagesRight == (job.tool = "pr" /\ status = 0) => Plainly(Seen(out, Gap(job.ogap))) = Plainly(Seen(Printed, Gap(job.ogap)))
=============================================================================
