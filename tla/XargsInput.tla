----------------------------- MODULE XargsInput -----------------------------
(***************************************************************************)
(* xargs up to the pool of XargsPool: the characters of its input become   *)
(* arguments, and the arguments command lines (parse_input(), prerun() and *)
(* strnsubst()). job.words is the utility with its arguments, job.files    *)
(* the characters of the input; every command line is run, and ends well.  *)
(* At the end, what the command lines together have to be.                 *)
(***************************************************************************)
EXTENDS Process

NUL == "nul"
Size(args) == FoldLeft(LAMBDA n, a : n + Len(a) + 1, 0, args)   \* with the NUL of each

\* The options as main() leaves them. For -R, -S and -L, 0 is: not given.
R == IF job.I # <<>> /\ job.R = 0 THEN 5 ELSE job.R
S == IF job.S = 0 THEN 255 ELSE job.S
L == IF job.I # <<>> /\ job.L = 0 THEN 1 ELSE job.L
Objects == job.x \/ job.I # <<>> \/ L > 0                        \* xflag
Misused == (job.I = <<>> /\ (job.R # 0 \/ job.S # 0)) \/ (job.x /\ ~job.nflag)

\* What is before and after the arguments in a command line
Echo == <<<<"e">>>>
Spots == {i \in DOMAIN job.words : job.words[i] = job.J}         \* -J
Before == IF job.words = <<>> THEN Echo
          ELSE IF job.J # <<>> /\ Spots # {} THEN SubSeq(job.words, 1, Min(Spots) - 1) ELSE job.words
After == IF job.J # <<>> /\ Spots # {} THEN SubSeq(job.words, Min(Spots) + 1, Len(job.words)) ELSE <<>>
\* The space of the buffer: the size, less that of the words given. Of echo the NUL is not counted.
Space == job.s - (IF job.words = <<>> THEN Len(Echo[1]) ELSE Size(Before) + Size(After))

-----------------------------------------------------------------------------
(* prerun(): -I                                                            *)

At(s, match) == {i \in 1 .. (Len(s) - Len(match) + 1) : SubSeq(s, i, i + Len(match) - 1) = match}   \* strstr()

\* strnsubst(): what is done of the result, and what is left of the string
RECURSIVE Substituted(_, _, _, _)
Substituted(done, s, match, line) ==
  IF At(s, match) = {} THEN done \o s
  ELSE IF Len(done) + Len(s) + Len(line) - Len(match) + 1 > S
  THEN SubSeq(done \o s, 1, IF Len(done) + Len(s) < S THEN Len(done) + Len(s) ELSE S - 1)
  ELSE LET i == Min(At(s, match))
       IN  Substituted(done \o SubSeq(s, 1, i - 1) \o line, SubSeq(s, i + Len(match), Len(s)), match, line)
Strnsubst(s, line) == IF S = Len(s) THEN SubSeq(s, 1, S - 1) ELSE Substituted(<<>>, s, job.I, line)

\* The words that have the string, the first R of them substituted. A negative R is no limit.
Replaces(i) == i > 1 /\ At(job.words[i], job.I) # {}
Prerun(args, line) ==
  IF job.words = <<>> \/ R = 0 THEN Before \o args \o After
  ELSE [i \in DOMAIN job.words |->
          IF Replaces(i) /\ (R < 0 \/ Cardinality({k \in 1 .. i : Replaces(k)}) <= R)
          THEN Strnsubst(job.words[i], line) ELSE job.words[i]]

-----------------------------------------------------------------------------
(* parse_input(). mem: args: the arguments from bxp to xp; word: from argp *)
(* to p; used: p - bbp; quote: the quote that is open; quoted: wasquoted;  *)
(* count: the ends of lines; line: inpline.                                *)

Empty == [args |-> <<>>, word |-> <<>>, used |-> 0, quote |-> "", quoted |-> FALSE, count |-> 0, line |-> <<>>]
Room == Space - 1                                                 \* ebp - bbp
Fails == Exit(1) /\ UNCHANGED <<mem, out>>                        \* xexit()

XargsStart ==
  /\ Running("xargs") /\ mem = <<>>
  /\ IF Misused \/ Space <= 0 THEN Exit(1) /\ UNCHANGED mem ELSE mem' = Empty /\ UNCHANGED status
  /\ UNCHANGED <<job, inp, out>>

\* addch
Add(c, rest) ==
  /\ inp' = rest
  /\ IF mem.used < Room
     THEN mem' = [mem EXCEPT !.word = Append(@, c), !.used = @ + 1] /\ UNCHANGED <<out, status>>
     ELSE IF mem.args = <<>> \/ Objects THEN Fails
     ELSE /\ Emit(<<Prerun(mem.args, mem.line)>>)
          /\ mem' = [mem EXCEPT !.args = <<>>, !.word = Append(@, c), !.used = Len(mem.word) + 1]
          /\ UNCHANGED status

\* arg2: a logical end is seen in any argument that eofstr starts with, the empty one too.
EndsInput == job.E # <<>> /\ IsPrefix(mem.word, job.E)
Taken(m) == IF (m.word = <<>> /\ ~m.quoted) \/ EndsInput THEN m
            ELSE [m EXCEPT !.args = Append(@, m.word), !.used = @ + 1,
                           !.line = IF @ = <<>> THEN m.word ELSE @ \o <<" ">> \o m.word]
Full(m) == Len(m.args) = job.n
Over(m) == m.used > Room
RunAt(m, last) ==
  IF Objects /\ ~Full(m) /\ Over(m) THEN Fails
  ELSE /\ Emit(<<Prerun(m.args, m.line)>>)
       /\ mem' = Empty
       /\ status' = IF last THEN 0 ELSE status
EndArgument(ends) ==
  \E m \in {Taken([mem EXCEPT !.count = @ + ends])} :
    IF Full(m) \/ Over(m) \/ (L <= m.count /\ Objects) \/ EndsInput THEN RunAt(m, EndsInput)
    ELSE mem' = [m EXCEPT !.word = <<>>, !.quoted = FALSE] /\ UNCHANGED <<out, status>>

\* A separator: nulls end lines as well as arguments; quotes do not escape newlines.
Separates(c) == IF job.z THEN c = NUL ELSE c = NL \/ (Blank(c) /\ mem.quote = "")
XargsSeparator ==
  /\ Running("xargs") /\ mem # <<>> /\ inp # <<>> /\ Separates(inp[1])
  /\ inp' = Tail(inp)
  /\ IF inp[1] = NL /\ mem.quote # "" THEN Fails ELSE EndArgument(IF Blank(inp[1]) THEN 0 ELSE 1)
  /\ UNCHANGED job

Quotes(c) == ~job.z /\ c \in {"'", "\""} /\ mem.quote \in {"", c}
XargsQuote ==
  /\ Running("xargs") /\ mem # <<>> /\ inp # <<>> /\ Quotes(inp[1])
  /\ mem' = [mem EXCEPT !.quote = IF @ = "" THEN inp[1] ELSE "", !.quoted = TRUE]
  /\ inp' = Tail(inp)
  /\ UNCHANGED <<job, out, status>>

\* Backslash escapes anything, is escaped by quotes.
Escapes(c) == ~job.z /\ c = "\\" /\ mem.quote = ""
XargsEscape ==
  /\ Running("xargs") /\ mem # <<>> /\ inp # <<>> /\ Escapes(inp[1])
  /\ IF Len(inp) = 1 THEN Fails /\ inp' = <<>> ELSE Add(inp[2], SubSeq(inp, 3, Len(inp)))
  /\ UNCHANGED job

XargsChar ==
  /\ Running("xargs") /\ mem # <<>> /\ inp # <<>>
  /\ ~Separates(inp[1]) /\ ~Quotes(inp[1]) /\ ~Escapes(inp[1])
  /\ Add(inp[1], Tail(inp))
  /\ UNCHANGED job

\* The end of the input: without anything in the buffer nothing is run, whatever quote is open.
XargsEnd ==
  /\ Running("xargs") /\ mem # <<>> /\ inp = <<>>
  /\ IF mem.used = 0 THEN Exit(0) /\ UNCHANGED <<mem, out>>
     ELSE IF mem.quote # "" THEN Fails
     ELSE \E m \in {Taken(mem)} : RunAt(m, TRUE)
  /\ UNCHANGED <<job, inp>>

XargsStep ==
  /\ job.tool = "xargs"
  /\ \/ XargsStart \/ XargsSeparator \/ XargsQuote \/ XargsEscape \/ XargsChar \/ XargsEnd

-----------------------------------------------------------------------------
(* What the command lines have to be. The arguments are the stretches      *)
(* between separators, read off the input without a buffer or a limit.     *)

Text == job.files
\* How the character at each position is quoted: by an open quote, by a backslash, or not
Mode ==
  LET specials == IF job.z THEN {} ELSE {"'", "\"", "\\"}
      at[i \in 1 .. (Len(Text) + 1)] ==
        IF i = 1 THEN ""
        ELSE LET m == at[i - 1]
                 c == Text[i - 1]
             IN  IF m = "\\" \/ (m # "" /\ c = m) THEN ""
                 ELSE IF m = "" /\ c \in specials THEN c ELSE m
  IN  at
Splits(i, mode) == mode[i] = "" /\ Text[i] \in (IF job.z THEN {NUL} ELSE {" ", "\t", NL})
EndsLine(c) == IF job.z THEN c = NUL ELSE c = NL
Literal(i, mode) == CASE mode[i] = "" -> job.z \/ Text[i] \notin {"'", "\"", "\\"}
                      [] mode[i] = "\\" -> TRUE
                      [] OTHER -> Text[i] # mode[i]

\* The input is bad where a line ends in a quote, or all ends in one or after a backslash.
Unquoted(mode) == \/ \E i \in DOMAIN Text : Text[i] = NL /\ mode[i] \in {"'", "\""}
                  \/ mode[Len(Text) + 1] # ""
\* The stretches [text, some, line]: whether there is an argument in it, and the lines before it
Stretches(mode) ==
  LET cuts == InOrder({0, Len(Text) + 1} \cup {i \in DOMAIN Text : Splits(i, mode)})
      piece(a, b) == [text |-> FlattenSeq([k \in 1 .. (b - a - 1) |-> IF Literal(a + k, mode) THEN <<Text[a + k]>> ELSE <<>>]),
                      some |-> b > a + 1,
                      line |-> Cardinality({i \in 1 .. a : Splits(i, mode) /\ EndsLine(Text[i])})]
  IN  [n \in 1 .. (Len(cuts) - 1) |-> piece(cuts[n], cuts[n + 1])]
TextOf(pieces) == [i \in DOMAIN pieces |-> pieces[i].text]

\* What each command line has from the input
GivenIn(k) == SubSeq(out[k], Len(Before) + 1, Len(out[k]) - Len(After))
Wrapped(k) == /\ Before \o After = IF job.words = <<>> THEN Echo
                                  ELSE IF Spots = {} THEN job.words ELSE RemoveAt(job.words, Min(Spots))
              /\ Len(out[k]) >= Len(Before) + Len(After)
              /\ SubSeq(out[k], 1, Len(Before)) = Before
              /\ SubSeq(out[k], Len(out[k]) - Len(After) + 1, Len(out[k])) = After

\* Exception: at the end of the input without anything in the buffer the quotes are not looked
\* at (xargs.c:316-319): neither a quote left open there is an error nor '' an argument.
Unseen(pieces) == Text # <<>> /\ ~EndsLine(Last(Text)) /\ Last(pieces).text = <<>>

\* Every argument once, in order, quoted characters and all; nothing from the logical end on.
\* Exception: "a logical EOF marker" (xargs.1:98-100) is seen in any argument that eofstr starts
\* with, the empty one too (xargs.c:349-350): where there is one, arguments may be missing.
TakenForEof(pieces) ==
  job.E # <<>> /\ \E i \in 1 .. (Len(pieces) - 1) : pieces[i].text # job.E /\ IsPrefix(pieces[i].text, job.E)
InOrderOnce(args, pieces) ==
  LET given == FlattenSeq([k \in DOMAIN out |-> GivenIn(k)])
      all == TextOf(args)
      ends == {i \in DOMAIN all : all[i] = job.E}
      wanted == IF job.E = <<>> \/ ends = {} THEN all ELSE SubSeq(all, 1, Min(ends) - 1)
  IN  /\ IsPrefix(given, wanted)
      /\ status = 0 => given = wanted \/ TakenForEof(pieces) \/ Unseen(pieces)

\* No command line has more than -n arguments or is larger than -s, and without -L none is
\* smaller than it could be. Exceptions: with -x, which is to end xargs "if a command line
\* containing number arguments will not fit" (xargs.1:283-288), the utility is run for each
\* argument (Lflag <= count is true of no -L, xargs.c:399); and the NUL of echo is not counted,
\* though the size is "including NULL terminators" (xargs.1:269-274; xargs.c:265).
OneByOne == job.x /\ L = 0
WithinLimits ==
  \A k \in DOMAIN out :
    /\ Len(GivenIn(k)) <= job.n
    /\ Size(out[k]) <= job.s + (IF job.words = <<>> THEN 1 ELSE 0)
    /\ k < Len(out) /\ L = 0 /\ ~OneByOne =>
         Len(GivenIn(k)) = job.n \/ Size(out[k]) + Size(<<GivenIn(k + 1)[1]>>) > Space + Size(Before) + Size(After)

\* -L: command line k has the arguments of the k-th lines, none when these are empty.
ByLines(args) ==
  \A k \in DOMAIN out :
    GivenIn(k) = TextOf(SelectSeq(args, LAMBDA a : a.line \in ((k - 1) * L) .. (k * L - 1)))

\* -I: the string is replaced by the line in the first -R words that have it; where that would
\* be too long for -S, no more than that comes out. Exception: not "the entire line of input"
\* (xargs.1:112) but its arguments with one space between them (xargs.c:358-388).
Replaced(args) ==
  \A k \in DOMAIN out :
    LET words == TextOf(SelectSeq(args, LAMBDA a : a.line = k - 1))
        joined == FlattenSeq([i \in DOMAIN words |-> (IF \E j \in 1 .. (i - 1) : words[j] # <<>> THEN <<" ">> ELSE <<>>) \o words[i]])
        full(w) == FlattenSeq([i \in DOMAIN w |-> IF <<w[i]>> = job.I THEN joined ELSE <<w[i]>>])
        has(i) == i > 1 /\ job.I[1] \in Range(job.words[i])
        first(i) == job.R < 0 \/ Cardinality({j \in 1 .. i : has(j)}) <= IF job.R = 0 THEN 5 ELSE job.R
        room == IF job.S = 0 THEN 255 ELSE job.S
    IN  /\ Len(out[k]) = Len(job.words)
        /\ \A i \in DOMAIN job.words :
             IF ~has(i) \/ ~first(i) THEN out[k][i] = job.words[i]
             ELSE IF Len(job.words[i]) < room /\ Len(full(job.words[i])) < room THEN out[k][i] = full(job.words[i])
             ELSE Len(out[k][i]) < room

\* Bad quoting and an argument or a group that does not fit end xargs with 1, and nothing else
\* does. Exceptions: nothing is claimed of the status where the input ends Unseen, nor, for
\* OneByOne, of groups of -n that do not fit.
StatusRight(args, pieces, bad) ==
  LET fixed == job.s - Space
      tooLong(a, n) == fixed + Len(a.text) + 1 > job.s - n
      group(l) == SelectSeq(args, LAMBDA a : a.line \div L = l)
      tooMany(n) == L > 0 /\ \E i \in DOMAIN args : fixed + Size(TextOf(group(args[i].line \div L))) > job.s - n
  IN  job.E = <<>> /\ ~Unseen(pieces) /\ ~Misused =>
        /\ bad \/ (\E i \in DOMAIN args : tooLong(args[i], 0)) \/ (job.n > Len(Text) /\ tooMany(0)) => status = 1
        /\ status = 1 => bad \/ Space <= 0 \/ (\E i \in DOMAIN args : tooLong(args[i], IF Objects THEN 1 ELSE 0)) \/ tooMany(1)

CommandLines ==
  job.tool = "xargs" /\ status # -1 =>
    With(Mode, LAMBDA mode : With(Stretches(mode), LAMBDA pieces : With(SelectSeq(pieces, LAMBDA p : p.some), LAMBDA args :
      /\ status \in {0, 1}
      /\ IF job.I # <<>> THEN Unquoted(mode) \/ Replaced(args)
         ELSE /\ \A k \in DOMAIN out : Wrapped(k)
              /\ Unquoted(mode) \/ InOrderOnce(args, pieces)
              /\ WithinLimits
              /\ L > 0 /\ job.n > Len(Text) /\ ~Unquoted(mode) => ByLines(args)
      /\ StatusRight(args, pieces, Unquoted(mode)))))
=============================================================================
