------------------------------ MODULE Evaluate ------------------------------
(***************************************************************************)
(* The two commands that evaluate an expression given as words: expr       *)
(* (expr.y, words are sequences of characters) and test (test.c, words are *)
(* strings, [ when job.bracket).                                           *)
(***************************************************************************)
EXTENDS Process

\* intmax_t, with four bits; it wraps (-fwrapv), and division rounds to zero
IntMin == -8
IntMax == 7
Wrapped(i) == ((i - IntMin) % (IntMax - IntMin + 1)) + IntMin
Abs(i) == IF i < 0 THEN -i ELSE i
Quot(a, b) == IF (a < 0) = (b < 0) THEN Abs(a) \div Abs(b) ELSE -(Abs(a) \div Abs(b))
Rem(a, b) == a - b * Quot(a, b)

-----------------------------------------------------------------------------
(* expr: inp: av; mem: the stack of the parser, symbols [sym, v]           *)

Digits == <<"0", "1", "2", "3", "4", "5", "6", "7", "8", "9">>
IsSpace(c) == c = " "
Signs == IF job.e THEN {"-", "+"} ELSE {"-"}
\* is_integer()
Unsigned(s) == LET t == IF job.e THEN Dropped(s, IsSpace) ELSE s
               IN  IF t # <<>> /\ Head(t) \in Signs THEN Tail(t) ELSE t
IsInteger(s) == (job.e /\ s = <<>>) \/ (Unsigned(s) # <<>> /\ \A i \in DOMAIN Unsigned(s) : Unsigned(s)[i] \in Range(Digits))
\* strtoimax() and sprintf("%jd")
Magnitude(s) == FoldLeft(LAMBDA n, c : 10 * n + (CHOOSE d \in 0 .. 9 : Digits[d + 1] = c), 0, Unsigned(s))
Number(s) == IF "-" \in Range(s) THEN -Magnitude(s) ELSE Magnitude(s)
Decimal(i) == (IF i < 0 THEN <<"-">> ELSE <<>>) \o <<Digits[Abs(i) + 1]>>

Integer(i) == [type |-> "integer", i |-> i, s |-> <<>>]
Str(s) == [type |-> IF IsInteger(s) THEN "numeric_string" ELSE "string", i |-> 0, s |-> s]
Truth(b) == Integer(IF b THEN 1 ELSE 0)
ToInteger(v) == IF v.type = "numeric_string" /\ Number(v.s) \in IntMin .. IntMax THEN Integer(Number(v.s)) ELSE v
IsInt(v) == ToInteger(v).type = "integer"
AsString(v) == IF v.type = "integer" THEN [type |-> "string", i |-> 0, s |-> Decimal(v.i)] ELSE v
ZeroOrNull(v) == IF v.type = "integer" THEN v.i = 0 ELSE v.s = <<>> \/ ToInteger(v) = Integer(0)
\* What is_zero_or_null() leaves of its operand
Tested(v) == IF v.type # "integer" /\ v.s = <<>> THEN v ELSE ToInteger(v)

\* The operators give [v, fail]: fail is the status that errx() or a signal exits with, or 0
Gives(v) == [v |-> v, fail |-> 0]
Fails(n) == [v |-> Truth(FALSE), fail |-> n]
OpOr(a, b) == Gives(IF ~ZeroOrNull(a) THEN Tested(a) ELSE IF ~ZeroOrNull(b) THEN Tested(b) ELSE Integer(0))
OpAnd(a, b) == Gives(IF ZeroOrNull(a) \/ ZeroOrNull(b) THEN Integer(0) ELSE Tested(a))
CompareVals(a, b) == IF a.type = "string" \/ b.type = "string" THEN Collate(AsString(a).s, AsString(b).s)
                     ELSE ToInteger(a).i - ToInteger(b).i
OpCompare(o, a, b) ==
  IF a.type # "string" /\ b.type # "string" /\ ~(IsInt(a) /\ IsInt(b)) THEN Fails(2)
  ELSE Gives(Truth(CASE o = <<"=">> -> CompareVals(a, b) = 0
                     [] o = <<">">> -> CompareVals(a, b) > 0
                     [] o = <<"<">> -> CompareVals(a, b) < 0
                     [] o = <<">", "=">> -> CompareVals(a, b) >= 0
                     [] o = <<"<", "=">> -> CompareVals(a, b) <= 0
                     [] o = <<"!", "=">> -> CompareVals(a, b) # 0))
\* assert_to_integer() of both, the operation, and its check
Arith(op(_, _), overflow(_, _, _), a, b) ==
  IF ~(IsInt(a) /\ IsInt(b)) THEN Fails(2)
  ELSE LET x == ToInteger(a).i
           y == ToInteger(b).i
       IN  IF overflow(x, y, Wrapped(op(x, y))) THEN Fails(2) ELSE Gives(Integer(Wrapped(op(x, y))))
OpPlus(a, b) == Arith(LAMBDA x, y : x + y, LAMBDA x, y, r : (x > 0 /\ y > 0 /\ r <= 0) \/ (x < 0 /\ y < 0 /\ r >= 0), a, b)
OpMinus(a, b) == Arith(LAMBDA x, y : x - y, LAMBDA x, y, r : (x >= 0 /\ y < 0 /\ r <= 0) \/ (x < 0 /\ y > 0 /\ r >= 0), a, b)
OpTimes(a, b) == Arith(LAMBDA x, y : x * y, LAMBDA x, y, r : (x = -1 /\ y = IntMin) \/ (x # 0 /\ Quot(r, x) # y), a, b)
\* assert_div() comes before the operation
OpDiv(a, b) ==
  IF ~(IsInt(a) /\ IsInt(b)) \/ ToInteger(b).i = 0 \/ (ToInteger(a).i = IntMin /\ ToInteger(b).i = -1) THEN Fails(2)
  ELSE Gives(Integer(Quot(ToInteger(a).i, ToInteger(b).i)))
\* ... and here it is told that a is 1: the processor traps on INTMAX_MIN % -1
SigFpe == 136
OpRem(a, b) ==
  IF ~(IsInt(a) /\ IsInt(b)) \/ ToInteger(b).i = 0 THEN Fails(2)
  ELSE IF ToInteger(a).i = IntMin /\ ToInteger(b).i = -1 THEN Fails(SigFpe)
  ELSE Gives(Integer(Rem(ToInteger(a).i, ToInteger(b).i)))

\* regcomp() and regexec(): characters, `.', `*' and one \( \), anchored at the start.
\* Where a match of re that begins at i can end
Matches(c, d) == c \in {".", d}
RECURSIVE EndsAt(_, _, _)
EndsAt(re, s, i) ==
  IF re = <<>> THEN {i}
  ELSE IF Head(re) = "\\" THEN EndsAt(SubSeq(re, 3, Len(re)), s, i)
  ELSE LET here == i <= Len(s) /\ Matches(Head(re), s[i])
       IN  IF Len(re) > 1 /\ re[2] = "*"
           THEN EndsAt(SubSeq(re, 3, Len(re)), s, i) \cup (IF here THEN EndsAt(re, s, i + 1) ELSE {})
           ELSE IF here THEN EndsAt(Tail(re), s, i + 1) ELSE {}
Slash(re, from) == LET at == {i \in from .. Len(re) : re[i] = "\\"} IN IF at = {} THEN 0 ELSE Min(at)
Open(re) == Slash(re, 1)
Close(re) == Slash(re, Open(re) + 2)
Compiles(re) == Open(re) = 0 \/ (re[Open(re) + 1] = "(" /\ Close(re) > 0 /\ re[Close(re) + 1] = ")")
\* The group: the longest that the rest leaves it, after the longest of what precedes it
Group(re, s) ==
  LET end == Max(EndsAt(re, s, 1))
      groups == {g \in (1 .. end) \X (1 .. end) :
                   /\ g[1] \in EndsAt(SubSeq(re, 1, Open(re) - 1), s, 1)
                   /\ g[2] \in EndsAt(SubSeq(re, Open(re) + 2, Close(re) - 1), s, g[1])
                   /\ end \in EndsAt(SubSeq(re, Close(re), Len(re)), s, g[2])}
      start == Max({g[1] : g \in groups})
  IN  SubSeq(s, start, Max({g[2] : g \in {f \in groups : f[1] = start}}) - 1)
OpColon(a, b) ==
  LET re == AsString(b).s
      s == AsString(a).s
  IN  IF ~Compiles(re) THEN Fails(2)
      ELSE IF EndsAt(re, s, 1) # {}
           THEN Gives(IF Open(re) = 0 THEN Integer(Max(EndsAt(re, s, 1)) - 1) ELSE Str(Group(re, s)))
           ELSE Gives(IF Open(re) = 0 THEN Integer(0) ELSE Str(<<>>))

\* The %left declarations, loosest first
Levels == <<{<<"|">>}, {<<"&">>}, {<<"=">>, <<">">>, <<"<">>, <<">", "=">>, <<"<", "=">>, <<"!", "=">>},
            {<<"+">>, <<"-">>}, {<<"*">>, <<"/">>, <<"%">>}, {<<":">>}>>
Level(sym) == LET at == {i \in DOMAIN Levels : sym \in Levels[i]} IN IF at = {} THEN 0 ELSE Max(at)
Operate(o, a, b) ==
  CASE o = <<"|">> -> OpOr(a, b)
    [] o = <<"&">> -> OpAnd(a, b)
    [] o \in Levels[3] -> OpCompare(o, a, b)
    [] o = <<"+">> -> OpPlus(a, b)
    [] o = <<"-">> -> OpMinus(a, b)
    [] o = <<"*">> -> OpTimes(a, b)
    [] o = <<"/">> -> OpDiv(a, b)
    [] o = <<"%">> -> OpRem(a, b)
    [] OTHER -> OpColon(a, b)

\* yylex(): a word that is not an operator is a TOKEN
Bracket == {<<"(">>, <<")">>}
Lexed(w) == IF Level(w) > 0 \/ w \in Bracket THEN [sym |-> w, v |-> Integer(0)] ELSE [sym |-> <<"TOKEN">>, v |-> Str(w)]
Lookahead == IF inp = <<>> THEN [sym |-> <<>>, v |-> Integer(0)] ELSE Lexed(Head(inp))
Expr(v) == [sym |-> <<"expr">>, v |-> v]
Above(n) == IF Len(mem.stack) < n THEN <<>> ELSE mem.stack[Len(mem.stack) - n + 1].sym
IsExpr(n) == Above(n) = <<"expr">>
Beneath(n) == SubSeq(mem.stack, 1, Len(mem.stack) - n)

\* main(): getopt() moves the options it finds among the operands to the front (glibc)
OptionsEnd == LET at == {i \in DOMAIN job.args : job.args[i] = <<"-", "-">>} IN IF at = {} THEN Len(job.args) + 1 ELSE Min(at)
IsOption(w) == Len(w) > 1 /\ Head(w) = "-"
ExprStart ==
  /\ Running("expr") /\ mem = <<>>
  /\ UNCHANGED <<job, out>>
  /\ IF job.compat \/ \A i \in 1 .. (OptionsEnd - 1) : IsOption(job.args[i]) => \A n \in 2 .. Len(job.args[i]) : job.args[i][n] = "e"
     THEN /\ inp' = IF job.compat THEN job.args
                    ELSE SelectSeq(SubSeq(job.args, 1, OptionsEnd - 1), LAMBDA w : ~IsOption(w))
                         \o SubSeq(job.args, OptionsEnd + 1, Len(job.args))
          /\ mem' = [stack |-> <<>>]
          /\ UNCHANGED status
     ELSE Exit(2) /\ UNCHANGED <<inp, mem>>
\* yyparse(): reduce expr op expr unless the next operator binds closer, and ( expr )
\* A slip: operators of one level bind to the right.
RightReducible == (IsExpr(1) /\ Level(Above(2)) > 0 /\ Level(Above(2)) > Level(Lookahead.sym)) \/ Above(1) = <<")">>

Reducible == \/ IsExpr(1) /\ Level(Above(2)) > 0 /\ Level(Above(2)) >= Level(Lookahead.sym)
             \/ Above(1) = <<")">>
ExprReduce ==
  /\ Running("expr") /\ mem # <<>> /\ Reducible
  /\ UNCHANGED <<job, inp, out>>
  /\ IF Above(1) = <<")">>
     THEN mem' = [stack |-> Append(Beneath(3), mem.stack[Len(mem.stack) - 1])] /\ UNCHANGED status
     ELSE \E r \in {Operate(Above(2), mem.stack[Len(mem.stack) - 2].v, Last(mem.stack).v)} :
            IF r.fail = 0 THEN mem' = [stack |-> Append(Beneath(3), Expr(r.v))] /\ UNCHANGED status
            ELSE Exit(r.fail) /\ UNCHANGED mem
Fits(sym) == IF IsExpr(1) THEN Level(sym) > 0 \/ (sym = <<")">> /\ Above(2) = <<"(">>)
             ELSE sym \in {<<"TOKEN">>, <<"(">>}
ExprShift ==
  /\ Running("expr") /\ mem # <<>> /\ ~Reducible /\ Fits(Lookahead.sym)
  /\ mem' = [stack |-> Append(mem.stack, IF Lookahead.sym = <<"TOKEN">> THEN Expr(Lookahead.v) ELSE Lookahead)]
  /\ inp' = Tail(inp)
  /\ UNCHANGED <<job, out, status>>
\* main() prints the result; yyerror()
ExprEnd ==
  /\ Running("expr") /\ mem # <<>> /\ ~Reducible /\ ~Fits(Lookahead.sym)
  /\ UNCHANGED <<job, inp, mem>>
  /\ IF inp = <<>> /\ Len(mem.stack) = 1 /\ IsExpr(1)
     THEN Emit(<<AsString(Last(mem.stack).v).s>>) /\ Exit(IF ZeroOrNull(Last(mem.stack).v) THEN 1 ELSE 0)
     ELSE Exit(2) /\ UNCHANGED out

-----------------------------------------------------------------------------
(* test: mem: nargc and t_wp (n, p), parenlevel, the token k, the value v, *)
(* and whether error() was called                                          *)

UnOps == {"-r", "-w", "-x", "-e", "-f", "-d", "-c", "-b", "-p", "-u", "-g", "-k", "-s", "-t", "-z", "-n", "-h", "-O", "-G", "-L", "-S"}
BinOps == {"=", "==", "!=", "<", ">", "-eq", "-ne", "-ge", "-gt", "-le", "-lt", "-nt", "-ot", "-ef"}
Null == "NULL"
\* find_op()
Kind(w) == CASE w \in UnOps -> "UNOP" [] w \in BinOps -> "BINOP" [] w = "!" -> "UNOT" [] w = "-a" -> "BAND" [] w = "-o" -> "BOR"
             [] w = "(" -> "LPAREN" [] w = ")" -> "RPAREN" [] OTHER -> "OPERAND"
Words == IF job.bracket THEN Front(job.words) ELSE job.words
Word(p) == IF p \in DOMAIN Words THEN Words[p] ELSE Null
OnlyParenFollows(s) == s.n = 2 /\ s.lev = 1 /\ Word(s.p + 1) = ")"
IsUnopOperand(s) ==
  s.n = 1 \/ OnlyParenFollows(s) \/ (s.n > 2 /\ Kind(Word(s.p + 1)) = "BINOP" /\ (s.lev = 0 \/ Word(s.p + 2) # ")"))
IsLparenOperand(s) == s.n = 1 \/ OnlyParenFollows(s) \/ (s.n = 3 /\ Kind(Word(s.p + 1)) = "BINOP")
IsRparenOperand(s) == OnlyParenFollows(s)
\* t_lex()
Token(s, w) ==
  IF w = Null THEN "EOI"
  ELSE IF \/ Kind(w) \in {"UNOP", "UNOT"} /\ IsUnopOperand(s)
          \/ Kind(w) = "LPAREN" /\ IsLparenOperand(s)
          \/ Kind(w) = "RPAREN" /\ IsRparenOperand(s)
       THEN "OPERAND" ELSE Kind(w)
Step(s) == [s EXCEPT !.n = @ - 1, !.p = @ + 1]
Lex(s) == IF s.n = 0 THEN [s EXCEPT !.k = "EOI"] ELSE With(Step(s), LAMBDA t : [t EXCEPT !.k = Token(t, Word(t.p))])
Back(s) == [s EXCEPT !.n = @ + 1, !.p = @ - 1]
Is(s, b) == [s EXCEPT !.v = b]
Syntax(s) == [s EXCEPT !.err = TRUE]

\* strcmp() of the words in use, in the order of ASCII; strtoimax() of them, 9 being out of range
Ascii == <<"", " 1 ", "!", "(", ")", "-1", "-a", "-eq", "-f", "-n", "0", "01", "1", "2", "9", "=", "]", "a", "b">>
Place(w) == CHOOSE i \in DOMAIN Ascii : Ascii[i] = w
GetQ == "-1" :> -1 @@ "0" :> 0 @@ "01" :> 1 @@ "1" :> 1 @@ " 1 " :> 1 @@ "2" :> 2
\* stat(), lstat() and eaccess() of the files: [type, to, size, access, mode, uid, gid, mtime, ino]
StatOf(f) == IF job.fs[f].type = "l" THEN job.fs[job.fs[f].to] ELSE job.fs[f]
Found(f) == f \in DOMAIN job.fs /\ (job.fs[f].type = "l" => job.fs[f].to \in DOMAIN job.fs)
FilStat(op, f) ==
  IF op \in {"-h", "-L"} THEN f \in DOMAIN job.fs /\ job.fs[f].type = "l"
  ELSE /\ Found(f)
       /\ LET st == StatOf(f)
          IN  CASE op \in {"-r", "-w"} -> op \in st.access
                [] op = "-x" -> "-x" \in st.access /\ (st.type = "d" \/ ~job.root \/ "x" \in st.mode)
                [] op = "-f" -> st.type = "f"
                [] op \in {"-d", "-c", "-b", "-p", "-S"} -> "-" \o st.type = op
                [] op \in {"-u", "-g", "-k"} -> op \in st.mode
                [] op = "-s" -> st.size > 0
                [] op = "-O" -> st.uid = 0
                [] op = "-G" -> st.gid = 0
                [] OTHER -> TRUE
NewerF(f, g) == Found(f) /\ Found(g) /\ StatOf(f).mtime > StatOf(g).mtime
EqualF(f, g) == Found(f) /\ Found(g) /\ StatOf(f).ino = StatOf(g).ino
\* intcmp(), with getq() of both
IntCmp(s, op, a, b) ==
  IF ~({a, b} \subseteq DOMAIN GetQ) THEN Syntax(s)
  ELSE Is(s, CASE op = "-eq" -> GetQ[a] = GetQ[b]
               [] op = "-ne" -> GetQ[a] # GetQ[b]
               [] op = "-ge" -> GetQ[a] >= GetQ[b]
               [] op = "-gt" -> GetQ[a] > GetQ[b]
               [] op = "-le" -> GetQ[a] <= GetQ[b]
               [] op = "-lt" -> GetQ[a] < GetQ[b])
Compared(s, op, a, b) ==
  CASE op \in {"=", "=="} -> Is(s, a = b)
    [] op = "!=" -> Is(s, a # b)
    [] op = "<" -> Is(s, Place(a) < Place(b))
    [] op = ">" -> Is(s, Place(a) > Place(b))
    [] op \in {"-eq", "-ne", "-ge", "-gt", "-le", "-lt"} -> IntCmp(s, op, a, b)
    [] op = "-nt" -> Is(s, NewerF(a, b))
    [] op = "-ot" -> Is(s, NewerF(b, a))
    [] OTHER -> Is(s, EqualF(a, b))
BinOp(s) ==
  LET t == Step(s)
  IN  IF Word(t.p + 1) = Null THEN Syntax(s) ELSE Compared(Step(t), Word(t.p), Word(s.p), Word(t.p + 1))
UnOp(s) ==
  IF s.n = 1 THEN Syntax(s)
  ELSE LET t == Step(s)
           w == Word(t.p)
           op == Word(s.p)
       IN  CASE op = "-z" -> Is(t, w = "")
             [] op = "-n" -> Is(t, w # "")
             [] op = "-t" -> IF w \in DOMAIN GetQ THEN Is(t, GetQ[w] \in job.ttys) ELSE Syntax(t)
             [] OTHER -> Is(t, FilStat(op, w))
RECURSIVE OExpr(_)
Closed(s) == IF s.err THEN s ELSE With(Lex(s), LAMBDA t : IF t.k # "RPAREN" THEN Syntax(t) ELSE [t EXCEPT !.lev = @ - 1])
Primary(s) ==
  CASE s.k = "EOI" -> Is(s, FALSE)
    [] s.k = "LPAREN" -> With(Lex([s EXCEPT !.lev = @ + 1]), LAMBDA t :
                              IF t.k = "RPAREN" THEN Is([t EXCEPT !.lev = @ - 1], FALSE) ELSE Closed(OExpr(t)))
    [] s.k = "UNOP" -> UnOp(s)
    [] OTHER -> IF s.n > 0 /\ Token(s, Word(s.p + 1)) = "BINOP" THEN BinOp(s) ELSE Is(s, Word(s.p) # "")
RECURSIVE NExpr(_)
NExpr(s) == IF s.k = "UNOT" THEN With(NExpr(Lex(s)), LAMBDA r : Is(r, ~r.v)) ELSE Primary(s)
RECURSIVE AExpr(_)
AExpr(s) ==
  With(NExpr(s), LAMBDA r :
    IF r.err THEN r
    ELSE With(Lex(r), LAMBDA t : IF t.k = "BAND" THEN With(AExpr(Lex(t)), LAMBDA q : Is(q, q.v /\ r.v)) ELSE Back(t)))
OExpr(s) ==
  With(AExpr(s), LAMBDA r :
    IF r.err THEN r
    ELSE With(Lex(r), LAMBDA t : IF t.k = "BOR" THEN With(OExpr(Lex(t)), LAMBDA q : Is(q, q.v \/ r.v)) ELSE Back(t)))

\* main()
Begun(n, p) == With([n |-> n, p |-> p, lev |-> 0, k |-> "EOI", v |-> FALSE, err |-> FALSE], LAMBDA s : [s EXCEPT !.k = Token(s, Word(p))])
TestStart ==
  /\ Running("test") /\ mem = <<>>
  /\ UNCHANGED <<job, inp, out>>
  /\ IF job.bracket /\ (job.words = <<>> \/ Last(job.words) # "]") THEN Exit(2) /\ UNCHANGED mem
     ELSE IF Words = <<>> THEN Exit(1) /\ UNCHANGED mem
     ELSE /\ mem' = IF Len(Words) = 4 /\ Words[1] = "!" THEN With(OExpr(Begun(3, 2)), LAMBDA r : Is(r, ~r.v))
                    ELSE OExpr(Begun(Len(Words), 1))
          /\ UNCHANGED status
\* Words that are left are a syntax error
TestEnd ==
  /\ Running("test") /\ mem # <<>>
  /\ Exit(IF mem.err \/ mem.n > 1 THEN 2 ELSE IF mem.v THEN 0 ELSE 1)
  /\ UNCHANGED <<job, inp, mem, out>>

EvaluateStep == ExprStart \/ ExprReduce \/ ExprShift \/ ExprEnd \/ TestStart \/ TestEnd

-----------------------------------------------------------------------------
(* What the words of expr and of test mean, without the parsers of the     *)
(* program: expr by the precedence of its operators, over the integers;    *)
(* test by the number of its words, as POSIX.2 has it, or as the           *)
(* expression the words were written for (job.tree).                       *)

-----------------------------------------------------------------------------
(* expr: a value is a number [n] or a text [text]; Wrong is an error        *)

Num(n) == [n |-> n]
Text(s) == [text |-> s]
Wrong == [wrong |-> TRUE]
Has(v, f) == f \in DOMAIN v
\* A text that is a number, however large, and its value
NumberText(s) == LET digits == SelectSeq(s, LAMBDA c : c \in Range(Digits))
                     lead == SubSeq(s, 1, Len(s) - Len(digits))
                 IN  /\ s = lead \o digits
                     /\ lead \in {<<>>, <<"-">>} \cup (IF job.e THEN {<<" ">>, <<"+">>, <<" ", "-">>, <<" ", "+">>} ELSE {})
                     /\ digits # <<>> \/ (job.e /\ s = <<>>)
ValueOf(s) == FoldLeft(LAMBDA n, c : IF c \in Range(Digits) THEN 10 * n + SelectInSeq(Digits, LAMBDA d : d = c) - 1 ELSE n, 0, s)
              * (IF "-" \in Range(s) THEN -1 ELSE 1)
Numeric(v) == Has(v, "n") \/ NumberText(v.text)
Exact(v) == IF Has(v, "n") THEN v.n ELSE ValueOf(v.text)
Held(n) == n \in IntMin .. IntMax
TextOf(v) == IF Has(v, "text") THEN v.text ELSE (IF v.n < 0 THEN <<"-">> ELSE <<>>) \o <<Digits[Abs(v.n) + 1]>>
Bounded(n) == IF Held(n) THEN Num(n) ELSE Wrong
\* An operand that | or & looks at becomes a number if it is one (expr.1:82-93 leave open
\* whether 007 is then written as 7)
Looked(v) == IF Numeric(v) /\ Held(Exact(v)) /\ v # Text(<<>>) THEN Num(Exact(v)) ELSE v
Nothing(v) == Looked(v) \in {Num(0), Text(<<>>)}
Compares == {<<"=">>, <<">">>, <<"<">>, <<">", "=">>, <<"<", "=">>, <<"!", "=">>}
Tells(o, d) == CASE o = <<"=">> -> d = 0 [] o = <<">">> -> d > 0 [] o = <<"<">> -> d < 0
                 [] o = <<">", "=">> -> d >= 0 [] o = <<"<", "=">> -> d <= 0 [] OTHER -> d # 0
Bit(b) == Num(IF b THEN 1 ELSE 0)
\* Exception: "all conversions and operations are checked for overflow" (expr.1:65-67), but
\* op_rem() checks its second operand only (expr.y:515-516), and the processor traps on the
\* smallest number % -1. Nothing is claimed of an expression that comes to it.
Trap(o, a, b) == o = <<"%">> /\ Numeric(a) /\ Numeric(b) /\ Exact(a) = IntMin /\ Exact(b) = -1
\* The part of the text that the expression matches from its start on, or how long it is
Colon(s, re) ==
  IF ~Compiles(re) THEN Wrong
  ELSE LET matched == EndsAt(re, s, 1) # {}
       IN  IF "\\" \in Range(re) THEN Text(IF matched THEN Group(re, s) ELSE <<>>)
           ELSE Num(IF matched THEN Max(EndsAt(re, s, 1)) - 1 ELSE 0)
Quotient(x, y) == CHOOSE q \in IntMin .. IntMax + 1 : \E r \in IntMin .. IntMax : x = q * y + r /\ Abs(r) < Abs(y) /\ r * x >= 0
Applied(o, a, b) ==
  IF a = Wrong \/ b = Wrong THEN Wrong
  ELSE IF o = <<"|">> THEN IF ~Nothing(a) THEN Looked(a) ELSE IF ~Nothing(b) THEN Looked(b) ELSE Num(0)
  ELSE IF o = <<"&">> THEN IF Nothing(a) \/ Nothing(b) THEN Num(0) ELSE Looked(a)
  ELSE IF o = <<":">> THEN Colon(TextOf(a), TextOf(b))
  ELSE IF o \in Compares
       THEN IF Numeric(a) /\ Numeric(b)
            THEN IF Held(Exact(a)) /\ Held(Exact(b)) THEN Bit(Tells(o, Exact(a) - Exact(b))) ELSE Wrong
            ELSE Bit(Tells(o, Collate(TextOf(a), TextOf(b))))
  ELSE IF ~(Numeric(a) /\ Numeric(b)) THEN Wrong
  ELSE IF ~(Held(Exact(a)) /\ Held(Exact(b))) THEN Wrong
  ELSE CASE o = <<"+">> -> Bounded(Exact(a) + Exact(b))
         [] o = <<"-">> -> Bounded(Exact(a) - Exact(b))
         [] o = <<"*">> -> Bounded(Exact(a) * Exact(b))
         [] Exact(b) = 0 -> Wrong
         [] o = <<"/">> -> Bounded(Quotient(Exact(a), Exact(b)))
         [] OTHER -> Num(Exact(a) - Exact(b) * Quotient(Exact(a), Exact(b)))

\* The value of the words: what the loosest operator outside of brackets, the last of
\* several, makes of what is on its sides. [v, traps]
Nested(ws, k) == Cardinality({i \in 1 .. k : ws[i] = <<"(">>}) - Cardinality({i \in 1 .. k : ws[i] = <<")">>})
Outer(ws) == {k \in DOMAIN ws : Level(ws[k]) > 0 /\ Nested(ws, k) = 0}
Loosest(ws) == Max({k \in Outer(ws) : \A j \in Outer(ws) : Level(ws[j]) >= Level(ws[k])})
Leaf(v) == [v |-> v, traps |-> FALSE]
RECURSIVE Meaning(_)
Meaning(ws) ==
  IF ws = <<>> THEN Leaf(Wrong)
  ELSE IF Outer(ws) # {}
  THEN With(Loosest(ws), LAMBDA k : With(Meaning(SubSeq(ws, 1, k - 1)), LAMBDA l : With(Meaning(SubSeq(ws, k + 1, Len(ws))), LAMBDA r :
         [v |-> Applied(ws[k], l.v, r.v),
          traps |-> l.traps \/ r.traps \/ (Wrong \notin {l.v, r.v} /\ Trap(ws[k], l.v, r.v))])))
  ELSE IF Len(ws) = 1 THEN Leaf(IF ws[1] \in Bracket THEN Wrong ELSE Text(ws[1]))
  ELSE IF ws[1] = <<"(">> /\ Last(ws) = <<")">> THEN Meaning(Tail(Front(ws)))
  ELSE Leaf(Wrong)
\* The leading arguments that begin with a minus sign are options, up to -- (expr.1:146-151)
Dashed(w) == Len(w) > 1 /\ w[1] = "-"
Options == IF job.compat THEN 0
           ELSE Min({i \in 0 .. Len(job.args) : i = Len(job.args) \/ ~Dashed(job.args[i + 1]) \/ job.args[i + 1] = <<"-", "-">>})
Behind == SubSeq(job.args, Options + 1, Len(job.args))
Divided == ~job.compat /\ Behind # <<>> /\ Behind[1] = <<"-", "-">>
Operands == IF Divided THEN Tail(Behind) ELSE Behind
BadOption == \E i \in 1 .. Options : ToSet(Tail(job.args[i])) # {"e"}
\* Exception: getopt() permutes the arguments (expr.y:277), so that without a leading -- an
\* argument behind others is an option too, as in `expr 1 + -1', which expr.1:217-223 recommends
\* against a leading one. Nothing is claimed of such arguments.
Permuted == ~job.compat /\ ~Divided /\ \E i \in DOMAIN Behind : Dashed(Behind[i])

\* expr prints the value of its operands and says whether it is null or zero; without one,
\* or when a number or a result does not fit, it ends with 2 and prints no value (the message
\* goes to the standard error, not to "stdout", expr.1:67-68).
ExprRight ==
  Permuted \/ With(Meaning(Operands), LAMBDA m :   \* but where it is Permuted or traps
    IF BadOption THEN status = 2 /\ out = <<>>
    ELSE \/ m.traps
         \/ m.v = Wrong /\ status = 2 /\ out = <<>>
         \/ m.v # Wrong /\ out = <<TextOf(m.v)>> /\ status = IF Nothing(m.v) THEN 1 ELSE 0)

-----------------------------------------------------------------------------
(* test: a truth value, 2 for a syntax error, or nothing said      *)

Free == 3
Says(b) == IF b THEN 0 ELSE 1
Denied(t) == IF t \in {0, 1} THEN 1 - t ELSE t
File(f) == IF Found(f) THEN StatOf(f) ELSE [type |-> ""]
Exists(f, P(_)) == Says(Found(f) /\ P(File(f)))
Unary(op, w) ==
  CASE op = "-n" -> Says(w # "")
    [] op = "-z" -> Says(w = "")
    [] op \in {"-h", "-L"} -> Says(w \in DOMAIN job.fs /\ job.fs[w].type = "l")
    [] op = "-t" -> IF w \in DOMAIN GetQ THEN Says(GetQ[w] \in job.ttys) ELSE 2
    [] op \in {"-r", "-w"} -> Exists(w, LAMBDA f : op \in f.access)
    [] op = "-x" -> Exists(w, LAMBDA f : "-x" \in f.access /\ (job.root => f.type = "d" \/ "x" \in f.mode))
    [] op \in {"-u", "-g", "-k"} -> Exists(w, LAMBDA f : op \in f.mode)
    [] op = "-s" -> Exists(w, LAMBDA f : f.size # 0)
    [] op = "-e" -> Exists(w, LAMBDA f : TRUE)
    [] op = "-O" -> Exists(w, LAMBDA f : f.uid = 0)
    [] op = "-G" -> Exists(w, LAMBDA f : f.gid = 0)
    [] OTHER -> Exists(w, LAMBDA f : op = "-" \o f.type)
Orders == "-eq" :> {0} @@ "-ne" :> {-1, 1} @@ "-lt" :> {-1} @@ "-le" :> {-1, 0} @@ "-gt" :> {1} @@ "-ge" :> {0, 1}
          @@ "=" :> {0} @@ "==" :> {0} @@ "!=" :> {-1, 1} @@ "<" :> {-1} @@ ">" :> {1}
Sign(n) == IF n < 0 THEN -1 ELSE IF n > 0 THEN 1 ELSE 0
Binary(a, op, b) ==
  CASE op \in {"-eq", "-ne", "-lt", "-le", "-gt", "-ge"} ->
         IF {a, b} \subseteq DOMAIN GetQ THEN Says(Sign(GetQ[a] - GetQ[b]) \in Orders[op]) ELSE 2
    [] op \in {"=", "==", "!=", "<", ">"} -> Says(Sign(Place(a) - Place(b)) \in Orders[op])
    [] op = "-ef" -> Says(Found(a) /\ Found(b) /\ File(a).ino = File(b).ino)
    [] OTHER -> Says(Found(a) /\ Found(b) /\ Sign(File(a).mtime - File(b).mtime) = IF op = "-nt" THEN 1 ELSE -1)
\* What the words mean by their number
One(a) == Says(a # "")
Two(a, b) == IF a = "!" THEN Denied(One(b)) ELSE IF a \in UnOps THEN Unary(a, b) ELSE Free
Three(a, b, c) == IF b \in BinOps THEN Binary(a, b, c) ELSE IF a = "!" THEN Denied(Two(b, c))
                  ELSE IF a = "(" /\ c = ")" THEN One(b)
                  ELSE IF a \in UnOps \cup {"("} THEN Free
                  ELSE IF b = "-a" THEN Says(a # "" /\ c # "") ELSE IF b = "-o" THEN Says(a # "" \/ c # "") ELSE Free
Four(a, b, c, d) == IF a = "!" THEN Denied(Three(b, c, d)) ELSE IF a = "(" /\ d = ")" THEN Two(b, c) ELSE Free
RECURSIVE True(_)
True(t) ==
  CASE t.op = "word" -> One(t.w) = 0
    [] t.op = "un" -> Unary(t.u, t.w) = 0
    [] t.op = "bin" -> Binary(t.a, t.b, t.w) = 0
    [] t.op = "not" -> ~True(t.l)
    [] t.op = "paren" -> True(t.l)
    [] t.op = "and" -> True(t.l) /\ True(t.r)
    [] OTHER -> True(t.l) \/ True(t.r)
ByNumber(ws) == CASE Len(ws) = 0 -> 1
                  [] Len(ws) = 1 -> One(ws[1])
                  [] Len(ws) = 2 -> Two(ws[1], ws[2])
                  [] Len(ws) = 3 -> Three(ws[1], ws[2], ws[3])
                  [] Len(ws) = 4 -> Four(ws[1], ws[2], ws[3], ws[4])
                  [] OTHER -> Free
TestRight ==
  IF job.bracket /\ (job.words = <<>> \/ Last(job.words) # "]") THEN status = 2
  ELSE With(ByNumber(Words), LAMBDA t :
         /\ t # Free => status = t
         /\ (t = Free /\ job.tree.op # "none") => status = Says(True(job.tree)))

\* expr prints the value of the expression in integers without a limit, or finds that it
\* does not fit, and test finds what POSIX.2 says the words are: whatever the order is in
\* which the parsers reduce, convert their operands and look ahead.
Evaluated == status # -1 => (job.tool = "expr" => ExprRight) /\ (job.tool = "test" => TestRight)
=============================================================================
