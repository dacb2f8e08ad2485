----------------------------- MODULE BcCompiler -----------------------------
(***************************************************************************)
(* bc(1): the translation of a bc program into commands of dc, as done by  *)
(* the actions of the grammar in bc/bc.y.                                  *)
(*                                                                         *)
(* Expressions: <<"num", int, frac>>, <<"var", x>> (x may be "scale" and   *)
(* the like), <<"idx", a, e>>, <<"neg", e>>, <<"bin", op, e, f>>,          *)
(* <<"rel", op, e, f>>, <<"not", e>>, <<"and", e, f>>, <<"or", e, f>>,     *)
(* <<"set", lvalue, op, e>> (op "" for plain assignment),                  *)
(* <<"step", where, op, lvalue>> (++ and --, where is "pre" or "post"),    *)
(* <<"fn", op, e>>, <<"call", f, args>>.                                   *)
(* Statements: <<"expr", e>>, <<"assign", lvalue, op, e>>, <<"string", s>>,*)
(* <<"print", e>>, <<"break">>, <<"continue">>, <<"return", e>>,           *)
(* <<"if", e, s>>, <<"ifelse", e, s, t>>, <<"while", e, s>>,               *)
(* <<"for", e, e, e, s>>, <<"block", statements>>.                         *)
(*                                                                         *)
(* The state of the translation: `macros' is the text printed before the   *)
(* input item's own code, mc counts macro_char, nest is `nesting', brk the *)
(* breakstack, cont is st_has_continue, pro and epi the prologue and       *)
(* epilogue of the current function, err says that the item was refused    *)
(* (YYERROR). Expr compiles an expression and Stmt a statement; both yield       *)
(* [c |-> code, g |-> the state after it].                                 *)
(***************************************************************************)
EXTENDS Integers, SequencesExt

CONSTANT MacroNames         \* str_table['0'], str_table['1'], ...

Fresh == [macros |-> <<>>, mc |-> 1, reset |-> 1, nest |-> 0, brk |-> <<>>,
          cont |-> FALSE, pro |-> <<>>, epi |-> <<>>, err |-> FALSE]

Digit(d) == <<"num", <<d>>, <<>>>>      \* numnode(): one digit, in any input base
Macro(g) == MacroNames[g.mc]
Special == {"scale", "ibase", "obase"}
LoadOp == [scale |-> "K", ibase |-> "I", obase |-> "O"]
StoreOp == [scale |-> "k", ibase |-> "i", obase |-> "o"]

\* alloc_macro, without and with the pop_nesting that follows it at once
Alloc(g) == [g EXCEPT !.mc = @ + 1, !.nest = @ + 1, !.brk = Append(@, g.nest)]
PopNesting(g) == [g EXCEPT !.brk = SubSeq(@, 1, Len(@) - 1)]
\* Mutant: an if or an operand counts as a loop
KeepNesting(g) == Alloc(g)
AllocPop(g) == PopNesting(Alloc(g))

\* emit_macro()
EmitMacro(g, r, code) ==
  [g EXCEPT !.macros = @ \o <<<<"[", code>>, <<"s", r>>, <<" ">>>>, !.nest = @ - 1]

\* A result followed or preceded by code, and two results.
Ext(x, code) == [x EXCEPT !.c = @ \o code]
Pre(code, x) == [x EXCEPT !.c = code \o @]
Chain(x, y) == [y EXCEPT !.c = x.c \o @]
Code(code, g) == [c |-> code, g |-> g]

RECURSIVE Expr(_, _), Args(_, _)

\* Two expressions one after the other
Then(x, f) == Chain(x, Expr(f, x.g))
Both(e, f, g) == Then(Expr(e, g), f)

Arg(a, g) == IF a[1] = "array" THEN Code(<<<<"l", a[2]>>>>, g) ELSE Expr(a, g)
ArgThen(x, as) == Chain(x, Args(as, x.g))
Args(as, g) == IF as = <<>> THEN Code(<<>>, g) ELSE ArgThen(Arg(as[1], g), Tail(as))

\* && and ||: the right operand becomes a macro that drops the left one.
Dropping(x, rel, y) ==
  Code(x.c \o <<<<"d">>, Digit(0), <<"cmp", rel, Macro(x.g)>>>>,
       EmitMacro(y.g, Macro(x.g), <<<<"R">>>> \o y.c))
LogicMacro(x, rel, f) == Dropping(x, rel, Expr(f, AllocPop(x.g)))

\* named_expression: the code of the index is part of both.
Access(lv, simple, op, g) ==
  IF lv[1] = "idx" THEN Ext(Expr(lv[3], g), <<<<op, lv[2]>>>>)
  ELSE IF lv[2] \in Special
  THEN Code(<<<<IF simple = "l" THEN LoadOp[lv[2]] ELSE StoreOp[lv[2]]>>>>, g)
  ELSE Code(<<<<simple, lv[2]>>>>, g)
LoadOf(lv, g) == Access(lv, "l", ";", g)
StoreOf(lv, g) == Access(lv, "s", ":", g)

\* An assignment; dup is the "d" of an assignment used as a value.
Assign(lv, op, e, dup, g) ==
  Ext(IF op = "" THEN Expr(e, LoadOf(lv, g).g) ELSE Ext(Then(LoadOf(lv, g), e), <<<<op>>>>),
      dup \o StoreOf(lv, g).c)

\* A comparison as a value: the operator, and whether the operands change places.
DcValue == [x \in {"==", "!=", "<", "<=", ">", ">="} |->
             CASE x = "==" -> <<<<"G">>>> [] x = "!=" -> <<<<"G">>, <<"N">>>>
               [] x \in {"<", ">"} -> <<<<"(">>>> [] x \in {"<=", ">="} -> <<<<"{">>>>]
Turned == {"<", "<="}

Expr(e, g) ==
  CASE e[1] = "num" -> Code(<<e>>, g)
    [] e[1] \in {"var", "idx"} -> LoadOf(e, g)
    [] e[1] = "neg" -> Pre(<<Digit(0)>>, Ext(Expr(e[2], g), <<<<"-">>>>))
    [] e[1] = "bin" -> Ext(Both(e[3], e[4], g), <<<<e[2]>>>>)
    [] e[1] = "rel" -> Ext(IF e[2] \in Turned THEN Both(e[4], e[3], g) ELSE Both(e[3], e[4], g),
                           DcValue[e[2]])
    [] e[1] = "not" -> Ext(Expr(e[2], g), <<<<"N">>>>)
    [] e[1] = "and" -> LogicMacro(Expr(e[2], g), "!=", e[3])
    [] e[1] = "or" -> LogicMacro(Expr(e[2], g), "=", e[3])
    [] e[1] = "set" -> Assign(e[2], e[3], e[4], <<<<"d">>>>, g)
    [] e[1] = "step" -> Ext(LoadOf(e[4], g),
                            (IF e[2] = "pre" THEN <<Digit(1), <<e[3]>>, <<"d">>>>
                             ELSE <<<<"d">>, Digit(1), <<e[3]>>>>) \o StoreOf(e[4], g).c)
    [] e[1] = "fn" -> Ext(Expr(e[3], g), <<<<e[2]>>>>)
    [] e[1] = "call" -> Ext(Args(e[3], g), <<<<"l", e[2]>>, <<"x">>>>)

\* relational_expression: the comparison is completed by the register that follows.
DcRel == [x \in {"==", "!=", "<", "<=", ">", ">="} |->
            CASE x = "==" -> "=" [] x = "!=" -> "!=" [] x = "<" -> ">"
              [] x = "<=" -> "!<" [] x = ">" -> "<" [] x = ">=" -> "!>"]
Comparing(x, op) == [c |-> x.c, g |-> x.g, op |-> op]
Cond(e, g) ==
  CASE e = <<>> -> Comparing(Code(<<Digit(0), Digit(0)>>, g), "=")
    [] e # <<>> /\ e[1] = "rel" -> Comparing(Both(e[3], e[4], g), DcRel[e[2]])
    [] OTHER -> Comparing(Ext(Expr(e, g), <<Digit(0)>>), "!=")
Branch(k, regs) == k.c \o <<<<"cmp", k.op>> \o regs>>
OptE(e, g) == IF e = <<>> THEN Code(<<Digit(0)>>, g) ELSE Expr(e, g)

RECURSIVE Stmt(_, _)

Discard == <<"s", ".">>
Gap == <<<<" ">>>>          \* keeps `nesting' true: no tail call here
Refuse(g) == Code(<<>>, [g EXCEPT !.err = TRUE])
BreakLevel(g) == g.nest - g.brk[Len(g.brk)]

Return(x, g) == Code(x.c \o g.epi \o <<Digit(g.nest), <<"Q">>>>,
                     [x.g EXCEPT !.err = (g.nest = 0)])

\* A statement whose body x has become the macro r, unless it was refused
Emitted(code, x, r, body, g) ==
  IF x.g.err THEN x ELSE Code(code \o Gap, EmitMacro(g, r, body))

\* IF: k is the condition
IfBody(k, x, r) == Emitted(Branch(k, <<r>>), x, r, x.c, x.g)
IfThen(k, s, r) == IfBody(k, Stmt(s, k.g), r)

\* IF with ELSE: both macros are emitted when both are read
ElseBody(k, x, y, r, q) ==
  IF y.g.err THEN y ELSE Emitted(Branch(k, <<r, q>>), y, q, y.c, EmitMacro(y.g, r, x.c))
ElsePart(k, x, t, r) ==
  IF x.g.err THEN x ELSE ElseBody(k, x, Stmt(t, AllocPop(x.g)), r, Macro(x.g))
IfElse(k, s, t, r) == ElsePart(k, Stmt(s, k.g), t, r)

\* WHILE and FOR: the macro is the body, the mark of continue, the step, and
\* the condition that runs it again.
\* Mutant: continue passes over the step
MarkLast(x, step) == x.c \o step \o (IF x.g.cont THEN <<<<"M">>>> ELSE <<>>)
Repeated(x, step) == x.c \o (IF x.g.cont THEN <<<<"M">>>> ELSE <<>>) \o step
LoopBody(start, k, x, step, r) ==
  Emitted(start \o Branch(k, <<r>>), x, r,
          Repeated(x, step) \o Branch(k, <<r>>),
          PopNesting(x.g))
WhileLoop(k, s, r) == LoopBody(<<>>, k, Stmt(s, k.g), <<>>, r)
ForStep(i, k, u, s, r) == LoopBody(i.c \o <<Discard>>, k, Stmt(s, u.g), u.c \o <<Discard>>, r)
ForCond(i, k, u, s, r) == ForStep(i, k, OptE(u, k.g), s, r)
ForLoop(i, e, u, s, r) == ForCond(i, Cond(e, i.g), u, s, r)

NextStmt(x, t) == IF x.g.err THEN x ELSE Chain(x, Stmt(t, x.g))

Sequence(ss, g) == FoldLeft(NextStmt, Code(<<>>, g), ss)

\* statement
Stmt(s, g) ==
  CASE s[1] = "expr" -> Ext(Expr(s[2], g), <<<<"p">>, Discard>>)
    [] s[1] = "assign" -> Assign(s[2], s[3], s[4], <<>>, g)
    [] s[1] = "string" -> Code(<<<<"[", s[2]>>, <<"P">>>>, g)
    [] s[1] = "print" -> Ext(Expr(s[2], g), <<<<"d">>, Discard, <<"n">>>>)
    [] s[1] = "break" -> IF g.brk = <<>> THEN Refuse(g)
                         ELSE Code(<<Digit(BreakLevel(g)), <<"Q">>>>, g)
    [] s[1] = "continue" -> IF g.brk = <<>> THEN Refuse(g)
                            ELSE Code(<<Digit(BreakLevel(g) - 1), <<"J">>>>, [g EXCEPT !.cont = TRUE])
    [] s[1] = "return" -> Return(OptE(s[2], g), g)
    [] s[1] = "if" -> IfThen(Cond(s[2], AllocPop(g)), s[3], Macro(g))
    [] s[1] = "ifelse" -> IfElse(Cond(s[2], AllocPop(g)), s[3], s[4], Macro(g))
    [] s[1] = "while" -> WhileLoop(Cond(s[2], Alloc(g)), s[3], Macro(g))
    [] s[1] = "for" -> ForLoop(OptE(s[2], Alloc(g)), s[3], s[4], s[5], Macro(g))
    [] s[1] = "block" -> Sequence(s[2], g)

\* add_par(), add_local(): registers are stacks, a call pushes on them.
Prologue(locals) ==
  LET pro[i \in 0 .. Len(locals)] ==
        IF i = 0 THEN <<>>
        ELSE (IF locals[i][1] = "par" THEN <<>> ELSE <<Digit(0)>>)
             \o <<<<"S", locals[i][2]>>>> \o pro[i - 1]
  IN  pro[Len(locals)]
\* Mutant: the epilogue leaves the parameters
AutosOnly(locals) ==
  LET epi[i \in 0 .. Len(locals)] ==
        IF i = 0 THEN <<>>
        ELSE epi[i - 1] \o (IF locals[i][1] = "par" THEN <<>> ELSE <<<<"L", locals[i][2]>>, Discard>>)
  IN  epi[Len(locals)]
Epilogue(locals) ==
  LET epi[i \in 0 .. Len(locals)] ==
        IF i = 0 THEN <<>> ELSE epi[i - 1] \o <<<<"L", locals[i][2]>>, Discard>>
  IN  epi[Len(locals)]

\* input_item: <<"define", f, locals, statements>> (locals are <<"par", x>>
\* and <<"auto", x>>), <<"line", statements>> or <<"quit">>. What it prints goes
\* to dc.
DefineEnd(f, x) ==
  IF x.g.err THEN Code(<<>>, x.g)
  ELSE Code(Gap, [EmitMacro(x.g, f, x.g.pro \o x.c \o x.g.epi
                                    \o <<Digit(0), Digit(x.g.nest), <<"Q">>>>)
                  EXCEPT !.reset = x.g.mc, !.nest = 0, !.brk = <<>>, !.cont = FALSE])
Define(item, g) ==
  DefineEnd(item[2], Sequence(item[4], [g EXCEPT !.nest = 1, !.brk = <<>>,
                                              !.pro = Prologue(item[3]), !.epi = Epilogue(item[3])]))

LineEnd(x) == IF x.g.err THEN Code(<<>>, x.g)
              ELSE Code(x.c \o Gap, [x.g EXCEPT !.mc = x.g.reset, !.cont = FALSE])
Line(item, g) == LineEnd(Sequence(item[2], g))

\* What the item prints, and what is left of the state: [c, g]
Printed(x) == Code(x.g.macros \o x.c, [x.g EXCEPT !.macros = <<>>, !.err = FALSE])
InputItem(item, g) == Printed(IF item[1] = "define" THEN Define(item, g) ELSE Line(item, g))

\* program: what is printed for each input item in turn. QUIT, which the end of
\* the input is as well, prints q and ends it.
RECURSIVE Translate(_, _)
Onward(x, items) == <<x.c>> \o Translate(items, x.g)
Translate(items, g) ==
  IF items = <<>> \/ items[1][1] = "quit" THEN <<<<<<"q">>>>>>
  ELSE Onward(InputItem(items[1], g), Tail(items))
=============================================================================
