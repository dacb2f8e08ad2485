------------------------------- MODULE MCBcDc -------------------------------
(***************************************************************************)
(* Small bc programs: every statement of a grammar of control flow at the  *)
(* top level and inside a function, expressions, the arithmetic at several *)
(* scales, arrays, recursion, refused lines; and dc programs for commands  *)
(* bc does not use.                                                        *)
(***************************************************************************)
EXTENDS BcDc

MCMacros == <<"m1", "m2", "m3", "m4", "m5", "m6", "m7", "m8", "m9">>
MCVariables == {"i", "x", "p", "."}
MCArrays == {"a[]", "b[]"}
MCFunctions == {"f()", "g()"}
MCRegisters == MCVariables \cup MCArrays \cup MCFunctions \cup {MCMacros[k] : k \in DOMAIN MCMacros}
MCFuel == 40
MCMaxIndex == 4

Nm(k) == <<"num", <<k>>, <<>>>>
Vr(x) == <<"var", x>>
VI == Vr("i")
VX == Vr("x")
VP == Vr("p")
Show(e) == <<"expr", e>>
Bump(x) == <<"assign", Vr(x), "+", Nm(1)>>
Lt(e, k) == <<"rel", "<", e, Nm(k)>>
PostInc(x) == <<"step", "post", "+", Vr(x)>>
Break == <<"break">>
Continue == <<"continue">>
Ret(e) == <<"return", e>>
While(e, s) == <<"while", e, s>>
For(i, c, u, s) == <<"for", i, c, u, s>>
If(c, s) == <<"if", c, s>>
Block(ss) == <<"block", ss>>
ZeroI == <<"set", VI, "", Nm(0)>>
IncI == <<"step", "pre", "+", VI>>

\* How deep the levels of a program's text are, calls included.
RECURSIVE DeepE(_, _), DeepS(_, _)
Highest(S) == CHOOSE k \in S \cup {0} : \A j \in S : j <= k
DeepE(e, f) ==
  IF e = <<>> THEN 0
  ELSE CASE e[1] \in {"num", "var", "array"} -> 0
    [] e[1] = "idx" -> DeepE(e[3], f)
    [] e[1] \in {"neg", "not"} -> DeepE(e[2], f)
    [] e[1] \in {"bin", "rel"} -> Highest({DeepE(e[3], f), DeepE(e[4], f)})
    [] e[1] \in {"and", "or"} -> Highest({DeepE(e[2], f), 1 + DeepE(e[3], f)})
    [] e[1] = "set" -> Highest({DeepE(e[2], f), DeepE(e[4], f)})
    [] e[1] = "step" -> DeepE(e[4], f)
    [] e[1] = "fn" -> DeepE(e[3], f)
    [] e[1] = "call" -> Highest({1 + f} \cup {DeepE(e[3][i], f) : i \in DOMAIN e[3]})
DeepS(s, f) ==
  CASE s[1] \in {"expr", "print", "return"} -> DeepE(s[2], f)
    [] s[1] = "assign" -> Highest({DeepE(s[2], f), DeepE(s[4], f)})
    [] s[1] \in {"string", "break", "continue"} -> 0
    [] s[1] = "if" -> Highest({DeepE(s[2], f), 1 + DeepS(s[3], f)})
    [] s[1] = "ifelse" -> Highest({DeepE(s[2], f), 1 + DeepS(s[3], f), 1 + DeepS(s[4], f)})
    [] s[1] = "while" -> 1 + Highest({DeepE(s[2], f), DeepS(s[3], f)})
    [] s[1] = "for" -> Highest({DeepE(s[2], f)})
                       + 1 + Highest({DeepE(s[3], f), DeepE(s[4], f), DeepS(s[5], f)})
    [] s[1] = "block" -> Highest({DeepS(s[2][i], f) : i \in DOMAIN s[2]})
Deepest(ss, f) == Highest({DeepS(ss[i], f) : i \in DOMAIN ss})

\* A jump out of an else part, whose count of levels bc gets wrong.
RECURSIVE JumpsIn(_, _), ElseJump(_)
JumpsIn(s, loop) ==
  CASE s[1] \in {"break", "continue"} -> ~loop
    [] s[1] = "return" -> TRUE
    [] s[1] = "if" -> JumpsIn(s[3], loop)
    [] s[1] = "ifelse" -> JumpsIn(s[3], loop) \/ JumpsIn(s[4], loop)
    [] s[1] = "while" -> JumpsIn(s[3], TRUE)
    [] s[1] = "for" -> JumpsIn(s[5], TRUE)
    [] s[1] = "block" -> \E i \in DOMAIN s[2] : JumpsIn(s[2][i], loop)
    [] OTHER -> FALSE
ElseJump(s) ==
  CASE s[1] = "ifelse" -> JumpsIn(s[4], FALSE) \/ ElseJump(s[3]) \/ ElseJump(s[4])
    [] s[1] = "if" -> ElseJump(s[3])
    [] s[1] = "while" -> ElseJump(s[3])
    [] s[1] = "for" -> ElseJump(s[5])
    [] s[1] = "block" -> \E i \in DOMAIN s[2] : ElseJump(s[2][i])
    [] OTHER -> FALSE
Body(item) == IF item[1] = "define" THEN item[4] ELSE IF item[1] = "line" THEN item[2] ELSE <<>>
HasElseJump(prog) == \E i \in DOMAIN prog : \E k \in DOMAIN Body(prog[i]) : ElseJump(Body(prog[i])[k])

FunDepth(prog) == Highest({Deepest(prog[i][4], 0) : i \in {j \in DOMAIN prog : prog[j][1] = "define"}})
Depth(prog) == Highest({Deepest(Body(prog[i]), FunDepth(prog)) : i \in DOMAIN prog})

Job(prog, deep) ==
  LET m == Meaning(prog, MCVariables, MCArrays, MCFuel)
  IN  [tool |-> "bc", items |-> prog, code |-> <<>>, prints |-> m.out, depth |-> deep,
       sound |-> ~HasElseJump(prog), plain |-> m.plain, ends |-> ~HasElseJump(prog)]
Program(prog) == Job(prog, Depth(prog))

-----------------------------------------------------------------------------
(* Control flow                                                            *)

Simple == {Show(VX), Break, Continue, Bump("x")}
Conds == {<<"rel", "==", VI, Nm(1)>>, <<"and", VI, VX>>}
Ifs(c, S) == {If(c, s) : s \in S}
IfElses(c, S, T) == {<<"ifelse", c, s, t>> : s \in S, t \in T}
Blocks(S, T) == {Block(<<s, t>>) : s \in S, t \in T}
Body1 == Simple \cup UNION {Ifs(c, Simple) \cup IfElses(c, Simple, {Show(VI), Bump("x")}) : c \in Conds}
         \cup Blocks(Simple, Simple)
Body2 == UNION {Ifs(c, Body1) : c \in Conds}
         \cup IfElses(VX, Simple, Body1) \cup Blocks(Ifs(VX, Simple), Simple)
         \cup {While(Lt(PostInc("x"), 2), s) : s \in Body1}
         \cup {For(<<>>, Lt(VX, 2), PostInc("x"), s) : s \in Body1}
         \cup {For(<<>>, <<>>, <<>>, Block(<<If(s, Break), Bump("x")>>)) : s \in {VX, <<"not", Lt(VX, 2)>>}}

LoopPrograms == {<<<<"line", <<For(ZeroI, Lt(VI, 2), IncI, Block(<<s, Show(VI)>>)), Show(VX)>>>>>> :
                   s \in Body2}

FunSimple == {Show(VP), Ret(VP), Break, Ret(<<>>)}
FunBody1 == UNION {Ifs(Lt(VP, 2), FunSimple) \cup IfElses(Lt(VP, 2), FunSimple, {Show(VX)})}
            \cup Blocks({If(VP, Ret(<<"bin", "*", VP, Nm(3)>>))}, FunSimple)
FunBody2 == {For(ZeroI, Lt(VI, 2), IncI, Block(<<s, Bump("x")>>)) : s \in FunBody1}
            \cup {While(Lt(PostInc("i"), 2), Block(<<s, If(VX, Continue), t>>)) :
                    s \in FunBody1, t \in {Bump("x"), Break}}
            \cup {If(<<"or", VX, VP>>, s) : s \in {t \in FunBody1 : ~Refused(t, FALSE, TRUE)}}
Locals == <<<<"par", "p">>, <<"auto", "x">>>>
CallF(e) == <<"call", "f()", <<e>>>>
FunPrograms == {<<<<"define", "f()", Locals, <<s, Ret(<<"bin", "+", VP, VX>>)>>>>,
                  <<"line", <<Show(<<"bin", "+", CallF(VI), CallF(Nm(2))>>), Show(VP)>>>>>> : s \in FunBody2}

\* Calls within calls, recursion, arrays by name and by value.
FactF == <<"define", "f()", <<<<"par", "p">>>>,
           <<If(Lt(VP, 2), Ret(Nm(1))), Ret(<<"bin", "*", VP, CallF(<<"bin", "-", VP, Nm(1)>>)>>)>>>>
SumG == <<"define", "g()", <<<<"par", "p">>, <<"par", "b[]">>, <<"auto", "i">>>>,
          <<<<"assign", <<"idx", "b[]", Nm(0)>>, "", Nm(7)>>,
            <<"assign", <<"idx", "b[]", VP>>, "+", Nm(1)>>,
            Ret(<<"bin", "+", <<"idx", "b[]", Nm(1)>>, <<"idx", "b[]", VI>>>>)>>>>
AutoG == <<"define", "g()", <<<<"par", "p">>, <<"auto", "a[]">>>>,
           <<<<"assign", <<"idx", "a[]", Nm(1)>>, "", VP>>, Ret(<<"idx", "a[]", Nm(1)>>)>>>>
CallG(as) == <<"call", "g()", as>>
SetA(k, e) == <<"assign", <<"idx", "a[]", k>>, "", e>>
ArrayLines == <<"line", <<SetA(Nm(1), Nm(5)), Show(CallG(<<Nm(1), <<"array", "a[]">>>>)),
                          Show(<<"idx", "a[]", Nm(1)>>), Show(<<"idx", "a[]", Nm(0)>>),
                          Show(<<"set", <<"idx", "a[]", <<"step", "pre", "+", VX>>>>, "", Nm(3)>>),
                          Show(<<"idx", "a[]", VX>>)>>>>
AutoLines == <<"line", <<SetA(Nm(1), Nm(5)), Show(CallG(<<Nm(2)>>)), Show(<<"idx", "a[]", Nm(1)>>)>>>>
OtherPrograms ==
  {Job(<<FactF, <<"line", <<Show(CallF(Nm(k)))>>>>>>, IF k < 2 THEN 2 ELSE k + 1) : k \in 0 .. 4}
  \cup {Program(<<SumG, ArrayLines>>), Program(<<AutoG, AutoLines>>)}

\* A refused line leaves `nesting' and the breakstack as they were when it was
\* refused; later lines mean what they mean all the same.
Refusals == {<<"line", <<Break>>>>, <<"line", <<If(Nm(1), Break)>>>>,
             <<"line", <<Ret(VI)>>>>, <<"line", <<Show(Nm(8)), Continue>>>>}
Later == {<<"line", <<While(Lt(PostInc("x"), 3), Block(<<If(Lt(VX, 2), Continue), Show(VX), Break>>))>>>>,
          <<"quit">>,
          <<"define", "f()", Locals, <<For(<<>>, <<>>, <<>>, If(Lt(VP, 3), Ret(VP)))>>>>}
RefusedPrograms == {<<r, l, <<"line", <<Show(IF l[1] = "define" THEN CallF(Nm(2)) ELSE VX)>>>>>> :
                      r \in Refusals, l \in Later}

-----------------------------------------------------------------------------
(* Expressions                                                             *)

Leaves == {Nm(0), Nm(2), PostInc("x"), <<"step", "pre", "-", VX>>, <<"set", VX, "+", Nm(1)>>}
Ops(S, T) == {<<"bin", o, s, t>> : o \in {"+", "-", "*", "/", "%", "^"}, s \in S, t \in T}
             \cup {<<"rel", o, s, t>> : o \in {"==", "!=", "<", "<=", ">", ">="}, s \in S, t \in T}
             \cup {<<o, s, t>> : o \in {"and", "or"}, s \in S, t \in T}
             \cup {<<o, s>> : o \in {"not", "neg"}, s \in S}
Expressions == Ops(Leaves, {Nm(0), Nm(2)}) \cup Ops({Nm(2), Nm(0)}, Leaves)
               \cup {<<o, e, f>> : o \in {"and", "or"},
                                   e \in Ops({PostInc("x")}, {Nm(0)}) , f \in Ops({Nm(2)}, {VX})}
               \cup {<<"and", Nm(2), <<"or", e, <<"and", PostInc("x"), Nm(2)>>>>>> : e \in {Nm(0), Nm(2)}}
ExprPrograms == {<<<<"line", <<Show(e), <<"print", VX>>>>>>>> : e \in Expressions}

Dec == {<<"num", <<0>>, <<>>>>, <<"num", <<3>>, <<>>>>, <<"num", <<2>>, <<5>>>>,
        <<"num", <<>>, <<0, 5>>>>, <<"neg", <<"num", <<1, 0>>, <<2, 5>>>>>>, <<"neg", Nm(2)>>}
SetScale(k) == <<"assign", Vr("scale"), "", Nm(k)>>
NumberPrograms ==
  {<<<<"line", <<SetScale(k), Show(<<"bin", o, a, b>>)>>>>>> :
     k \in {0, 1, 3}, o \in {"+", "-", "*", "/", "%"}, a \in Dec, b \in Dec}
  \cup {<<<<"line", <<SetScale(k), Show(<<"bin", "^", a, b>>)>>>>>> :
     k \in {0, 1, 3}, a \in Dec, b \in {Nm(0), Nm(1), Nm(2), Nm(3), <<"num", <<2>>, <<5>>>>, <<"neg", Nm(2)>>}}
  \cup {<<<<"line", <<SetScale(k), Show(<<"fn", f, a>>), Show(Vr("scale"))>>>>>> :
     k \in {0, 2}, f \in {"X", "Z"}, a \in Dec}
  \cup {<<<<"line", <<SetScale(k), Show(<<"fn", "v", <<"num", <<d>>, e>>>>)>>>>>> :
     k \in {0, 1}, d \in 0 .. 9, e \in {<<>>, <<5>>}}

-----------------------------------------------------------------------------
(* dc by itself                                                            *)

DcNum(k) == <<"num", <<k>>, <<>>>>
DcOut(x) == <<"p", <<x[1], x[2]>>>>
DcJob(code, prints) == [tool |-> "dc", items |-> <<>>, code |-> code, prints |-> prints,
                        depth |-> 0, sound |-> TRUE, plain |-> TRUE, ends |-> TRUE]
Rat(e) == Eval(e, [scale |-> 0]).v
\* `~' is a shorthand for x y / x y %
DivModJobs ==
  {DcJob(<<DcNum(k), <<"k">>>> \o Expr(a, Fresh).c \o Expr(b, Fresh).c \o <<<<"~">>, <<"f">>>>,
         <<DcOut(Apply("%", Rat(a), Rat(b), k)), DcOut(Apply("/", Rat(a), Rat(b), k))>>) :
     k \in {0, 2}, a \in Dec, b \in Dec \ {Nm(0)}}
\* Input bases: an integer, and a fraction that is exact at the scale
BaseJobs ==
  {DcJob(<<DcNum(3), <<"k">>, <<"num", <<b>>, <<>>>>, <<"i">>, <<"num", <<1, 1>>, <<>>>>, <<"p">>,
           <<"num", <<1>>, <<1>>>>, <<"p">>, <<"I">>, <<"O">>, <<"f">>>>,
         <<<<"p", <<b + 1, 0>>>>, <<"p", IF b = 2 THEN <<15, 1>> ELSE <<125, 2>>>>,
           <<"p", <<10, 0>>>>, <<"p", <<b, 0>>>>, <<"p", IF b = 2 THEN <<15, 1>> ELSE <<125, 2>>>>,
           <<"p", <<b + 1, 0>>>>>>) : b \in {2, 4}}
\* Each level of a register has an array of its own (the example of dc.1)
ArrayJob ==
  DcJob(<<<<"[", <<"first">>>>, DcNum(0), <<":", "a[]">>, <<"[", <<"dummy">>>>, <<"S", "a[]">>,
          <<"[", <<"second">>>>, DcNum(0), <<":", "a[]">>, DcNum(0), <<";", "a[]">>, <<"p">>,
          <<"L", "a[]">>, DcNum(0), <<";", "a[]">>, <<"p">>>>,
        <<<<"p", <<"second">>>>, <<"p", <<"first">>>>>>)
\* The endless loop of dc.1 is one level deep, here with an end; and what the
\* other commands do with too few operands, strings for numbers, and levels
LevelJobs ==
  {DcJob(<<<<"[", <<<<"l", "x">>, DcNum(1), <<"+">>, <<"d">>, <<"s", "x">>, DcNum(3), <<"cmp", ">", "p">>>>>>,
           <<"s", "p">>, <<"l", "p">>, <<"x">>, <<"l", "x">>, <<"p">>>>, <<DcOut(<<3, 0>>)>>)}
Faulty == {<<"+">>, <<"~">>, <<"v">>, <<"G">>, <<"N">>, <<"X">>, <<"Z">>, <<"x">>, <<"r">>, <<"R">>,
           <<"d">>, <<"n">>, <<"P">>, <<"p">>, <<"c">>, <<"z">>, <<"k">>, <<"i">>, <<"o">>, <<"q">>, <<"Q">>, <<"J">>,
           <<"M">>, <<"s", "x">>, <<"S", "x">>, <<"L", "x">>, <<"l", "x">>, <<";", "a[]">>, <<":", "a[]">>,
           <<"cmp", "=", "x">>, <<"cmp", "!=", "x", "p">>}
FaultJobs ==
  {[DcJob(<<<<"[", <<b, <<"z">>>>>>, <<"s", "x">>>> \o start \o <<a, b>>, <<>>)
      EXCEPT !.sound = FALSE, !.ends = FALSE] :
     start \in {<<>>, <<<<"[", <<DcNum(1)>>>>>>, <<DcNum(2), <<"[", <<<<"q">>>>>>>>, <<<<"[", <<>>>>, DcNum(0)>>},
     a \in Faulty, b \in {<<"x">>, <<"Q">>, <<"J">>, <<"cmp", "=", "x">>}}
  \cup {[DcJob(<<<<":", "a[]">>, DcNum(1), <<":", "a[]">>, DcNum(1), DcNum(0), <<":", "a[]">>, <<"l", "a[]">>, a>>, <<>>)
      EXCEPT !.sound = FALSE, !.ends = FALSE] : a \in Faulty}

BcPrograms == LoopPrograms \cup FunPrograms \cup RefusedPrograms \cup ExprPrograms \cup NumberPrograms
MCJobs == {Program(p) : p \in BcPrograms} \cup OtherPrograms
          \cup DivModJobs \cup BaseJobs \cup {ArrayJob} \cup LevelJobs \cup FaultJobs
=============================================================================
