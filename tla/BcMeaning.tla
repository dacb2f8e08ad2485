----------------------------- MODULE BcMeaning -----------------------------
(***************************************************************************)
(* What a bc program means (bc.1, and C where bc.1 refers to it): values   *)
(* and statements evaluated directly, without code, registers or a stack.  *)
(* Programs are those of BcCompiler; numbers are those of dc, computed     *)
(* from their exact values and cut to the scale bc.1 and dc.1 give.        *)
(*                                                                         *)
(* An environment m has the variables v, the arrays a, the scale, the      *)
(* functions f, the output out, `plain' (see Decided) and a bound `fuel'   *)
(* on the turns of loops and the calls. Evaluating yields [v, m];          *)
(* executing yields [how, v, m], how the statement ended: "next", "break", *)
(* "continue", "return", or "stuck" when the fuel is used up.              *)
(***************************************************************************)
EXTENDS Integers, SequencesExt

Q(n, s) == <<n, s>>                     \* the number n / 10^s
Trunc(n, d) == IF n < 0 THEN -((-n) \div d) ELSE n \div d
Cut(x, s) == IF x[2] <= s THEN Q(x[1] * 10^(s - x[2]), s)
             ELSE Q(Trunc(x[1], 10^(x[2] - s)), s)
Most(a, b) == IF a > b THEN a ELSE b
Least(a, b) == IF a < b THEN a ELSE b
Diff(x, y) == LET s == Most(x[2], y[2]) IN Cut(x, s)[1] - Cut(y, s)[1]

RECURSIVE ExactPower(_, _)
ExactPower(x, k) == IF k = 0 THEN Q(1, 0)
                    ELSE LET y == ExactPower(x, k - 1) IN Q(x[1] * y[1], x[2] + y[2])

\* x / y to s digits: the digits of x shifted left by s, over those of y.
Over(x, y, s) == IF y[1] = 0 THEN Q(0, s)
                 ELSE LET p == x[1] * 10^(y[2] + s)
                          q == y[1] * 10^x[2]
                      IN  Q(IF q < 0 THEN Trunc(-p, -q) ELSE Trunc(p, q), s)

Apply(op, x, y, scale) ==
  LET s == Most(x[2], y[2]) IN
  CASE op = "+" -> Q(Cut(x, s)[1] + Cut(y, s)[1], s)
    [] op = "-" -> Q(Cut(x, s)[1] - Cut(y, s)[1], s)
    [] op = "*" -> Cut(Q(x[1] * y[1], x[2] + y[2]), Least(x[2] + y[2], Most(s, scale)))
    [] op = "/" -> Over(x, y, scale)
    [] op = "%" -> Q(IF y[1] = 0 THEN 0
                     ELSE Cut(x, s)[1] - Cut(y, s)[1] * Over(x, y, 0)[1], s)
    [] op = "^" -> LET k == Cut(y, 0)[1]
                   IN  IF k >= 0 THEN Cut(ExactPower(x, k), Least(x[2] * k, Most(scale, x[2])))
                       ELSE Over(Q(1, 0), ExactPower(x, -k), scale)

\* The largest value at scale s whose square is not above x.
SquareRoot(x, scale) ==
  LET s == Most(scale, x[2])
      n == Cut(x, 2 * s)[1]
  IN  IF x[1] = 0 THEN Q(0, 0)
      ELSE Q(CHOOSE r \in 0 .. n : r * r <= n /\ (r + 1) * (r + 1) > n, s)

Bool(b) == Q(IF b THEN 1 ELSE 0, 0)
Compared(op, x, y) ==
  LET d == Diff(x, y)
  IN  CASE op = "==" -> d = 0 [] op = "!=" -> d # 0 [] op = "<" -> d < 0
        [] op = "<=" -> d <= 0 [] op = ">" -> d > 0 [] op = ">=" -> d >= 0

DecimalValue(ds) == LET val[i \in 0 .. Len(ds)] == IF i = 0 THEN 0 ELSE 10 * val[i - 1] + ds[i]
                    IN  val[Len(ds)]

RECURSIVE Eval(_, _), Condition(_, _), EvalArgs(_, _), Call(_, _, _), Exec(_, _), Repeat(_, _, _, _)

Got(v, m) == [v |-> v, m |-> m]
ReadVar(x, m) == IF x = "scale" THEN Q(m.scale, 0) ELSE m.v[x]
Index(i) == Cut(i, 0)[1]
Element(a, i, m) == IF i \in DOMAIN m.a[a] THEN m.a[a][i] ELSE Q(0, 0)

\* The value of an lvalue, and storing into it; i is its index, evaluated.
FetchAt(a, i) == Got(Element(a, Index(i.v), i.m), i.m)
Fetch(lv, m) == IF lv[1] = "var" THEN Got(ReadVar(lv[2], m), m) ELSE FetchAt(lv[2], Eval(lv[3], m))

DepositAt(a, i, x) ==
  [i.m EXCEPT !.a[a] = [j \in DOMAIN @ \cup {Index(i.v)} |-> IF j = Index(i.v) THEN x ELSE @[j]]]
Deposit(lv, x, m) ==
  IF lv[1] = "idx" THEN DepositAt(lv[2], Eval(lv[3], m), x)
  ELSE IF lv[2] = "scale" THEN [m EXCEPT !.scale = Index(x)] ELSE [m EXCEPT !.v[lv[2]] = x]

Stored(lv, x) == Got(x.v, Deposit(lv, x.v, x.m))
Updated(lv, op, old, x) == Stored(lv, Got(Apply(op, old.v, x.v, x.m.scale), x.m))
Assigned(lv, op, x) == IF op = "" THEN Stored(lv, x) ELSE Updated(lv, op, Fetch(lv, x.m), x)

Combine(op, x, y) == Got(Apply(op, x.v, y.v, y.m.scale), y.m)
Relate(op, x, y) == Got(Bool(Compared(op, x.v, y.v)), y.m)
Stepped(lv, pre, old, new, m) == Got(IF pre THEN new ELSE old, Deposit(lv, new, m))
StepFrom(lv, pre, op, old) ==
  Stepped(lv, pre, old.v, Apply(op, old.v, Q(1, 0), old.m.scale), old.m)
\* && and || stop at the first operand that decides them; their value is that
\* of C (bc.1:139-140), 1 when they are true and 0 otherwise.
\* Exception: bc's value is that of the operand evaluated last (bc.y:673-683), so
\* 2 && 2 is 2. `plain' tells a program whose values of && and || are 0 and 1
\* either way; the operands of !, && and || and the conditions of statements
\* are only tested, and not concerned.
Decided(x, at, f) == IF (x.v[1] = 0) = at THEN x ELSE Condition(f, x.m)
Truth(x) == Got(Bool(x.v[1] # 0), [x.m EXCEPT !.plain = @ /\ x.v \in {Bool(FALSE), Bool(TRUE)}])

DigitsOf(n) == CHOOSE k \in 0 .. 9 : 10^k > n /\ (k = 0 \/ 10^(k - 1) <= n)
Length(x) == IF x[1] = 0 THEN Most(1, x[2]) ELSE x[2] + DigitsOf((IF x[1] < 0 THEN -x[1] ELSE x[1]) \div 10^x[2])
Builtin(f, x, scale) == CASE f = "v" -> SquareRoot(x, scale)
                          [] f = "X" -> Q(x[2], 0)
                          [] f = "Z" -> Q(Length(x), 0)
OfBuiltin(f, x) == Got(Builtin(f, x.v, x.m.scale), x.m)
BinaryOf(op, x, f) == Combine(op, x, Eval(f, x.m))
RelationOf(op, x, f) == Relate(op, x, Eval(f, x.m))
CallWith(f, x) == Call(x.m.f[f], x.v, x.m)
Negated(x) == Got(Q(-x.v[1], x.v[2]), x.m)
Inverted(x) == Got(Bool(x.v[1] = 0), x.m)

Eval(e, m) ==
  CASE e[1] = "num" -> Got(Q(DecimalValue(e[2] \o e[3]), Len(e[3])), m)
    [] e[1] \in {"var", "idx"} -> Fetch(e, m)
    [] e[1] = "neg" -> Negated(Eval(e[2], m))
    [] e[1] = "bin" -> BinaryOf(e[2], Eval(e[3], m), e[4])
    [] e[1] = "rel" -> RelationOf(e[2], Eval(e[3], m), e[4])
    [] e[1] = "not" -> Inverted(Condition(e[2], m))
    [] e[1] \in {"and", "or"} -> Truth(Condition(e, m))
    [] e[1] = "set" -> Assigned(e[2], e[3], Eval(e[4], m))
    [] e[1] = "step" -> StepFrom(e[4], e[2] = "pre", e[3], Fetch(e[4], m))
    [] e[1] = "fn" -> OfBuiltin(e[2], Eval(e[3], m))
    [] e[1] = "call" -> CallWith(e[2], EvalArgs(e[3], m))

\* An expression that is only tested; a missing one is true.
Condition(e, m) ==
  CASE e = <<>> -> Got(Bool(TRUE), m)
    [] e # <<>> /\ e[1] \in {"and", "or"} -> Decided(Condition(e[2], m), e[1] = "and", e[3])
    [] OTHER -> Eval(e, m)

\* Arguments from left to right: numbers, and whole arrays by value.
EvalArg(a, m) == IF a[1] = "array" THEN Got(m.a[a[2]], m) ELSE Eval(a, m)
ArgsAfter(x, y) == Got(<<x.v>> \o y.v, y.m)
ArgsFrom(x, as) == ArgsAfter(x, EvalArgs(as, x.m))
EvalArgs(as, m) == IF as = <<>> THEN Got(<<>>, m) ELSE ArgsFrom(EvalArg(as[1], m), Tail(as))

Result(how, v, m) == [how |-> how, v |-> v, m |-> m]
Nothing == Q(0, 0)
Continues(m) == Result("next", Nothing, m)

Onto(r, s) == IF r.how = "next" THEN Exec(s, r.m) ELSE r
ExecAll(ss, m) == FoldLeft(Onto, Continues(m), ss)

\* A call: parameters and autos hide what had their names, and it comes back.
Restored(r, names, m) ==
  Got(IF r.how = "return" THEN r.v ELSE Nothing,
      [r.m EXCEPT !.v = [x \in DOMAIN @ |-> IF x \in names THEN m.v[x] ELSE @[x]],
                  !.a = [x \in DOMAIN @ |-> IF x \in names THEN m.a[x] ELSE @[x]]])
Local(locals, x) == CHOOSE i \in 1 .. Len(locals) : locals[i][2] = x
Given(args, i, default) == IF i <= Len(args) THEN args[i] ELSE default
Names(locals) == {locals[i][2] : i \in 1 .. Len(locals)}
Call(f, args, m) ==
  IF m.fuel = 0 THEN Got(Nothing, m)
  ELSE Restored(
         ExecAll(f[4],
           [m EXCEPT !.v = [x \in DOMAIN @ |-> IF x \in Names(f[3])
                             THEN Given(args, Local(f[3], x), Nothing) ELSE @[x]],
                     !.a = [x \in DOMAIN @ |-> IF x \in Names(f[3])
                             THEN Given(args, Local(f[3], x), [j \in {} |-> 0]) ELSE @[x]],
                     !.fuel = @ - 1]),
         Names(f[3]), m)

OptEval(e, m) == IF e = <<>> THEN m ELSE Eval(e, m).m

\* while (e) s, with the step of a for loop: k is the condition's value, r how
\* the turn ended.
AfterTurn(r, e, step, s) ==
  CASE r.how \in {"next", "continue"} -> Repeat(e, step, s, OptEval(step, r.m))
    [] r.how = "break" -> Continues(r.m)
    [] OTHER -> r
Turn(k, e, step, s) ==
  IF k.v[1] = 0 THEN Continues(k.m)
  ELSE IF k.m.fuel = 0 THEN Result("stuck", Nothing, k.m)
  ELSE AfterTurn(Exec(s, [k.m EXCEPT !.fuel = @ - 1]), e, step, s)
Repeat(e, step, s, m) == Turn(Condition(e, m), e, step, s)

Output(how, x) == Continues([x.m EXCEPT !.out = Append(@, <<how, x.v>>), !.v["."] = x.v])
Returned(x) == Result("return", x.v, x.m)
Branching(k, s, t) == IF k.v[1] # 0 THEN Exec(s, k.m) ELSE Exec(t, k.m)

Exec(s, m) ==
  CASE s[1] = "expr" -> Output("p", Eval(s[2], m))
    [] s[1] = "print" -> Output("n", Eval(s[2], m))
    [] s[1] = "string" -> Continues([m EXCEPT !.out = Append(@, <<"P", s[2]>>)])
    [] s[1] = "assign" -> Continues(Assigned(s[2], s[3], Eval(s[4], m)).m)
    [] s[1] \in {"break", "continue"} -> Result(s[1], Nothing, m)
    [] s[1] = "return" -> Returned(IF s[2] = <<>> THEN Got(Nothing, m) ELSE Eval(s[2], m))
    [] s[1] = "if" -> Branching(Condition(s[2], m), s[3], <<"block", <<>>>>)
    [] s[1] = "ifelse" -> Branching(Condition(s[2], m), s[3], s[4])
    [] s[1] = "while" -> Repeat(s[2], <<>>, s[3], m)
    [] s[1] = "for" -> Repeat(s[3], s[4], s[5], OptEval(s[2], m))
    [] s[1] = "block" -> ExecAll(s[2], m)

\* A break or continue outside a loop and a return outside a function are
\* refused when the line is read; the whole line is not executed.
RECURSIVE Refused(_, _, _)
Refused(s, loop, fun) ==
  CASE s[1] \in {"break", "continue"} -> ~loop
    [] s[1] = "return" -> ~fun
    [] s[1] = "if" -> Refused(s[3], loop, fun)
    [] s[1] = "ifelse" -> Refused(s[3], loop, fun) \/ Refused(s[4], loop, fun)
    [] s[1] = "while" -> Refused(s[3], TRUE, fun)
    [] s[1] = "for" -> Refused(s[5], TRUE, fun)
    [] s[1] = "block" -> \E i \in DOMAIN s[2] : Refused(s[2][i], loop, fun)
    [] OTHER -> FALSE

RefusedItem(i) == IF i[1] = "define" THEN \E k \in DOMAIN i[4] : Refused(i[4][k], FALSE, TRUE)
                  ELSE \E k \in DOMAIN i[2] : Refused(i[2][k], FALSE, FALSE)
Defined(i, m) == [m EXCEPT !.f = [x \in DOMAIN @ \cup {i[2]} |-> IF x = i[2] THEN i ELSE @[x]]]

RECURSIVE Run(_, _)
RunOn(r, items) == IF r.how = "stuck" THEN r.m ELSE Run(items, r.m)
Run(items, m) ==
  IF items = <<>> \/ items[1][1] = "quit" THEN m
  ELSE IF RefusedItem(items[1]) THEN Run(Tail(items), m)
  ELSE IF items[1][1] = "define" THEN Run(Tail(items), Defined(items[1], m))
  ELSE RunOn(ExecAll(items[1][2], m), Tail(items))

Meaning(items, names, arrays, fuel) ==
  Run(items, [v |-> [x \in names |-> Q(0, 0)], a |-> [x \in arrays |-> [j \in {} |-> 0]],
              scale |-> 0, f |-> [x \in {} |-> 0], out |-> <<>>, plain |-> TRUE, fuel |-> fuel])
=============================================================================
