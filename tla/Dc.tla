--------------------------------- MODULE Dc ---------------------------------
(***************************************************************************)
(* dc(1): the stack machine of dc/bcode.c and dc/stack.c. One step is one  *)
(* turn of the loop in eval(): a command, or the end of a source.          *)
(*                                                                         *)
(* A source is the sequence of commands still to be read. A command is a   *)
(* tuple that begins with its character: a numeral is <<"num", int, frac>> *)
(* (two sequences of digits), a string <<"[", code>>, a register command   *)
(* carries its register, a comparison its relation and one or two          *)
(* registers (the second is that after `e'). Layout is lexical, except     *)
(* that a blank or a newline keeps a source from being at its end.         *)
(***************************************************************************)
EXTENDS Integers, Sequences, FiniteSets

CONSTANTS Registers,        \* the names of the registers in use
          MaxIndex          \* MAX_ARRAY_INDEX

ASSUME MaxIndexAssumption == MaxIndex \in Nat

-----------------------------------------------------------------------------
(* The numbers of dc: an integer n and a count s of decimal digits after   *)
(* the point, standing for n / 10^s (struct number in dc/bcode.h).         *)

NoArray == [i \in {} |-> 0]
Num(n, s) == [t |-> "num", n |-> n, s |-> s, arr |-> NoArray]
Int0(n) == Num(n, 0)

LOCAL Larger(a, b) == IF a > b THEN a ELSE b
LOCAL Magnitude(a) == IF a < 0 THEN -a ELSE a

\* BN_div(): the quotient is truncated towards zero.
Quot(a, b) == IF (a < 0) = (b < 0) THEN Magnitude(a) \div Magnitude(b)
              ELSE -(Magnitude(a) \div Magnitude(b))
Rem(a, b) == a - b * Quot(a, b)

\* normalize(): the mantissa of x at scale s; a smaller scale truncates.
At(x, s) == IF s >= x.s THEN x.n * 10^(s - x.s) ELSE Quot(x.n, 10^(x.s - s))
Normalize(x, s) == Num(At(x, s), s)

Add(b, a) == LET s == Larger(a.s, b.s) IN Num(At(b, s) + At(a, s), s)
Sub(b, a) == LET s == Larger(a.s, b.s) IN Num(At(b, s) - At(a, s), s)

\* bmul_number(): the product, cut to `want' digits when it has more than the
\* machine's scale and than both factors.
MulTo(b, a, want, scale) ==
  LET r == Num(b.n * a.n, b.s + a.s)
  IN  IF r.s > scale /\ r.s > a.s /\ r.s > b.s
      THEN Normalize(r, Larger(want, Larger(a.s, b.s))) ELSE r

Mul(b, a, scale) == MulTo(b, a, scale, scale)

\* div_number() and bmod(); the caller warns when a is zero, the result is 0.
Div(b, a, scale) ==
  LET s == Larger(a.s, b.s)
  IN  Num(IF a.n = 0 THEN 0 ELSE Quot(At(b, s + scale), At(a, s)), scale)

Mod(b, a) ==
  LET s == Larger(a.s, b.s)
  IN  Num(IF a.n = 0 THEN 0 ELSE Rem(At(b, s), At(a, s)), s)

\* bdivmod(): the floored quotient and the remainder of BN_div(), the digits
\* after the point added from a second division.
DivMod(b, a, scale) ==
  LET s == Larger(a.s, b.s)
      q == Quot(At(b, s), At(a, s))
      r == Num(Rem(At(b, s), At(a, s)), s)
  IN  IF a.n = 0 THEN <<Num(0, scale), Num(0, s)>>
      ELSE <<Num(q * 10^scale + Div(r, Normalize(a, s), scale).n, scale), r>>

\* bexp(): the power by squaring. A state of the loop has the square a, the
\* scales it is kept at, the product r of the squares picked so far (`got' says
\* that there is one) and what is left of the exponent.
PowerState == LET N == [t : {"num"}, n : Int, s : Nat, arr : {NoArray}]
              IN  [a : N, as : Nat, r : N, got : BOOLEAN, ms : Nat, p : Nat]
Square(st, scale) ==
  [st EXCEPT !.a = MulTo(st.a, st.a, 2 * st.as, scale), !.as = 2 * @]
Pick(st, scale) ==
  IF st.p % 2 = 0 THEN [st EXCEPT !.p = @ \div 2]
  ELSE IF ~st.got THEN [st EXCEPT !.r = st.a, !.got = TRUE, !.ms = st.as, !.p = @ \div 2]
  ELSE [st EXCEPT !.r = MulTo(st.r, st.a, st.ms + st.as, scale),
                  !.ms = @ + st.as, !.p = @ \div 2]

PowerOf(a, p, scale) ==
  LET power[st \in PowerState] == IF st.p = 0 THEN st.r ELSE power[Pick(Square(st, scale), scale)]
  IN  power[Pick([a |-> a, as |-> a.s, r |-> a, got |-> FALSE, ms |-> a.s, p |-> p], scale)]

\* bexp(): b ^ a, where the fraction of a is dropped with a warning.
Exp(b, a, scale) ==
  LET p == At(a, 0)
      m == Larger(b.s, scale)
      rs == IF p < 0 THEN scale ELSE IF b.s * p > m THEN m ELSE b.s * p
      r == PowerOf(b, Magnitude(p), scale)
  IN  IF p = 0 THEN Normalize(Int0(1), rs)
      ELSE IF p > 0 THEN Normalize(r, rs)
      ELSE Num(IF r.n = 0 THEN 0 ELSE Quot(10^(r.s + rs), r.n), rs)

\* bsqrt() and bsqrt_stop(): Newton's iteration from a power of two below the
\* argument, until the value repeats or has grown by one twice.
BitLength(n) == CHOOSE k \in 0 .. 31 : 2^k > n /\ (k = 0 \/ 2^(k - 1) <= n)
Root(n) ==
  LET newton[st \in [x : Nat, ones : 0 .. 1]] ==
        LET x == (n \div st.x + st.x) \div 2
            ones == st.ones + IF x - st.x = 1 THEN 1 ELSE 0
        IN  IF x = st.x \/ ones > 1 THEN st.x ELSE newton[[x |-> x, ones |-> ones]]
  IN  newton[[x |-> n \div 2^(BitLength(n) \div 2), ones |-> 0]]

Sqrt(x, scale) ==
  LET s == Larger(scale, x.s)
  IN  IF x.n = 0 THEN Int0(0) ELSE Num(Root(At(x, 2 * s)), s)

\* count_digits()
Digits(x) ==
  LET int == Magnitude(Quot(x.n, 10^x.s))
  IN  IF x.n = 0 THEN Larger(x.s, 1)
      ELSE x.s + CHOOSE k \in 0 .. 10 : 10^k > int /\ (k = 0 \/ 10^(k - 1) <= int)

\* compare_numbers(): the sign of x - y.
Sign(x, y) == LET s == Larger(x.s, y.s) IN At(x, s) - At(y, s)
Holds(rel, x, y) ==
  LET d == Sign(x, y)
  IN  \/ rel = "=" /\ d = 0
      \/ rel = "!=" /\ d # 0
      \/ rel = "<" /\ d < 0
      \/ rel = "!<" /\ d >= 0
      \/ rel = ">" /\ d > 0
      \/ rel = "!>" /\ d <= 0

\* readnumber(): the digits before and after the point, read in the input base.
Numeral(int, frac, base, scale) ==
  LET ds == int \o frac
      value[i \in 0 .. Len(ds)] == IF i = 0 THEN 0 ELSE value[i - 1] * base + ds[i]
      n == Num(value[Len(ds)], Len(frac))
      q == Div(Int0(n.n), Int0(base^Len(frac)), scale)
      trim[k \in 0 .. q.s] ==
        IF k = 0 THEN q
        ELSE IF trim[k - 1].s > 0 /\ trim[k - 1].n % 10 = 0
             THEN Normalize(trim[k - 1], trim[k - 1].s - 1) ELSE trim[k - 1]
  IN  IF base = 10 THEN n ELSE trim[q.s]

-----------------------------------------------------------------------------
VARIABLES src,      \* readstack[0 .. readsp], the top one last
          stk,      \* the stack, its top last
          reg,      \* per register a stack of values
          par,      \* scale, ibase, obase
          out,      \* what was printed
          diag,     \* the diagnostics given, as a set
          halted    \* the process has ended

dcvars == <<src, stk, reg, par, out, diag, halted>>

Str(code) == [t |-> "str", code |-> code, arr |-> NoArray]
None == [t |-> "none", arr |-> NoArray]     \* BCODE_NONE
IsNum(v) == v.t = "num"
Zero == Int0(0)

readsp == Len(src) - 1
Cur == src[Len(src)]
Cmd == Head(Cur)
Rest == [src EXCEPT ![Len(src)] = Tail(@)]
Top == stk[Len(stk)]
Second == stk[Len(stk) - 1]
Below(k) == SubSeq(stk, 1, Len(stk) - k)
TosOf(r) == reg[r][Len(reg[r])]

\* reset_bmachine() and init_bmachine() with the given program as first source
Start(code) ==
  /\ src = <<code>>
  /\ stk = <<>>
  /\ reg = [r \in Registers |-> <<>>]
  /\ par = [scale |-> 0, ibase |-> 10, obase |-> 10]
  /\ out = <<>>
  /\ diag = {}
  /\ halted = FALSE

Sees(op) == ~halted /\ Cur # <<>> /\ Cmd[1] = op
Say(d) == diag' = diag \cup d

\* stack_popnumber() for k operands, the top one first: what is wrong, if
\* anything. Nothing is lost then, except the arrays of the values looked at.
Fault(k) ==
  IF \E i \in 1 .. k : Len(stk) >= i /\ ~IsNum(stk[Len(stk) - i + 1])
                       /\ \A j \in 1 .. (i - 1) : IsNum(stk[Len(stk) - j + 1])
  THEN {"not a number"} ELSE IF Len(stk) < k THEN {"stack empty"} ELSE {}

Disarmed(k) == [i \in DOMAIN stk |->
                 IF i > Len(stk) - k
                    /\ \A j \in (i + 1) .. Len(stk) : IsNum(stk[j])
                 THEN [stk[i] EXCEPT !.arr = NoArray] ELSE stk[i]]

\* A command that takes k numbers: `new' is the stack if they are there.
Take(k, new, d) ==
  /\ src' = Rest
  /\ stk' = IF Fault(k) = {} THEN new ELSE Disarmed(k)
  /\ Say(IF Fault(k) = {} THEN d ELSE Fault(k))

-----------------------------------------------------------------------------
(* Commands that only read the input or the stack                          *)

\* parse_number(), push_line(): numerals and strings
Push ==
  /\ \/ Sees("num") /\ stk' = Append(stk, Numeral(Cmd[2], Cmd[3], par.ibase, par.scale))
     \/ Sees("[") /\ stk' = Append(stk, Str(Cmd[2]))
  /\ src' = Rest
  /\ UNCHANGED <<reg, par, out, diag, halted>>

\* nop(): white space and the mark of J
Nop ==
  /\ Sees(" ") \/ Sees("M")
  /\ src' = Rest
  /\ UNCHANGED <<stk, reg, par, out, diag, halted>>

\* print_tos(), pop_printn(), pop_print(), print_stack()
Shown(v) == CASE v.t = "num" -> <<v.n, v.s>> [] v.t = "str" -> v.code [] OTHER -> <<>>
Prints ==
  /\ \/ /\ Sees("p")
        /\ IF stk = <<>> THEN out' = out /\ Say({"stack empty"})
           ELSE out' = Append(out, <<"p", Shown(Top)>>) /\ Say({})
        /\ stk' = stk
     \/ /\ Sees("n") \/ Sees("P")
        /\ IF stk = <<>> THEN out' = out /\ Say({"stack empty"}) /\ stk' = stk
           ELSE /\ out' = Append(out, <<Cmd[1], Shown(IF Cmd[1] = "P" /\ IsNum(Top)
                                                      THEN Normalize(Top, 0) ELSE Top)>>)
                /\ stk' = Below(1)
                /\ Say({})
     \/ /\ Sees("f")
        /\ out' = out \o [i \in 1 .. Len(stk) |-> <<"p", Shown(stk[Len(stk) + 1 - i])>>]
        /\ UNCHANGED <<stk, diag>>
  /\ src' = Rest
  /\ UNCHANGED <<reg, par, halted>>

\* clear_stack(), _dup(), swap(), drop(), stackdepth()
Shuffle ==
  /\ \/ Sees("c") /\ stk' = <<>> /\ Say({})
     \/ Sees("z") /\ stk' = Append(stk, Int0(Len(stk))) /\ Say({})
     \/ /\ Sees("d") \/ Sees("R")
        /\ IF stk = <<>> THEN stk' = stk /\ Say({"stack empty"})
           ELSE /\ stk' = IF Cmd[1] = "d" THEN Append(stk, Top) ELSE Below(1)
                /\ Say({})
     \/ /\ Sees("r")
        /\ IF Len(stk) < 2 THEN stk' = stk /\ Say({"stack empty"})
           ELSE stk' = Below(2) \o <<Top, Second>> /\ Say({})
  /\ src' = Rest
  /\ UNCHANGED <<reg, par, out, halted>>

-----------------------------------------------------------------------------
(* Arithmetic                                                              *)

Arithmetic ==
  /\ \/ Sees("+") /\ Take(2, Append(Below(2), Add(Second, Top)), {})
     \/ Sees("-") /\ Take(2, Append(Below(2), Sub(Second, Top)), {})
     \/ Sees("*") /\ Take(2, Append(Below(2), Mul(Second, Top, par.scale)), {})
     \/ Sees("/") /\ Take(2, Append(Below(2), Div(Second, Top, par.scale)),
                        IF Top.n = 0 THEN {"divide by zero"} ELSE {})
     \/ Sees("%") /\ Take(2, Append(Below(2), Mod(Second, Top)),
                        IF Top.n = 0 THEN {"remainder by zero"} ELSE {})
     \/ Sees("~") /\ Take(2, Below(2) \o DivMod(Second, Top, par.scale),
                        IF Top.n = 0 THEN {"divide by zero"} ELSE {})
     \/ Sees("^") /\ Take(2, Append(Below(2), Exp(Second, Top, par.scale)),
                        (IF Rem(Top.n, 10^Top.s) # 0
                         THEN {"non-zero fractional part in exponent"} ELSE {})
                        \cup (IF Second.n = 0 /\ Quot(Top.n, 10^Top.s) < 0
                              THEN {"divide by zero"} ELSE {}))
     \/ Sees("v") /\ Take(1, IF Top.n < 0 THEN Below(1)
                           ELSE Append(Below(1), Sqrt(Top, par.scale)),
                        IF Top.n < 0 THEN {"square root of negative number"} ELSE {})
  /\ UNCHANGED <<reg, par, out, halted>>

\* equal_numbers(), less_numbers(), lesseq_numbers(), not()
Relational ==
  /\ \/ Sees("G") /\ Take(2, Append(Below(2), Int0(IF Holds("=", Top, Second) THEN 1 ELSE 0)), {})
     \/ Sees("(") /\ Take(2, Append(Below(2), Int0(IF Holds("<", Top, Second) THEN 1 ELSE 0)), {})
     \/ Sees("{") /\ Take(2, Append(Below(2), Int0(IF Holds("!>", Top, Second) THEN 1 ELSE 0)), {})
     \/ Sees("N") /\ Take(1, Append(Below(1), Int0(IF Top.n = 0 THEN 1 ELSE 0)), {})
  /\ UNCHANGED <<reg, par, out, halted>>

\* push_scale(), num_digits(): they take a string too
Measure ==
  /\ Sees("X") \/ Sees("Z")
  /\ src' = Rest
  /\ IF stk = <<>> THEN stk' = stk /\ Say({"stack empty"})
     ELSE IF Top.t = "none" THEN stk' = Below(1) /\ Say({})
     ELSE /\ stk' = Append(Below(1), Int0(
                CASE IsNum(Top) -> IF Cmd[1] = "X" THEN Top.s ELSE Digits(Top)
                  [] OTHER -> IF Cmd[1] = "X" THEN 0 ELSE Len(Top.code)))
          /\ Say({})
  /\ UNCHANGED <<reg, par, out, halted>>

\* get_scale(), set_scale() and the same for the bases. get_ulong() drops the
\* fraction and the sign; only set_scale() looks at the sign.
Parameter ==
  LET n == Quot(Top.n, 10^Top.s)
      word == IF n < 0 THEN -n ELSE n
      Set(name, ok, msg) ==
        /\ Take(1, Below(1), IF ok THEN {} ELSE {msg})
        /\ par' = IF Fault(1) = {} /\ ok THEN [par EXCEPT ![name] = word] ELSE par
      Get(name) == stk' = Append(stk, Int0(par[name])) /\ src' = Rest
                   /\ UNCHANGED <<par, diag>>
  IN  /\ \/ Sees("K") /\ Get("scale")
         \/ Sees("I") /\ Get("ibase")
         \/ Sees("O") /\ Get("obase")
         \/ Sees("k") /\ Set("scale", Top.n >= 0, "scale must be a nonnegative number")
         \/ Sees("i") /\ Set("ibase", word \in 2 .. 16, "input base must be between 2 and 16")
         \/ Sees("o") /\ Set("obase", word > 1, "output base must be greater than 1")
      /\ UNCHANGED <<reg, out, halted>>

-----------------------------------------------------------------------------
(* Registers. `reg' holds stacks of values, each with an array of its own. *)

Load ==
  /\ Sees("l")
  /\ stk' = Append(stk, IF reg[Cmd[2]] = <<>> THEN Zero ELSE TosOf(Cmd[2]))
  /\ src' = Rest
  /\ UNCHANGED <<reg, par, out, diag, halted>>

\* store(): stack_set_tos() puts the value in the place of the register's top
Store ==
  /\ Sees("s")
  /\ IF stk = <<>> THEN UNCHANGED <<stk, reg>> /\ Say({"stack empty"})
     ELSE /\ stk' = Below(1)
          /\ reg' = [reg EXCEPT ![Cmd[2]] =
                       IF @ = <<>> THEN <<Top>> ELSE [@ EXCEPT ![Len(@)] = Top]]
          /\ Say({})
  /\ src' = Rest
  /\ UNCHANGED <<par, out, halted>>

LoadStack ==
  /\ Sees("L")
  /\ IF reg[Cmd[2]] = <<>> THEN UNCHANGED <<stk, reg>> /\ Say({"stack register is empty"})
     ELSE /\ stk' = Append(stk, TosOf(Cmd[2]))
          /\ reg' = [reg EXCEPT ![Cmd[2]] = SubSeq(@, 1, Len(@) - 1)]
          /\ Say({})
  /\ src' = Rest
  /\ UNCHANGED <<par, out, halted>>

StoreStack ==
  /\ Sees("S")
  /\ IF stk = <<>> THEN UNCHANGED <<stk, reg>> /\ Say({"stack empty"})
     ELSE /\ stk' = Below(1)
          /\ reg' = [reg EXCEPT ![Cmd[2]] = Append(@, Top)]
          /\ Say({})
  /\ src' = Rest
  /\ UNCHANGED <<par, out, halted>>

\* load_array(), store_array(): get_ulong() comes before the test of the sign,
\* and a number whose integer part is zero has no sign any more
IndexFault == LET i == Quot(Top.n, 10^Top.s)
              IN  IF i < 0 THEN {"negative idx"}
                  ELSE IF i > MaxIndex THEN {"idx too big"} ELSE {}

LoadArray ==
  /\ Sees(";")
  /\ LET i == Quot(Top.n, 10^Top.s)
         a == IF reg[Cmd[2]] = <<>> THEN NoArray ELSE TosOf(Cmd[2]).arr
     IN  Take(1, IF IndexFault # {} THEN Below(1)
                 ELSE Append(Below(1), IF i \in DOMAIN a THEN a[i] ELSE Zero), IndexFault)
  /\ UNCHANGED <<reg, par, out, halted>>

StoreArray ==
  /\ Sees(":")
  /\ src' = Rest
  /\ LET i == Quot(Top.n, 10^Top.s)
         frames == IF reg[Cmd[2]] = <<>> THEN <<None>> ELSE reg[Cmd[2]]
         Put(a) == [j \in DOMAIN a \cup {i} |-> IF j = i THEN Second ELSE a[j]]
     IN  IF Fault(1) # {} THEN stk' = Disarmed(1) /\ Say(Fault(1)) /\ reg' = reg
         ELSE IF Len(stk) = 1 THEN stk' = <<>> /\ Say({"stack empty"}) /\ reg' = reg
         ELSE /\ stk' = Below(2)
              /\ Say(IndexFault)
              /\ reg' = IF IndexFault # {} THEN reg
                        ELSE [reg EXCEPT ![Cmd[2]] =
                                [frames EXCEPT ![Len(frames)].arr = Put(@)]]
  /\ UNCHANGED <<par, out, halted>>

-----------------------------------------------------------------------------
(* Control: what is executed next is the stack of sources.                 *)

\* Mutant: a string never makes way
NoTailCall(code) == Append(Rest, code)

\* eval_string(): a source that is at its end makes way for the string it runs
\* last, unless it is the first one.
Entered(code) ==
  IF readsp > 0 /\ Tail(Cur) = <<>> THEN [src EXCEPT ![Len(src)] = code]
  ELSE Append(Rest, code)

\* eval_tos()
Execute ==
  /\ Sees("x")
  /\ IF stk = <<>> THEN UNCHANGED stk /\ Say({"stack empty"}) /\ src' = Rest
     ELSE IF Top.t # "str" THEN stk' = Disarmed(1) /\ Say({"not a string"}) /\ src' = Rest
     ELSE stk' = Below(1) /\ Say({}) /\ src' = Entered(Top.code)
  /\ UNCHANGED <<reg, par, out, halted>>

\* compare(): <<"cmp", relation, register>> or <<"cmp", relation, register, other>>
Compare ==
  /\ Sees("cmp")
  /\ LET ok == Holds(Cmd[2], Top, Second)
         chosen == IF ok THEN {Cmd[3]} ELSE IF Len(Cmd) = 4 THEN {Cmd[4]} ELSE {}
         runs == {r \in chosen : reg[r] # <<>> /\ TosOf(r).t = "str"}
         bad == {IF reg[r] = <<>> \/ TosOf(r).t = "none" THEN "register is empty"
                 ELSE "eval called with non-string argument" : r \in chosen \ runs}
     IN  IF Fault(2) # {} THEN stk' = Disarmed(2) /\ Say(Fault(2)) /\ src' = Rest
         ELSE /\ stk' = Below(2)
              /\ Say(bad)
              /\ src' = IF runs = {} THEN Rest
                        ELSE Entered(TosOf(CHOOSE r \in runs : TRUE).code)
  /\ UNCHANGED <<reg, par, out, halted>>

Levels(s, k) == SubSeq(s, 1, Len(s) - k)

\* quit()
Quit ==
  /\ Sees("q")
  /\ IF readsp < 2 THEN halted' = TRUE /\ src' = Rest
     ELSE halted' = FALSE /\ src' = Levels(src, 2)
  /\ UNCHANGED <<stk, reg, par, out, diag>>

Count == LET n == Quot(Top.n, 10^Top.s) IN IF n < 0 THEN -n ELSE n    \* get_ulong()

\* The test of quitN(). Mutant: one level too many is let through.
DeeperByOne(k) == readsp + 1 < k
Exceeds(k) == readsp < k

\* quitN()
QuitN ==
  /\ Sees("Q")
  /\ IF Fault(1) # {} THEN stk' = Disarmed(1) /\ Say(Fault(1)) /\ src' = Rest
     ELSE /\ stk' = Below(1)
          /\ IF Count = 0 THEN Say({"Q requires a number >= 1"}) /\ src' = Rest
             ELSE IF Exceeds(Count)
             THEN Say({"Q argument exceeded string execution depth"}) /\ src' = Rest
             ELSE Say({}) /\ src' = Levels(src, Count)
  /\ UNCHANGED <<reg, par, out, halted>>

\* skipN() and skip_until_mark(): errx() if the source has no mark
SkipN ==
  /\ Sees("J")
  /\ UNCHANGED <<reg, par, out>>
  /\ IF Fault(1) # {} THEN stk' = Disarmed(1) /\ Say(Fault(1)) /\ src' = Rest /\ UNCHANGED halted
     ELSE /\ stk' = Below(1)
          /\ IF Count > readsp
             THEN /\ Say({"J argument exceeded string execution depth"})
                  /\ src' = Rest /\ UNCHANGED halted
             ELSE LET left == Levels(Rest, Count)
                      code == left[Len(left)]
                      marks == {i \in DOMAIN code : code[i] = <<"M">>}
                  IN  IF marks = {} THEN /\ halted' = TRUE
                                         /\ Say({"mark not found"})
                                         /\ src' = [left EXCEPT ![Len(left)] = <<>>]
                      ELSE LET m == CHOOSE i \in marks : \A j \in marks : i <= j
                           IN  /\ src' = [left EXCEPT ![Len(left)] = SubSeq(code, m + 1, Len(code))]
                               /\ Say({}) /\ UNCHANGED halted

\* eval() at the end of a source
EndOfString ==
  /\ ~halted
  /\ Cur = <<>>
  /\ readsp > 0
  /\ src' = Levels(src, 1)
  /\ UNCHANGED <<stk, reg, par, out, diag, halted>>

\* ... and at the end of the input
EndOfInput ==
  /\ ~halted
  /\ Cur = <<>>
  /\ readsp = 0
  /\ halted' = TRUE
  /\ UNCHANGED <<src, stk, reg, par, out, diag>>

DcStep ==
  \/ Push \/ Nop \/ Prints \/ Shuffle
  \/ Arithmetic \/ Relational \/ Measure \/ Parameter
  \/ Load \/ Store \/ LoadStack \/ StoreStack \/ LoadArray \/ StoreArray
  \/ Execute \/ Compare \/ Quit \/ QuitN \/ SkipN \/ EndOfString
=============================================================================
