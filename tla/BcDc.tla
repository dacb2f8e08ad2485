-------------------------------- MODULE BcDc --------------------------------
(***************************************************************************)
(* bc | dc: bc reads a program item by item and prints the translation     *)
(* into a pipe; its child dc executes what has arrived. At `quit' and at   *)
(* the end of the input bc sends q and sleeps until dc has ended. With     *)
(* job.tool = "dc", dc reads a program of its own.                         *)
(***************************************************************************)
EXTENDS Dc, BcCompiler, BcMeaning

CONSTANTS Jobs,     \* [tool, items or code, what it should print, ...]
          Variables, Arrays, Functions

ASSUME RegistersAssumption ==
  /\ Variables \cup Arrays \cup Functions \subseteq Registers
  /\ \A i \in DOMAIN MacroNames : MacroNames[i] \in Registers

VARIABLES job,      \* what is run
          texts,    \* bc: what it prints for each of the input items it has not read yet
          reader    \* bc: "parse", "suspend", "exited", or "none"

vars == <<dcvars, job, texts, reader>>

Init ==
  /\ job \in Jobs
  /\ texts = IF job.tool = "bc" THEN Translate(job.items, Fresh) ELSE <<>>
  /\ reader = IF job.tool = "bc" THEN "parse" ELSE "none"
  /\ Start(job.code)

\* yyparse() up to the end of the next input item. The last one ends the program:
\* bc then sleeps until its child has ended.
BcRead ==
  /\ reader = "parse"
  /\ src' = [src EXCEPT ![1] = @ \o Head(texts)]
  /\ texts' = Tail(texts)
  /\ reader' = IF Len(texts) = 1 THEN "suspend" ELSE "parse"
  /\ UNCHANGED <<stk, reg, par, out, diag, halted, job>>

\* sigchld()
BcReaped ==
  /\ reader \in {"parse", "suspend"}
  /\ halted
  /\ reader' = "exited"
  /\ UNCHANGED <<dcvars, job, texts>>

DcRuns == DcStep /\ UNCHANGED <<job, texts, reader>>
DcEnds == reader = "none" /\ EndOfInput /\ UNCHANGED <<job, texts, reader>>
Stopped == halted /\ reader \in {"none", "exited"} /\ UNCHANGED vars

Next == BcRead \/ BcReaped \/ DcRuns \/ DcEnds \/ Stopped

Spec == Init /\ [][Next]_vars
        /\ WF_vars(BcRead \/ BcReaped) /\ WF_vars(DcRuns \/ DcEnds)

-----------------------------------------------------------------------------
(* Properties                                                              *)

\* The machine's state is well formed; in particular readsp, an unsigned count,
\* never goes below zero however many levels q, Q and J take away.
TypeOK ==
  /\ Len(src) >= 1
  /\ \A i \in DOMAIN stk : stk[i].t \in {"num", "str", "none"}
  /\ \A r \in Registers : \A i \in DOMAIN reg[r] : reg[r][i].t \in {"num", "str", "none"}
  /\ par.scale \in Nat /\ par.ibase \in 2 .. 16 /\ par.obase > 1
  /\ reader \in {"parse", "suspend", "exited", "none"}

\* What was printed is never anything but a beginning of what the program
\* means, and all of it once dc has ended: the translation of control flow into
\* macros, levels to pop and marks, and the arithmetic on mantissas, agree with
\* bc.1. Nothing is claimed of the programs whose value of && or || bc and C have
\* differently (see Decided in BcMeaning), nor of a jump out of an else part.
PrintsMeaning ==
  job.sound /\ job.plain =>
    /\ Len(out) <= Len(job.prints)
    /\ SubSeq(job.prints, 1, Len(out)) = out
    /\ halted => out = job.prints

\* Between two lines (dc has executed all it has got, at the first level) the
\* stack is empty, every variable has at most its global value, and no
\* diagnostic was given: each way out of a function body, by return out of
\* loops and branches too, undoes exactly what the call had pushed.
LinesBalance ==
  (job.sound /\ job.tool = "bc" /\ readsp = 0 /\ Cur = <<>>) =>
    /\ stk = <<>>
    /\ \A r \in Registers : Len(reg[r]) <= 1
    /\ diag \subseteq {"divide by zero", "remainder by zero", "non-zero fractional part in exponent"}

\* A loop runs at the level it was entered at: the level never exceeds the
\* nesting of the program's text along its calls, however many turns are made.
BoundedLevels == (job.sound /\ job.tool = "bc") => readsp <= job.depth

\* Levels are neither left over at the end nor piled up on the way.
LevelsBalance == LinesBalance /\ BoundedLevels

\* A program whose loops end comes to its end, and bc leaves after dc.
Ends == job.ends ~> (halted /\ reader \in {"none", "exited"})
=============================================================================
