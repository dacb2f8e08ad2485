------------------------------ MODULE Process ------------------------------
(***************************************************************************)
(* What every command of the package has: what it was asked to do, what it *)
(* has still to read, its variables, what it has printed, and its exit     *)
(* status. Characters are one-character strings, a line is a sequence of   *)
(* characters that ends in a newline, except perhaps the last one of a     *)
(* file.                                                                   *)
(***************************************************************************)
EXTENDS Integers, SequencesExt

VARIABLES job,      \* [tool, arguments, files]
          inp,      \* what has not been read
          mem,      \* the variables of the command
          out,      \* what was printed
          status    \* the exit status; -1 while it runs

NL == "\n"
BS == "backspace"
Missing == <<<<"missing">>>>   \* stands for a file that cannot be opened
Running(tool) == job.tool = tool /\ status = -1
Emit(x) == out' = out \o x
Exit(s) == status' = s

Blank(c) == c \in {" ", "\t"}

\* The line without its newline, and whether it has one.
Chomp(l) == IF l # <<>> /\ Last(l) = NL THEN Front(l) ELSE l
Upper == "A" :> "a" @@ "B" :> "b"
Fold(l) == [i \in DOMAIN l |-> IF l[i] \in DOMAIN Upper THEN Upper[l[i]] ELSE l[i]]

\* The numbers of a set in ascending order
InOrder(S) == [i \in 1 .. Cardinality(S) |-> CHOOSE x \in S : Cardinality({y \in S : y < x}) = i - 1]

\* op(v), and FoldLeft, with v and each intermediate value evaluated once
With(v, op(_)) == CHOOSE r \in {op(x) : x \in {v}} : TRUE
Scan(step(_, _), base, s) ==
  LET at[i \in 0 .. Len(s)] == IF i = 0 THEN base
                               ELSE With(at[i - 1], LAMBDA v : step(v, s[i]))
  IN  at[Len(s)]

\* What follows the longest prefix of characters with the property
Dropped(s, P(_)) == LET kept == {i \in DOMAIN s : ~P(s[i])}
                    IN  IF kept = {} THEN <<>> ELSE SubSeq(s, Min(kept), Len(s))

\* The collating order of the characters in use, and of strings of them: <0, 0 or >0.
Alphabet == <<NL, "\t", " ", "+", "-", "0", "1", "2", "3", "4", "5", "6", "7", "8", "9", "A", "B", "a", "b", "c", "x", "y", "z">>
Rank == [c \in Range(Alphabet) |-> CHOOSE i \in DOMAIN Alphabet : Alphabet[i] = c]
Collate(s, t) ==
  LET n == IF Len(s) < Len(t) THEN Len(s) ELSE Len(t)
      diff == {i \in 1 .. n : s[i] # t[i]}
  IN  IF diff = {} THEN Len(s) - Len(t)
      ELSE Rank[s[Min(diff)]] - Rank[t[Min(diff)]]
=============================================================================
