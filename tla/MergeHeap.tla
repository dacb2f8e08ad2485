------------------------------- MODULE MergeHeap -------------------------------
(***************************************************************************)
(* The k-way merge of sort(1), src/src/sort/file.c: a binary heap of       *)
(* sources, ordered by the line each of them is at.  file.c has it twice,  *)
(* for files (file_header) and for the parts of a list that threads have   *)
(* sorted (sub_list); the two differ only in how they move on to the next  *)
(* line.                                                                   *)
(*                                                                         *)
(* A step is one comparison, with the swap that may follow it.  fh[1] is   *)
(* the root: the children of i are 2 * i and 2 * i + 1.                    *)
(***************************************************************************)
EXTENDS Integers, Sequences

\* A line: what the keys make of it, and the rest of it.
Line   == [key : Nat, rest : Nat]
Source == [pos : Nat, lines : Seq(Line)]

VARIABLES
  task,    \* what is merged: the parts, and sflag and uflag
  fh,      \* the heap
  pushed,  \* length of the heap while it is built
  at,      \* the index that swims or sinks
  phase,   \* "idle", "push", "swim", "print" or "sink"
  out,     \* the lines printed
  from     \* history: the position of the source of each

mvars == <<task, fh, pushed, at, phase, out, from>>

\* list_coll(), str_list_coll(): the keys, then, if nothing forbids it, the line.
Coll(stable, a, b) ==
  IF a.key # b.key THEN a.key - b.key ELSE IF stable THEN 0 ELSE a.rest - b.rest

Ended(f) == f.lines = <<>>

\* file_header_cmp(f, g) < 0, for two different sources: those at their end come
\* last, and equal lines in the order of the sources.
Before(f, g) ==
  /\ ~Ended(f)
  /\ \/ Ended(g)
     \/ LET c == Coll(task.sflag, Head(f.lines), Head(g.lines))
        IN  c < 0 \/ (c = 0 /\ f.pos < g.pos)

Swap(i, j) == [fh EXCEPT ![i] = fh[j], ![j] = fh[i]]

MergeInit ==
  /\ task = [parts |-> <<>>, sflag |-> FALSE, uflag |-> FALSE]
  /\ fh = <<>> /\ pushed = 0 /\ at = 0
  /\ phase = "idle"
  /\ out = <<>> /\ from = <<>>

\* A merge begins: every source is at its first line.
MergeStart(parts, stable, unique) ==
  /\ phase = "idle"
  /\ parts # <<>>
  /\ task' = [parts |-> parts, sflag |-> stable, uflag |-> unique]
  /\ fh' = [i \in DOMAIN parts |-> [pos |-> i, lines |-> parts[i]]]
  /\ pushed' = 0 /\ at' = 0
  /\ phase' = "push"
  /\ out' = <<>> /\ from' = <<>>

\* file_header_list_push(): the next source is added at the end.
Push ==
  /\ phase = "push"
  /\ IF pushed < Len(fh)
     THEN pushed' = pushed + 1 /\ at' = pushed + 1 /\ phase' = "swim"
     ELSE phase' = "print" /\ UNCHANGED <<pushed, at>>
  /\ UNCHANGED <<task, fh, out, from>>

\* file_header_heap_swim()
Swim ==
  /\ phase = "swim"
  /\ IF at > 1 /\ Before(fh[at], fh[at \div 2])
     THEN fh' = Swap(at, at \div 2) /\ at' = at \div 2 /\ UNCHANGED phase
     ELSE phase' = "push" /\ UNCHANGED <<fh, at>>
  /\ UNCHANGED <<task, pushed, out, from>>

\* file_header_print(): with -u only what differs from the line printed last.
Printed(l) == task.uflag /\ out # <<>> => Coll(task.sflag, out[Len(out)], l) # 0

\* Print the line of the root, and read its next one.
PrintLine ==
  LET l == Head(fh[1].lines) IN
  /\ phase = "print"
  /\ ~Ended(fh[1])
  /\ IF Printed(l) THEN out' = Append(out, l) /\ from' = Append(from, fh[1].pos)
     ELSE UNCHANGED <<out, from>>
  /\ fh' = [fh EXCEPT ![1].lines = Tail(@)]
  /\ at' = 1
  /\ phase' = "sink"
  /\ UNCHANGED <<task, pushed>>

\* Mutant: the right child is never looked at.
FaultyChild(i) == 2 * i

\* The child of i that comes first.
Child(i) ==
  IF 2 * i < Len(fh) /\ Before(fh[2 * i + 1], fh[2 * i]) THEN 2 * i + 1 ELSE 2 * i

\* file_header_heap_sink()
Sink ==
  /\ phase = "sink"
  /\ IF 2 * at <= Len(fh) /\ Before(fh[Child(at)], fh[at])
     THEN fh' = Swap(at, Child(at)) /\ at' = Child(at) /\ UNCHANGED phase
     ELSE phase' = "print" /\ UNCHANGED <<fh, at>>
  /\ UNCHANGED <<task, pushed, out, from>>

\* Unfinished sources are always in front: there is no line left.
MergeEnd ==
  /\ phase = "print"
  /\ Ended(fh[1])
  /\ phase' = "idle"
  /\ UNCHANGED <<task, fh, pushed, at, out, from>>

MergeStep == Push \/ Swim \/ PrintLine \/ Sink \/ MergeEnd

MergeNext ==
  \/ MergeStep
  \/ \E parts \in Seq(Seq(Line)), stable, unique \in BOOLEAN : MergeStart(parts, stable, unique)

MergeSpec == MergeInit /\ [][MergeNext]_mvars

----------------------------------------------------------------------------

Sorted(stable, s) == \A i \in 1 .. Len(s) - 1 : Coll(stable, s[i], s[i + 1]) <= 0

InOrder(stable, a, p, b, q) == Coll(stable, a, b) < 0 \/ (Coll(stable, a, b) = 0 /\ p <= q)

SourcesSorted == \A i \in DOMAIN task.parts : Sorted(task.sflag, task.parts[i])

OutputOrdered ==
  \A i, j \in 1 .. Len(out) : i < j =>
    /\ InOrder(task.sflag, out[i], from[i], out[j], from[j])
    /\ task.uflag => Coll(task.sflag, out[i], out[j]) # 0

\* Sorted sources give a sorted output at every moment; equal lines come out in
\* the order of their sources, and with -u none comes twice.  Whatever the sources,
\* no line is left when the merge ends: "unfinished files are always in front"
\* (file_headers_merge(), merge_sub_lists()).
MergeOrdered ==
  /\ SourcesSorted => OutputOrdered
  /\ phase = "idle" => \A i \in DOMAIN fh : Ended(fh[i])
==============================================================================
