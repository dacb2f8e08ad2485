--------------------------- MODULE XargsPoolProofs ---------------------------
(***************************************************************************)
(* Proofs about XargsPool for every -P, number of command lines and set of *)
(* outcomes: the invariants the runs check, and that the pool implements   *)
(* ParallelRunner.                                                         *)
(***************************************************************************)
EXTENDS XargsPool, FiniteSetTheorems, TLAPS

USE RunsAssumption, ProcsAssumption, OutcomeAssumption

\* Runs are pids of their own: neither the stranger's nor a free slot's.
LEMMA PidFacts ==
  /\ Runs \subseteq Pids /\ Stranger \in Pids /\ Stranger \notin Runs
  /\ NOPID \notin Runs
  /\ \A q \in Pids : q \in Runs \/ q = Stranger
  /\ count \in 0 .. MaxRuns /\ count < MaxRuns => count + 1 \in Runs
  BY DEF Runs, Pids, Stranger, NOPID

LEMMA RunsFinite ==
  ASSUME NEW S \in SUBSET Runs
  PROVE  IsFiniteSet(S) /\ Cardinality(S) \in Nat
<1>1. IsFiniteSet(Runs)
  BY FS_Interval DEF Runs
<1>2. IsFiniteSet(S)
  BY <1>1, FS_Subset
<1> QED BY <1>2, FS_CardinalityType

----------------------------------------------------------------------------
(***************************************************************************)
(* The inductive invariant, in four parts.                                 *)
(***************************************************************************)

\* Whenever run() may be called the pool has room, and waitchildren() left
\* nothing behind.
ReadInv ==
  pc = "read" => curprocs < maxprocs /\ ~waitall /\ cause_exit = 0 /\ after = "read"

\* The slots and the children of xargs are in one-to-one correspondence.
SlotInv ==
  /\ \A i \in Slots : childpids[i] # NOPID => childpids[i] \in Unreaped
  /\ \A q \in Unreaped : \E i \in Slots : childpids[i] = q
  /\ \A i, j \in Slots : childpids[i] = childpids[j] /\ childpids[i] # NOPID => i = j
  /\ curprocs = Cardinality(Unreaped)
  /\ \A q \in Runs : q > count => proc[q] = "none"

\* A fatal failure, and every caller that is about to exit, waits for all.
WaitInv ==
  /\ waitall <=> (cause_exit # 0 \/ after # "read")
  /\ pc = "exit" => /\ curprocs = 0
                    /\ waitall
                    /\ code = FinalStatus

\* What rval, cause_exit and childerr have recorded of the children so far.
RecordInv ==
  /\ \A q \in Runs : proc[q] = "zombie" => status[q] # "none"
  /\ rval = 0 /\ cause_exit = 0 => \A q \in Runs : proc[q] = "reaped" => status[q] = "ok"
  /\ \A q \in unexecuted :
       \/ proc[q] = "exiting"
       \/ proc[q] \in {"zombie", "reaped"} /\ status[q] = "fail"
  /\ childerr # NoError => unexecuted # {}
  /\ cause_exit \in {126, 127} => unexecuted # {}

IInv == TypeOK /\ ReadInv /\ SlotInv /\ WaitInv /\ RecordInv

----------------------------------------------------------------------------

LEMMA InitInv == Init => IInv
<1> SUFFICES ASSUME Init PROVE IInv
  OBVIOUS
<1>1. maxprocs \in Nat \ {0} /\ Unreaped = {}
  BY PidFacts DEF Init, Unreaped
<1>2. Cardinality(Unreaped) = 0
  BY <1>1, FS_EmptySet
<1>3. TypeOK
  <2>1. childpids \in [Slots -> Runs \cup {NOPID}] /\ curprocs \in 0 .. maxprocs
    BY <1>1 DEF Init
  <2>2. /\ proc \in [Pids -> {"none", "running", "exiting", "zombie", "reaped"}]
        /\ status \in [Pids -> AllOutcomes \cup {"none"}]
    BY DEF Init
  <2>3. /\ maxprocs \in ProcLimits /\ count \in 0 .. MaxRuns /\ unexecuted \subseteq Runs
        /\ code \in {-1, 0, 1, 126, 127} /\ rval \in {0, 1}
    BY DEF Init
  <2>4. waitall \in BOOLEAN /\ childerr \in Errnos \cup {NoError}
    BY DEF Init
  <2> QED BY <2>1, <2>2, <2>3, <2>4 DEF Init, TypeOK
<1>4. ReadInv
  BY <1>1 DEF Init, ReadInv
<1>5. SlotInv
  BY <1>1, <1>2, PidFacts DEF Init, SlotInv
<1>6. WaitInv
  BY DEF Init, WaitInv
<1>7. RecordInv
  BY PidFacts DEF Init, RecordInv
<1> QED BY <1>3, <1>4, <1>5, <1>6, <1>7 DEF IInv

\* The child that run() starts takes a free slot.
LEMMA RunStep ==
  ASSUME IInv, Run
  PROVE  /\ count + 1 \in Runs /\ count + 1 \notin Unreaped
         /\ Unreaped' = Unreaped \cup {count + 1}
         /\ curprocs' = curprocs + 1 /\ maxprocs' = maxprocs /\ Slots' = Slots
         /\ \E s \in Slots : childpids[s] = NOPID
                             /\ childpids' = [childpids EXCEPT ![s] = count + 1]
<1>1. count + 1 \in Runs /\ proc[count + 1] = "none"
  BY PidFacts DEF Run, IInv, TypeOK, SlotInv
<1>2. maxprocs' = maxprocs /\ curprocs' = curprocs + 1 /\ Slots' = Slots
  BY DEF Run, pids_add, Slots
<1>3. \A q \in Runs : proc'[q] = IF q = count + 1 THEN proc'[count + 1] ELSE proc[q]
  BY <1>1, PidFacts DEF Run, IInv, TypeOK
<1>4. proc'[count + 1] \in {"running", "exiting"}
  BY <1>1, PidFacts DEF Run, IInv, TypeOK
<1>5. Unreaped' = Unreaped \cup {count + 1} /\ count + 1 \notin Unreaped
  BY <1>1, <1>3, <1>4 DEF Unreaped
<1>6. \E s \in Slots : childpids[s] = NOPID
                       /\ childpids' = [childpids EXCEPT ![s] = count + 1]
  BY DEF Run, pids_add, FreeSlots
<1> QED BY <1>1, <1>2, <1>5, <1>6

\* Reaping a child in childpids frees its slot.
LEMMA ReapStep ==
  ASSUME IInv, NEW q \in Pids, Reap(q)
  PROVE  /\ q \in Runs /\ q \in Unreaped
         /\ Unreaped' = Unreaped \ {q}
         /\ curprocs' = curprocs - 1 /\ maxprocs' = maxprocs /\ Slots' = Slots
         /\ childpids' = [i \in Slots |-> IF childpids[i] = q THEN NOPID ELSE childpids[i]]
         /\ \A r \in Pids : proc'[r] = IF r = q THEN "reaped" ELSE proc[r]
<1>1. PICK i \in Slots : childpids[i] = q /\ q # NOPID
  BY DEF Reap, Tracked
<1>2. q \in Unreaped /\ q \in Runs
  BY <1>1 DEF IInv, SlotInv, Unreaped
<1>3. \A r \in Pids : proc'[r] = IF r = q THEN "reaped" ELSE proc[r]
  BY DEF Reap, IInv, TypeOK
<1>4. Unreaped' = Unreaped \ {q}
  BY <1>3, PidFacts DEF Unreaped
<1> QED BY <1>2, <1>3, <1>4 DEF Reap, pids_remove, Slots

\* The children's own steps, and the stranger's, leave the set of them alone.
LEMMA ChildStep ==
  ASSUME IInv, NEW q \in Pids,
         \/ \E how \in Outcomes : ChildEnds(q, how)
         \/ FailedExecEnds(q)
  PROVE  /\ Unreaped' = Unreaped /\ proc[q] \in {"running", "exiting"}
         /\ \A r \in Pids : proc'[r] = IF r = q THEN "zombie" ELSE proc[r]
         /\ UNCHANGED <<pool, childerr, rval, pc, wait, code, count, unexecuted>>
<1>1. /\ proc' = [proc EXCEPT ![q] = "zombie"] /\ proc[q] \in {"running", "exiting"}
      /\ UNCHANGED <<pool, childerr, rval, pc, wait, code, count, unexecuted>>
  BY DEF ChildEnds, FailedExecEnds
<1>2. \A r \in Pids : proc'[r] = IF r = q THEN "zombie" ELSE proc[r]
  BY <1>1 DEF IInv, TypeOK
<1> QED BY <1>1, <1>2, PidFacts DEF Unreaped

LEMMA StrangerStep ==
  ASSUME IInv, NEW q \in Pids, ReapStranger(q)
  PROVE  /\ q \notin Runs /\ Unreaped' = Unreaped
         /\ \A r \in Runs : proc'[r] = proc[r]
<1>1. q \notin Runs
  <2> SUFFICES ASSUME q \in Runs PROVE FALSE
    OBVIOUS
  <2>1. q \in Unreaped
    BY DEF ReapStranger, Zombies, Unreaped
  <2>2. q \in Tracked
    BY <2>1, PidFacts DEF IInv, SlotInv, Tracked
  <2> QED BY <2>2 DEF ReapStranger
<1>2. proc' = [proc EXCEPT ![q] = "reaped"] /\ Runs \subseteq Pids
  BY PidFacts DEF ReapStranger
<1>3. \A r \in Runs : proc'[r] = proc[r]
  BY <1>1, <1>2 DEF IInv, TypeOK
<1> QED BY <1>1, <1>3 DEF Unreaped

----------------------------------------------------------------------------
(***************************************************************************)
(* Each part of the invariant, step by step.                               *)
(***************************************************************************)

LEMMA TypeNext == IInv /\ [Next]_vars => TypeOK'
<1> SUFFICES ASSUME IInv, [Next]_vars PROVE TypeOK'
  OBVIOUS
<1> USE DEF IInv
<1>1. CASE Run
  <2>1. PICK s \in Slots : childpids' = [childpids EXCEPT ![s] = count + 1]
    BY <1>1, RunStep
  <2>2. childpids' \in [Slots' -> Runs \cup {NOPID}]
    BY <1>1, <2>1, RunStep DEF TypeOK
  <2>3. curprocs' \in 0 .. maxprocs' /\ maxprocs' \in ProcLimits
    <3>1. curprocs \in 0 .. maxprocs /\ maxprocs \in Nat /\ curprocs < maxprocs
      BY <1>1 DEF TypeOK, ReadInv, Run
    <3> QED BY <1>1, <3>1, RunStep DEF TypeOK
  <2>4. /\ proc' \in [Pids -> {"none", "running", "exiting", "zombie", "reaped"}]
        /\ childerr' \in Errnos \cup {NoError} /\ unexecuted' \subseteq Runs
    <3>1. count + 1 \in Runs
      BY <1>1, RunStep
    <3>2. unexecuted \subseteq Runs /\ proc \in [Pids -> {"none", "running", "exiting", "zombie", "reaped"}]
      BY DEF TypeOK
    <3>3. \/ childerr' = NoError /\ proc' = [proc EXCEPT ![count + 1] = "running"]
             /\ unexecuted' = unexecuted
          \/ childerr' \in Errnos /\ proc' = [proc EXCEPT ![count + 1] = "exiting"]
             /\ unexecuted' = unexecuted \cup {count + 1}
      BY <1>1 DEF Run
    <3> QED BY <3>1, <3>2, <3>3, PidFacts
  <2>5. count' \in 0 .. MaxRuns
    BY <1>1 DEF Run, TypeOK
  <2> QED BY <1>1, <2>2, <2>3, <2>4, <2>5 DEF Run, EnterWait, TypeOK
<1>2. CASE RunFails
  BY <1>2 DEF RunFails, xexit, EnterWait, TypeOK, pool, procs, Slots
<1>3. CASE RunDeclined
  BY <1>3 DEF RunDeclined, TypeOK, pool, wait, procs, Slots
<1>4. CASE EndOfInput
  BY <1>4 DEF EndOfInput, EnterWait, TypeOK, pool, procs, Slots
<1>5. CASE InputError
  BY <1>5 DEF InputError, xexit, EnterWait, TypeOK, pool, procs, Slots
<1>6. ASSUME NEW q \in Pids, ReapStranger(q) PROVE TypeOK'
  BY <1>6 DEF ReapStranger, TypeOK, pool, wait, Slots
<1>7. ASSUME NEW q \in Pids, Reap(q) PROVE TypeOK'
  <2>1. childpids' \in [Slots' -> Runs \cup {NOPID}]
    BY <1>7, ReapStep DEF TypeOK
  <2>2. curprocs' \in 0 .. maxprocs' /\ maxprocs' \in ProcLimits
    <3>1. curprocs \in 0 .. maxprocs /\ maxprocs \in Nat /\ curprocs # 0
      BY <1>7 DEF TypeOK, Reap, pids_empty
    <3> QED BY <1>7, <3>1, ReapStep DEF TypeOK
  <2>3. rval' \in {0, 1} /\ waitall' \in BOOLEAN /\ cause_exit' \in {0, 1, 126, 127}
    <3>1. rval \in {0, 1} /\ waitall \in BOOLEAN /\ cause_exit \in {0, 1, 126, 127}
      BY DEF TypeOK
    <3>2. CASE childerr # NoError /\ cause_exit = 0
      BY <1>7, <3>1, <3>2 DEF Reap
    <3>3. CASE ~(childerr # NoError /\ cause_exit = 0) /\ status[q] \in {"signal", "abort"}
      BY <1>7, <3>1, <3>3 DEF Reap
    <3>4. CASE ~(childerr # NoError /\ cause_exit = 0) /\ status[q] \notin {"signal", "abort"}
      BY <1>7, <3>1, <3>4 DEF Reap
    <3> QED BY <3>2, <3>3, <3>4
  <2> QED BY <1>7, <2>1, <2>2, <2>3 DEF Reap, TypeOK
<1>8. CASE LeaveWait
  BY <1>8 DEF LeaveWait, FinalStatus, TypeOK, pool, wait, procs, Slots
<1>9. ASSUME NEW q \in Pids, Child(q) PROVE TypeOK'
  <2>1. UNCHANGED <<pool, childerr, rval, pc, wait, code, count, unexecuted>>
    BY <1>9, ChildStep DEF Child
  <2>2. status' \in [Pids -> AllOutcomes \cup {"none"}]
    BY <1>9 DEF Child, ChildEnds, FailedExecEnds, TypeOK, AllOutcomes
  <2>3. proc' \in [Pids -> {"none", "running", "exiting", "zombie", "reaped"}]
    BY <1>9 DEF Child, ChildEnds, FailedExecEnds, TypeOK
  <2> QED BY <2>1, <2>2, <2>3 DEF TypeOK, pool, wait, Slots
<1>10. CASE UNCHANGED vars
  BY <1>10 DEF TypeOK, vars, pool, wait, procs, Slots
<1> QED BY <1>1, <1>2, <1>3, <1>4, <1>5, <1>6, <1>7, <1>8, <1>9, <1>10
        DEF Next, Xargs, Terminating

LEMMA ReadNext == IInv /\ [Next]_vars => ReadInv'
<1> SUFFICES ASSUME IInv, [Next]_vars PROVE ReadInv'
  OBVIOUS
<1>1. CASE Run \/ RunFails \/ EndOfInput \/ InputError
  BY <1>1 DEF Run, RunFails, EndOfInput, InputError, xexit, EnterWait, ReadInv
<1>2. CASE RunDeclined
  BY <1>2 DEF RunDeclined, ReadInv, IInv, pool, wait
<1>3. ASSUME NEW q \in Pids, ReapStranger(q) \/ Reap(q) PROVE ReadInv'
  BY <1>3 DEF ReapStranger, Reap, ReadInv
<1>4. CASE LeaveWait
  <2> SUFFICES ASSUME pc' = "read" PROVE curprocs' < maxprocs' /\ ~waitall' /\ cause_exit' = 0 /\ after' = "read"
    BY DEF ReadInv
  <2>1. /\ cause_exit = 0 /\ after = "read" /\ UNCHANGED <<maxprocs, curprocs, waitall, cause_exit, after>>
        /\ curprocs = 0 \/ (~waitall /\ ~(curprocs >= maxprocs))
    BY <1>4 DEF LeaveWait, pids_empty, pids_full, pool, wait
  <2>2. curprocs \in Nat /\ maxprocs \in Nat \ {0}
    BY DEF IInv, TypeOK
  <2>3. ~waitall
    BY <1>4, <2>1 DEF IInv, ReadInv, WaitInv
  <2> QED BY <2>1, <2>2, <2>3
<1>5. ASSUME NEW q \in Pids, Child(q) PROVE ReadInv'
  BY <1>5, ChildStep DEF Child, ReadInv, IInv, pool, wait
<1>6. CASE UNCHANGED vars
  BY <1>6 DEF ReadInv, IInv, vars, pool, wait
<1> QED BY <1>1, <1>2, <1>3, <1>4, <1>5, <1>6 DEF Next, Xargs, Terminating

LEMMA SlotNext == IInv /\ [Next]_vars => SlotInv'
<1> SUFFICES ASSUME IInv, [Next]_vars PROVE SlotInv'
  OBVIOUS
<1>1. CASE Run
  <2>1. PICK s \in Slots : childpids[s] = NOPID
                           /\ childpids' = [childpids EXCEPT ![s] = count + 1]
    BY <1>1, RunStep
  <2>2. /\ count + 1 \in Runs /\ count + 1 \notin Unreaped /\ Slots' = Slots
        /\ Unreaped' = Unreaped \cup {count + 1} /\ curprocs' = curprocs + 1
    BY <1>1, RunStep
  <2>3. \A i \in Slots : childpids'[i] = IF i = s THEN count + 1 ELSE childpids[i]
    BY <2>1 DEF IInv, TypeOK
  <2>4. Cardinality(Unreaped') = Cardinality(Unreaped) + 1
    BY <2>2, FS_AddElement, RunsFinite DEF Unreaped
  <2>5. \A q \in Runs : q > count' => proc'[q] = "none"
    <3>1. count' = count + 1 /\ count \in Nat
      BY <1>1 DEF Run, IInv, TypeOK
    <3>2. \A q \in Runs : q # count + 1 => proc'[q] = proc[q]
      BY <1>1, PidFacts DEF Run, IInv, TypeOK
    <3> QED BY <3>1, <3>2 DEF IInv, SlotInv, Runs
  <2>6. \A i \in Slots : childpids'[i] # NOPID => childpids'[i] \in Unreaped'
    BY <2>2, <2>3 DEF IInv, SlotInv
  <2>7. \A q \in Unreaped' : \E i \in Slots : childpids'[i] = q
    BY <2>1, <2>2, <2>3, PidFacts DEF IInv, SlotInv, Unreaped
  <2>8. \A i, j \in Slots : childpids'[i] = childpids'[j] /\ childpids'[i] # NOPID => i = j
    BY <2>2, <2>3 DEF IInv, SlotInv
  <2> QED BY <2>2, <2>4, <2>5, <2>6, <2>7, <2>8 DEF IInv, SlotInv
<1>2. CASE RunFails \/ RunDeclined
  <2>1. /\ UNCHANGED <<pool, proc>> /\ count' = count + 1 /\ count \in Nat
    BY <1>2 DEF RunFails, RunDeclined, procs, IInv, TypeOK
  <2>2. Unreaped' = Unreaped /\ Slots' = Slots
    BY <2>1 DEF Unreaped, Slots, pool
  <2>3. \A q \in Runs : q > count' => proc'[q] = "none"
    BY <2>1 DEF IInv, SlotInv, Runs
  <2> QED BY <2>1, <2>2, <2>3 DEF IInv, SlotInv, pool
<1>3. CASE EndOfInput \/ InputError \/ LeaveWait
  <2>1. UNCHANGED <<pool, proc, count>>
    BY <1>3 DEF EndOfInput, InputError, LeaveWait, procs
  <2>2. Unreaped' = Unreaped /\ Slots' = Slots
    BY <2>1 DEF Unreaped, Slots, pool
  <2> QED BY <2>1, <2>2 DEF IInv, SlotInv, pool
<1>4. ASSUME NEW q \in Pids, ReapStranger(q) PROVE SlotInv'
  <2>1. \A r \in Runs : proc'[r] = proc[r]
    BY <1>4, StrangerStep
  <2> QED BY <1>4, <2>1, StrangerStep DEF ReapStranger, IInv, SlotInv, Slots, pool
<1>5. ASSUME NEW q \in Pids, Reap(q) PROVE SlotInv'
  <2>1. /\ q \in Runs /\ q \in Unreaped /\ Unreaped' = Unreaped \ {q}
        /\ curprocs' = curprocs - 1 /\ Slots' = Slots
        /\ childpids' = [i \in Slots |-> IF childpids[i] = q THEN NOPID ELSE childpids[i]]
        /\ \A r \in Pids : proc'[r] = IF r = q THEN "reaped" ELSE proc[r]
    BY <1>5, ReapStep
  <2>2. Cardinality(Unreaped') = Cardinality(Unreaped) - 1
    BY SMTT(30), <2>1, FS_RemoveElement, RunsFinite DEF Unreaped
  <2>3. \A r \in Runs : r > count' => proc'[r] = "none"
    <3>1. count' = count /\ proc[q] # "none"
      BY <1>5, <2>1 DEF Reap, Unreaped
    <3> QED BY <2>1, <3>1, PidFacts DEF IInv, SlotInv
  <2>4. \A i \in Slots : childpids'[i] # NOPID => childpids'[i] \in Unreaped'
    BY <2>1 DEF IInv, SlotInv
  <2>5. \A r \in Unreaped' : \E i \in Slots : childpids'[i] = r
    BY <2>1 DEF IInv, SlotInv
  <2>6. \A i, j \in Slots : childpids'[i] = childpids'[j] /\ childpids'[i] # NOPID => i = j
    BY <2>1 DEF IInv, SlotInv
  <2> QED BY <2>1, <2>2, <2>3, <2>4, <2>5, <2>6 DEF IInv, SlotInv
<1>6. ASSUME NEW q \in Pids, Child(q) PROVE SlotInv'
  <2>1. /\ Unreaped' = Unreaped /\ proc[q] # "none"
        /\ \A r \in Pids : proc'[r] = IF r = q THEN "zombie" ELSE proc[r]
        /\ UNCHANGED <<pool, count>>
    BY <1>6, ChildStep DEF Child
  <2>2. \A r \in Runs : r > count' => proc'[r] = "none"
    BY <2>1, PidFacts DEF IInv, SlotInv
  <2> QED BY <2>1, <2>2 DEF IInv, SlotInv, Slots, pool
<1>7. CASE UNCHANGED vars
  BY <1>7 DEF IInv, SlotInv, Unreaped, Slots, pool, procs, vars
<1> QED BY <1>1, <1>2, <1>3, <1>4, <1>5, <1>6, <1>7 DEF Next, Xargs, Terminating

LEMMA WaitNext == IInv /\ [Next]_vars => WaitInv'
<1> SUFFICES ASSUME IInv, [Next]_vars PROVE WaitInv'
  OBVIOUS
<1>1. CASE Run \/ RunFails \/ EndOfInput \/ InputError
  BY <1>1 DEF Run, RunFails, EndOfInput, InputError, xexit, EnterWait, WaitInv
<1>2. CASE RunDeclined
  BY <1>2 DEF RunDeclined, WaitInv, IInv, pool, wait
<1>3. ASSUME NEW q \in Pids, ReapStranger(q) PROVE WaitInv'
  BY <1>3 DEF ReapStranger, WaitInv, IInv, pool, wait
<1>4. ASSUME NEW q \in Pids, Reap(q) PROVE WaitInv'
  <2>1. pc' = "wait" /\ after' = after
    BY <1>4 DEF Reap
  <2>2. waitall' <=> (cause_exit' # 0 \/ after' # "read")
    <3>1. CASE childerr # NoError /\ cause_exit = 0
      BY <1>4, <3>1 DEF Reap
    <3>2. CASE ~(childerr # NoError /\ cause_exit = 0) /\ status[q] \in {"signal", "abort"}
      BY <1>4, <3>2 DEF Reap
    <3>3. CASE ~(childerr # NoError /\ cause_exit = 0) /\ status[q] \notin {"signal", "abort"}
      BY <1>4, <3>3 DEF Reap, WaitInv, IInv
    <3> QED BY <3>1, <3>2, <3>3
  <2> QED BY <2>1, <2>2 DEF WaitInv
<1>5. CASE LeaveWait
  <2>1. /\ UNCHANGED <<curprocs, waitall, cause_exit, after>> /\ FinalStatus' = FinalStatus
    BY <1>5 DEF LeaveWait, pool, wait, FinalStatus
  <2>2. pc' = "exit" => curprocs = 0 /\ waitall /\ code' = FinalStatus
    BY <1>5 DEF LeaveWait, WaitInv, IInv, pids_empty
  <2> QED BY <2>1, <2>2 DEF WaitInv, IInv
<1>6. ASSUME NEW q \in Pids, Child(q) PROVE WaitInv'
  BY <1>6, ChildStep DEF Child, WaitInv, IInv, FinalStatus, pool, wait
<1>7. CASE UNCHANGED vars
  BY <1>7 DEF WaitInv, IInv, FinalStatus, vars, pool, wait
<1> QED BY <1>1, <1>2, <1>3, <1>4, <1>5, <1>6, <1>7 DEF Next, Xargs, Terminating

LEMMA RecordNext == IInv /\ [Next]_vars => RecordInv'
<1> SUFFICES ASSUME IInv, [Next]_vars PROVE RecordInv'
  OBVIOUS
<1>1. CASE Run
  <2>1. cause_exit = 0 /\ cause_exit' = 0 /\ rval' = rval /\ status' = status
    BY <1>1 DEF Run, EnterWait, IInv, ReadInv
  <2>2. count + 1 \in Runs /\ proc[count + 1] = "none"
    BY <1>1, PidFacts DEF Run, IInv, TypeOK, SlotInv
  <2>3. \A q \in Runs : q # count + 1 => proc'[q] = proc[q]
    BY <1>1, PidFacts DEF Run, IInv, TypeOK
  <2>4. \/ childerr' = NoError /\ proc'[count + 1] = "running" /\ unexecuted' = unexecuted
        \/ proc'[count + 1] = "exiting" /\ unexecuted' = unexecuted \cup {count + 1}
    BY <1>1, <2>2, PidFacts DEF Run, IInv, TypeOK
  <2>5. unexecuted \subseteq Runs
    BY DEF IInv, TypeOK
  <2>6. count + 1 \notin unexecuted
    BY <2>2 DEF IInv, RecordInv
  <2> QED BY <2>1, <2>2, <2>3, <2>4, <2>5, <2>6 DEF IInv, RecordInv
<1>2. CASE RunFails
  BY <1>2 DEF RunFails, xexit, EnterWait, RecordInv, IInv, ReadInv, procs
<1>3. CASE RunDeclined
  BY <1>3 DEF RunDeclined, RecordInv, IInv, procs, wait
<1>4. CASE EndOfInput \/ InputError
  BY <1>4 DEF EndOfInput, InputError, xexit, EnterWait, RecordInv, IInv, ReadInv, procs
<1>5. ASSUME NEW q \in Pids, ReapStranger(q) PROVE RecordInv'
  <2>1. /\ \A r \in Runs : proc'[r] = proc[r]
        /\ UNCHANGED <<childerr, rval, cause_exit, status, unexecuted>>
    BY <1>5, StrangerStep DEF ReapStranger, wait
  <2> QED BY <2>1 DEF IInv, TypeOK, RecordInv
<1>6. ASSUME NEW q \in Pids, Reap(q) PROVE RecordInv'
  <2>1. /\ q \in Runs /\ \A r \in Pids : proc'[r] = IF r = q THEN "reaped" ELSE proc[r]
    BY <1>6, ReapStep
  <2>2. UNCHANGED <<childerr, status, unexecuted>> /\ proc[q] = "zombie" /\ q \in Pids
    BY <1>6 DEF Reap, Zombies
  <2>3. \A r \in unexecuted' :
          \/ proc'[r] = "exiting"
          \/ proc'[r] \in {"zombie", "reaped"} /\ status'[r] = "fail"
    BY <2>1, <2>2, PidFacts DEF IInv, TypeOK, RecordInv
  <2>4. /\ rval' = 0 /\ cause_exit' = 0
             => \A r \in Runs : proc'[r] = "reaped" => status'[r] = "ok"
        /\ cause_exit' \in {126, 127} => unexecuted' # {}
    <3>1. CASE childerr # NoError /\ cause_exit = 0
      <4>1. cause_exit' \in {126, 127}
        BY <1>6, <3>1 DEF Reap
      <4> QED BY <2>2, <3>1, <4>1 DEF IInv, RecordInv
    <3>2. CASE ~(childerr # NoError /\ cause_exit = 0) /\ status[q] \in {"signal", "abort"}
      BY <1>6, <3>2 DEF Reap
    <3>3. CASE ~(childerr # NoError /\ cause_exit = 0) /\ status[q] \notin {"signal", "abort"}
      <4>1. cause_exit' = cause_exit /\ rval' = (IF status[q] = "fail" THEN 1 ELSE rval)
        BY <1>6, <3>3 DEF Reap
      <4>2. status[q] \in {"ok", "fail", "none"}
        BY <2>1, <3>3, PidFacts DEF IInv, TypeOK, AllOutcomes
      <4>3. status[q] # "none"
        BY <2>1, <2>2 DEF IInv, RecordInv
      <4>4. rval' = 0 => rval = 0 /\ status[q] = "ok"
        BY <4>1, <4>2, <4>3
      <4> QED BY <2>1, <2>2, <4>1, <4>4, PidFacts DEF IInv, RecordInv
    <3> QED BY <3>1, <3>2, <3>3
  <2> QED BY <2>1, <2>2, <2>3, <2>4, PidFacts DEF IInv, RecordInv
<1>7. CASE LeaveWait
  BY <1>7 DEF LeaveWait, RecordInv, IInv, procs, wait
<1>8. ASSUME NEW q \in Pids, Child(q) PROVE RecordInv'
  <2>1. /\ proc[q] \in {"running", "exiting"}
        /\ \A r \in Pids : proc'[r] = IF r = q THEN "zombie" ELSE proc[r]
        /\ UNCHANGED <<childerr, rval, cause_exit, unexecuted>>
    BY <1>8, ChildStep DEF Child, wait
  <2>2. \A r \in Pids : r # q => status'[r] = status[r]
    BY <1>8 DEF Child, ChildEnds, FailedExecEnds, IInv, TypeOK
  <2>3. proc[q] = "exiting" => status'[q] = "fail"
    BY <1>8 DEF Child, ChildEnds, FailedExecEnds, IInv, TypeOK
  <2>4. unexecuted \subseteq Pids
    BY PidFacts DEF IInv, TypeOK
  <2>5. status'[q] # "none"
    BY <1>8 DEF Child, ChildEnds, FailedExecEnds, IInv, TypeOK, AllOutcomes
  <2> QED BY <2>1, <2>2, <2>3, <2>4, <2>5, PidFacts DEF IInv, RecordInv
<1>9. CASE UNCHANGED vars
  BY <1>9 DEF RecordInv, IInv, vars, procs, wait
<1> QED BY <1>1, <1>2, <1>3, <1>4, <1>5, <1>6, <1>7, <1>8, <1>9 DEF Next, Xargs, Terminating

LEMMA NextInv == IInv /\ [Next]_vars => IInv'
  BY TypeNext, ReadNext, SlotNext, WaitNext, RecordNext DEF IInv

LEMMA Invariant == Spec => []IInv
<1>1. Init => IInv  BY InitInv
<1>2. IInv /\ [Next]_vars => IInv'  BY NextInv
<1> QED BY <1>1, <1>2, PTL DEF Spec

----------------------------------------------------------------------------
(***************************************************************************)
(* The theorems.                                                           *)
(***************************************************************************)

\* Every variable of the pool keeps its type, whatever -P and the children do.
THEOREM TypeCorrect == Spec => []TypeOK
  BY Invariant, PTL DEF IInv

\* As many slots as children: a free one is left whenever fewer than maxprocs
\* children are unreaped, by the pigeonhole principle.
LEMMA RoomInPool ==
  ASSUME IInv, curprocs < maxprocs
  PROVE  FreeSlots # {}
<1> SUFFICES ASSUME FreeSlots = {} PROVE FALSE
  OBVIOUS
<1>1. maxprocs \in Nat \ {0}
  BY DEF IInv, TypeOK
<1>2. IsFiniteSet(Slots) /\ Cardinality(Slots) = maxprocs
  BY <1>1, FS_Interval DEF Slots
<1>3. IsFiniteSet(Unreaped) /\ Cardinality(Unreaped) < Cardinality(Slots)
  BY <1>2, RunsFinite DEF IInv, SlotInv, Unreaped
<1>4. childpids \in [Slots -> Unreaped]
  BY DEF FreeSlots, IInv, TypeOK, SlotInv
<1>5. \E i, j \in Slots : i # j /\ childpids[i] = childpids[j]
  BY <1>2, <1>3, <1>4, FS_PigeonHole
<1> QED BY <1>5 DEF FreeSlots, IInv, SlotInv

LEMMA SlotsFollow == IInv => SlotsTrackChildren
<1> SUFFICES ASSUME IInv PROVE SlotsTrackChildren
  OBVIOUS
<1>1. Tracked = Unreaped
  <2>1. Tracked \subseteq Unreaped
    BY DEF Tracked, IInv, SlotInv
  <2>2. Unreaped \subseteq Tracked
    BY PidFacts DEF Tracked, IInv, SlotInv, Unreaped
  <2> QED BY <2>1, <2>2
<1>2. pc = "read" => FreeSlots # {}
  BY RoomInPool DEF IInv, ReadInv
<1> QED BY <1>1, <1>2 DEF SlotsTrackChildren, IInv, SlotInv

\* The slot array is exact: findfreeslot() never fails, for any -P.
THEOREM SlotsTrackChildrenHolds == Spec => []SlotsTrackChildren
  BY Invariant, SlotsFollow, PTL

\* An empty pool means that no invocation is left.
LEMMA NoneLeft ==
  ASSUME IInv, curprocs = 0
  PROVE  Unreaped = {}
  BY RunsFinite, FS_EmptySet DEF IInv, SlotInv, Unreaped

LEMMA VerdictFollows == IInv => HonestVerdict
<1> SUFFICES ASSUME IInv, pc = "exit"
             PROVE  /\ code = 0 => unexecuted = {}
                                   /\ \A q \in Runs : proc[q] # "none" => status[q] = "ok"
                    /\ code \in {126, 127} => unexecuted # {}
  BY DEF HonestVerdict
<1>1. Unreaped = {} /\ code = FinalStatus
  BY NoneLeft DEF IInv, WaitInv
<1>2. \A q \in Runs : proc[q] \in {"none", "reaped"}
  BY <1>1, PidFacts DEF Unreaped, IInv, TypeOK
<1>3. code \in {126, 127} => unexecuted # {}
  BY <1>1 DEF FinalStatus, IInv, TypeOK, RecordInv
<1>4. ASSUME code = 0 PROVE rval = 0 /\ cause_exit = 0
  BY <1>1, <1>4 DEF FinalStatus
<1>5. code = 0 => \A q \in Runs : proc[q] # "none" => status[q] = "ok"
  BY <1>2, <1>4 DEF IInv, RecordInv
<1>6. ASSUME code = 0, NEW q \in unexecuted PROVE FALSE
  BY <1>2, <1>5, <1>6 DEF IInv, RecordInv, TypeOK
<1> QED BY <1>3, <1>5, <1>6

\* Exit status 0 is never given after a failure, nor 126 or 127 without one.
THEOREM HonestVerdictHolds == Spec => []HonestVerdict
  BY Invariant, VerdictFollows, PTL

----------------------------------------------------------------------------
(***************************************************************************)
(* The pool implements the abstract runner.                                *)
(***************************************************************************)

\* Cardinality means the same in both modules.
LEMMA SameCardinality == \A S : Runner!Cardinality(S) = Cardinality(S)
  BY DEF Cardinality, Runner!Cardinality

LEMMA RunnerStart == Init => Runner!RunnerInit
  BY PidFacts DEF Init, Runner!RunnerInit, Unreaped

LEMMA RunnerStep == IInv /\ [Next]_vars => [Runner!RunnerNext]_(Runner!runner)
<1> SUFFICES ASSUME IInv, [Next]_vars
             PROVE  Runner!RunnerNext \/ UNCHANGED Runner!runner
  OBVIOUS
<1> DEFINE Launched == {q \in Runs : proc[q] # "none"}
           Failed   == rval # 0 \/ cause_exit # 0 \/ after = "exit1"
           Verdict  == IF pc # "exit" THEN "none" ELSE IF code = 0 THEN "good" ELSE "bad"
<1>1. CASE Run
  <2>1. /\ count + 1 \in Runs /\ Unreaped' = Unreaped \cup {count + 1}
        /\ maxprocs' = maxprocs
    BY <1>1, RunStep
  <2>2. /\ pc = "read" /\ pc' = "wait" /\ rval' = rval
        /\ cause_exit' = 0 /\ waitall' = FALSE /\ after' = "read"
    BY <1>1 DEF Run, EnterWait
  <2>3. /\ curprocs < maxprocs /\ ~waitall /\ cause_exit = 0 /\ after = "read"
    BY <2>2 DEF IInv, ReadInv
  <2>4. Launched' = Launched \cup {count + 1} /\ count + 1 \notin Launched
    <3>1. proc[count + 1] = "none" /\ proc'[count + 1] # "none"
      BY <1>1, <2>1, PidFacts DEF Run, IInv, TypeOK, SlotInv
    <3>2. \A q \in Runs : q # count + 1 => proc'[q] = proc[q]
      BY <1>1, <2>1, PidFacts DEF Run, IInv, TypeOK
    <3> QED BY <2>1, <3>1, <3>2
  <2>5. Cardinality(Unreaped) < maxprocs
    BY <2>3 DEF IInv, SlotInv
  <2>6. Failed' = Failed /\ Verdict = "none" /\ Verdict' = "none" /\ waitall' = waitall
    BY <2>2, <2>3 DEF IInv, TypeOK
  <2>7. PICK j \in Runs : j = count + 1
    BY <2>1
  <2>8. Runner!Launch(j)
    BY <2>1, <2>3, <2>4, <2>5, <2>6, <2>7, SameCardinality DEF Runner!Launch
  <2> QED BY <2>8 DEF Runner!RunnerNext
<1>2. CASE RunFails \/ EndOfInput \/ InputError
  <2>1. /\ pc = "read" /\ pc' = "wait" /\ rval' = rval /\ UNCHANGED <<maxprocs, proc>>
        /\ cause_exit' = 0 /\ waitall' = TRUE /\ after' \in {"exit1", "exitrval"}
    BY <1>2 DEF RunFails, EndOfInput, InputError, xexit, EnterWait, pool, procs
  <2>2. ~waitall /\ cause_exit = 0 /\ after = "read"
    BY <2>1 DEF IInv, ReadInv
  <2>3. Failed' \in {Failed, TRUE} /\ Verdict = "none" /\ Verdict' = "none"
    BY <2>1, <2>2
  <2>4. Launched' = Launched /\ Unreaped' = Unreaped
    BY <2>1 DEF Unreaped
  <2>5. Runner!Stop
    BY <2>1, <2>2, <2>3, <2>4 DEF Runner!Stop
  <2> QED BY <2>5 DEF Runner!RunnerNext
<1>3. CASE RunDeclined
  BY <1>3 DEF RunDeclined, Runner!runner, Unreaped, pool, wait, procs
<1>4. ASSUME NEW q \in Pids, ReapStranger(q) PROVE UNCHANGED Runner!runner
  <2>1. \A r \in Runs : proc'[r] = proc[r]
    BY <1>4, StrangerStep
  <2> QED BY <1>4, <2>1, StrangerStep DEF ReapStranger, Runner!runner, pool, wait
<1>5. ASSUME NEW q \in Pids, Reap(q) PROVE Runner!RunnerNext
  <2>1. /\ q \in Runs /\ q \in Unreaped /\ Unreaped' = Unreaped \ {q} /\ maxprocs' = maxprocs
        /\ \A r \in Pids : proc'[r] = IF r = q THEN "reaped" ELSE proc[r]
    BY <1>5, ReapStep
  <2>2. pc = "wait" /\ pc' = "wait" /\ after' = after
    BY <1>5 DEF Reap
  <2>3. Launched' = Launched
    BY <2>1, PidFacts DEF Unreaped
  <2>4. (Failed => Failed') /\ (waitall => waitall') /\ (waitall' => waitall \/ Failed')
    <3>1. CASE childerr # NoError /\ cause_exit = 0
      <4>1. waitall' = TRUE /\ cause_exit' \in {126, 127}
        BY <1>5, <3>1 DEF Reap
      <4> QED BY <4>1
    <3>2. CASE ~(childerr # NoError /\ cause_exit = 0) /\ status[q] \in {"signal", "abort"}
      <4>1. waitall' = TRUE /\ cause_exit' = 1
        BY <1>5, <3>2 DEF Reap
      <4> QED BY <4>1
    <3>3. CASE ~(childerr # NoError /\ cause_exit = 0) /\ status[q] \notin {"signal", "abort"}
      <4>1. cause_exit' = cause_exit /\ waitall' = waitall /\ rval' \in {rval, 1}
        BY <1>5, <3>3 DEF Reap
      <4> QED BY <2>2, <4>1
    <3> QED BY <3>1, <3>2, <3>3
  <2>5. Verdict = "none" /\ Verdict' = "none"
    BY <2>2
  <2>6. Runner!End(q)
    <3>1. waitall \in BOOLEAN /\ waitall' \in BOOLEAN
      BY TypeNext DEF IInv, TypeOK
    <3>2. Failed' \in {Failed, TRUE} /\ waitall' \in IF Failed' THEN {waitall, TRUE} ELSE {waitall}
      BY ONLY <2>4, <3>1
    <3> QED BY <2>1, <2>3, <2>5, <3>2 DEF Runner!End
  <2> QED BY <2>1, <2>6 DEF Runner!RunnerNext
<1>6. CASE LeaveWait
  <2>1. /\ pc = "wait" /\ UNCHANGED <<maxprocs, proc, rval, waitall, cause_exit, after>>
        /\ Verdict = "none"
    BY <1>6 DEF LeaveWait, pool, wait, procs
  <2>2. Launched' = Launched /\ Unreaped' = Unreaped /\ Failed' = Failed
    BY <2>1 DEF Unreaped
  <2>3. CASE pc' = "read"
    BY <2>1, <2>2, <2>3 DEF Runner!runner
  <2>4. CASE pc' # "read"
    <3>1. pc' = "exit" /\ code' = FinalStatus /\ (cause_exit # 0 \/ after # "read")
      BY <1>6, <2>4 DEF LeaveWait
    <3>2. waitall
      BY <3>1 DEF IInv, WaitInv
    <3>3. Unreaped = {}
      BY <1>6, <3>2, NoneLeft DEF LeaveWait, pids_empty
    <3>4. Verdict' = IF Failed THEN "bad" ELSE "good"
      BY <3>1 DEF FinalStatus, IInv, TypeOK
    <3>5. Runner!Decide
      BY <2>1, <2>2, <3>2, <3>3, <3>4 DEF Runner!Decide
    <3> QED BY <3>5 DEF Runner!RunnerNext
  <2> QED BY <2>3, <2>4
<1>7. ASSUME NEW q \in Pids, Child(q) PROVE UNCHANGED Runner!runner
  <2>1. /\ Unreaped' = Unreaped /\ proc[q] # "none"
        /\ \A r \in Pids : proc'[r] = IF r = q THEN "zombie" ELSE proc[r]
        /\ UNCHANGED <<pool, rval, pc, wait, code>>
    BY <1>7, ChildStep DEF Child
  <2>2. Launched' = Launched
    BY <2>1, PidFacts
  <2> QED BY <2>1, <2>2 DEF Runner!runner, pool, wait
<1>8. CASE UNCHANGED vars
  BY <1>8 DEF vars, pool, wait, procs, Runner!runner, Unreaped
<1> QED BY <1>1, <1>2, <1>3, <1>4, <1>5, <1>6, <1>7, <1>8 DEF Next, Xargs, Terminating

\* xargs -P implements the abstract runner, for every -P and every input.
THEOREM PoolImplementsRunner == Spec => RunsInParallel
<1>1. Init => Runner!RunnerInit  BY RunnerStart
<1>2. IInv /\ [Next]_vars => [Runner!RunnerNext]_(Runner!runner)  BY RunnerStep
<1> QED BY <1>1, <1>2, Invariant, PTL DEF Spec, RunsInParallel, Runner!RunnerSpec
==============================================================================
