------------------------------ MODULE XargsPool ------------------------------
(***************************************************************************)
(* The process pool of xargs(1), src/src/xargs/xargs.c: run(), xwait(),    *)
(* waitchildren(), xexit() and the pids_* helpers around childpids.        *)
(*                                                                         *)
(* The command lines that parse_input() assembles are numbered 1, 2, ...   *)
(* in the order run() is called for them; a command line's number also     *)
(* stands for the pid of its child.  Stranger is a child that xargs        *)
(* inherited over exec() and does not track.  How a command line comes     *)
(* about is XargsInput's matter: here the reader hands over at most        *)
(* MaxRuns of them, and then meets the end of the input or an error.       *)
(***************************************************************************)
EXTENDS Integers, FiniteSets

CONSTANTS
  MaxRuns,      \* bound: how many command lines the input gives
  ProcLimits,   \* the values -P may have
  Outcomes      \* the ways an invocation ends

\* "ok" is exit 0, "fail" a nonzero exit, "abort" exit 255, "signal" a signal.
AllOutcomes == {"ok", "fail", "abort", "signal"}

ASSUME RunsAssumption    == MaxRuns \in Nat
ASSUME ProcsAssumption   == ProcLimits \subseteq Nat \ {0}
ASSUME OutcomeAssumption == Outcomes \subseteq AllOutcomes

Runs     == 1 .. MaxRuns
NOPID    == 0
Stranger == MaxRuns + 1
Pids     == Runs \cup {Stranger}

NoError == "none"
Errnos  == {"ENOENT", "EACCES"}   \* EACCES stands for every errno but ENOENT

VARIABLES
  maxprocs,   \* -P
  childpids,  \* slot -> pid, NOPID in a free slot
  curprocs,   \* number of slots in use
  childerr,   \* errno of the last failed exec, written by the vfork()ed child
  rval,       \* exit status of a run without a fatal failure
  pc,         \* "read" in parse_input(), "wait" in waitchildren(), "exit"
  waitall, cause_exit,   \* locals of waitchildren()
  after,      \* what its caller does next: "read", or exit with 1 or rval
  code,       \* exit status, -1 while xargs runs
  count,      \* number of command lines given to run()
  proc,       \* state of each process as xargs's child
  status,     \* how it ended
  unexecuted  \* history: the command lines whose exec failed

pool == <<maxprocs, childpids, curprocs>>
wait == <<waitall, cause_exit, after>>
procs == <<proc, status, unexecuted>>
vars == <<pool, childerr, rval, pc, wait, code, count, procs>>

Slots   == 0 .. maxprocs - 1
Tracked == {childpids[i] : i \in Slots} \ {NOPID}
Zombies == {q \in Pids : proc[q] = "zombie"}

pids_empty == curprocs = 0
pids_full  == curprocs >= maxprocs

----------------------------------------------------------------------------

\* pids_init(); an inherited child may be running.
Init ==
  /\ maxprocs \in ProcLimits
  /\ childpids = [i \in Slots |-> NOPID]
  /\ curprocs = 0
  /\ childerr = NoError
  /\ rval = 0
  /\ pc = "read"
  /\ waitall = FALSE /\ cause_exit = 0 /\ after = "read"
  /\ code = -1
  /\ count = 0
  /\ \E s \in {"none", "running"} :
       proc = [q \in Pids |-> IF q = Stranger THEN s ELSE "none"]
  /\ status = [q \in Pids |-> "none"]
  /\ unexecuted = {}

\* waitchildren(name, all) is entered; its caller then continues with k.
EnterWait(all, k) ==
  /\ pc' = "wait"
  /\ waitall' = all
  /\ cause_exit' = 0
  /\ after' = k

\* Mutant: xexit() does not wait for the invocations.
FaultyXexit == EnterWait(FALSE, "exit1")

\* xexit(name, 1)
xexit == EnterWait(TRUE, "exit1")

\* findslot(NOPID): the first free slot; findfreeslot() gives up without one.
FreeSlots == {i \in Slots : childpids[i] = NOPID}

pids_add(pid) ==
  /\ \E slot \in FreeSlots :
       /\ \A i \in FreeSlots : slot <= i
       /\ childpids' = [childpids EXCEPT ![slot] = pid]
  /\ curprocs' = curprocs + 1
  /\ UNCHANGED maxprocs

\* run(): vfork() holds xargs up until the child has called exec, or has failed
\* to and left errno in childerr; such a child is still on its way to exit(1).
Run ==
  /\ pc = "read"
  /\ count < MaxRuns
  /\ count' = count + 1
  /\ \/ /\ childerr' = NoError                 \* exec succeeds
        /\ proc' = [proc EXCEPT ![count + 1] = "running"]
        /\ UNCHANGED unexecuted
     \/ /\ childerr' \in Errnos                \* exec fails
        /\ proc' = [proc EXCEPT ![count + 1] = "exiting"]
        /\ unexecuted' = unexecuted \cup {count + 1}
  /\ pids_add(count + 1)
  /\ EnterWait(FALSE, "read")
  /\ UNCHANGED <<rval, code, status>>

\* vfork() fails.
RunFails ==
  /\ pc = "read"
  /\ count < MaxRuns
  /\ count' = count + 1
  /\ childerr' = NoError
  /\ xexit
  /\ UNCHANGED <<pool, rval, code, procs>>

\* The user declines the prompt of -p: run() returns at once.
RunDeclined ==
  /\ pc = "read"
  /\ count < MaxRuns
  /\ count' = count + 1
  /\ UNCHANGED <<pool, childerr, rval, pc, wait, code, procs>>

\* parse_input() meets the end of the input: wait for everyone, exit(rval).
EndOfInput ==
  /\ pc = "read"
  /\ EnterWait(TRUE, "exitrval")
  /\ UNCHANGED <<pool, childerr, rval, code, count, procs>>

\* parse_input() cannot use the input (a quote left open, no space): xexit().
InputError ==
  /\ pc = "read"
  /\ xexit
  /\ UNCHANGED <<pool, childerr, rval, code, count, procs>>

\* Mutant: the count goes down for any pid, in childpids or not.
FaultyReapStranger(q) ==
  /\ pc = "wait"
  /\ ~pids_empty
  /\ q \in Zombies \ Tracked
  /\ proc' = [proc EXCEPT ![q] = "reaped"]
  /\ curprocs' = curprocs - 1
  /\ UNCHANGED <<maxprocs, childpids, childerr, rval, pc, wait, code, count, status,
                 unexecuted>>

\* xwait() reaps a child that is not in childpids and looks on.
ReapStranger(q) ==
  /\ pc = "wait"
  /\ ~pids_empty
  /\ q \in Zombies \ Tracked
  /\ proc' = [proc EXCEPT ![q] = "reaped"]
  /\ UNCHANGED <<pool, childerr, rval, pc, wait, code, count, status, unexecuted>>

\* Mutant: the count is left alone.
FaultyPidsRemove(pid) ==
  /\ childpids' = [i \in Slots |-> IF childpids[i] = pid THEN NOPID ELSE childpids[i]]
  /\ UNCHANGED <<curprocs, maxprocs>>

\* pids_remove(): the slot of the pid is cleared.
pids_remove(pid) ==
  /\ childpids' = [i \in Slots |-> IF childpids[i] = pid THEN NOPID ELSE childpids[i]]
  /\ curprocs' = curprocs - 1
  /\ UNCHANGED maxprocs

\* Mutant: rval follows the last child, so that a success hides a failure.
FaultyReap(q) ==
  /\ pc = "wait"
  /\ ~pids_empty
  /\ q \in Zombies \cap Tracked
  /\ proc' = [proc EXCEPT ![q] = "reaped"]
  /\ pids_remove(q)
  /\ rval' = IF status[q] = "ok" THEN 0 ELSE 1
  /\ UNCHANGED <<childerr, pc, wait, code, count, status, unexecuted>>

\* One turn of waitchildren(): xwait() returns the pid of a child in childpids.
\* A childerr that is set is charged to this child, whichever child it was.
Reap(q) ==
  /\ pc = "wait"
  /\ ~pids_empty
  /\ q \in Zombies \cap Tracked
  /\ proc' = [proc EXCEPT ![q] = "reaped"]
  /\ pids_remove(q)
  /\ IF childerr # NoError /\ cause_exit = 0
     THEN /\ waitall' = TRUE
          /\ cause_exit' = IF childerr = "ENOENT" THEN 127 ELSE 126
          /\ UNCHANGED rval
     ELSE IF status[q] \in {"signal", "abort"}
     THEN waitall' = TRUE /\ cause_exit' = 1 /\ UNCHANGED rval
     ELSE rval' = (IF status[q] = "fail" THEN 1 ELSE rval) /\ UNCHANGED <<waitall, cause_exit>>
  /\ UNCHANGED <<childerr, pc, after, code, count, status, unexecuted>>

\* Mutant: the two statuses are added up.
FaultyFinalStatus == cause_exit + (IF after = "exit1" THEN 1 ELSE rval)

\* The exit status waitchildren() or, when it returns, its caller exits with.
FinalStatus ==
  IF cause_exit # 0 THEN cause_exit
  ELSE IF after = "exit1" THEN 1 ELSE rval

\* xwait() has no child to return: none is left, or none has ended and it is not
\* to block, because neither waitall is set nor the pool full.
LeaveWait ==
  /\ pc = "wait"
  /\ pids_empty \/ (Zombies = {} /\ ~waitall /\ ~pids_full)
  /\ IF cause_exit = 0 /\ after = "read"
     THEN pc' = "read" /\ UNCHANGED code
     ELSE pc' = "exit" /\ code' = FinalStatus
  /\ UNCHANGED <<pool, childerr, rval, wait, count, procs>>

Xargs ==
  \/ Run \/ RunFails \/ RunDeclined \/ EndOfInput \/ InputError
  \/ \E q \in Pids : ReapStranger(q) \/ Reap(q)
  \/ LeaveWait

----------------------------------------------------------------------------
(***************************************************************************)
(* The children.                                                           *)
(***************************************************************************)

ChildEnds(q, how) ==
  /\ proc[q] = "running"
  /\ proc' = [proc EXCEPT ![q] = "zombie"]
  /\ status' = [status EXCEPT ![q] = how]
  /\ UNCHANGED <<pool, childerr, rval, pc, wait, code, count, unexecuted>>

\* The child whose exec failed is done with _exit(1).
FailedExecEnds(q) ==
  /\ proc[q] = "exiting"
  /\ proc' = [proc EXCEPT ![q] = "zombie"]
  /\ status' = [status EXCEPT ![q] = "fail"]
  /\ UNCHANGED <<pool, childerr, rval, pc, wait, code, count, unexecuted>>

Child(q) == FailedExecEnds(q) \/ \E how \in Outcomes : ChildEnds(q, how)

Terminating == pc = "exit" /\ UNCHANGED vars

Next == Xargs \/ (\E q \in Pids : Child(q)) \/ Terminating

\* xargs is scheduled, and the invocations end; the stranger need not.
Fairness == WF_vars(Xargs) /\ \A q \in Runs : WF_vars(Child(q))

Spec     == Init /\ [][Next]_vars
FairSpec == Spec /\ Fairness

----------------------------------------------------------------------------
(***************************************************************************)
(* Properties.                                                             *)
(***************************************************************************)

\* Every variable keeps its type; in particular the exit status is one that
\* xargs.1 lists.
TypeOK ==
  /\ maxprocs \in ProcLimits
  /\ childpids \in [Slots -> Runs \cup {NOPID}]
  /\ curprocs \in 0 .. maxprocs
  /\ childerr \in Errnos \cup {NoError}
  /\ rval \in {0, 1}
  /\ pc \in {"read", "wait", "exit"}
  /\ waitall \in BOOLEAN
  /\ cause_exit \in {0, 1, 126, 127}
  /\ after \in {"read", "exit1", "exitrval"}
  /\ code \in {-1, 0, 1, 126, 127}
  /\ count \in 0 .. MaxRuns
  /\ proc \in [Pids -> {"none", "running", "exiting", "zombie", "reaped"}]
  /\ status \in [Pids -> AllOutcomes \cup {"none"}]
  /\ unexecuted \subseteq Runs

\* The children of xargs that it started and has not reaped.
Unreaped == {q \in Runs : proc[q] \in {"running", "exiting", "zombie"}}

\* childpids holds exactly those children, each in one slot, curprocs counts
\* them, and findfreeslot() finds a slot whenever run() may be called: its
\* "internal error" cannot happen, whatever children xargs inherited.
SlotsTrackChildren ==
  /\ Tracked = Unreaped
  /\ curprocs = Cardinality(Unreaped)
  /\ \A i, j \in Slots : childpids[i] = childpids[j] /\ childpids[i] # NOPID => i = j
  /\ pc = "read" => FreeSlots # {}

\* Exit status 0 means that every command line was executed and succeeded, and
\* 126 or 127 that some could not be: no race between the children hides a
\* failure or makes one up (waitchildren(), childerr and rval).
HonestVerdict ==
  pc = "exit" =>
    /\ code = 0 => unexecuted = {} /\ \A q \in Runs : proc[q] # "none" => status[q] = "ok"
    /\ code \in {126, 127} => unexecuted # {}

\* xargs always comes to an end when its invocations do, even if a child it
\* inherited never ends.
Termination == <>(pc = "exit")

\* The abstract runner, seen through the kernel's process table.
Runner == INSTANCE ParallelRunner WITH
  Jobs     <- Runs,
  Limits   <- ProcLimits,
  limit    <- maxprocs,
  launched <- {q \in Runs : proc[q] # "none"},
  active   <- Unreaped,
  failed   <- rval # 0 \/ cause_exit # 0 \/ after = "exit1",
  stopped  <- waitall,
  verdict  <- IF pc # "exit" THEN "none" ELSE IF code = 0 THEN "good" ELSE "bad"

\* xargs -P implements the abstract runner: never more than -P invocations at
\* once, none after a fatal failure, no exit before the last one has ended.
RunsInParallel == Runner!RunnerSpec

\* EXIT STATUS of xargs.1: "If utility cannot be found, xargs exits with a value
\* of 127, otherwise if utility cannot be executed, xargs exits with a value of
\* 126".  Runs with another error to report are left aside.
ExecFailureReported ==
  pc = "exit" /\ unexecuted # {} /\ after # "exit1"
    /\ (\A q \in Runs : status[q] \notin {"signal", "abort"})
    => code \in {126, 127}
==============================================================================
