--------------------------- MODULE ParallelRunner ---------------------------
(***************************************************************************)
(* What xargs -P promises (xargs.1, options -P and EXIT STATUS), without   *)
(* pids, slots or wait statuses: at most limit invocations run at once,    *)
(* the first fatal failure stops the launching, the verdict is given when  *)
(* every invocation has ended, and it is good only if nothing went wrong.  *)
(***************************************************************************)
EXTENDS Integers, FiniteSets

CONSTANTS
  Jobs,     \* the invocations that may be made
  Limits    \* the values -P may have

VARIABLES
  limit,      \* -P
  launched,   \* the jobs launched so far
  active,     \* those that have not ended
  failed,     \* TRUE once something went wrong
  stopped,    \* TRUE once no further job may be launched
  verdict     \* "none" until the end, then "good" or "bad"

runner == <<limit, launched, active, failed, stopped, verdict>>

RunnerInit ==
  /\ limit \in Limits
  /\ launched = {} /\ active = {}
  /\ failed = FALSE /\ stopped = FALSE
  /\ verdict = "none"

Launch(j) ==
  /\ verdict = "none" /\ ~stopped
  /\ j \notin launched
  /\ Cardinality(active) < limit
  /\ launched' = launched \cup {j}
  /\ active' = active \cup {j}
  /\ UNCHANGED <<limit, failed, stopped, verdict>>

\* A job ends: well, badly, or so badly that nothing may be launched any more.
End(j) ==
  /\ verdict = "none"
  /\ j \in active
  /\ active' = active \ {j}
  /\ failed' \in {failed, TRUE}
  /\ stopped' \in IF failed' THEN {stopped, TRUE} ELSE {stopped}
  /\ UNCHANGED <<limit, launched, verdict>>

\* The input is exhausted, or cannot be used: no further job.
Stop ==
  /\ verdict = "none" /\ ~stopped
  /\ stopped' = TRUE
  /\ failed' \in {failed, TRUE}
  /\ UNCHANGED <<limit, launched, active, verdict>>

Decide ==
  /\ verdict = "none" /\ stopped
  /\ active = {}
  /\ verdict' = IF failed THEN "bad" ELSE "good"
  /\ UNCHANGED <<limit, launched, active, failed, stopped>>

RunnerNext ==
  \/ \E j \in Jobs : Launch(j) \/ End(j)
  \/ Stop
  \/ Decide

RunnerSpec == RunnerInit /\ [][RunnerNext]_runner
==============================================================================
