------------------------------- MODULE Timeout -------------------------------
(***************************************************************************)
(* timeout(1), src/src/timeout/timeout.c: run a command, signal it when a  *)
(* time limit expires, and report its exit status.                         *)
(*                                                                         *)
(* The processes are timeout itself (the control state pc), the command    *)
(* "cmd" it forks, and one descendant "desc" of the command that detached  *)
(* itself and was handed to timeout, which is a child subreaper unless     *)
(* --foreground is given.  The kernel is modelled by the set of signals    *)
(* pending for timeout, its interval timer, and the zombies it can reap.   *)
(*                                                                         *)
(* A behaviour starts when the handlers are installed, just before fork(). *)
(* Until sigprocmask() runs, a signal that arrives runs the handler at     *)
(* once; afterwards it stays pending until sigsuspend() takes it.  Every   *)
(* caught signal is in sa_mask, so one sigsuspend() takes exactly one.     *)
(***************************************************************************)
EXTENDS Integers, Sequences, FiniteSets

CONSTANTS
  ExitCodes,    \* exit codes the command and its descendant may return
  Options,      \* the command lines considered, a set of option records
  External,     \* signals other processes may send to timeout
  MaxSignals    \* how many such signals are sent (bounds the model)

\* Linux numbers of the signals told apart; SIGUSR1 stands for any other one.
SIGHUP  == 1
SIGINT  == 2
SIGQUIT == 3
SIGKILL == 9
SIGUSR1 == 10
SIGALRM == 14
SIGTERM == 15
SIGCHLD == 17

Signals    == {SIGHUP, SIGINT, SIGQUIT, SIGKILL, SIGUSR1, SIGALRM, SIGTERM, SIGCHLD}
Catchable  == Signals \ {SIGKILL}
TermSignals == {SIGHUP, SIGINT, SIGQUIT, SIGTERM}

NoSignal     == 0
EXIT_TIMEOUT == 124
EX_OSERR     == 71

\* foreground, preserve: the flags; kill_after: -k with a positive time;
\* limited: the duration is not zero; signal: -s, SIGTERM by default.
OptionRecord == [foreground: BOOLEAN, preserve: BOOLEAN, kill_after: BOOLEAN,
                 limited: BOOLEAN, signal: Signals]

ASSUME OptionsAssumption  == Options \subseteq OptionRecord
ASSUME ExternalAssumption == External \subseteq TermSignals
ASSUME CodesAssumption    == ExitCodes \subseteq 0..255
ASSUME BoundAssumption    == MaxSignals \in Nat

VARIABLES
  opts,         \* the parsed command line
  pc,           \* where timeout is in main()
  sig_chld, sig_alrm, sig_term, sig_ign,   \* the handler's flags
  killsig,      \* the signal the next expiry sends
  second_kill,  \* TRUE while second_kill is a nonzero interval
  timer,        \* TRUE while ITIMER_REAL runs
  pendingset,   \* blocked signals waiting for timeout
  proc,         \* state of "cmd" and "desc" as timeout's children
  status,       \* wait status each of them ended with
  hit,          \* fatal signal "cmd" was sent and has not died of yet
  pstat, child_done, timedout,             \* locals of main()
  code,         \* what timeout's parent sees when it is over
  sent,         \* history: signals timeout sent to the command
  received      \* how many external signals arrived so far

flags  == <<sig_chld, sig_alrm, sig_term, sig_ign>>
kernel == <<proc, status, hit>>
locals == <<pstat, child_done, timedout>>
vars == <<opts, pc, flags, killsig, second_kill, timer, pendingset, kernel, locals,
          code, sent, received>>

Procs    == {"cmd", "desc"}
NoStatus == [how |-> "none", val |-> 0]
Exited(c)   == [how |-> "exit", val |-> c]
Signaled(s) == [how |-> "signal", val |-> s]

Masked  == {"arm", "suspend", "check", "wait"}
Over    == {"done", "killed"}
PC      == {"fork", "mask"} \cup Masked \cup Over

----------------------------------------------------------------------------
(***************************************************************************)
(* The signal handler and the kernel's delivery of a signal to timeout.    *)
(***************************************************************************)

\* Mutant: the switch has no cases, so every signal counts as a termination request.
FaultyHandle(s) ==
  IF sig_ign # NoSignal /\ s = sig_ign
  THEN sig_ign' = NoSignal /\ UNCHANGED <<sig_chld, sig_alrm, sig_term>>
  ELSE sig_term' = s /\ UNCHANGED <<sig_chld, sig_alrm, sig_ign>>

\* sig_handler(): swallow one sig_ign, otherwise raise the flag of the signal.
Handle(s) ==
  IF sig_ign # NoSignal /\ s = sig_ign
  THEN sig_ign' = NoSignal /\ UNCHANGED <<sig_chld, sig_alrm, sig_term>>
  ELSE /\ sig_term' = IF s \in TermSignals THEN s ELSE sig_term
       /\ sig_chld' = (sig_chld \/ s = SIGCHLD)
       /\ sig_alrm' = (sig_alrm \/ s = SIGALRM)
       /\ UNCHANGED sig_ign

\* A signal reaches timeout: pending once blocked, handled at once before.
Raise(s) ==
  IF pc \in Masked THEN pendingset' = pendingset \cup {s} /\ UNCHANGED flags
  ELSE Handle(s) /\ UNCHANGED pendingset

----------------------------------------------------------------------------
(***************************************************************************)
(* Steps of timeout.                                                       *)
(***************************************************************************)

Init ==
  /\ opts \in Options
  /\ pc = "fork"
  /\ sig_chld = FALSE /\ sig_alrm = FALSE
  /\ sig_term = NoSignal /\ sig_ign = NoSignal
  /\ killsig = opts.signal
  /\ second_kill = opts.kill_after
  /\ timer = FALSE
  /\ pendingset = {}
  /\ proc = [p \in Procs |-> "none"]
  /\ status = [p \in Procs |-> NoStatus]
  /\ hit = NoSignal
  /\ pstat = NoStatus /\ child_done = FALSE /\ timedout = FALSE
  /\ code = -1
  /\ sent = <<>>
  /\ received = 0

Fork ==
  /\ pc = "fork"
  /\ \/ /\ proc' = [proc EXCEPT !["cmd"] = "running"]
        /\ pc' = "mask"
        /\ UNCHANGED code
     \/ /\ pc' = "done"                     \* fork() failed
        /\ code' = EX_OSERR
        /\ UNCHANGED proc
  /\ UNCHANGED <<opts, flags, killsig, second_kill, timer, pendingset, status, hit,
                 locals, sent, received>>

\* Mutant: the flags are reset once the signals are blocked.
FaultyMaskSignals ==
  /\ pc = "mask"
  /\ pc' = "arm"
  /\ sig_chld' = FALSE /\ sig_alrm' = FALSE /\ sig_term' = NoSignal
  /\ UNCHANGED <<opts, sig_ign, killsig, second_kill, timer, pendingset, kernel, locals,
                 code, sent, received>>

\* sigprocmask(SIG_BLOCK): what arrived before it was handled already.
MaskSignals ==
  /\ pc = "mask"
  /\ pc' = "arm"
  /\ UNCHANGED <<opts, flags, killsig, second_kill, timer, pendingset, kernel, locals,
                 code, sent, received>>

\* set_interval(first_kill): an interval of zero leaves the timer off.
ArmFirst ==
  /\ pc = "arm"
  /\ pc' = "suspend"
  /\ timer' = opts.limited
  /\ UNCHANGED <<opts, flags, killsig, second_kill, pendingset, kernel, locals, code,
                 sent, received>>

\* sigsuspend() takes one pending signal, runs its handler and returns.
Wake(s) ==
  /\ pc = "suspend"
  /\ s \in pendingset
  /\ pendingset' = pendingset \ {s}
  /\ Handle(s)
  /\ pc' = "check"
  /\ UNCHANGED <<opts, killsig, second_kill, timer, kernel, locals, code, sent, received>>

Zombies == {p \in Procs : proc[p] = "zombie"}

\* prctl(PR_SET_CHILD_SUBREAPER) is called unless --foreground is given, and
\* PR_GET_CHILD_SUBREAPER reads the attribute back, not whether children remain.
SubreaperAttr == IF opts.foreground THEN 0 ELSE 1

\* Mutant: the two cases are swapped.
FaultyLeaveLoop == ~opts.foreground /\ SubreaperAttr = 0

LeaveLoop == opts.foreground \/ SubreaperAttr = 0

\* if (sig_chld): reap whatever is there, leave the loop when the command is.
OnChild ==
  /\ pc = "check"
  /\ sig_chld
  /\ sig_chld' = FALSE
  /\ proc' = [p \in Procs |-> IF p \in Zombies THEN "reaped" ELSE proc[p]]
  /\ IF "cmd" \in Zombies
     THEN pstat' = status["cmd"] /\ child_done' = TRUE
     ELSE UNCHANGED <<pstat, child_done>>
  /\ pc' = IF child_done' /\ LeaveLoop THEN "wait" ELSE "suspend"
  /\ UNCHANGED <<opts, sig_alrm, sig_term, sig_ign, killsig, second_kill, timer,
                 pendingset, status, hit, timedout, code, sent, received>>

\* kill(pid, s): SIGKILL is fatal, any other signal may be caught or ignored.
SignalCommand(s) ==
  /\ sent' = Append(sent, s)
  /\ hit' \in IF s = SIGKILL THEN {s} ELSE {hit, IF hit = NoSignal THEN s ELSE hit}

\* Mutant: the second timer is armed, but killsig is not switched to SIGKILL.
ForgetfulEscalate ==
  IF opts.kill_after
  THEN /\ timer' = second_kill
       /\ second_kill' = FALSE
       /\ sig_ign' = killsig
       /\ pc' = "suspend"
       /\ UNCHANGED killsig
  ELSE pc' = "wait" /\ UNCHANGED <<timer, second_kill, sig_ign, killsig>>

\* Shared tail of the two branches: arm the second timer and stay, or leave.
Escalate ==
  IF opts.kill_after
  THEN /\ timer' = second_kill
       /\ second_kill' = FALSE
       /\ sig_ign' = killsig
       /\ killsig' = SIGKILL
       /\ pc' = "suspend"
  ELSE pc' = "wait" /\ UNCHANGED <<timer, second_kill, sig_ign, killsig>>

\* else if (sig_alrm), --foreground: signal the command.
OnAlarm ==
  /\ pc = "check"
  /\ ~sig_chld
  /\ sig_alrm
  /\ opts.foreground
  /\ sig_alrm' = FALSE
  /\ timedout' = TRUE
  /\ SignalCommand(killsig)
  /\ Escalate
  /\ UNCHANGED <<opts, sig_chld, sig_term, pendingset, proc, status, pstat, child_done,
                 code, received>>

\* else if (sig_alrm), otherwise: kill(getpid(), SIGKILL).
OnAlarmSelf ==
  /\ pc = "check"
  /\ ~sig_chld
  /\ sig_alrm
  /\ ~opts.foreground
  /\ sig_alrm' = FALSE
  /\ timedout' = TRUE
  /\ pc' = "killed"
  /\ code' = 128 + SIGKILL
  /\ UNCHANGED <<opts, sig_chld, sig_term, sig_ign, killsig, second_kill, timer,
                 pendingset, kernel, pstat, child_done, sent, received>>

\* Mutant: a termination request sends killsig, as the expiry does.
FaultyOnTerm ==
  /\ pc = "check"
  /\ ~sig_chld /\ ~sig_alrm
  /\ sig_term # NoSignal
  /\ IF opts.foreground
     THEN SignalCommand(killsig) /\ UNCHANGED pendingset
     ELSE pendingset' = pendingset \cup {SIGTERM} /\ UNCHANGED <<sent, hit>>
  /\ Escalate
  /\ UNCHANGED <<opts, sig_chld, sig_alrm, sig_term, proc, status, locals, code, received>>

\* else if (sig_term): pass the signal on; the flag is not cleared.  Without
\* --foreground the SIGTERM goes to timeout itself, which has it blocked.
OnTerm ==
  /\ pc = "check"
  /\ ~sig_chld /\ ~sig_alrm
  /\ sig_term # NoSignal
  /\ IF opts.foreground
     THEN SignalCommand(sig_term) /\ UNCHANGED pendingset
     ELSE pendingset' = pendingset \cup {SIGTERM} /\ UNCHANGED <<sent, hit>>
  /\ Escalate
  /\ UNCHANGED <<opts, sig_chld, sig_alrm, sig_term, proc, status, locals, code, received>>

\* No flag is set: the signal was swallowed or has no case in the handler.
OnNothing ==
  /\ pc = "check"
  /\ ~sig_chld /\ ~sig_alrm /\ sig_term = NoSignal
  /\ pc' = "suspend"
  /\ UNCHANGED <<opts, flags, killsig, second_kill, timer, pendingset, kernel, locals,
                 code, sent, received>>

\* while (!child_done && wait(&pstat) == -1): the first child to end is taken.
WaitAny(p) ==
  /\ pc = "wait"
  /\ ~child_done /\ pstat = NoStatus
  /\ p \in Zombies
  /\ proc' = [proc EXCEPT ![p] = "reaped"]
  /\ pstat' = status[p]
  /\ UNCHANGED <<opts, pc, flags, killsig, second_kill, timer, pendingset, status, hit,
                 child_done, timedout, code, sent, received>>

\* Mutant: 124 whatever --preserve-status says.
FaultyExitCode(st, expired) ==
  IF expired THEN EXIT_TIMEOUT
  ELSE IF st.how = "signal" THEN 128 + st.val ELSE st.val

\* WEXITSTATUS() or 128 + WTERMSIG(), replaced by 124 after a timeout.
ExitCode(st, expired) ==
  IF expired /\ ~opts.preserve THEN EXIT_TIMEOUT
  ELSE IF st.how = "signal" THEN 128 + st.val ELSE st.val

Finish ==
  /\ pc = "wait"
  /\ child_done \/ pstat # NoStatus
  /\ pc' = "done"
  /\ code' = ExitCode(pstat, timedout)
  /\ UNCHANGED <<opts, flags, killsig, second_kill, timer, pendingset, kernel, locals,
                 sent, received>>

Main ==
  \/ Fork \/ MaskSignals \/ ArmFirst
  \/ \E s \in Catchable : Wake(s)
  \/ OnChild \/ OnAlarm \/ OnAlarmSelf \/ OnTerm \/ OnNothing
  \/ \E p \in Procs : WaitAny(p)
  \/ Finish

----------------------------------------------------------------------------
(***************************************************************************)
(* The environment: the command, its descendant, the timer, other senders. *)
(***************************************************************************)

\* A child of timeout ends with wait status st: it is a zombie, SIGCHLD is raised.
Ends(p, st) ==
  /\ pc \notin Over
  /\ proc[p] = "running"
  /\ proc' = [proc EXCEPT ![p] = "zombie"]
  /\ status' = [status EXCEPT ![p] = st]
  /\ Raise(SIGCHLD)
  /\ UNCHANGED <<opts, pc, killsig, second_kill, timer, hit, locals, code, sent, received>>

ChildExits == \E p \in Procs, c \in ExitCodes : Ends(p, Exited(c))

CommandDies == hit # NoSignal /\ Ends("cmd", Signaled(hit))

\* A detached descendant loses its parent and becomes a child of the subreaper.
Adopt ==
  /\ pc \notin Over
  /\ ~opts.foreground
  /\ proc["cmd"] # "none" /\ proc["desc"] = "none"
  /\ proc' = [proc EXCEPT !["desc"] = "running"]
  /\ UNCHANGED <<opts, pc, flags, killsig, second_kill, timer, pendingset, status, hit,
                 locals, code, sent, received>>

TimerFires ==
  /\ pc \notin Over
  /\ timer
  /\ timer' = FALSE
  /\ Raise(SIGALRM)
  /\ UNCHANGED <<opts, pc, killsig, second_kill, kernel, locals, code, sent, received>>

ExternalSignal(s) ==
  /\ pc \notin Over
  /\ received < MaxSignals
  /\ received' = received + 1
  /\ Raise(s)
  /\ UNCHANGED <<opts, pc, killsig, second_kill, timer, kernel, locals, code, sent>>

Environment ==
  \/ ChildExits \/ CommandDies \/ Adopt \/ TimerFires
  \/ \E s \in External : ExternalSignal(s)

Terminating == pc \in Over /\ UNCHANGED vars

Next == Main \/ Environment \/ Terminating

(***************************************************************************)
(* timeout is scheduled, a running timer expires, and a process that was   *)
(* hit by a fatal signal dies.  Nothing makes a command end by itself, or  *)
(* anyone send a signal.                                                   *)
(***************************************************************************)
Fairness == WF_vars(Main) /\ WF_vars(TimerFires) /\ WF_vars(CommandDies)

Spec     == Init /\ [][Next]_vars
FairSpec == Spec /\ Fairness

----------------------------------------------------------------------------
(***************************************************************************)
(* Properties.                                                             *)
(***************************************************************************)

WaitStatus == {NoStatus} \cup {Exited(c) : c \in ExitCodes} \cup {Signaled(s) : s \in Signals}

\* Every variable keeps the type the C declaration or the kernel gives it.
TypeOK ==
  /\ opts \in Options
  /\ pc \in PC
  /\ sig_chld \in BOOLEAN /\ sig_alrm \in BOOLEAN
  /\ sig_term \in TermSignals \cup {NoSignal}
  /\ sig_ign \in Signals \cup {NoSignal}
  /\ killsig \in Signals
  /\ second_kill \in BOOLEAN /\ timer \in BOOLEAN
  /\ pendingset \subseteq Catchable
  /\ proc \in [Procs -> {"none", "running", "zombie", "reaped"}]
  /\ status \in [Procs -> WaitStatus]
  /\ hit \in Signals \cup {NoSignal}
  /\ pstat \in WaitStatus
  /\ child_done \in BOOLEAN /\ timedout \in BOOLEAN
  /\ code \in -1 .. 255
  /\ sent \in Seq(Signals)
  /\ received \in 0 .. MaxSignals

\* What the command ended with, as timeout.1 says it is reported.
CommandsStatus ==
  IF status["cmd"].how = "signal" THEN 128 + status["cmd"].val ELSE status["cmd"].val

\* EXIT STATUS of timeout.1: once timeout is over the command has ended and was
\* reaped, and the status is the command's, or 124 if the limit was reached
\* without --preserve-status (main(), the last wait() and what follows it).
StatusAsDocumented ==
  pc \in Over /\ code # EX_OSERR =>
    IF timedout /\ ~opts.preserve THEN code = EXIT_TIMEOUT
    ELSE proc["cmd"] = "reaped" /\ code = CommandsStatus

\* The same, for timeout --foreground.
ForegroundStatus == opts.foreground => StatusAsDocumented

\* kill(pid, ...) never runs once the command was reaped, when its pid may
\* belong to a process that has nothing to do with it.
NoStrayKill == [][sent' # sent => proc["cmd"] \in {"running", "zombie"}]_vars

\* While timeout is in its loop, an ended command that was not reaped is
\* remembered: by the flag or by a pending SIGCHLD.  (-s CHLD lets sig_ign
\* swallow it.)
NoLostChild ==
  proc["cmd"] = "zombie" /\ pc \in {"mask", "arm", "suspend", "check"} /\ opts.signal # SIGCHLD
    => sig_chld \/ SIGCHLD \in pendingset

\* The SIGKILL of -k is sent by the expiry of a timer after another signal was,
\* and never without -k, however the user's own signals interleave.
KillIsLastResort ==
  [][sent' # sent /\ sent'[Len(sent')] = SIGKILL /\ opts.signal # SIGKILL
       => opts.kill_after /\ sent # <<>> /\ sig_alrm]_vars

\* With --foreground, a limit and -k, timeout comes to an end even when the
\* command ignores every signal it can, unless others send signals: these
\* re-arm the timer.  SIGALRM and SIGCHLD as -s are excluded: sig_ign swallows
\* the expiry, or the news of the command's death.
KillAfterEnds ==
  (/\ opts.foreground /\ opts.limited /\ opts.kill_after
   /\ opts.signal \notin {SIGALRM, SIGCHLD}
   /\ [](received = 0))
    => <>(pc \in Over)

\* With --foreground and a limit, timeout ends once the command has, even when
\* SIGCHLD came before the signals were blocked: the timer wakes it at last.
EndsWithCommand ==
  (proc["cmd"] = "zombie" /\ opts.foreground /\ opts.limited /\ opts.signal # SIGCHLD)
    ~> pc \in Over

\* What must end ends, by the command's own end or by -k.
EndsInTime == KillAfterEnds /\ EndsWithCommand
==============================================================================
