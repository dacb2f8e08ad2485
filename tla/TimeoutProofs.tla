---------------------------- MODULE TimeoutProofs ----------------------------
(***************************************************************************)
(* Proofs about Timeout for every choice of options, exit codes, senders   *)
(* and number of signals.                                                  *)
(***************************************************************************)
EXTENDS Timeout, TLAPS

\* The assumptions on the constants, in the form the proofs use.
USE OptionsAssumption, ExternalAssumption, CodesAssumption, BoundAssumption

----------------------------------------------------------------------------
(***************************************************************************)
(* Type correctness.                                                       *)
(***************************************************************************)

LEMMA SignalFacts ==
  /\ SIGCHLD \in Catchable /\ SIGALRM \in Catchable /\ SIGTERM \in Catchable
  /\ SIGKILL \in Signals /\ TermSignals \subseteq Catchable
  /\ TermSignals \subseteq Signals /\ Catchable \subseteq Signals
  /\ NoSignal \notin Signals
  BY DEF Catchable, Signals, TermSignals, NoSignal, SIGHUP, SIGINT, SIGQUIT, SIGKILL,
     SIGUSR1, SIGALRM, SIGTERM, SIGCHLD

LEMMA PCFacts ==
  /\ Masked \subseteq PC /\ Over \subseteq PC
  /\ {"arm", "suspend", "check", "wait", "done", "killed", "mask"} \subseteq PC
  BY DEF PC, Masked, Over

\* The handler keeps its flags in their types, for whatever signal it is given.
LEMMA HandleType ==
  ASSUME TypeOK, NEW s \in Catchable, Handle(s)
  PROVE  /\ sig_chld' \in BOOLEAN /\ sig_alrm' \in BOOLEAN
         /\ sig_term' \in TermSignals \cup {NoSignal}
         /\ sig_ign' \in Signals \cup {NoSignal}
  BY ZenonT(30) DEF TypeOK, Handle

\* Raising a signal touches the pending set or the flags, and keeps their types.
LEMMA RaiseType ==
  ASSUME TypeOK, NEW s \in Catchable, Raise(s)
  PROVE  /\ sig_chld' \in BOOLEAN /\ sig_alrm' \in BOOLEAN
         /\ sig_term' \in TermSignals \cup {NoSignal}
         /\ sig_ign' \in Signals \cup {NoSignal}
         /\ pendingset' \subseteq Catchable
<1>1. CASE pc \in Masked
  BY <1>1 DEF Raise, TypeOK, flags
<1>2. CASE pc \notin Masked
  BY <1>2, HandleType DEF Raise, TypeOK
<1> QED BY <1>1, <1>2

\* kill(pid, s) appends to the history and may doom the command.
LEMMA SignalCommandType ==
  ASSUME TypeOK, NEW s \in Signals, SignalCommand(s)
  PROVE  sent' \in Seq(Signals) /\ hit' \in Signals \cup {NoSignal}
  BY DEF TypeOK, SignalCommand

\* Both outcomes of the common tail of the two branches.
LEMMA EscalateType ==
  ASSUME TypeOK, Escalate
  PROVE  /\ killsig' \in Signals /\ sig_ign' \in Signals \cup {NoSignal}
         /\ second_kill' \in BOOLEAN /\ timer' \in BOOLEAN
         /\ pc' \in PC
<1>1. CASE opts.kill_after
  BY <1>1, SignalFacts, PCFacts DEF TypeOK, Escalate
<1>2. CASE ~opts.kill_after
  BY <1>2, PCFacts DEF TypeOK, Escalate
<1> QED BY <1>1, <1>2

LEMMA InitType == Init => TypeOK
<1> SUFFICES ASSUME Init PROVE TypeOK
  OBVIOUS
<1>1. opts.signal \in Signals /\ opts.kill_after \in BOOLEAN
  BY DEF Init, OptionRecord
<1>2. pc \in PC
  BY DEF Init, PC
<1>3. NoStatus \in WaitStatus
  BY DEF WaitStatus
<1>4. status \in [Procs -> WaitStatus] /\ pstat \in WaitStatus
  BY <1>3 DEF Init
<1>5. code \in -1 .. 255 /\ received \in 0 .. MaxSignals
  BY DEF Init
<1>6. second_kill \in BOOLEAN /\ killsig \in Signals
  BY <1>1 DEF Init
<1>7. sent \in Seq(Signals)
  BY DEF Init
<1>8. proc \in [Procs -> {"none", "running", "zombie", "reaped"}]
  BY DEF Init
<1>9. /\ sig_chld \in BOOLEAN /\ sig_alrm \in BOOLEAN /\ timer \in BOOLEAN
      /\ child_done \in BOOLEAN /\ timedout \in BOOLEAN
      /\ opts \in Options /\ pendingset \subseteq Catchable
  BY DEF Init
<1>10. /\ sig_term \in TermSignals \cup {NoSignal} /\ sig_ign \in Signals \cup {NoSignal}
       /\ hit \in Signals \cup {NoSignal}
  BY DEF Init
<1> QED BY ONLY <1>2, <1>4, <1>5, <1>6, <1>7, <1>8, <1>9, <1>10 DEF TypeOK

\* A reported status is one the command could end with.
LEMMA ExitCodeType ==
  ASSUME TypeOK, NEW st \in WaitStatus, NEW b \in BOOLEAN
  PROVE  ExitCode(st, b) \in -1 .. 255
  BY SMT DEF ExitCode, WaitStatus, NoStatus, Exited, Signaled, Signals, EXIT_TIMEOUT,
     SIGHUP, SIGINT, SIGQUIT, SIGKILL, SIGUSR1, SIGALRM, SIGTERM, SIGCHLD

LEMMA NextType == TypeOK /\ [Next]_vars => TypeOK'
<1> SUFFICES ASSUME TypeOK, [Next]_vars PROVE TypeOK'
  OBVIOUS
<1> USE SignalFacts, PCFacts
<1>1. CASE Fork
  <2>1. proc' \in [Procs -> {"none", "running", "zombie", "reaped"}] /\ pc' \in PC
    BY <1>1 DEF Fork, TypeOK
  <2>2. code' \in -1 .. 255
    <3>1. code \in -1 .. 255
      BY DEF TypeOK
    <3>2. code' = code \/ code' = 71
      BY <1>1 DEF Fork, EX_OSERR
    <3> QED BY <3>1, <3>2
  <2> QED BY <1>1, <2>1, <2>2 DEF Fork, TypeOK, flags, locals
<1>2. CASE MaskSignals
  BY <1>2 DEF MaskSignals, TypeOK, flags, kernel, locals
<1>3. CASE ArmFirst
  <2>1. opts.limited \in BOOLEAN
    BY DEF TypeOK, OptionRecord
  <2> QED BY <1>3, <2>1 DEF ArmFirst, TypeOK, flags, kernel, locals
<1>4. ASSUME NEW s \in Catchable, Wake(s) PROVE TypeOK'
  BY <1>4, HandleType DEF Wake, TypeOK, kernel, locals
<1>5. CASE OnChild
  <2>1. proc' \in [Procs -> {"none", "running", "zombie", "reaped"}]
    BY <1>5 DEF OnChild, TypeOK
  <2>2. pstat' \in WaitStatus /\ child_done' \in BOOLEAN
    BY ZenonT(30), <1>5 DEF OnChild, TypeOK, Procs
  <2>3. pc' \in PC
    BY <1>5 DEF OnChild
  <2> QED BY <1>5, <2>1, <2>2, <2>3 DEF OnChild, TypeOK
<1>6. CASE OnAlarm
  <2>1. SignalCommand(killsig) /\ Escalate /\ killsig \in Signals
    BY <1>6 DEF OnAlarm, TypeOK
  <2> QED BY <1>6, <2>1, SignalCommandType, EscalateType DEF OnAlarm, TypeOK
<1>7. CASE OnAlarmSelf
  <2>1. code' \in -1 .. 255
    BY <1>7 DEF OnAlarmSelf, SIGKILL
  <2> QED BY <1>7, <2>1 DEF OnAlarmSelf, TypeOK, kernel
<1>8. CASE OnTerm
  <2>1. sig_term \in Signals
    BY <1>8 DEF OnTerm, TypeOK
  <2>2. sent' \in Seq(Signals) /\ hit' \in Signals \cup {NoSignal} /\ pendingset' \subseteq Catchable
    BY <1>8, <2>1, SignalCommandType DEF OnTerm, TypeOK
  <2> QED BY <1>8, <2>2, EscalateType DEF OnTerm, TypeOK, locals
<1>9. CASE OnNothing
  BY <1>9 DEF OnNothing, TypeOK, flags, kernel, locals
<1>10. ASSUME NEW p \in Procs, WaitAny(p) PROVE TypeOK'
  BY <1>10 DEF WaitAny, TypeOK, flags
<1>11. CASE Finish
  <2>1. code' \in -1 .. 255
    BY <1>11, ExitCodeType DEF Finish, TypeOK
  <2> QED BY <1>11, <2>1 DEF Finish, TypeOK, flags, kernel, locals
<1>12. ASSUME NEW p \in Procs, NEW st \in WaitStatus, Ends(p, st) PROVE TypeOK'
  <2>1. Raise(SIGCHLD)
    BY <1>12 DEF Ends
  <2> QED BY <1>12, <2>1, RaiseType DEF Ends, TypeOK, locals
<1>13. CASE ChildExits
  BY <1>13, <1>12 DEF ChildExits, WaitStatus
<1>14. CASE CommandDies
  <2>1. Signaled(hit) \in WaitStatus /\ "cmd" \in Procs
    BY <1>14 DEF CommandDies, TypeOK, WaitStatus, Procs
  <2> QED BY <1>14, <2>1, <1>12 DEF CommandDies
<1>15. CASE Adopt
  BY ZenonT(30), <1>15 DEF Adopt, TypeOK, flags, locals
<1>16. CASE TimerFires
  <2>1. Raise(SIGALRM)
    BY <1>16 DEF TimerFires
  <2> QED BY <1>16, <2>1, RaiseType DEF TimerFires, TypeOK, kernel, locals
<1>17. ASSUME NEW s \in External, ExternalSignal(s) PROVE TypeOK'
  <2>1. Raise(s) /\ s \in Catchable
    BY <1>17 DEF ExternalSignal
  <2>2. received' \in 0 .. MaxSignals
    BY <1>17 DEF ExternalSignal, TypeOK
  <2> QED BY <1>17, <2>1, <2>2, RaiseType DEF ExternalSignal, TypeOK, kernel, locals
<1>18. CASE UNCHANGED vars
  BY <1>18 DEF TypeOK, vars, flags, kernel, locals
<1> QED
  BY <1>1, <1>2, <1>3, <1>4, <1>5, <1>6, <1>7, <1>8, <1>9, <1>10, <1>11, <1>13, <1>14,
     <1>15, <1>16, <1>17, <1>18 DEF Next, Main, Environment, Terminating

\* Every variable of timeout keeps its type, whatever the options and signals.
THEOREM TypeCorrect == Spec => []TypeOK
<1>1. Init => TypeOK  BY InitType
<1>2. TypeOK /\ [Next]_vars => TypeOK'  BY NextType
<1> QED BY <1>1, <1>2, PTL DEF Spec

----------------------------------------------------------------------------
(***************************************************************************)
(* The command is reaped once, its status kept, and no signal follows it.  *)
(***************************************************************************)

Looping == {"mask", "arm", "suspend", "check"}

\* What main() knows of the command at each place: the strengthening that makes
\* ForegroundStatus and NoStrayKill inductive.
ReapInv ==
  /\ pc = "fork" => proc["cmd"] = "none"
  /\ pc \in Looping \cup {"wait"} => proc["cmd"] # "none"
  /\ child_done => pstat = status["cmd"] /\ proc["cmd"] = "reaped"
  /\ opts.foreground =>
       /\ proc["desc"] = "none"
       /\ pc # "killed"
       /\ pc \in Looping => ~child_done /\ proc["cmd"] # "reaped"
       /\ pc \in Looping \cup {"fork"} => pstat = NoStatus
       /\ pstat # NoStatus => pstat = status["cmd"] /\ proc["cmd"] = "reaped"
       /\ pc = "done" =>
            \/ code = EX_OSERR
            \/ /\ code = ExitCode(pstat, timedout)
               /\ pstat = status["cmd"] /\ proc["cmd"] = "reaped"

LEMMA ReapInit == Init => ReapInv
  BY DEF Init, ReapInv, Looping, Procs

LEMMA ReapNext == TypeOK /\ ReapInv /\ [Next]_vars => ReapInv'
<1> SUFFICES ASSUME TypeOK, ReapInv, [Next]_vars PROVE ReapInv'
  OBVIOUS
<1> USE DEF Procs, Looping
<1>1. CASE Fork
  BY <1>1 DEF Fork, ReapInv, TypeOK, locals
<1>2. CASE MaskSignals
  BY <1>2 DEF MaskSignals, ReapInv, TypeOK, kernel, locals
<1>3. CASE ArmFirst
  BY <1>3 DEF ArmFirst, ReapInv, TypeOK, kernel, locals
<1>4. ASSUME NEW s \in Catchable, Wake(s) PROVE ReapInv'
  BY <1>4 DEF Wake, ReapInv, TypeOK, kernel, locals
<1>5. CASE OnChild
  <2>1. /\ pc = "check" /\ opts' = opts /\ status' = status /\ code' = code
        /\ proc' = [p \in Procs |-> IF p \in Zombies THEN "reaped" ELSE proc[p]]
        /\ pc' = IF child_done' /\ LeaveLoop THEN "wait" ELSE "suspend"
    BY <1>5 DEF OnChild
  <2>2. CASE "cmd" \in Zombies
    <3>1. pstat' = status["cmd"] /\ child_done' = TRUE /\ proc'["cmd"] = "reaped"
      BY <1>5, <2>1, <2>2 DEF OnChild
    <3>2. opts.foreground => pc' = "wait"
      BY <2>1, <3>1 DEF LeaveLoop
    <3>3. opts.foreground => proc'["desc"] = "none"
      BY <2>1 DEF ReapInv, Zombies
    <3> QED BY <2>1, <3>1, <3>2, <3>3 DEF ReapInv
  <2>3. CASE "cmd" \notin Zombies
    <3>1. pstat' = pstat /\ child_done' = child_done /\ proc'["cmd"] = proc["cmd"]
      BY <1>5, <2>1, <2>3 DEF OnChild
    <3>2. opts.foreground => proc'["desc"] = "none"
      BY <2>1 DEF ReapInv, Zombies
    <3>3. opts.foreground => pc' = "suspend"
      BY <2>1, <3>1 DEF ReapInv
    <3> QED BY <2>1, <3>1, <3>2, <3>3 DEF ReapInv
  <2> QED BY <2>2, <2>3
<1>6. CASE OnAlarm
  <2>1. pc' \in {"suspend", "wait"}
    BY <1>6 DEF OnAlarm, Escalate
  <2> QED BY <1>6, <2>1 DEF OnAlarm, ReapInv, TypeOK
<1>7. CASE OnAlarmSelf
  BY <1>7 DEF OnAlarmSelf, ReapInv, TypeOK, kernel
<1>8. CASE OnTerm
  <2>1. pc' \in {"suspend", "wait"}
    BY <1>8 DEF OnTerm, Escalate
  <2> QED BY <1>8, <2>1 DEF OnTerm, ReapInv, TypeOK, locals
<1>9. CASE OnNothing
  BY <1>9 DEF OnNothing, ReapInv, TypeOK, kernel, locals
<1>10. ASSUME NEW p \in Procs, WaitAny(p) PROVE ReapInv'
  BY <1>10 DEF WaitAny, ReapInv, TypeOK, Zombies
<1>11. CASE Finish
  <2>1. ExitCode(pstat, timedout)' = ExitCode(pstat, timedout)
    BY <1>11 DEF Finish, ExitCode, locals
  <2> QED BY <1>11, <2>1 DEF Finish, ReapInv, TypeOK, kernel, locals
<1>12. ASSUME NEW p \in Procs, NEW st \in WaitStatus, Ends(p, st) PROVE ReapInv'
  BY <1>12 DEF Ends, ReapInv, TypeOK, Over, locals
<1>13. CASE ChildExits
  BY <1>13, <1>12 DEF ChildExits, WaitStatus
<1>14. CASE CommandDies
  <2>1. Signaled(hit) \in WaitStatus
    BY <1>14 DEF CommandDies, TypeOK, WaitStatus
  <2> QED BY <1>14, <2>1, <1>12 DEF CommandDies
<1>15. CASE Adopt
  BY <1>15 DEF Adopt, ReapInv, TypeOK, Over, locals
<1>16. CASE TimerFires
  BY <1>16 DEF TimerFires, ReapInv, TypeOK, Over, kernel, locals
<1>17. ASSUME NEW s \in External, ExternalSignal(s) PROVE ReapInv'
  BY <1>17 DEF ExternalSignal, ReapInv, TypeOK, Over, kernel, locals
<1>18. CASE UNCHANGED vars
  BY <1>18 DEF ReapInv, vars, kernel, locals, ExitCode
<1> QED
  BY <1>1, <1>2, <1>3, <1>4, <1>5, <1>6, <1>7, <1>8, <1>9, <1>10, <1>11, <1>13, <1>14,
     <1>15, <1>16, <1>17, <1>18 DEF Next, Main, Environment, Terminating

LEMMA ReapStatus == ReapInv => ForegroundStatus
  BY DEF ReapInv, ForegroundStatus, StatusAsDocumented, ExitCode, CommandsStatus, Over

LEMMA ReapInvariant == Spec => [](TypeOK /\ ReapInv)
<1>1. Init => TypeOK /\ ReapInv  BY InitType, ReapInit
<1>2. TypeOK /\ ReapInv /\ [Next]_vars => (TypeOK /\ ReapInv)'  BY NextType, ReapNext
<1> QED BY <1>1, <1>2, PTL DEF Spec

\* timeout --foreground reports the status of the command it reaped, or 124.
THEOREM ForegroundStatusHolds == Spec => []ForegroundStatus
  BY ReapInvariant, ReapStatus, PTL

\* A step that signals the command is one of the two branches of the loop.
LEMMA SignalsInLoop ==
  ASSUME [Next]_vars, sent' # sent
  PROVE  pc = "check" /\ opts.foreground
<1>1. OnAlarm \/ OnTerm
  BY DEF Next, Main, Environment, Terminating, Fork, MaskSignals, ArmFirst, Wake, OnChild,
     OnAlarmSelf, OnNothing, WaitAny, Finish, ChildExits, CommandDies, Ends, Adopt,
     TimerFires, ExternalSignal, vars
<1> QED BY <1>1 DEF OnAlarm, OnTerm

\* No signal is sent to the command's pid once the command was reaped.
THEOREM NoStrayKillHolds == Spec => NoStrayKill
<1>1. TypeOK /\ ReapInv /\ [Next]_vars
        => [sent' # sent => proc["cmd"] \in {"running", "zombie"}]_vars
  <2> SUFFICES ASSUME TypeOK, ReapInv, [Next]_vars, sent' # sent
               PROVE  proc["cmd"] \in {"running", "zombie"}
    OBVIOUS
  <2>1. proc["cmd"] \in {"none", "running", "zombie", "reaped"}
    BY DEF TypeOK, Procs
  <2> QED BY <2>1, SignalsInLoop DEF ReapInv, Looping
<1> QED BY <1>1, ReapInvariant, PTL DEF Spec, NoStrayKill

----------------------------------------------------------------------------
(***************************************************************************)
(* The news of the command's end is not lost.                              *)
(***************************************************************************)

\* Only -s itself, or SIGKILL, is ever swallowed: never SIGCHLD unless asked for.
SwallowInv ==
  /\ killsig \in {opts.signal, SIGKILL}
  /\ sig_ign \in {NoSignal, opts.signal, SIGKILL}

\* SIGCHLD raised leaves a trace.
LEMMA RaiseChild ==
  ASSUME TypeOK, SwallowInv, opts.signal # SIGCHLD, Raise(SIGCHLD)
  PROVE  sig_chld' \/ SIGCHLD \in pendingset'
<1>1. CASE pc \in Masked
  BY <1>1 DEF Raise
<1>2. CASE pc \notin Masked
  <2>1. sig_ign # SIGCHLD
    BY DEF SwallowInv, SIGCHLD, SIGKILL, NoSignal
  <2> QED BY <1>2, <2>1, Zenon DEF Raise, Handle
<1> QED BY <1>1, <1>2

\* Raising any signal forgets nothing and swallows only sig_ign.
LEMMA RaiseKeeps ==
  ASSUME TypeOK, NEW s, Raise(s)
  PROVE  /\ sig_chld => sig_chld'
         /\ pendingset \subseteq pendingset'
         /\ sig_ign' \in {sig_ign, NoSignal}
  BY Zenon DEF Raise, Handle, flags, TypeOK

LEMMA ChildNext ==
  TypeOK /\ ReapInv /\ SwallowInv /\ NoLostChild /\ [Next]_vars => SwallowInv' /\ NoLostChild'
<1> SUFFICES ASSUME TypeOK, ReapInv, SwallowInv, NoLostChild, [Next]_vars
             PROVE  SwallowInv' /\ NoLostChild'
  OBVIOUS
<1> USE DEF Procs
<1>1. CASE Fork
  BY <1>1 DEF Fork, SwallowInv, NoLostChild, TypeOK, flags
<1>2. CASE MaskSignals
  BY <1>2 DEF MaskSignals, SwallowInv, NoLostChild, flags, kernel
<1>3. CASE ArmFirst
  BY <1>3 DEF ArmFirst, SwallowInv, NoLostChild, flags, kernel
<1>4. ASSUME NEW s \in Catchable, Wake(s) PROVE SwallowInv' /\ NoLostChild'
  <2>1. /\ pc = "suspend" /\ pc' = "check" /\ opts' = opts /\ killsig' = killsig
        /\ proc' = proc /\ pendingset' = pendingset \ {s} /\ Handle(s)
    BY <1>4 DEF Wake, kernel
  <2>2. sig_ign' \in {sig_ign, NoSignal} /\ (sig_chld => sig_chld')
    BY <2>1 DEF Handle
  <2>3. opts.signal # SIGCHLD /\ s = SIGCHLD => sig_chld'
    <3>1. opts.signal # SIGCHLD => sig_ign # SIGCHLD
      BY DEF SwallowInv, SIGCHLD, SIGKILL, NoSignal
    <3> QED BY <2>1, <3>1, Zenon DEF Handle
  <2> QED BY <2>1, <2>2, <2>3 DEF SwallowInv, NoLostChild
<1>5. CASE OnChild
  <2>1. proc'["cmd"] # "zombie"
    BY <1>5 DEF OnChild, Zombies
  <2> QED BY <1>5, <2>1 DEF OnChild, SwallowInv, NoLostChild
<1>6. CASE OnAlarm
  BY <1>6 DEF OnAlarm, Escalate, SwallowInv, NoLostChild
<1>7. CASE OnAlarmSelf
  BY <1>7 DEF OnAlarmSelf, SwallowInv, NoLostChild
<1>8. CASE OnTerm
  BY <1>8 DEF OnTerm, Escalate, SwallowInv, NoLostChild
<1>9. CASE OnNothing
  BY <1>9 DEF OnNothing, SwallowInv, NoLostChild, flags, kernel
<1>10. ASSUME NEW p \in Procs, WaitAny(p) PROVE SwallowInv' /\ NoLostChild'
  BY <1>10 DEF WaitAny, SwallowInv, NoLostChild, flags
<1>11. CASE Finish
  BY <1>11 DEF Finish, SwallowInv, NoLostChild, flags
<1>12. ASSUME NEW p \in Procs, NEW st, Ends(p, st) PROVE SwallowInv' /\ NoLostChild'
  <2>1. opts' = opts /\ killsig' = killsig /\ Raise(SIGCHLD)
    BY <1>12 DEF Ends
  <2>2. sig_ign' \in {sig_ign, NoSignal}
    BY <2>1, RaiseKeeps
  <2>3. opts.signal # SIGCHLD => sig_chld' \/ SIGCHLD \in pendingset'
    BY <2>1, RaiseChild
  <2> QED BY <2>1, <2>2, <2>3 DEF SwallowInv, NoLostChild
<1>13. CASE ChildExits
  BY <1>13, <1>12 DEF ChildExits
<1>14. CASE CommandDies
  BY <1>14, <1>12 DEF CommandDies
<1>15. CASE Adopt
  BY <1>15 DEF Adopt, SwallowInv, NoLostChild, TypeOK, flags
<1>16. CASE TimerFires
  BY <1>16, RaiseKeeps DEF TimerFires, SwallowInv, NoLostChild, kernel
<1>17. ASSUME NEW s \in External, ExternalSignal(s) PROVE SwallowInv' /\ NoLostChild'
  BY <1>17, RaiseKeeps DEF ExternalSignal, SwallowInv, NoLostChild, kernel
<1>18. CASE UNCHANGED vars
  BY <1>18 DEF SwallowInv, NoLostChild, vars, flags, kernel
<1> QED
  BY <1>1, <1>2, <1>3, <1>4, <1>5, <1>6, <1>7, <1>8, <1>9, <1>10, <1>11, <1>13, <1>14,
     <1>15, <1>16, <1>17, <1>18 DEF Next, Main, Environment, Terminating

\* timeout cannot forget that the command has ended, whenever SIGCHLD comes.
THEOREM NoLostChildHolds == Spec => []NoLostChild
<1>1. Init => SwallowInv /\ NoLostChild
  BY DEF Init, SwallowInv, NoLostChild, Procs
<1>2. TypeOK /\ ReapInv /\ SwallowInv /\ NoLostChild /\ [Next]_vars => SwallowInv' /\ NoLostChild'
  BY ChildNext
<1> QED BY <1>1, <1>2, ReapInvariant, PTL DEF Spec

----------------------------------------------------------------------------
(***************************************************************************)
(* SIGKILL comes last.                                                     *)
(***************************************************************************)

\* killsig is what -s says until the command has been signalled and -k asks for more.
LastResortInv ==
  killsig = opts.signal \/ (killsig = SIGKILL /\ opts.kill_after /\ (opts.foreground => sent # <<>>))

LEMMA SentIsNotEmpty ==
  ASSUME TypeOK, NEW s \in Signals, SignalCommand(s)
  PROVE  sent' # <<>> /\ sent'[Len(sent')] = s
  BY DEF TypeOK, SignalCommand

LEMMA LastResortNext == TypeOK /\ LastResortInv /\ [Next]_vars => LastResortInv'
<1> SUFFICES ASSUME TypeOK, LastResortInv, [Next]_vars PROVE LastResortInv'
  OBVIOUS
<1>1. CASE OnAlarm
  <2>1. SignalCommand(killsig) /\ killsig \in Signals /\ opts' = opts
    BY <1>1 DEF OnAlarm, TypeOK
  <2>2. sent' # <<>>
    BY <2>1, SentIsNotEmpty
  <2>3. killsig' = killsig \/ (killsig' = SIGKILL /\ opts.kill_after)
    BY <1>1 DEF OnAlarm, Escalate
  <2> QED BY <2>1, <2>2, <2>3 DEF LastResortInv
<1>2. CASE OnTerm
  <2>1. opts' = opts /\ (killsig' = killsig \/ (killsig' = SIGKILL /\ opts.kill_after))
    BY <1>2 DEF OnTerm, Escalate
  <2>2. CASE opts.foreground
    <3>1. SignalCommand(sig_term) /\ sig_term \in Signals
      BY <1>2, <2>2, SignalFacts DEF OnTerm, TypeOK
    <3>2. sent' # <<>>
      BY <3>1, SentIsNotEmpty
    <3> QED BY <2>1, <3>2 DEF LastResortInv
  <2>3. CASE ~opts.foreground
    BY <2>1, <2>3 DEF LastResortInv
  <2> QED BY <2>2, <2>3
<1>3. CASE ~OnAlarm /\ ~OnTerm
  <2>1. killsig' = killsig /\ opts' = opts /\ sent' = sent
    BY <1>3 DEF Next, Main, Environment, Terminating, Fork, MaskSignals, ArmFirst, Wake, OnChild,
       OnAlarmSelf, OnNothing, WaitAny, Finish, ChildExits, CommandDies, Ends, Adopt,
       TimerFires, ExternalSignal, vars
  <2> QED BY <2>1 DEF LastResortInv
<1> QED BY <1>1, <1>2, <1>3

\* timeout sends SIGKILL of its own accord only with -k, on an expiry, and to a
\* command that was sent another signal before.
THEOREM KillIsLast == Spec => KillIsLastResort
<1>1. TypeOK /\ LastResortInv /\ [Next]_vars
        => [sent' # sent /\ sent'[Len(sent')] = SIGKILL /\ opts.signal # SIGKILL
              => opts.kill_after /\ sent # <<>> /\ sig_alrm]_vars
  <2> SUFFICES ASSUME TypeOK, LastResortInv, [Next]_vars,
                      sent' # sent, sent'[Len(sent')] = SIGKILL, opts.signal # SIGKILL
               PROVE  opts.kill_after /\ sent # <<>> /\ sig_alrm
    OBVIOUS
  <2>1. opts.foreground
    BY SignalsInLoop
  <2>2. OnAlarm \/ OnTerm
    BY DEF Next, Main, Environment, Terminating, Fork, MaskSignals, ArmFirst, Wake, OnChild,
       OnAlarmSelf, OnNothing, WaitAny, Finish, ChildExits, CommandDies, Ends, Adopt,
       TimerFires, ExternalSignal, vars
  <2>3. CASE OnAlarm
    <3>1. SignalCommand(killsig) /\ killsig \in Signals /\ sig_alrm
      BY <2>3 DEF OnAlarm, TypeOK
    <3>2. killsig = SIGKILL
      BY <3>1, SentIsNotEmpty
    <3> QED BY <2>1, <3>1, <3>2 DEF LastResortInv
  <2>4. CASE OnTerm
    <3>1. SignalCommand(sig_term) /\ sig_term \in TermSignals /\ sig_term \in Signals
      BY <2>1, <2>4, SignalFacts DEF OnTerm, TypeOK
    <3>2. sig_term = SIGKILL
      BY <3>1, SentIsNotEmpty
    <3> QED BY <3>1, <3>2 DEF TermSignals, SIGKILL, SIGHUP, SIGINT, SIGQUIT, SIGTERM
  <2> QED BY <2>2, <2>3, <2>4
<1>2. Init => TypeOK /\ LastResortInv
  BY InitType DEF Init, LastResortInv
<1>3. TypeOK /\ LastResortInv /\ [Next]_vars => (TypeOK /\ LastResortInv)'
  BY NextType, LastResortNext
<1> QED BY <1>1, <1>2, <1>3, PTL DEF Spec, KillIsLastResort

==============================================================================
