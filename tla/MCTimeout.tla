------------------------------ MODULE MCTimeout ------------------------------
(***************************************************************************)
(* Instances of Timeout for TLC.                                           *)
(***************************************************************************)
EXTENDS Timeout

\* --foreground, with every combination of the other options.
ForegroundOptions ==
  [foreground: {TRUE}, preserve: BOOLEAN, kill_after: BOOLEAN, limited: BOOLEAN,
   signal: {SIGTERM, SIGKILL, SIGALRM, SIGCHLD}]

\* The default mode: timeout is the subreaper of what the command leaves behind.
DefaultOptions ==
  [foreground: {FALSE}, preserve: BOOLEAN, kill_after: BOOLEAN, limited: BOOLEAN,
   signal: {SIGTERM, SIGALRM}]

AllOptions == ForegroundOptions \cup DefaultOptions

MCExitCodes == {0, 7}
MCExternal  == {SIGINT, SIGTERM}
==============================================================================
