----------------------------- MODULE MCXargsPool -----------------------------
(***************************************************************************)
(* Instances of XargsPool for TLC.                                         *)
(***************************************************************************)
EXTENDS XargsPool

MCProcLimits  == {1, 2}
MCOutcomes    == {"ok", "fail", "abort"}
BenignOutcomes == {"ok", "fail"}
==============================================================================
