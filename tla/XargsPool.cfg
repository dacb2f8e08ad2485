SPECIFICATION FairSpec
CONSTANTS
  MaxRuns = 3
  ProcLimits <- MCProcLimits
  Outcomes <- MCOutcomes
INVARIANTS
  TypeOK
  SlotsTrackChildren
  HonestVerdict
PROPERTIES
  RunsInParallel
  Termination
