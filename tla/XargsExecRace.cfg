SPECIFICATION Spec
CONSTANTS
  MaxRuns = 2
  ProcLimits <- MCProcLimits
  Outcomes <- BenignOutcomes
INVARIANT
  ExecFailureReported
