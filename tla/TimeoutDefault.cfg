SPECIFICATION Spec
CONSTANTS
  ExitCodes <- MCExitCodes
  Options <- DefaultOptions
  External <- MCExternal
  MaxSignals = 1
INVARIANT
  StatusAsDocumented
CHECK_DEADLOCK FALSE
