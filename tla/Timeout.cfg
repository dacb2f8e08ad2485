SPECIFICATION FairSpec
CONSTANTS
  ExitCodes <- MCExitCodes
  Options <- AllOptions
  External <- MCExternal
  MaxSignals = 2
INVARIANTS
  TypeOK
  ForegroundStatus
  NoLostChild
PROPERTIES
  NoStrayKill
  KillIsLastResort
  EndsInTime
CHECK_DEADLOCK FALSE
