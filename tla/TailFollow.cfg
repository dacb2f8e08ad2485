\* Two names, three inodes.
CONSTANTS
  NumFiles = 2
  NumInodes = 3
  Scenarios <- MCScenarios
  Options <- MCOptions
SPECIFICATION Spec
INVARIANTS
  TypeOK
  LinesRight
PROPERTIES
  SkipsOnlyNew
  Follows
