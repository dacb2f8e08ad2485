\* Two names: the truncation of the second one.
CONSTANTS
  NumFiles = 2
  NumInodes = 3
  Scenarios <- MCScenarios
  Options <- MCOptions
SPECIFICATION Spec
PROPERTIES
  ShrinkNoticed
