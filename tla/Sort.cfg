SPECIFICATION FairSpec
CONSTANT
  Jobs <- MCJobs
  MaxTemps = 10
INVARIANTS
  TypeOK
  SortedOutput
  FilesSafe
  MergeOrdered
PROPERTY
  Termination
