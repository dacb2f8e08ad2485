SPECIFICATION FairSpec
CONSTANT
  Commands <- AllCommands
INVARIANTS
  TypeOK
  BufferBounds
  OutputRight
  SummaryTrue
PROPERTY
  Termination
