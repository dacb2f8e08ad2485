SPECIFICATION Spec
CONSTANT
  Commands <- SparseNotruncCommands
INVARIANT
  NotruncKeepsOld
