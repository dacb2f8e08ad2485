SPECIFICATION Spec
CONSTANT
  Commands <- BlockTailCommands
INVARIANT
  BlockAsDocumented
