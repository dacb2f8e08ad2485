CONSTANTS
  Registers <- MCRegisters
  MaxIndex <- MCMaxIndex
  MacroNames <- MCMacros
  Variables <- MCVariables
  Arrays <- MCArrays
  Functions <- MCFunctions
  Jobs <- MCJobs
SPECIFICATION Spec
INVARIANTS TypeOK PrintsMeaning LevelsBalance
PROPERTY Ends
