CONSTANTS
  None = None
  Programs <- AllPrograms
  Inputs <- Runs
  Before <- Precedes
SPECIFICATION Spec
INVARIANT
  MethodOwnContract
