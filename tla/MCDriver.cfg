CONSTANTS
  None = None
  Programs <- AllPrograms
  Inputs <- Runs
  Before <- Precedes
SPECIFICATION Spec
INVARIANTS
  TypeOK
  OwnContract
  AssumedLocksChecked
  GuardedAccessChecked
  AdviceSettles
  ShownExact
PROPERTIES
  ImplementsLog
  Termination
