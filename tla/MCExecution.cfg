CONSTANTS
  m = m
  n = n
  NoObject = NoObject
  Locks <- OneLock
  Nil = NoObject
  NameOf <- OneName
  Blocks <- FiveBlocks
  Programs <- UnconditionalDefers
  Transfer <- BlockTransfer
  Emit <- BlockEmit
  Prologue <- RequiresReports
  PathBound = 10
  Mutexes <- OneLock
  DeferBound = 1
SPECIFICATION FSpec
INVARIANTS
  HeldLocksMustHold
  LockNeededReported
  SelfDeadlockReported
