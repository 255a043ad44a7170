CONSTANTS
  m = m
  n = n
  NoObject = NoObject
  Locks <- OneLock
  Nil = NoObject
  NameOf <- OneName
  Blocks <- FiveBlocks
  Programs <- ConditionalDefers
  Transfer <- BlockTransfer
  Emit <- BlockEmit
  Prologue <- RequiresReports
  PathBound = 10
  Mutexes <- OneLock
  DeferBound = 2
SPECIFICATION FSpec
INVARIANTS
  HeldLocksMustHold
