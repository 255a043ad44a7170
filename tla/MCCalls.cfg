CONSTANTS
  m = m
  n = n
  NoObject = NoObject
  Locks <- TwoLocks
  Nil = NoObject
  NameOf <- TwoNames
  Blocks <- ThreeBlocks
  Programs <- Calls
  Transfer <- BlockTransfer
  Emit <- BlockEmit
  Prologue <- RequiresReports
  PathBound = 3
  Mutexes <- TwoLocks
  DeferBound = 1
SPECIFICATION FSpec
INVARIANTS
  HeldLocksMustHold
  MayHeldLocksCover
  LockNeededReported
  CallDeadlockReported
  DynamicCallDeadlockNoticed
