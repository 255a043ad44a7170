CONSTANTS
  m = m
  n = n
  NoObject = NoObject
  Locks <- OneLock
  Nil = NoObject
  NameOf <- OneName
  Blocks <- FiveBlocks
  Programs <- UnconditionalDefers
  Transfer <- BlockTransfer
  Emit <- BlockEmit
  Prologue <- RequiresReports
  PathBound = 8
SPECIFICATION FairSpec
INVARIANTS
  TypeOK
  WorklistConsistent
  FixpointReached
  MeetOverPaths
  FindingsHaveWitness
PROPERTIES
  EntryStatesOnlyWeaken
  Termination
