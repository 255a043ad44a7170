CONSTANTS
  a = a
  b = b
  c = c
  d = d
  Functions <- FourFunctions
  CallGraphs <- SmallGraphs
SPECIFICATION Spec
INVARIANTS
  TypeOK
  StackConsistent
  LowlinkReachable
  RecursiveEdgesExact
PROPERTIES
  Components
