CONSTANTS
  f = f
  g = g
  a = a
  b = b
  h = h
  x = x
  y = y
  z = z
  none = none
  Nil = none
  Functions <- FiveFunctions
  Packages <- ReturningPackages
  SnapshotOrder <- SourceOrder
SPECIFICATION Spec
INVARIANTS
  MutualWaitReported
