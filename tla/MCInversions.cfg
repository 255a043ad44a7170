CONSTANTS
  f = f
  g = g
  a = a
  b = b
  h = h
  x = x
  y = y
  z = z
  none = none
  Nil = none
  Functions <- FiveFunctions
  Packages <- AllPackages
  SnapshotOrder <- SourceOrder
SPECIFICATION Spec
INVARIANTS
  TypeOK
  MutualWaitReported
  InversionsExact
  SelfWaitReported
