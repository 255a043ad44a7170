CONSTANTS
  f = f
  g = g
  a = a
  b = b
  h = h
  x = x
  y = y
  z = z
  none = none
  Nil = none
  Functions <- FiveFunctions
  Packages <- SameNamePackages
  SnapshotOrder <- SourceOrder
SPECIFICATION Spec
INVARIANTS
  InversionsExact
