CONSTANTS
  None = None
  Programs <- Packages
SPECIFICATION Spec
INVARIANTS
  TypeOK
  NoReentry
  TargetsExact
  CallsResolved
  EffectsExact
  EvidenceExact
  DeferredEffectsCovered
PROPERTIES
  Termination
