SPECIFICATION TransformerSpec
CONSTANTS
  Regions <- MCRegions
INVARIANTS
  AssertionsHold
  QualifiedExact
  PlanComplete
  FunctionsServed
  AliveExact
  TransformAsserts
  ProgramPreserved
  ConfiguredWhileUsed
  StoresDone
  NoCoreUserSound
CHECK_DEADLOCK FALSE
