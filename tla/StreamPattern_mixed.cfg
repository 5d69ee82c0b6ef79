CONSTANTS
  M = 32
  Vals <- MixedVals
  MaxEntries = 5
  MaxStreams = 2
SPECIFICATION Spec
INVARIANTS
  TypeOK
  ReplayExact
  OncePerIteration
  PatternsTight
\* The program stops at the bounds.
CHECK_DEADLOCK FALSE
