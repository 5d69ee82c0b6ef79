CONSTANTS
  Code <- NestCode
  Incoming <- NestIncoming
  Frontier <- NestFrontier
  NumParams <- NestParams
  LoopOf <- NestLoopOf
  Parent <- NestParent
  Header <- NestHeader
  Ignored = {"sqrt"}
  Inductions = {8}
  Reductions = {4}
  Instrumented = {"main"}
  External = {"lib", "sqrt"}
  Main = "main"
  Address <- Memory
  Accesses = {}
  LogThreshold = 100
  MaxDepth = 2
  MaxTime = 21
  Patterns <- MCPatterns
  DataFlowTime = 16
  SIMDOutside = 2
  BufferThreshold = 4
  VectorizeWidth = 3
  EfficiencyPercent = 99
  Critical = {9, 12}
  RIBSize = 10
  SliceClearPeriod = 17
  SliceTime = 21
SPECIFICATION Spec
INVARIANTS
  DataFlowSound
  VectorsSound
  NeedsSound
CHECK_DEADLOCK FALSE
