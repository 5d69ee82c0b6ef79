CONSTANTS
  Code <- SwapCode
  Incoming <- SwapIncoming
  Frontier <- SwapFrontier
  LoopOf <- SwapLoopOf
  Parent <- OneLoop
  Header <- OneHeader
  Ignored = {}
  Inductions = {}
  Reductions = {}
  NumParams <- SwapParams
  Instrumented = {"main"}
  External = {}
  Main = "main"
  Address = {1, 2}
  Accesses <- ThreeAccesses
  LogThreshold = 3
  Window = 1
  MaxDepth = 4
  MaxTime = 10
SPECIFICATION Spec
INVARIANTS
  RegDepsExact
\* The trace ends.
CHECK_DEADLOCK FALSE
