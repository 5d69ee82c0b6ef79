CONSTANTS
  Code <- LoopCode
  Incoming <- LoopIncoming
  Frontier <- LoopFrontier
  LoopOf <- LoopOfBlock
  Parent <- OneLoop
  Header <- OneHeader
  Ignored = {}
  Inductions = {}
  Reductions = {4}
  NumParams <- LoopParams
  Instrumented = {"main", "g"}
  External = {"ext"}
  Main = "main"
  Address = {1, 2}
  Accesses <- ThreeAccesses
  LogThreshold = 3
  Window = 1
  MaxDepth = 4
  MaxTime = 9
SPECIFICATION Spec
INVARIANTS
  TypeOK
  DepsExact
  MemoryOrdered
  CallsFollowed
  SnapshotReplays
\* The trace ends.
CHECK_DEADLOCK FALSE
