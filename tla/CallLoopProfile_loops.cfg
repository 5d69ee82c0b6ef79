CONSTANTS
  Null = 0
  Inst <- LoopInst
  Kind <- LoopKind
  Succ <- LoopSucc
  Callee <- LoopCallee
  RegionInst <- LoopRegion
  BlockOf <- LoopBlock
  Blocks <- LoopInst
  Starts <- LoopStarts
  IntervalSize = 3
  CandidateMinInst = 2
  IntervalMinInst = 4
  BufferLimit = 4
  MaxInst = 20
  MaxDepth = 3
SPECIFICATION Spec
INVARIANTS
  RecordedInOrder
  ProfileExact
  StackSound
  EdgeCountsExact
  IntervalsContiguous
  IntervalsLargeEnough
  IntervalsFound
\* The pass ends.
CHECK_DEADLOCK FALSE
