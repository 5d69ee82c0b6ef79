CONSTANTS
  t1 = t1
  t2 = t2
  fn = fn
  gn = gn
  lib = lib
  Thread = {t1}
  Setups <- UnwindSetups
  NumValues = 1
  MaxCount = 6
  MaxDepth = 3
SPECIFICATION Spec
INVARIANTS
  InROIExact
\* The process exits, and the program stops at the bounds.
CHECK_DEADLOCK FALSE
