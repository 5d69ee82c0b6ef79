CONSTANTS
  t1 = t1
  t2 = t2
  fn = fn
  gn = gn
  lib = lib
  Thread = {t1, t2}
  Setups <- AllSetups
  NumValues = 1
  MaxCount = 8
  MaxDepth = 3
SYMMETRY Symmetry
SPECIFICATION Spec
INVARIANTS
  TypeOK
  FilesWhole
  WindowsExact
  ROITracked
\* The process exits, and the program stops at the bounds.
CHECK_DEADLOCK FALSE
