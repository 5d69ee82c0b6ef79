CONSTANTS
  main = main
  t1 = t1
  t2 = t2
  NoTid = NoTid
  Thread <- MCThread3
  N = 2
  NoThread <- NoTid
  Main <- main
  Early = {}
SPECIFICATION Spec
INVARIANTS
  IInv
  BodiesDisjoint
  NoReentry
  NoLostCall
  StartUpOrdered
PROPERTIES
  RefinesSlots
\* The process stops when it exits for lack of slots.
CHECK_DEADLOCK FALSE
