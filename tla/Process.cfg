CONSTANTS
  main = main
  p1 = p1
  p2 = p2
  p3 = p3
  Procs = {main, p1, p2, p3}
  Statuses = {0}
  MaxChildren = 2
  LoadFails = TRUE
  MemoryFails = TRUE
SPECIFICATION Spec
SYMMETRY UserSymmetry
INVARIANT RecordsListed
PROPERTY CallsAnswer
CHECK_DEADLOCK FALSE
