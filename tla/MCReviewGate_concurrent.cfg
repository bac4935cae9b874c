SPECIFICATION Spec
CONSTANTS
  Job = {"a", "b"}
  Draft = {1, 2, 3}
  Of <- MCOf
  Request = {r1, r2}
  Nil = Nil
  DirectDelete = TRUE
SYMMETRY ReviewSymmetry
INVARIANTS TypeOK DoneMeansResolved NoLockCycle
CHECK_DEADLOCK FALSE
