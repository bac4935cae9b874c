SPECIFICATION Spec
CONSTANTS
  Job = {"a", "b"}
  Draft = {1, 2, 3}
  Of <- MCOf
  Request = {r1}
  Nil = Nil
  DirectDelete = FALSE
INVARIANTS ReviewCompletes ListedExist
CHECK_DEADLOCK FALSE
