SPECIFICATION Spec
CONSTANTS
  Job = {"a"}
  Draft = {1, 2}
  Of <- MCOf
  Request = {r1, r2}
  Nil = Nil
  DirectDelete = FALSE
INVARIANTS ReviewCompletes
