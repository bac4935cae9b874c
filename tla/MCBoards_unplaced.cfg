SPECIFICATION Spec
CONSTANTS
  User = {u1}
  Board = {b1}
  Recipe = {r1}
  Request = {q1, q2}
  Shared = {}
  Granted = {"editor"}
  Nil = Nil
  Gone = Gone
INVARIANTS Placed
