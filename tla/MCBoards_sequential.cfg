SPECIFICATION Spec
CONSTANTS
  User = {u1, u2}
  Board = {b1}
  Recipe = {r1, r2}
  Request = {q1}
  Shared = {"public"}
  Granted = {"editor"}
  Nil = Nil
  Gone = Gone
SYMMETRY BoardsSymmetry
VIEW BoardsView
INVARIANTS TypeOK Placed LinkMatchesVisibility
PROPERTIES RescuedToOwner
