SPECIFICATION Spec
CONSTANTS
  Job = {1}
  TextJob = {}
  Worker = {w1, w2}
  Token = {t1, t2, t3}
  Request = {r1, r2}
  Nil = Nil
  MaxAttempts = 2
  Cap = 1
  MaxCall = 0
  MaxDrafts = 1
  MaxRetries = 2
SYMMETRY WorkerSymmetry
INVARIANTS TypeOK
PROPERTIES DraftsCreatedOnce
