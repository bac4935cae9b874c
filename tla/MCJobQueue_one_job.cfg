SPECIFICATION Spec
CONSTANTS
  Job = {1}
  TextJob = {}
  Worker = {w1, w2}
  Token = {t1, t2, t3}
  Request = {r1}
  Nil = Nil
  MaxAttempts = 3
  Cap = 2
  MaxCall = 2
  MaxDrafts = 1
  MaxRetries = 1
SYMMETRY WorkerSymmetry
INVARIANTS OneOwner DraftsListed LockedWhileRunning AttemptLeft RecordedCostWithinCap
PROPERTIES FlushedClaimIsSafe ImplementsLifecycle
