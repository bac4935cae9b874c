SPECIFICATION FairSpec
CONSTANTS
  Job = {1, 2}
  TextJob = {2}
  Worker = {w1}
  Token = {t1, t2, t3}
  Request = {r1}
  Nil = Nil
  MaxAttempts = 2
  Cap = 1
  MaxCall = 0
  MaxDrafts = 1
  MaxRetries = 1
PROPERTIES JobSettles
