SPECIFICATION FairSpec
CONSTANTS
  u1 = u1  u2 = u2  r1 = r1  r2 = r2  r3 = r3  b1 = b1
  User = {u1, u2}
  SeckillReq = {r1, r2}
  RegularReq = {}
  UserOf <- MCUserOf
  Consumer = {c1}
  Recon = rc
  Stock = 1
  MaxRetries = 1
  DiffThreshold = 2
  ReconciliationEnabled = TRUE
  DeadLetterEnabled = TRUE
  Budget <- NoFault
PROPERTIES AdmittedServed
CHECK_DEADLOCK FALSE
