SPECIFICATION FairSpec
CONSTANTS
  u1 = u1  u2 = u2  r1 = r1  r2 = r2  r3 = r3  b1 = b1
  User = {u1}
  SeckillReq = {r1}
  RegularReq = {b1}
  UserOf <- MCUserOf
  Consumer = {c1, c2}
  Recon = rc
  Stock = 2
  MaxRetries = 1
  DiffThreshold = 2
  ReconciliationEnabled = TRUE
  DeadLetterEnabled = TRUE
  Budget <- HealingFaults
INVARIANT OnlyPurchaseCollides
PROPERTIES AdmittedServed StocksConverge
CHECK_DEADLOCK FALSE
