SPECIFICATION FairSpec
CONSTANTS
  u1 = u1  u2 = u2  r1 = r1  r2 = r2  r3 = r3  b1 = b1
  User = {u1, u2}
  SeckillReq = {r1, r2, r3}
  RegularReq = {b1}
  UserOf <- MCUserOf
  Consumer = {c1, c2}
  Recon = rc
  Stock = 1
  MaxRetries = 1
  DiffThreshold = 1
  ReconciliationEnabled = FALSE
  DeadLetterEnabled = TRUE
  Budget <- DeliveryFaults
INVARIANTS RedisConserved NothingDropped
PROPERTY SentSettles
CHECK_DEADLOCK FALSE
