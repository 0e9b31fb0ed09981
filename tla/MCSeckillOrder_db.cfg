SPECIFICATION Spec
CONSTANTS
  u1 = u1  u2 = u2  r1 = r1  r2 = r2  r3 = r3  b1 = b1
  User = {u1, u2}
  SeckillReq = {r1, r2}
  RegularReq = {b1}
  UserOf <- MCUserOf
  Consumer = {c1}
  Recon = rc
  Stock = 1
  MaxRetries = 1
  DiffThreshold = 1
  ReconciliationEnabled = TRUE
  DeadLetterEnabled = FALSE
  Budget <- DbFaults
INVARIANTS TypeOK StockConserved
PROPERTY SaleImplemented
CHECK_DEADLOCK FALSE
