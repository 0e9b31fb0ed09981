SPECIFICATION ShopSpec
CONSTANTS
  n1 = n1  n2 = n2  r1 = r1  r2 = r2  t1 = t1
  Node = {n1, n2}
  Reader = {r1, r2}
  Task = {t1}
  NodeOf <- MCNodeOf
  Writer = n1
  Booting = n2
  MaxVersion = 2
  MaxOwed = 2
  MaxFaults = 1
INVARIANT OneFiller
