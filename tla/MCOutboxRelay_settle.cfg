SPECIFICATION FairSpec
CONSTANTS
  Order = {o1}
  MaxRetries = 2
  ConfirmsOn = TRUE
  Budget <- EveryFault
INVARIANTS TypeOK FailedOnlyExhausted SendsBounded
PROPERTIES SettledStaysQuiet RowSettles
CHECK_DEADLOCK FALSE
