SPECIFICATION FairSpec
CONSTANTS
  Order = {o1}
  MaxRetries = 1
  ConfirmsOn = FALSE
  Budget <- NoFault
PROPERTY DeliveredMeansSent
CHECK_DEADLOCK FALSE
