SPECIFICATION Spec
CONSTANTS
  Order = {o1}
  MaxRetries = 1
  ConfirmsOn = TRUE
  Budget <- NoFault
PROPERTY SentStaysSent
CHECK_DEADLOCK FALSE
