SPECIFICATION FairSpec
CONSTANTS
  Order = {o1}
  MaxRetries = 1
  ConfirmsOn = TRUE
  Budget <- LostPublish
PROPERTY QueuedMeansCreated
CHECK_DEADLOCK FALSE
