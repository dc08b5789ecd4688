CONSTANTS
  Seeds = {s1}
  MaxPrompts = 1
  MaxWakes = 1
  MaxSteps = 2
  CanDispose = TRUE
SPECIFICATION FairSpec
CHECK_DEADLOCK FALSE
INVARIANTS
  PromptMeansDelivered
  AbortHolds
PROPERTIES
  FeedIsOrdered
  NothingHangs
