SPECIFICATION MCSpec
CONSTANTS
  Messages = {"m1", "m2"}
  Ids = {"i1", "i2"}
  Digests = {"d1", "d2"}
  BodyChoices <- MCBodyChoices
  MaxDeliveryAttempts = 2
  MaxMessages = 2
  MessageConcurrency = 2
  Capacity = 1
  InitialDelay = 1
  DelayMultiplier = 2
  MaxDelay = 3
  MaxFaults = 2
CHECK_DEADLOCK FALSE
INVARIANT MessagesAreSafe
INVARIANT DuplicateMemoryHolds
INVARIANT ConsumerTellsTheTruth
PROPERTY EveryMessageLeaves
