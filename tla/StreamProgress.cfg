SPECIFICATION FairSpec
CONSTANTS
  Last = 4
  Window = 2
  Poison <- FourthPoison
  Earliest = TRUE
  FailOnLoss = TRUE
  Deadlines <- NoDeadline
  MaxFaults = 2
  Retention = FALSE
  MayReset = TRUE
PROPERTIES EventuallyPublished
