SPECIFICATION Spec
CONSTANTS
  Last = 3
  Window = 2
  Poison <- SecondPoison
  Earliest = FALSE
  FailOnLoss = TRUE
  Deadlines <- NoDeadline
  MaxFaults = 2
  Retention = TRUE
  MayReset = FALSE
INVARIANTS TypeOK NothingSkipped
PROPERTIES ReadsLog
