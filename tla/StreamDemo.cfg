SPECIFICATION FairSpec
CONSTANTS
  Last = 2
  Window = 1
  Poison <- NoPoison
  Earliest = TRUE
  FailOnLoss = FALSE
  Deadlines <- BothDeadlines
  MaxFaults = 1
  Retention = TRUE
  MayReset = TRUE
INVARIANTS CommittedIsRecorded
PROPERTIES SummaryTruth BoundedRun
