SPECIFICATION Spec
CONSTANTS
  Event <- MCEvent
  None = None
  Day <- MCDay
  MonthOf <- MCMonthOf
  CategoryOf <- MCCategoryOf
  Inactivity = 1800
  PadLimit = 3
  TopProducts = 2
  TopPairs = 2
  Lookback = 90
  Batch <- MCBatch
  Full = TRUE
INVARIANTS RefreshIsRebuild MartsReconcile DerivedSessions EnginesAgree
PROPERTIES MonthsClose
CHECK_DEADLOCK FALSE
