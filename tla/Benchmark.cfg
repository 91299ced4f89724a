SPECIFICATION Spec
CONSTANTS
  Row <- MCRow
  KeyOf <- MCKeyOf
  MonthOf <- MCMonthOf
  Invalid <- MCInvalid
  Kept <- MCKept
  Content <- MCContent
  BootstrapRows <- MCBootstrapRows
  Size = 2
  Plans <- MCPlans
  MaxRuns = 2
  MaxCleanups = 2
INVARIANTS LikeForLike TablesSound
PROPERTIES ReportTruth
CHECK_DEADLOCK FALSE
