SPECIFICATION Spec
CONSTANTS
  Row <- MCRow
  Hash <- MCHash
  Key <- MCKey
  Date <- MCDate
  Batch <- OneBatch
  NoBatch = "-"
  Job <- OneJob
  BatchJob <- MCBatchJob
  HashOf <- MCHashOf
  KeyOf <- MCKeyOf
  Valid <- MCValid
  DateOf <- MCDateOf
  Bad <- MCBad
  RowsOf <- OneRowsOf
  SliceOf <- OneSliceOf
  BatchOf <- OneBatchOf
  ModeOf <- OneMode
  NInc = 2
  NAdv = 1
  Feeds <- MCFeeds
  DqFailOnError = TRUE
  Overlap = FALSE
  Faults = TRUE
  MayReset = FALSE
INVARIANTS RerunRecovers
