SPECIFICATION Spec
CONSTANTS
  Row <- MCRow
  Hash <- MCHash
  Key <- MCKey
  Date <- MCDate
  Batch <- TwoBatch
  NoBatch = "-"
  Job <- MCJob
  BatchJob <- MCBatchJob
  HashOf <- MCHashOf
  KeyOf <- MCKeyOf
  Valid <- MCValid
  DateOf <- MCDateOf
  Bad <- MCBad
  RowsOf <- TwoRowsOf
  SliceOf <- TwoSliceOf
  BatchOf <- TwoBatchOf
  ModeOf <- ServerMode
  NInc = 1
  NAdv = 1
  Feeds <- TwoFeeds
  DqFailOnError = TRUE
  Overlap = TRUE
  Faults = TRUE
  MayReset = FALSE
INVARIANTS SilverFromBronze ManifestTruth
PROPERTIES RerunIsNoop
