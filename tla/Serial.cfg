SPECIFICATION Spec
CONSTANTS
  Row <- MCRow
  Hash <- MCHash
  Key <- MCKey
  Date <- MCDate
  Batch <- MCBatch
  NoBatch = "-"
  Job <- MCJob
  BatchJob <- MCBatchJob
  HashOf <- MCHashOf
  KeyOf <- MCKeyOf
  Valid <- MCValid
  DateOf <- MCDateOf
  Bad <- MCBad
  RowsOf <- MCRowsOf
  SliceOf <- MCSliceOf
  BatchOf <- MCBatchOf
  ModeOf <- ServerMode
  NInc = 2
  NAdv = 1
  Feeds <- MCFeeds
  DqFailOnError = TRUE
  Overlap = FALSE
  Faults = TRUE
  MayReset = TRUE
INVARIANTS TypeOK SilverUnique SilverClean GoldFromSilver GoldExactUnlessOwed
PROPERTIES BronzeHashOnce ContractSpec
