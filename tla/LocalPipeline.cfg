SPECIFICATION Spec
CONSTANTS
  Row <- MCRow
  First <- MCFirst
  Later <- MCLater
  Payload <- MCPayload
  Parse <- MCParse
  Lower <- MCLower
  Number <- MCNumber
  None = None
  NaN = NaN
  Garbled = Garbled
  Odd = Odd
  Day <- MCDay
  BronzeRun = {b1, b2}
  SilverRun = {s1, s2}
  GoldRun = {g1}
  Table = {"conversion_funnel"}
  MaxCrashes = 1
  MaxRunning = 2
  Cuts = {0, 1}
  b1 = b1
  b2 = b2
  s1 = s1
  s2 = s2
  g1 = g1
INVARIANTS LocalTypeOK RecordedIsWhole Lineage GoldCountsRuns
PROPERTIES NothingAfterPoison
SYMMETRY Symmetry
CHECK_DEADLOCK FALSE
