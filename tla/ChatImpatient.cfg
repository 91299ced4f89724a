SPECIFICATION FairSpec
CONSTANTS
  b1 = b1
  b2 = b2
  b3 = b3
  b4 = b4
  b5 = b5
  s1 = s1
  s2 = s2
  q1 = q1
  q2 = q2
  c1 = c1
  c2 = c2
  NoOne = NoOne
  NoSession = NoSession
  Browsers <- FiveBrowsers
  Sessions <- OneSession
  Questions <- OneQuestion
  Untitled <- AllTitled
  Calls <- TwoCalls
  HasKey = FALSE
  AllowMock = TRUE
  Patient = FALSE
  Expiry = TRUE

PROPERTIES BusyEnds
INVARIANTS ShownIsPersisted
