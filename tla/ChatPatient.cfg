SPECIFICATION Spec
CONSTANTS
  b1 = b1
  b2 = b2
  b3 = b3
  b4 = b4
  b5 = b5
  s1 = s1
  s2 = s2
  q1 = q1
  q2 = q2
  c1 = c1
  c2 = c2
  NoOne = NoOne
  NoSession = NoSession
  Browsers <- FiveBrowsers
  Sessions <- TwoSessions
  Questions <- TwoQuestions
  Untitled <- AllTitled
  Calls <- OneCall
  HasKey = FALSE
  AllowMock = TRUE
  Patient = TRUE
  Expiry = FALSE
INVARIANTS TabTypeOK ViewTruth SessionReachable NoSilentFailure
SYMMETRY Symmetry
