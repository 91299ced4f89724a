SPECIFICATION ServiceSpec
CONSTANTS
  b1 = b1
  b2 = b2
  s1 = s1
  s2 = s2
  q1 = q1
  q2 = q2
  NoOne = NoOne
  Browsers <- TwoBrowsers
  Sessions <- TwoSessions
  Questions <- TwoQuestions
  Untitled <- FirstUntitled
  HasKey = TRUE
  AllowMock = FALSE
INVARIANTS ServiceTypeOK TitleTruth QuestionFirst
PROPERTIES KeepsConversation
CHECK_DEADLOCK FALSE
