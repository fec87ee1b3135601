SPECIFICATION Spec
CONSTANTS
  Readings <- BlankOnly
  Languages = {"en"}
  DefaultLanguage = "en"
  ValidatedLanguages = {"en"}
  MaxRounds = 2
  MaxPerTurn = 1
  ResponseTimeout = 1
  SelfResolution = 1
  HandoffGrace = 1
  RetryGrace = 1
  Skews <- Behind
  Ends = {}
  MaxWrites = 1
  MaxClock = 1
  MaxFailures = 0
  MaxCrashes = 0
CHECK_DEADLOCK FALSE
PROPERTIES RepliesAreJudged
