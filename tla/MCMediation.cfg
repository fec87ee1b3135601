SPECIFICATION Spec
CONSTANTS
  Readings <- Outcomes
  Languages = {"en"}
  DefaultLanguage = "en"
  ValidatedLanguages = {"en"}
  MaxRounds = 2
  MaxPerTurn = 0
  ResponseTimeout = 1
  SelfResolution = 1
  HandoffGrace = 1
  RetryGrace = 1
  Skews <- Behind
  Ends = {"closed"}
  MaxWrites = 2
  MaxClock = 1
  MaxFailures = 0
  MaxCrashes = 0
CHECK_DEADLOCK FALSE
INVARIANTS SilentOnceOver NothingSkipped StrikesAreEarned
PROPERTIES MediationKeepsTheLife
