SPECIFICATION FairSpec
CONSTANTS
  Readings <- GuideOnly
  Languages = {"en"}
  DefaultLanguage = "en"
  ValidatedLanguages = {"en"}
  MaxRounds = 2
  MaxPerTurn = 1
  ResponseTimeout = 1
  SelfResolution = 1
  HandoffGrace = 1
  RetryGrace = 0
  Skews <- Right
  Ends = {}
  MaxWrites = 1
  MaxClock = 0
  MaxFailures = 0
  MaxCrashes = 1
CHECK_DEADLOCK FALSE
INVARIANTS NothingSkipped
PROPERTIES BriefArrives PartiesAreTold
