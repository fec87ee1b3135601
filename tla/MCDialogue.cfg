SPECIFICATION Spec
CONSTANTS
  Readings <- Talk
  Languages = {"en", "es"}
  DefaultLanguage = "en"
  ValidatedLanguages = {"en"}
  MaxRounds = 2
  MaxPerTurn = 1
  ResponseTimeout = 1
  SelfResolution = 1
  HandoffGrace = 1
  RetryGrace = 1
  Skews <- Right
  Ends = {}
  MaxWrites = 3
  MaxClock = 0
  MaxFailures = 0
  MaxCrashes = 0
CHECK_DEADLOCK FALSE
INVARIANTS MediationTypeOK AskedOnce
PROPERTIES WaitLeavesATimer
