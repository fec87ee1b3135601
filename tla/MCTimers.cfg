SPECIFICATION Spec
CONSTANTS
  Readings <- Puzzled
  Languages = {"en", "es"}
  DefaultLanguage = "en"
  ValidatedLanguages = {"en"}
  MaxRounds = 2
  MaxPerTurn = 1
  ResponseTimeout = 1
  SelfResolution = 1
  HandoffGrace = 1
  RetryGrace = 1
  Skews <- Right
  Ends = {}
  MaxWrites = 1
  MaxClock = 3
  MaxFailures = 1
  MaxCrashes = 0
CHECK_DEADLOCK FALSE
INVARIANTS ReminderOnce AskedOnce
