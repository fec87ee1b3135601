SPECIFICATION OpeningSpec
CONSTANTS
  Disputes = {d1}
  Solvers = {s1}
  Handlers = {loop}
  Reminder = Reminder
  Attempts = {a1, a2}
  None = None
  RenotifyAfter = 9
  MaxClock = 1
  MaxCrashes = 0
SYMMETRY AttemptSymmetry
INVARIANTS OpeningTypeOK TakesNeverOverlap OneLiveSession OnlyPeopleSupersede
PROPERTIES OwnTakeAnnouncedAsOwn SessionsHaveALife
