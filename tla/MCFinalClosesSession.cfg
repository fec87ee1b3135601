SPECIFICATION OpeningSpec
CONSTANTS
  Disputes = {d1}
  Solvers = {s1}
  Handlers = {loop}
  Reminder = Reminder
  Attempts = {a1}
  None = None
  RenotifyAfter = 9
  MaxClock = 2
  MaxCrashes = 0
INVARIANTS FinalClosesSession
