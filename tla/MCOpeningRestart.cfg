SPECIFICATION FairOpeningSpec
CONSTANTS
  Disputes = {d1}
  Solvers = {s1}
  Handlers = {loop}
  Reminder = Reminder
  Attempts = {a1}
  None = None
  RenotifyAfter = 9
  MaxClock = 1
  MaxCrashes = 1
INVARIANTS AbandonedIsNoticed NotificationComesFirst
PROPERTIES AttemptsReturn NoticeArrives
