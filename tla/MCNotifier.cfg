\* The reminder is always due: the bound on the clock must not be what keeps
\* a dispute from being announced.
SPECIFICATION FairNotifierSpec
CONSTANTS
  Disputes = {d1}
  Solvers = {s1}
  Handlers = {loop, sync}
  Reminder = Reminder
  Attempts = {}
  None = None
  RenotifyAfter = 0
  MaxClock = 2
  MaxCrashes = 1
INVARIANTS NotifierTypeOK NewestWins TakenOnce NotifiedWasHeard
PROPERTIES LifecycleForward SolversEventuallyHear
