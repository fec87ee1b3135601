SPECIFICATION PartsSpec
CONSTANTS
  Sessions = {s1, s2}
  Stuck = {s2}
  TurnTasks = {t1, t2}
  MaxIn = 2
  MaxOut = 1
  MaxDeferrals = 1
  MaxStops = 1
  Solvers = {v1, v2}
  Lookback = 1
  LastDay = 2
  MaxUnsent = 2
  MaxKills = 1
  Subjects = {m}
  Observers = {o1, o2}
  MaxMisses = 3
  RetryWindow = 3
  RetryBase = 1
  RetryMax = 3
  MaxDoublings = 6
  LastTime = 5
  MaxReboots = 1
  Disputes = {d1}
  Readers = {r1}
  Questions = {q1}
  ClockSkew = 1
  ReaderSkew = 1
  LastSecond = 2
  MaxEvaluations = 3
  MaxBriefs = 2
  MaxReplies = 1
  Languages <- SmallLanguages
  Unit = 3
  Tolerance = 1
  Fact = 2
  Guide = 2
  OutsideScope = 2
  Conflict = 2
  Fraud = 2
  LanguageMin = 2
  MaxQuoteOptions = 1
  MaxRetries = 2
  InitialBackoff = 1
  MaxBackoff = 1
  MaxRetryAfter = 2
  RetryAfters = {0, 5}
  Transcripts <- SmallTranscripts
  Limits = {17, 20}
  Header = 2
  Scripts <- SmallScripts
  Relays = {w1, w2}
  LastTick = 1
  MaxRevisions = 2
  MaxFaults = 2
CHECK_DEADLOCK FALSE
INVARIANTS
  PartsTypeOK
  TurnsNeverOverlap ClosingIsSound NoticesAreSound FeedbackIsSound ReadingIsSound DmsAreSound
  ReplacedStaysReplaced
PROPERTY PartsProgress
