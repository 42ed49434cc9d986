SPECIFICATION PartsSpec
CONSTANTS
  t1 = t1  t2 = t2  f1 = f1  f2 = f2  s1 = s1  s2 = s2
  view = view  buy = buy  analytics = analytics  marketing = marketing
  None = None  Unlisted = Unlisted
  Threads = {t}
  Flushers = {f1, f2}
  Names = {view, buy}
  Purposes = {analytics, marketing}
  Documents <- AnyDocuments
  ExclusiveFlush = TRUE
  ChecksContainer = TRUE
  AtomicCache = TRUE
  SwallowsSaves = TRUE
  AllowWithoutConfig = TRUE
  MaxQueue = 2
  Batch = 2
  MaxRetries = 2
  MaxEvents = 2
  MaxConsents = 2
  MaxFetches = 2
  MaxFailures = 2
  MaxKills = 1
SYMMETRY Symmetry
INVARIANTS QueueKept ConfigAndConsentHonoured AndroidAndObserverSound
CHECK_DEADLOCK FALSE
