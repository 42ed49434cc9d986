SPECIFICATION FairSpec
CONSTANTS
  e1 = e1  e2 = e2  e3 = e3  analytics = analytics
  Events = {e1, e2, e3}
  Name <- EventName
  Purposes = {analytics}
  NetConfigs <- Served
  CachedConfigs <- Kept
  HostConsents <- PassedConsents
  PersistQueue = TRUE
  MaxQueue = 2
  BatchSize = 2
  MaxRetries = 1
  None = None
  MaxReloads = 2
INVARIANTS NothingBlockedIsSent QueueSound ExplicitRefusalHonoured
PROPERTY QueueDrains
CHECK_DEADLOCK FALSE
