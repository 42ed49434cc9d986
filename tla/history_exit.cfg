SPECIFICATION JobsSpec
CONSTANTS
  None = None
  Clients = {p1}
  Orgs = {o1}
  Spaces = {w1}
  Ids = {c1}
  MaxCalls = 0
  MaxStops = 0
  NJobs = 2
  Threshold = 1
  SiteReadings <- Scores
  PerfReadings <- Medians
  OptionSets = {{"history", "site-wide", "fail-on-regression"}}
  MaxRetries = 1
  MaxJobStops = 0
  Nothing = Nothing
  Nil = Nil
  Site <- SiteOf
  Relayed <- MeasurementHosts
  Detectors <- BothDetectors
  Observations <- SomeVisits
INVARIANT RegressionFailsTheJob
CHECK_DEADLOCK FALSE
