SPECIFICATION PartsSpec
CONSTANTS
  None = None
  Clients = {p1, p2}
  Orgs = {o1, o2}
  Spaces = {w1, w2, w3}
  Ids = {c1}
  MaxCalls = 4
  MaxStops = 2
  NJobs = 3
  Threshold = 1
  SiteReadings <- Scores
  PerfReadings <- Medians
  OptionSets = {{"history", "site-wide", "alert-webhook", "fail-on-regression"}, {"history"}, {"sdr", "fail-on-sdr-mismatch"}}
  MaxRetries = 1
  MaxJobStops = 1
  Nothing = Nothing
  Nil = Nil
  Site <- SiteOf
  Relayed <- MeasurementHosts
  Detectors <- BothDetectors
  Observations <- SomeVisits
INVARIANTS SiteReportSound EvidenceNeverOverstated ExperimentsIsolate AlignmentMeansConformance HistoryKept ScopesSound
CHECK_DEADLOCK FALSE
