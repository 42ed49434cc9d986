SPECIFICATION Spec
CONSTANTS
  Keys = {k1, k2}
  Sensitive = {k1}
  Values = {"10", "on"}
  Shape <- ShapeOf
  Items = {i1}
  CaptureValues = TRUE
  CaptureAll = TRUE
  MaxNetworkEvents = 1
  LayerCap = 2
  Steps = 2
  MaxPageSteps = 3
  Absent = Absent
  Redacted = Redacted
  Adapters = {"cookiebot"}
  SignalKinds <- SomeKinds
  ConsentSets <- SomeConsents
  RequestKinds <- SomeRequests
  Selectors = 2
  MaxNetwork = 2
  MaxActivity = 3
INVARIANTS JourneysSound RecordFaithful AuditJust
CHECK_DEADLOCK FALSE
