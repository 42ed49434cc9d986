SPECIFICATION ProgressSpec
CONSTANTS
  Clients = {p1, p2}
  Containers = {c1}
  Versions = {v1, v2}
  Payloads = {good}
  ValidPayloads = {good}
  EnvNames = {prod}
  NoVersion = NoVersion
  NoEnv = NoEnv
  Free = Free
  Idle = Idle
  ForeignDocs <- NoDocs
  MaxAudit = 2
  MaxCrashes = 1
  MaxFailures = 1
  MaxFaults = 2
  MaxExports = 0
  f1 = f1  f2 = f2  analytics = analytics  None = None  Unlisted = Unlisted
PROPERTIES LockGivenBack QueueDrains TasksAndAuditsEnd
CHECK_DEADLOCK FALSE
