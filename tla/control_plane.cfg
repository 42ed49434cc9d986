SPECIFICATION Spec
CONSTANTS
  c1 = c1  v4 = v4 c2 = c2  v1 = v1  v2 = v2  v3 = v3  good = good  bad = bad  prod = prod
  Clients = {p1, p2}
  Containers = {c1}
  Versions = {v1, v2, v3}
  Payloads = {good, bad}
  ValidPayloads = {good}
  EnvNames = {prod}
  NoVersion = NoVersion
  NoEnv = NoEnv
  Free = Free
  Idle = Idle
  ForeignDocs <- OneDoc
  MaxAudit = 3
  MaxCrashes = 1
  MaxFailures = 2
  MaxFaults = 2
  MaxExports = 1
SYMMETRY ClientSymmetry
INVARIANTS TypeOK AuditNumbered AckedDurable TornTakesTwo AuditExplainsState EnvironmentsDeployable
CHECK_DEADLOCK FALSE
