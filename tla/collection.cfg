SPECIFICATION PartsSpec
SYMMETRY Interchangeable
CONSTANTS
  e1 = e1  e2 = e2
  Nobody = Nobody
  Workers = {w1, w2}
  Events = {e1, e2}
  Requests <- SomeRequests
  HasForwarder = TRUE
  Ttl = 2
  Capacity = 1
  MaxTime = 2
  MaxRequests = 3
  MaxRestarts = 1
  Addresses = {a1, a2, p1}
  Trusted = {p1}
  Junk = junk
  MaxForged = 1
  MaxHops = 2
  HasToken = TRUE
  MaxBody = 1
  Threads = {t1, t2}
  Keys = {c1, c2, c3}
  Charges = {1, 3}
  Burst = 2
  Rate = 1
  KeyLimit = 1
  LastTick = 3
  MaxCalls = 5
INVARIANTS CollectorSafe 
PROPERTY ImplementsClaims
CHECK_DEADLOCK FALSE
