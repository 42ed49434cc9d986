SPECIFICATION Spec
CONSTANTS
  Workers = {w1, w2, w3}
  Events = {e1, e2, e3}
  Forwarding = {w1, w2}
  Ttl = 4
  ClaimTtl = 3
  Capacity = 2
  MaxHandling = 2
  MaxWait = 1
  NoRow = NoRow
  Nobody = Nobody
  MaxTime = 7
  MaxCrashes = 2
SYMMETRY Symmetry
INVARIANTS TableSound SingleHandler NoUnexcusedRedelivery
CHECK_DEADLOCK FALSE
