\* Two overlapping requests on one wallet, nothing fails.
CONSTANTS
  Users = {u1}
  Requests = {r1, r2}
  Amounts = {1}
  MaxOpening = 2
  LowThreshold = 1
  PoolSize = 3
  MaxInFlight = 2
  Faults = FALSE
SPECIFICATION Spec
INVARIANT NoLostUpdate
CHECK_DEADLOCK FALSE
