\* Three overlapping requests on one wallet, with faults.
CONSTANTS
  Users = {u1}
  Requests = {r1, r2, r3}
  Amounts = {0, 1}
  MaxOpening = 2
  LowThreshold = 1
  PoolSize = 3
  MaxInFlight = 2
  Faults = TRUE
SPECIFICATION MCFairSpec
INVARIANTS Solvent SnapshotsPay BalanceBetween EventsBacked
PROPERTY EveryRequestEnds
\* The run is over once every request is served.
CHECK_DEADLOCK FALSE
