\* One request at a time; a caller may disconnect or a statement fail.
CONSTANTS
  Users = {u1}
  Requests = {r1, r2}
  Amounts = {1}
  MaxOpening = 2
  LowThreshold = 1
  PoolSize = 2
  MaxInFlight = 1
  Faults = TRUE
SPECIFICATION Spec
INVARIANT LedgerExplainsBalance
CHECK_DEADLOCK FALSE
