\* Every operation on one order, one at a time, nothing fails.
CONSTANTS
  Orders = {o1}
  Calls = {c1}
  Ops = {"cancel", "renew", "lock", "unlock", "fulfil", "patch"}
  Adapters = {"sync", "async", "none"}
  Keys = {""}
  Prices = {1}
  Durations = {0, 1}
  CustomPrices = {0, 2}
  CustomTimes = {1, 3}
  Grace = 1
  Horizon = 4
  Openings = {3}
  MaxInFlight = 1
  Faults = {}
SPECIFICATION Spec
INVARIANT ProviderAgrees
PROPERTY ImplementsOrderLifecycle
CHECK_DEADLOCK FALSE
