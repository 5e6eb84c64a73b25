\* One order, two overlapping requests of any kind, the scheduler, and every
\* call may fail.
CONSTANTS
  Orders = {o1}
  Calls = {c1, c2}
  Ops = {"cancel", "renew", "lock", "unlock", "fulfil", "patch"}
  Adapters = {"sync", "async"}
  Keys = {""}
  Prices = {1}
  Durations = {1}
  CustomPrices = {2}
  CustomTimes = {1}
  Grace = 0
  Horizon = 2
  Openings = {2}
  MaxInFlight = 2
  Faults = {"db", "billing", "provider"}
SPECIFICATION Spec
INVARIANTS ServedHasCredentials WalletSolvent
SYMMETRY CallSymmetry
CHECK_DEADLOCK FALSE
