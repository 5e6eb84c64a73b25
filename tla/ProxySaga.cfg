\* Two sagas, the webhook and renewals overlap with the scheduler; providers
\* refuse, and sell without saying so.
CONSTANTS
  Orders = {o1, o2}
  Calls = {c1}
  Ops = {"renew", "fulfil"}
  Adapters = {"sync", "async"}
  Keys = {"", "k"}
  Prices = {1}
  Durations = {1}
  CustomPrices = {}
  CustomTimes = {}
  Grace = 1
  Horizon = 3
  Openings = {1, 3}
  MaxInFlight = 4
  Faults = {"provider"}
SPECIFICATION FairSpec
INVARIANTS TypeOK HoldsMatchOrders PeriodsPaid OnePurchasePerKey
PROPERTIES EveryOrderSettles OverdueOrdersLeave
CHECK_DEADLOCK FALSE
