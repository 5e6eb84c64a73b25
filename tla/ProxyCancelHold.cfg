\* Two orders, two requests at a time, nothing fails.
CONSTANTS
  Orders = {o1, o2}
  Calls = {c1}
  Ops = {"cancel"}
  Adapters = {"sync"}
  Keys = {"k", "l"}
  Prices = {1}
  Durations = {1}
  CustomPrices = {}
  CustomTimes = {}
  Grace = 1
  Horizon = 0
  Openings = {2}
  MaxInFlight = 2
  Faults = {}
SPECIFICATION Spec
PROPERTY RefundsOwnHold
CHECK_DEADLOCK FALSE
