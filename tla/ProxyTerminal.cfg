\* One saga and one cancellation, nothing fails.
CONSTANTS
  Orders = {o1}
  Calls = {c1}
  Ops = {"cancel"}
  Adapters = {"sync"}
  Keys = {"k"}
  Prices = {1}
  Durations = {1}
  CustomPrices = {}
  CustomTimes = {}
  Grace = 1
  Horizon = 0
  Openings = {1}
  MaxInFlight = 2
  Faults = {}
SPECIFICATION Spec
PROPERTY TerminalStays
CHECK_DEADLOCK FALSE
