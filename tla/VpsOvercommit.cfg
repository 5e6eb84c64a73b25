\* Two orders at once for a node that has room for one.
CONSTANTS
  Orders = {o1, o2}
  Keys = {"a", "b"}
  Nodes = {n1}
  RAM <- SamePlan
  Total <- OneEach
  Calls = {}
  Ops = {}
  MaxDeliver = 2
  Horizon = 0
  MaxReported = 0
  Restarts = 0
  Faults = {}
SPECIFICATION Spec
INVARIANT NodesNotOvercommitted
CHECK_DEADLOCK FALSE
