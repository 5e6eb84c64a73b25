\* Two orders that may share a key, two nodes, and provisioning that fails.
CONSTANTS
  Orders = {o1, o2}
  Keys = {"", "k"}
  Nodes = {n1, n2}
  RAM <- SamePlan
  Total <- OneEach
  Calls = {}
  Ops = {}
  MaxDeliver = 3
  Horizon = 0
  MaxReported = 0
  Restarts = 0
  Faults = {"proxmox"}
SPECIFICATION FairSpec
 
PROPERTIES EveryJobSettles
CHECK_DEADLOCK FALSE
