\* One instance: everything that may fail does, and two requests overlap with the
\* worker, the meter and a restart.
CONSTANTS
  Orders = {o1}
  Keys = {""}
  Nodes = {n1}
  RAM <- SamePlan
  Total <- OneEach
  Calls = {c1, c2}
  Ops = {"start", "suspend", "terminate"}
  MaxDeliver = 2
  Horizon = 2
  MaxReported = 2
  Restarts = 1
  Faults = {"db", "nats", "proxmox"}
SPECIFICATION Spec
SYMMETRY CallSymmetry
INVARIANTS TypeOK ReservationsCoverMachines MeteredHasMachine UsageCovered
PROPERTIES NoUsageAfterTermination
CHECK_DEADLOCK FALSE
