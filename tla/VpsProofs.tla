----------------------------- MODULE VpsProofs -----------------------------
(***************************************************************************)
(* Proofs about Vps, for any number of orders, nodes and requests, any     *)
(* plans and nodes, and any failure.                                       *)
(***************************************************************************)
EXTENDS Vps, Sums

\* GREATEST(0, x) of the SQL.
LEMMA MaxZero ==
  ASSUME NEW x \in Int
  PROVE  Max({0, x}) \in Nat /\ (x >= 0 => Max({0, x}) = x)
<1>1. \E m \in {0, x} : \A y \in {0, x} : m >= y
  OBVIOUS
<1>2. Max({0, x}) \in {0, x} /\ \A y \in {0, x} : Max({0, x}) >= y
  BY <1>1 DEF Max
<1> QED BY <1>2

\* A release never leaves a negative reservation (vps_repo.go:115-126).
LEMMA ReleaseType ==
  ASSUME reserved \in [Nodes -> Nat], NEW n \in Nodes, NEW ram \in Nat
  PROVE  Release(n, ram) \in [Nodes -> Nat]
<1>1. reserved[n] - ram \in Int
  OBVIOUS
<1>2. Max({0, reserved[n] - ram}) \in Nat
  BY <1>1, MaxZero
<1> QED BY <1>2 DEF Release

\* A reservation adds to what is reserved (vps_repo.go:102-113).
LEMMA ReserveType ==
  ASSUME reserved \in [Nodes -> Nat], NEW n \in Nodes, NEW ram \in Nat
  PROVE  Reserve(n, ram) \in [Nodes -> Nat]
BY DEF Reserve
-----------------------------------------------------------------------------
(***************************************************************************)
(* Type correctness.                                                       *)
(***************************************************************************)

\* The rows: reservations, instances, machines and hours reported.
RowsOK ==
  /\ reserved \in [Nodes -> Nat]
  /\ inst \in [Orders -> InstanceRow]
  /\ vm \subseteq Orders
  /\ reported \in [Orders -> Nat]
  /\ lost \in BOOLEAN

\* A status update keeps the rows well typed.
LEMMA SetStatusType ==
  ASSUME RowsOK, NEW o \in Orders, NEW s \in Status, SetStatus(o, s), lost' \in BOOLEAN
  PROVE  RowsOK'
<1>1. inst' \in [Orders -> InstanceRow]
  BY DEF RowsOK, SetStatus, InstanceRow
<1> QED BY <1>1 DEF RowsOK, SetStatus

\* So do the other updates of instances.
LEMMA UpdateType ==
  ASSUME inst \in [Orders -> InstanceRow], NEW o \in Orders, NEW n \in Nodes, NEW d \in Date
  PROVE  /\ [inst EXCEPT ![o].node = n] \in [Orders -> InstanceRow]
         /\ [inst EXCEPT ![o].status = "running", ![o].started = d, ![o].billed = d]
              \in [Orders -> InstanceRow]
         /\ [inst EXCEPT ![o].billed = d] \in [Orders -> InstanceRow]
         /\ [inst EXCEPT ![o].ended = d] \in [Orders -> InstanceRow]
<1>1. inst[o] \in InstanceRow /\ "running" \in Status
  BY DEF Status
<1>2. /\ [inst[o] EXCEPT !.node = n] \in InstanceRow
      /\ [inst[o] EXCEPT !.status = "running", !.started = d, !.billed = d] \in InstanceRow
      /\ [inst[o] EXCEPT !.billed = d] \in InstanceRow
      /\ [inst[o] EXCEPT !.ended = d] \in InstanceRow
  BY <1>1 DEF InstanceRow
<1> QED BY <1>2

\* A job is queued while deliveries are left, a request that is under way has
\* not published one, and the worker works on a job that it fetched.
JobsDue ==
  /\ \A o \in Orders : /\ job[o].at = "queued" => job[o].sent < MaxDeliver
                       /\ pc[o] # "done" => job[o] = [at |-> "none", sent |-> 0]
  /\ worker.at # "idle" => job[worker.on].at = "fetched"

\* CreateVPS keeps the types.
LEMMA CreateType ==
  ASSUME TypeOK, NEW o \in Orders, Create(o)
  PROVE  TypeOK'
<1> USE VpsAssumption
<1>1. CASE Lookup(o)
  BY <1>1 DEF Lookup, Goto, TypeOK, rows, Phase
<1>2. CASE SelectNode(o)
  <2>1. inst' = inst \/ \E n \in Nodes : inst' = [inst EXCEPT ![o].node = n]
    BY <1>2 DEF SelectNode, Fitting
  <2>2. inst' \in [Orders -> InstanceRow]
    <3>1. NoTime \in Date
      BY DEF Date
    <3>2. inst \in [Orders -> InstanceRow]
      BY DEF TypeOK
    <3>3. ASSUME NEW n \in Nodes PROVE [inst EXCEPT ![o].node = n] \in [Orders -> InstanceRow]
      BY <3>1, <3>2, UpdateType
    <3> QED BY <2>1, <3>2, <3>3
  <2> QED BY <1>2, <2>2 DEF SelectNode, Goto, TypeOK, Phase
<1>3. CASE ReserveNode(o)
  <2>1. Reserve(inst[o].node, RAM[o]) \in [Nodes -> Nat]
    BY ReserveType DEF TypeOK, InstanceRow
  <2>2. /\ reserved' \in [Nodes -> Nat] /\ lost' \in BOOLEAN
        /\ UNCHANGED <<inst, vm, reported>>
    BY <1>3, <2>1 DEF ReserveNode, Try, TypeOK, rows
  <2>3. pc' \in [Orders -> Phase]
    BY <1>3 DEF ReserveNode, Try, TypeOK, Goto, Phase
  <2> QED BY <1>3, <2>2, <2>3 DEF ReserveNode, TypeOK
<1>4. CASE Insert(o)
  <2>1. RowsOK'
    BY <1>4, SetStatusType DEF Insert, Try, TypeOK, rows, RowsOK, Status
  <2>2. pc' \in [Orders -> Phase]
    BY <1>4 DEF Insert, Try, TypeOK, Goto, Phase
  <2> QED BY <1>4, <2>1, <2>2 DEF Insert, TypeOK, RowsOK
<1>5. CASE Hold(o)
  BY <1>5 DEF Hold, Goto, TypeOK, rows, Phase
<1>6. CASE MarkRefused(o)
  <2>1. RowsOK'
    BY <1>6, SetStatusType DEF MarkRefused, Try, TypeOK, rows, RowsOK, Status
  <2>2. pc' \in [Orders -> Phase]
    BY <1>6 DEF MarkRefused, Try, TypeOK, Goto, Phase
  <2> QED BY <1>6, <2>1, <2>2 DEF MarkRefused, TypeOK, RowsOK
<1>7. CASE ReleaseNode(o)
  <2>1. Release(inst[o].node, RAM[o]) \in [Nodes -> Nat]
    BY ReleaseType DEF TypeOK, InstanceRow
  <2>2. /\ reserved' \in [Nodes -> Nat] /\ lost' \in BOOLEAN
        /\ UNCHANGED <<inst, vm, reported>>
    BY <1>7, <2>1 DEF ReleaseNode, Try, TypeOK, rows
  <2>3. pc' \in [Orders -> Phase]
    BY <1>7 DEF ReleaseNode, Try, TypeOK, Goto, Phase
  <2> QED BY <1>7, <2>2, <2>3 DEF ReleaseNode, TypeOK
<1>8. CASE Publish(o)
  BY <1>8 DEF Publish, Goto, TypeOK, rows, Phase
<1> QED
  BY <1>1, <1>2, <1>3, <1>4, <1>5, <1>6, <1>7, <1>8, Create(o) DEF Create

\* What was not acknowledged is queued again or dropped.
LEMMA UndeliveredType ==
  ASSUME TypeOK, NEW o \in Orders
  PROVE  Undelivered(job[o]) \in [at: {"none", "queued", "fetched", "acked", "dropped"},
                                  sent: 0..MaxDeliver]
BY DEF TypeOK, Undelivered

\* A refused job is queued again or dropped, and the worker is free.
LEMMA NakType ==
  ASSUME TypeOK, NEW o \in Orders, Nak(o)
  PROVE  /\ worker' \in [at: Stage \cup {"idle"}, on: Orders]
         /\ job' \in [Orders -> [at: {"none", "queued", "fetched", "acked", "dropped"},
                                sent: 0..MaxDeliver]]
<1>1. Free \in [at: Stage \cup {"idle"}, on: Orders]
  BY VpsAssumption DEF Free
<1> QED BY <1>1, UndeliveredType DEF Nak, TypeOK

\* The worker keeps the types.
LEMMA ProvisionType ==
  ASSUME TypeOK, JobsDue, Provision
  PROVE  TypeOK'
<1> USE VpsAssumption
<1>1. Free \in [at: Stage \cup {"idle"}, on: Orders]
  BY DEF Free
<1>2. ASSUME NEW o \in Orders, Fetch(o) PROVE TypeOK'
  <2>1. job[o].sent + 1 \in 0..MaxDeliver
    BY <1>2, VpsAssumption DEF Fetch, JobsDue, TypeOK
  <2> QED BY <1>2, <2>1 DEF Fetch, TypeOK, rows
<1>3. ASSUME NEW o \in Orders, Load(o) PROVE TypeOK'
  <2>1. CASE Live(o) /\ Work(o, "mark") /\ job' = job
    BY <1>3, <2>1 DEF Load, Work, TypeOK, rows, Stage
  <2>2. CASE Nak(o)
    BY <1>3, <2>2, NakType DEF Load, TypeOK, rows
  <2> QED BY <1>3, <2>1, <2>2 DEF Load
<1>4. ASSUME NEW o \in Orders, MarkProvisioning(o) PROVE TypeOK'
  <2>1. RowsOK'
    BY <1>4, SetStatusType DEF MarkProvisioning, Try, TypeOK, rows, RowsOK, Status
  <2>2. worker' \in [at: Stage \cup {"idle"}, on: Orders]
    BY <1>4 DEF MarkProvisioning, Try, Work, Stage
  <2> QED BY <1>4, <2>1, <2>2 DEF MarkProvisioning, TypeOK, RowsOK
<1>5. ASSUME NEW o \in Orders, CreateVM(o) PROVE TypeOK'
  BY <1>5 DEF CreateVM, Work, TypeOK, Stage
<1>6. ASSUME NEW o \in Orders, StartVM(o) PROVE TypeOK'
  <2>1. RowsOK'
    BY <1>6, SetStatusType DEF StartVM, Try, TypeOK, rows, RowsOK, Status
  <2>2. worker' \in [at: Stage \cup {"idle"}, on: Orders]
    BY <1>6 DEF StartVM, Try, Work, Stage
  <2> QED BY <1>6, <2>1, <2>2 DEF StartVM, TypeOK, RowsOK
<1>7. ASSUME NEW o \in Orders, Boot(o) PROVE TypeOK'
  BY <1>7 DEF Boot, Work, TypeOK, rows, Stage
<1>8. ASSUME NEW o \in Orders, Activate(o) PROVE TypeOK'
  <2>1. [inst EXCEPT ![o].status = "running", ![o].started = now, ![o].billed = now]
          \in [Orders -> InstanceRow]
    BY UpdateType DEF TypeOK, Date
  <2>2. RowsOK'
    <3>1. reserved' = reserved /\ vm' = vm /\ lost' \in BOOLEAN
      BY <1>8 DEF Activate, Try, TypeOK, rows
    <3>2. inst' \in [Orders -> InstanceRow]
      BY <1>8, <2>1 DEF Activate, Try, TypeOK, rows
    <3>3. reported' \in [Orders -> Nat]
      BY <1>8 DEF Activate, Try, TypeOK, rows
    <3> QED BY <3>1, <3>2, <3>3 DEF TypeOK, RowsOK
  <2>3. worker' \in [at: Stage \cup {"idle"}, on: Orders]
    BY <1>8 DEF Activate, Try, Work, Stage
  <2> QED BY <1>8, <2>2, <2>3 DEF Activate, TypeOK, RowsOK
<1>9. ASSUME NEW o \in Orders, Ack(o) PROVE TypeOK'
  <2>1. CASE job' = [job EXCEPT ![o].at = "acked"] /\ worker' = Free
    BY <1>1, <1>9, <2>1 DEF Ack, TypeOK, rows
  <2>2. CASE Nak(o)
    BY <1>9, <2>2, NakType DEF Ack, TypeOK, rows
  <2> QED BY <1>9, <2>1, <2>2 DEF Ack
<1>10. ASSUME NEW o \in Orders, MarkFailed(o) PROVE TypeOK'
  <2>1. RowsOK'
    BY <1>10, SetStatusType DEF MarkFailed, Try, TypeOK, rows, RowsOK, Status
  <2>2. worker' \in [at: Stage \cup {"idle"}, on: Orders]
    BY <1>10 DEF MarkFailed, Try, Work, Stage
  <2> QED BY <1>10, <2>1, <2>2 DEF MarkFailed, TypeOK, RowsOK
<1>11. ASSUME NEW o \in Orders, ReleaseFailed(o) PROVE TypeOK'
  <2>1. Release(inst[o].node, Refund(o)) \in [Nodes -> Nat]
    BY ReleaseType DEF TypeOK, InstanceRow, Refund
  <2>2. RowsOK'
    BY <1>11, <2>1 DEF ReleaseFailed, Try, TypeOK, rows, RowsOK
  <2> QED BY <1>11, <2>2, NakType DEF ReleaseFailed, TypeOK, RowsOK
<1> QED
  BY <1>2, <1>3, <1>4, <1>5, <1>6, <1>7, <1>8, <1>9, <1>10, <1>11, Provision DEF Provision

\* Requests on instances keep the types.
LEMMA CallType ==
  ASSUME TypeOK, NEW c \in Calls, Read(c) \/ Serve(c)
  PROVE  TypeOK'
<1> USE VpsAssumption
<1> DEFINE CallRow == [op: AllOps, on: Orders,
                       at: {"idle", "listed", "read", "told", "marked"}]
<1>1. Idle \in CallRow
  BY DEF Idle, AllOps
<1>2. call \in [Calls -> CallRow] /\ call[c].on \in Orders /\ call[c].op \in AllOps
  BY DEF TypeOK
<1>3. CASE Read(c)
  <2>1. call' \in [Calls -> CallRow]
    BY <1>2, <1>3 DEF Read
  <2> QED BY <1>3, <2>1 DEF Read, TypeOK, rows
<1>4. CASE ReadAgain(c)
  <2>1. call' \in [Calls -> CallRow]
    BY <1>1, <1>2, <1>4 DEF ReadAgain, Move, Leave
  <2> QED BY <1>4, <2>1 DEF ReadAgain, TypeOK, rows
<1>5. CASE Command(c)
  <2>1. call' \in [Calls -> CallRow]
    BY <1>1, <1>2, <1>5 DEF Command, Move, Leave
  <2>2. vm' \subseteq Orders
    BY <1>5 DEF Command, TypeOK
  <2>3. lost' \in BOOLEAN
    <3>1. lost' = lost \/ lost' = TRUE
      BY <1>5, Zenon DEF Command
    <3> QED BY <3>1 DEF TypeOK
  <2> QED BY <1>5, <2>1, <2>2, <2>3 DEF Command, TypeOK
<1>6. CASE WriteStatus(c)
  <2>1. call' \in [Calls -> CallRow]
    BY <1>1, <1>2, <1>6 DEF WriteStatus, Try, Move, Leave
  <2>2. Target(call[c].op) \in Status
    BY <1>2 DEF Target, AllOps, Status
  <2>3. RowsOK'
    BY <1>2, <1>6, <2>2, SetStatusType DEF WriteStatus, Try, TypeOK, rows, RowsOK
  <2> QED BY <1>6, <2>1, <2>3 DEF WriteStatus, TypeOK, RowsOK
<1>7. CASE SoftDelete(c)
  <2>1. call' \in [Calls -> CallRow]
    BY <1>1, <1>2, <1>7 DEF SoftDelete, Try, Move, Leave
  <2>2. [inst EXCEPT ![call[c].on].ended = now] \in [Orders -> InstanceRow]
    BY <1>2, UpdateType DEF TypeOK, Date
  <2>3. RowsOK'
    BY <1>7, <2>2 DEF SoftDelete, Try, TypeOK, rows, RowsOK
  <2> QED BY <1>7, <2>1, <2>3 DEF SoftDelete, TypeOK, RowsOK
<1> QED
  BY <1>3, <1>4, <1>5, <1>6, <1>7, Read(c) \/ Serve(c) DEF Serve

\* The meter keeps the types.
LEMMA MeterType ==
  ASSUME TypeOK, Meter
  PROVE  TypeOK'
<1> USE VpsAssumption
<1>1. CASE ListRunning
  BY <1>1 DEF ListRunning, Metered, TypeOK, rows, InstanceRow
<1>2. ASSUME NEW o \in Orders, SkipUsage(o) PROVE TypeOK'
  BY <1>2 DEF SkipUsage, TypeOK, rows
<1>3. ASSUME NEW o \in Orders, ReportUsage(o) PROVE TypeOK'
  <2>1. Hours(o) \in Nat
    BY <1>3 DEF ReportUsage, Hours, TypeOK, Date, NoTime
  <2>2. reported' \in [Orders -> Nat]
    BY <1>3, <2>1 DEF ReportUsage, TypeOK
  <2>3. round' \in [now: Nat, left: SUBSET Orders, stamp: SUBSET Orders,
                    seen: [Orders -> Date]]
    BY <1>3 DEF ReportUsage, TypeOK
  <2> QED BY <1>3, <2>2, <2>3 DEF ReportUsage, TypeOK
<1>4. ASSUME NEW o \in Orders, StampBilled(o) PROVE TypeOK'
  <2>1. [inst EXCEPT ![o].billed = round.now] \in [Orders -> InstanceRow]
    BY UpdateType DEF TypeOK, Date
  <2>2. RowsOK'
    BY <1>4, <2>1 DEF StampBilled, Try, TypeOK, rows, RowsOK
  <2> QED BY <1>4, <2>2 DEF StampBilled, TypeOK, RowsOK
<1> QED BY <1>1, <1>2, <1>3, <1>4, Meter DEF Meter

\* Every step keeps the types.
LEMMA TypeStep == TypeOK /\ JobsDue /\ [Next]_vars => TypeOK'
<1> SUFFICES ASSUME TypeOK, JobsDue, [Next]_vars PROVE TypeOK'
  OBVIOUS
<1>1. CASE Tick
  BY <1>1 DEF Tick, TypeOK, rows
<1>2. CASE Restart
  <2>1. worker' \in [at: Stage \cup {"idle"}, on: Orders]
    BY <1>2, VpsAssumption DEF Restart, Free
  <2>2. call' \in [Calls -> [op: AllOps, on: Orders,
                             at: {"idle", "listed", "read", "told", "marked"}]]
    BY <1>2, VpsAssumption DEF Restart, Idle, AllOps
  <2>3. round' \in [now: Nat, left: SUBSET Orders, stamp: SUBSET Orders,
                    seen: [Orders -> Date]]
    BY <1>2 DEF Restart, Asleep, Date
  <2>4. job' \in [Orders -> [at: {"none", "queued", "fetched", "acked", "dropped"},
                             sent: 0..MaxDeliver]]
    BY <1>2, UndeliveredType DEF Restart, TypeOK
  <2>5. pc' \in [Orders -> Phase] /\ restarts' \in 0..Restarts
    BY <1>2, VpsAssumption DEF Restart, TypeOK, Phase
  <2> QED BY <1>2, <2>1, <2>2, <2>3, <2>4, <2>5 DEF Restart, TypeOK, rows
<1>3. CASE UNCHANGED vars
  BY <1>3 DEF vars, TypeOK
<1> QED
  BY <1>1, <1>2, <1>3, CreateType, ProvisionType, CallType, MeterType DEF Next
-----------------------------------------------------------------------------
(***************************************************************************)
(* The jobs.                                                               *)
(***************************************************************************)

\* Only Publish queues a job that was not delivered, and only a refusal or a
\* restart queues one that was.
LEMMA JobsStep == TypeOK /\ JobsDue /\ [Next]_vars => JobsDue'
<1> SUFFICES ASSUME TypeOK, JobsDue, [Next]_vars PROVE JobsDue'
  OBVIOUS
<1> USE VpsAssumption
<1>1. ASSUME NEW o \in Orders, Nak(o), pc' = pc, job[o].at = "fetched" PROVE JobsDue'
  BY <1>1 DEF Nak, Free, Undelivered, JobsDue, TypeOK
<1>2. ASSUME NEW o \in Orders, job[o].at = "fetched", UNCHANGED <<job, pc>>,
             \E stage \in Stage : Work(o, stage)
      PROVE  JobsDue'
  BY <1>2 DEF JobsDue, Work
<1>3. ASSUME NEW o \in Orders, Create(o) PROVE JobsDue'
  <2>1. CASE Publish(o)
    <3>1. pc' = [pc EXCEPT ![o] = "done"] /\ worker' = worker
      BY <2>1 DEF Publish, Goto
    <3>2. job[o] = [at |-> "none", sent |-> 0]
      BY <2>1 DEF Publish, JobsDue
    <3>3. job' = job \/ job' = [job EXCEPT ![o].at = "queued"]
      BY <2>1 DEF Publish
    <3>4. CASE job' = job
      BY <3>1, <3>4 DEF JobsDue, TypeOK
    <3>5. CASE job' = [job EXCEPT ![o].at = "queued"]
      <4>1. job'[o].at = "queued" /\ job'[o].sent = 0
        BY <3>2, <3>5 DEF TypeOK
      <4>2. \A p \in Orders : p # o => job'[p] = job[p] /\ pc'[p] = pc[p]
        BY <3>1, <3>5 DEF TypeOK
      <4>3. pc'[o] = "done"
        BY <3>1 DEF TypeOK
      <4>4. worker.at # "idle" => worker.on # o
        BY <3>2 DEF JobsDue
      <4> QED BY <3>1, <4>1, <4>2, <4>3, <4>4 DEF JobsDue, TypeOK
    <3> QED BY <3>3, <3>4, <3>5
  <2>2. CASE ~Publish(o)
    <3>1. UNCHANGED <<job, worker>>
      BY <1>3, <2>2 DEF Create, Lookup, SelectNode, ReserveNode, Insert, Hold, MarkRefused,
         ReleaseNode
    <3>2. \E phase \in Phase : pc' = [pc EXCEPT ![o] = phase]
      BY <1>3, <2>2 DEF Create, Lookup, SelectNode, ReserveNode, Insert, Hold, MarkRefused,
         ReleaseNode, Goto, Try, Phase
    <3>3. pc[o] # "done"
      BY <1>3, <2>2 DEF Create, Lookup, SelectNode, ReserveNode, Insert, Hold, MarkRefused,
         ReleaseNode
    <3> QED BY <3>1, <3>2, <3>3 DEF TypeOK, JobsDue
  <2> QED BY <2>1, <2>2
<1>4. ASSUME NEW o \in Orders, Fetch(o) PROVE JobsDue'
  BY <1>4 DEF Fetch, JobsDue, TypeOK
<1>5. ASSUME NEW o \in Orders, Load(o) PROVE JobsDue'
  <2>1. pc' = pc /\ job[o].at = "fetched"
    BY <1>5 DEF Load, Fetched
  <2> QED BY <1>1, <1>2, <1>5, <2>1 DEF Load, Stage
<1>6. ASSUME NEW o \in Orders,
             \/ MarkProvisioning(o) \/ CreateVM(o) \/ StartVM(o) \/ Boot(o) \/ Activate(o)
             \/ MarkFailed(o)
      PROVE  JobsDue'
  <2>1. \E stage \in Stage : worker = [at |-> stage, on |-> o]
    BY <1>6 DEF MarkProvisioning, CreateVM, StartVM, Boot, Activate, MarkFailed, Working, Stage
  <2>2. job[o].at = "fetched"
    BY <2>1 DEF JobsDue, Stage
  <2>3. UNCHANGED <<job, pc>>
    BY <1>6 DEF MarkProvisioning, CreateVM, StartVM, Boot, Activate, MarkFailed
  <2>4. \E stage \in Stage : Work(o, stage)
    BY <1>6 DEF MarkProvisioning, CreateVM, StartVM, Boot, Activate, MarkFailed, Try, Stage
  <2> QED BY <1>2, <2>2, <2>3, <2>4
<1>7. ASSUME NEW o \in Orders, Ack(o) PROVE JobsDue'
  <2>1. pc' = pc /\ job[o].at = "fetched"
    BY <1>7 DEF Ack, Working, JobsDue
  <2>2. CASE job' = [job EXCEPT ![o].at = "acked"] /\ worker' = Free
    BY <2>1, <2>2 DEF JobsDue, Free, TypeOK
  <2> QED BY <1>1, <1>7, <2>1, <2>2 DEF Ack
<1>8. ASSUME NEW o \in Orders, ReleaseFailed(o) PROVE JobsDue'
  <2>1. pc' = pc /\ job[o].at = "fetched"
    BY <1>8 DEF ReleaseFailed, Working, JobsDue
  <2> QED BY <1>1, <1>8, <2>1 DEF ReleaseFailed
<1>9. CASE Restart
  BY <1>9 DEF Restart, Free, Fetched, Undelivered, JobsDue, TypeOK
<1>10. ASSUME UNCHANGED <<job, pc, worker>> PROVE JobsDue'
  BY <1>10 DEF JobsDue
<1>11. ASSUME NEW c \in Calls, Read(c) \/ Serve(c) PROVE JobsDue'
  BY <1>10, <1>11 DEF Read, Serve, ReadAgain, Command, WriteStatus, SoftDelete
<1>12. CASE Meter \/ Tick \/ UNCHANGED vars
  BY <1>10, <1>12 DEF Meter, ListRunning, SkipUsage, ReportUsage, StampBilled, Tick, vars
<1> QED
  BY <1>3, <1>4, <1>5, <1>6, <1>7, <1>8, <1>9, <1>11, <1>12 DEF Next, Provision
-----------------------------------------------------------------------------
(***************************************************************************)
(* What the meter lists.                                                   *)
(***************************************************************************)

\* There is a machine, or it is being deleted, or its row is.
Backed(o) == o \in vm \/ Terminating(o) \/ inst[o].ended # NoTime
Backing == {o \in Orders : Backed(o)}

\* No write was lost and vps-service stayed up.
Intact == ~lost /\ restarts = 0

\* What a request that had its command accepted, and a worker that saw the
\* machine boot, are about to write "running" on.
RunningBacked ==
  /\ \A o \in Orders : inst[o].status = "running" => o \in Backing
  /\ \A c \in Calls : call[c].at = "told" => call[c].on \in Backing
  /\ worker.at = "activate" => worker.on \in Backing

IInv == TypeOK /\ JobsDue /\ (Intact => RunningBacked)

\* A write that was lost and a restart are not forgotten.
LEMMA IntactBefore == TypeOK /\ [Next]_vars /\ Intact' => Intact
<1> SUFFICES ASSUME TypeOK, [Next]_vars, Intact' PROVE Intact
  OBVIOUS
<1>1. ASSUME lost' = lost \/ lost' = TRUE, restarts' = restarts PROVE Intact
  BY <1>1 DEF Intact
<1>2. ASSUME NEW o \in Orders, Create(o) PROVE Intact
  <2>1. restarts' = restarts
    BY <1>2, Zenon DEF Create, Lookup, SelectNode, ReserveNode, Insert, Hold, MarkRefused,
       ReleaseNode, Publish
  <2>2. lost' = lost \/ lost' = TRUE
    BY <1>2, Zenon DEF Create, Lookup, SelectNode, ReserveNode, Insert, Hold, MarkRefused,
       ReleaseNode, Publish, Try
  <2> QED BY <1>1, <2>1, <2>2
<1>3. CASE Provision
  <2>1. restarts' = restarts
    BY <1>3, Zenon DEF Provision, Fetch, Load, MarkProvisioning, CreateVM, StartVM, Boot,
       Activate, Ack, MarkFailed, ReleaseFailed
  <2>2. lost' = lost \/ lost' = TRUE
    BY <1>3, Zenon DEF Provision, Fetch, Load, MarkProvisioning, CreateVM, StartVM, Boot,
       Activate, Ack, MarkFailed, ReleaseFailed, Try
  <2> QED BY <1>1, <2>1, <2>2
<1>4. ASSUME NEW c \in Calls, Read(c) \/ Serve(c) PROVE Intact
  <2>1. restarts' = restarts
    BY <1>4, Zenon DEF Read, Serve, ReadAgain, Command, WriteStatus, SoftDelete
  <2>2. lost' = lost \/ lost' = TRUE
    BY <1>4, Zenon DEF Read, Serve, ReadAgain, Command, WriteStatus, SoftDelete, Try
  <2> QED BY <1>1, <2>1, <2>2
<1>5. CASE Meter \/ Tick \/ UNCHANGED vars
  <2>1. restarts' = restarts
    BY <1>5, Zenon DEF Meter, ListRunning, SkipUsage, ReportUsage, StampBilled, Tick, vars
  <2>2. lost' = lost \/ lost' = TRUE
    BY <1>5, Zenon DEF Meter, ListRunning, SkipUsage, ReportUsage, StampBilled, Tick, vars, Try
  <2> QED BY <1>1, <2>1, <2>2
<1>6. ~Restart
  BY VpsAssumption DEF Restart, Intact, TypeOK
<1> QED BY <1>2, <1>3, <1>4, <1>5, <1>6 DEF Next

\* The statements that keep what a backed instance rests on: they change no
\* terminated_at, and no machine is deleted.
Keeps(o) == vm \subseteq vm' /\ inst'[o].ended = inst[o].ended

\* CreateVPS and the worker delete no machine and no row.
LEMMA CreateKeeps ==
  ASSUME TypeOK, NEW o \in Orders, NEW p \in Orders, Create(p)
  PROVE  Keeps(o) /\ call' = call
<1>1. ASSUME NEW s, SetStatus(p, s) PROVE Keeps(o)
  BY <1>1 DEF SetStatus, Keeps, TypeOK, InstanceRow
<1>2. ASSUME inst' = inst /\ vm' = vm PROVE Keeps(o)
  BY <1>2 DEF Keeps
<1>3. ASSUME SelectNode(p) PROVE Keeps(o)
  BY <1>3 DEF SelectNode, Keeps, TypeOK, InstanceRow
<1>4. ASSUME Lookup(p) \/ ReserveNode(p) \/ Hold(p) \/ ReleaseNode(p) \/ Publish(p)
      PROVE  Keeps(o)
  <2>1. inst' = inst /\ vm' = vm
    BY <1>4 DEF Lookup, ReserveNode, Hold, ReleaseNode, Publish, Try, rows
  <2> QED BY <1>2, <2>1
<1>5. ASSUME Insert(p) PROVE Keeps(o)
  <2>1. SetStatus(p, "pending") \/ (inst' = inst /\ vm' = vm)
    BY <1>5 DEF Insert, Try, rows
  <2> QED BY <1>1, <1>2, <2>1
<1>6. ASSUME MarkRefused(p) PROVE Keeps(o)
  <2>1. SetStatus(p, "failed") \/ (inst' = inst /\ vm' = vm)
    BY <1>6 DEF MarkRefused, Try, rows
  <2> QED BY <1>1, <1>2, <2>1
<1>7. Keeps(o)
  BY <1>3, <1>4, <1>5, <1>6, Create(p) DEF Create
<1>8. call' = call
  BY Zenon, Create(p) DEF Create, Lookup, SelectNode, ReserveNode, Insert, Hold, MarkRefused,
     ReleaseNode, Publish
<1> QED BY <1>7, <1>8

LEMMA ProvisionKeeps ==
  ASSUME TypeOK, NEW o \in Orders, Provision
  PROVE  Keeps(o) /\ call' = call
<1>1. ASSUME NEW p \in Orders, NEW s, SetStatus(p, s) PROVE Keeps(o)
  BY <1>1 DEF SetStatus, Keeps, TypeOK, InstanceRow
<1>2. ASSUME inst' = inst /\ vm' = vm PROVE Keeps(o)
  BY <1>2 DEF Keeps
<1>3. ASSUME NEW p \in Orders, Fetch(p) PROVE Keeps(o)
  BY <1>2, <1>3 DEF Fetch, rows
<1>4. ASSUME NEW p \in Orders, Load(p) \/ Boot(p) \/ Ack(p) \/ ReleaseFailed(p)
      PROVE  Keeps(o)
  <2>1. inst' = inst /\ vm' = vm
    BY <1>4 DEF Load, Boot, Ack, ReleaseFailed, Try, rows
  <2> QED BY <1>2, <2>1
<1>5. ASSUME NEW p \in Orders, MarkProvisioning(p) \/ StartVM(p) \/ MarkFailed(p)
      PROVE  Keeps(o)
  <2>1. (\E s \in Status : SetStatus(p, s)) \/ (inst' = inst /\ vm' = vm)
    BY <1>5 DEF MarkProvisioning, StartVM, MarkFailed, Try, rows, Status
  <2> QED BY <1>1, <1>2, <2>1
<1>6. ASSUME NEW p \in Orders, CreateVM(p) PROVE Keeps(o)
  BY <1>6 DEF CreateVM, Keeps
<1>7. ASSUME NEW p \in Orders, Activate(p) PROVE Keeps(o)
  <2>1. vm' = vm
    BY <1>7 DEF Activate, Try, rows
  <2>2. \/ inst' = inst
        \/ inst' = [inst EXCEPT ![p].status = "running", ![p].started = now, ![p].billed = now]
    BY <1>7 DEF Activate, Try, rows
  <2> QED BY <2>1, <2>2 DEF Keeps, TypeOK, InstanceRow
<1>8. Keeps(o)
  BY <1>3, <1>4, <1>5, <1>6, <1>7, Provision DEF Provision
<1>9. call' = call
  BY Zenon, Provision DEF Provision, Fetch, Load, MarkProvisioning, CreateVM, StartVM, Boot,
     Activate, Ack, MarkFailed, ReleaseFailed
<1> QED BY <1>8, <1>9

\* Nor do the meter and the clock.
LEMMA MeterKeeps ==
  ASSUME TypeOK, NEW o \in Orders, Meter \/ Tick \/ UNCHANGED vars
  PROVE  Keeps(o) /\ UNCHANGED <<call, worker, vm>> /\ inst'[o].status = inst[o].status
<1>1. UNCHANGED <<call, worker>>
  BY Zenon, Meter \/ Tick \/ UNCHANGED vars
     DEF Meter, ListRunning, SkipUsage, ReportUsage, StampBilled, Tick, vars
<1>2. ASSUME NEW p \in Orders, StampBilled(p)
      PROVE  vm' = vm /\ (inst' = inst \/ inst' = [inst EXCEPT ![p].billed = round.now])
  BY <1>2 DEF StampBilled, Try, rows
<1>3. CASE \E p \in Orders : StampBilled(p)
  <2>1. PICK p \in Orders : StampBilled(p)
    BY <1>3
  <2>2. vm' = vm /\ (inst' = inst \/ inst' = [inst EXCEPT ![p].billed = round.now])
    BY <1>2, <2>1
  <2>3. inst'[o].ended = inst[o].ended /\ inst'[o].status = inst[o].status
    <3>1. CASE inst' = inst
      BY <3>1
    <3>2. CASE inst' = [inst EXCEPT ![p].billed = round.now]
      BY <3>2 DEF TypeOK, InstanceRow
    <3> QED BY <2>2, <3>1, <3>2
  <2> QED BY <1>1, <2>2, <2>3 DEF Keeps
<1>4. CASE inst' = inst /\ vm' = vm
  BY <1>1, <1>4 DEF Keeps
<1>5. (inst' = inst /\ vm' = vm) \/ \E p \in Orders : StampBilled(p)
  BY Zenon, Meter \/ Tick \/ UNCHANGED vars
     DEF Meter, ListRunning, SkipUsage, ReportUsage, Tick, vars, rows
<1> QED BY <1>3, <1>4, <1>5

\* Once an instance is backed it stays so: a machine is only deleted by a
\* Terminate, which ends by setting terminated_at.
LEMMA BackedStays ==
  ASSUME TypeOK, [Next]_vars, Intact', NEW o \in Orders, Backed(o)
  PROVE  Backed(o)'
<1>1. ASSUME Keeps(o), call' = call PROVE Backed(o)'
  BY <1>1 DEF Keeps, Backed, Terminating
<1>2. ASSUME NEW p \in Orders, Create(p) PROVE Backed(o)'
  BY <1>1, <1>2, CreateKeeps
<1>3. CASE Provision
  BY <1>1, <1>3, ProvisionKeeps
<1>4. CASE Meter \/ Tick \/ UNCHANGED vars
  BY <1>1, <1>4, MeterKeeps
<1>5. ASSUME NEW c \in Calls, Read(c) PROVE Backed(o)'
  BY <1>5 DEF Read, At, Backed, Terminating, TypeOK, rows
<1>6. ASSUME NEW c \in Calls, ReadAgain(c) PROVE Backed(o)'
  BY <1>6 DEF ReadAgain, At, Move, Leave, Backed, Terminating, TypeOK, rows
<1>7. ASSUME NEW c \in Calls, Command(c) PROVE Backed(o)'
  <2>1. \A d \in Calls : call[d].at \in {"told", "marked"} => call'[d] = call[d]
    BY <1>7 DEF Command, At, Move, Leave, TypeOK
  <2>2. CASE Terminating(o) \/ inst[o].ended # NoTime
    BY <1>7, <2>1, <2>2 DEF Command, Backed, Terminating
  <2>3. CASE o \in vm /\ vm' = vm
    BY <2>3 DEF Backed
  <2>4. CASE o \in vm /\ vm' # vm
    <3>1. call[c].op = "terminate" /\ Move(c, "told") /\ vm' = vm \ {call[c].on}
      BY <1>7, <2>4 DEF Command, Intact
    <3>2. call'[c] = [call[c] EXCEPT !.at = "told"]
      BY <3>1 DEF Move, TypeOK
    <3>3. call'[c].op = "terminate" /\ call'[c].on = call[c].on /\ call'[c].at = "told"
      BY <3>1, <3>2 DEF TypeOK
    <3> QED BY <2>4, <3>1, <3>3 DEF Backed, Terminating
  <2> QED BY <2>2, <2>3, <2>4 DEF Backed
<1>8. ASSUME NEW c \in Calls, WriteStatus(c) PROVE Backed(o)'
  <2>1. vm' = vm /\ inst'[o].ended = inst[o].ended
    <3>1. CASE inst' = inst /\ vm' = vm
      BY <3>1
    <3>2. CASE SetStatus(call[c].on, Target(call[c].op))
      <4>1. inst' = [inst EXCEPT ![call[c].on].status = Target(call[c].op)] /\ vm' = vm
        BY <3>2 DEF SetStatus
      <4> QED BY <4>1 DEF TypeOK, InstanceRow
    <3> QED BY <1>8, <3>1, <3>2 DEF WriteStatus, Try, rows
  <2>2. \A d \in Calls : d # c => call'[d] = call[d]
    BY <1>8 DEF WriteStatus, Try, Move, Leave, TypeOK
  <2>3. ASSUME call[c].op = "terminate"
        PROVE  call'[c].op = "terminate" /\ call'[c].on = call[c].on /\ call'[c].at = "marked"
    BY <1>8, <2>3 DEF WriteStatus, Try, Move, TypeOK
  <2> QED BY <2>1, <2>2, <2>3 DEF Backed, Terminating
<1>9. ASSUME NEW c \in Calls, SoftDelete(c) PROVE Backed(o)'
  <2>1. /\ inst' = [inst EXCEPT ![call[c].on].ended = now] /\ vm' = vm
        /\ call' = [call EXCEPT ![c] = Idle]
    BY <1>9 DEF SoftDelete, Try, Leave, Intact
  <2>2. now # NoTime
    BY DEF TypeOK, NoTime
  <2>3. CASE call[c].on = o
    BY <2>1, <2>2, <2>3 DEF Backed, TypeOK, InstanceRow
  <2>4. CASE call[c].on # o
    <3>1. inst'[o] = inst[o]
      BY <2>1, <2>4 DEF TypeOK
    <3>2. \A d \in Calls : d # c => call'[d] = call[d]
      BY <2>1 DEF TypeOK
    <3> QED BY <2>1, <2>4, <3>1, <3>2 DEF Backed, Terminating
  <2> QED BY <2>3, <2>4
<1>10. ~Restart
  BY VpsAssumption DEF Restart, Intact, TypeOK
<1> QED
  BY <1>2, <1>3, <1>4, <1>5, <1>6, <1>7, <1>8, <1>9, <1>10 DEF Next, Serve

\* Only the worker, after it saw the machine boot, and a Start, after Proxmox
\* accepted it, write "running"; both saw a machine that a Terminate may have
\* deleted since, and then the row is on its way out.
LEMMA RunningStep ==
  ASSUME TypeOK, [Next]_vars, Intact', RunningBacked
  PROVE  RunningBacked'
<1>1. Backing \subseteq Backing'
  BY BackedStays DEF Backing
<1>2. \A o \in Orders : inst[o].status = "running" => o \in Backing'
  BY <1>1 DEF RunningBacked
<1>3. \A c \in Calls : call[c].at = "told" => call[c].on \in Backing'
  BY <1>1 DEF RunningBacked, TypeOK
<1>4. worker.at = "activate" => worker.on \in Backing'
  BY <1>1 DEF RunningBacked, TypeOK
<1>5. ASSUME \A o \in Orders : inst'[o].status = "running" => o \in Backing',
             \A c \in Calls : call'[c].at = "told" => call'[c].on \in Backing',
             worker'.at = "activate" => worker'.on \in Backing'
      PROVE  RunningBacked'
  BY <1>5 DEF RunningBacked
<1>6. ASSUME NEW o \in Orders, NEW s \in Status \ {"running"}, SetStatus(o, s)
      PROVE  \A p \in Orders : inst'[p].status = "running" => inst[p].status = "running"
  BY <1>6 DEF SetStatus, TypeOK, InstanceRow
<1>7. ASSUME NEW o \in Orders, Create(o) PROVE RunningBacked'
  <2>1. UNCHANGED <<call, worker>>
    BY <1>7, Zenon DEF Create, Lookup, SelectNode, ReserveNode, Insert, Hold, MarkRefused,
       ReleaseNode, Publish
  <2>2. \/ inst' = inst \/ \E n \in Nodes : inst' = [inst EXCEPT ![o].node = n]
        \/ \E s \in Status \ {"running"} : SetStatus(o, s)
    BY <1>7 DEF Create, Lookup, SelectNode, ReserveNode, Insert, Hold, MarkRefused,
       ReleaseNode, Publish, Try, rows, Status, Fitting
  <2>3. ASSUME NEW n \in Nodes, inst' = [inst EXCEPT ![o].node = n]
        PROVE  \A p \in Orders : inst'[p].status = inst[p].status
    BY <2>3 DEF TypeOK, InstanceRow
  <2>4. \A p \in Orders : inst'[p].status = "running" => inst[p].status = "running"
    BY <1>6, <2>2, <2>3
  <2> QED BY <1>2, <1>3, <1>4, <1>5, <2>1, <2>4
<1>8. CASE Provision
  <2>1. call' = call
    BY <1>8, Zenon DEF Provision, Fetch, Load, MarkProvisioning, CreateVM, StartVM, Boot,
       Activate, Ack, MarkFailed, ReleaseFailed
  <2>2. ASSUME NEW o \in Orders, Activate(o) PROVE RunningBacked'
    <3>1. worker.at = "activate" /\ worker.on = o /\ worker'.at # "activate"
      BY <2>2 DEF Activate, Working, Work, Try
    <3>2. \A p \in Orders : p # o => inst'[p] = inst[p]
      BY <2>2 DEF Activate, Try, TypeOK, rows
    <3> QED BY <1>2, <1>3, <1>4, <1>5, <2>1, <3>1, <3>2
  <2>3. ASSUME NEW o \in Orders, Boot(o) PROVE RunningBacked'
    <3>1. inst' = inst /\ vm' = vm
      BY <2>3 DEF Boot, rows
    <3>2. worker'.at = "activate" => worker'.on = o /\ o \in vm
      BY <2>3 DEF Boot, Work
    <3>3. worker'.at = "activate" => worker'.on \in Backing'
      BY <3>1, <3>2 DEF Backing, Backed
    <3> QED BY <1>2, <1>3, <1>5, <2>1, <3>1, <3>3
  <2>4. ASSUME inst' = inst \/ \E o \in Orders, s \in Status \ {"running"} : SetStatus(o, s),
               worker' = worker \/ worker'.at # "activate"
        PROVE  RunningBacked'
    <3>1. \A p \in Orders : inst'[p].status = "running" => inst[p].status = "running"
      BY <1>6, <2>4
    <3> QED BY <1>2, <1>3, <1>4, <1>5, <2>1, <2>4, <3>1
  <2>5. ASSUME NEW o \in Orders, Fetch(o) PROVE RunningBacked'
    BY <2>4, <2>5 DEF Fetch, rows
  <2>6. ASSUME NEW o \in Orders, Load(o) \/ CreateVM(o) \/ Ack(o) \/ ReleaseFailed(o)
        PROVE  RunningBacked'
    <3>1. inst' = inst
      BY <2>6 DEF Load, CreateVM, Ack, ReleaseFailed, Try, rows
    <3>2. worker' = Free \/ \E stage \in {"mark", "start", "fail"} : Work(o, stage)
      BY <2>6, Zenon DEF Load, CreateVM, Ack, ReleaseFailed, Nak
    <3>3. worker'.at # "activate"
      BY <3>2 DEF Work, Free
    <3> QED BY <2>4, <3>1, <3>3
  <2>7. ASSUME NEW o \in Orders, MarkProvisioning(o) \/ StartVM(o) \/ MarkFailed(o)
        PROVE  RunningBacked'
    <3>1. inst' = inst \/ \E s \in Status \ {"running"} : SetStatus(o, s)
      BY <2>7 DEF MarkProvisioning, StartVM, MarkFailed, Try, rows, Status
    <3>2. worker'.at # "activate"
      BY <2>7 DEF MarkProvisioning, StartVM, MarkFailed, Try, Work
    <3> QED BY <2>4, <3>1, <3>2
  <2> QED BY <1>8, <2>2, <2>3, <2>5, <2>6, <2>7 DEF Provision
<1>9. CASE Meter \/ Tick \/ UNCHANGED vars
  <2>1. UNCHANGED <<call, worker>>
    BY <1>9, Zenon DEF Meter, ListRunning, SkipUsage, ReportUsage, StampBilled, Tick, vars
  <2>2. \A o \in Orders : inst'[o].status = inst[o].status
    BY <1>9, MeterKeeps
  <2> QED BY <1>2, <1>3, <1>4, <1>5, <2>1, <2>2
<1>10. ASSUME NEW c \in Calls, Read(c) \/ Serve(c) PROVE RunningBacked'
  <2>1. worker' = worker
    BY <1>10, Zenon DEF Read, Serve, ReadAgain, Command, WriteStatus, SoftDelete
  <2>2. \A d \in Calls : d # c => call'[d] = call[d]
    BY <1>10 DEF Read, Serve, ReadAgain, Command, WriteStatus, SoftDelete, Try, Move, Leave,
       TypeOK
  <2>3. ASSUME call'[c].at = "told" => call'[c].on \in Backing' PROVE
        \A d \in Calls : call'[d].at = "told" => call'[d].on \in Backing'
    BY <1>3, <2>2, <2>3
  <2>4. CASE Read(c) \/ ReadAgain(c)
    <3>1. inst' = inst /\ call'[c].at # "told"
      BY <2>4 DEF Read, ReadAgain, At, Move, Leave, Idle, TypeOK, rows
    <3> QED BY <1>2, <1>4, <1>5, <2>1, <2>3, <3>1
  <2>5. CASE Command(c)
    <3>1. inst' = inst
      BY <2>5 DEF Command
    <3>2. CASE call'[c].at = "told"
      <4>1. call[c].on \in vm /\ Move(c, "told")
        BY <2>5, <3>2 DEF Command, Leave, Idle, TypeOK
      <4>2. call'[c].on = call[c].on
        BY <4>1 DEF Move, TypeOK
      <4>3. call[c].on \in Orders /\ call[c].on \in Backing
        BY <4>1 DEF Backing, Backed, TypeOK
      <4>4. call[c].on \in Backing'
        BY <1>1, <4>3
      <4> QED BY <1>2, <1>4, <1>5, <2>1, <2>3, <3>1, <4>2, <4>4
    <3> QED BY <1>2, <1>4, <1>5, <2>1, <2>3, <3>1, <3>2
  <2>6. CASE WriteStatus(c)
    <3>1. call[c].at = "told" /\ call'[c].at # "told"
      BY <2>6 DEF WriteStatus, At, Try, Move, Leave, Idle, TypeOK
    <3>2. \A o \in Orders : o # call[c].on => inst'[o] = inst[o]
      BY <2>6 DEF WriteStatus, Try, SetStatus, TypeOK, rows
    <3> QED BY <1>2, <1>3, <1>4, <1>5, <2>1, <2>3, <3>1, <3>2
  <2>7. CASE SoftDelete(c)
    <3>1. call'[c].at # "told"
      BY <2>7 DEF SoftDelete, Try, Leave, Idle, TypeOK
    <3>2. inst' = inst \/ inst' = [inst EXCEPT ![call[c].on].ended = now]
      BY <2>7 DEF SoftDelete, Try, rows
    <3>3. \A o \in Orders : inst'[o].status = inst[o].status
      BY <3>2 DEF TypeOK, InstanceRow
    <3> QED BY <1>2, <1>4, <1>5, <2>1, <2>3, <3>1, <3>3
  <2> QED BY <1>10, <2>4, <2>5, <2>6, <2>7 DEF Serve
<1>11. ~Restart
  BY VpsAssumption DEF Restart, Intact, TypeOK
<1> QED
  BY <1>7, <1>8, <1>9, <1>10, <1>11 DEF Next
-----------------------------------------------------------------------------
(***************************************************************************)
(* The theorems on types and on what the meter lists.                      *)
(***************************************************************************)

\* The system starts in it and every step keeps it.
THEOREM Inductive == Spec => []IInv
<1>1. Init => IInv
  <2> SUFFICES ASSUME Init PROVE IInv
    OBVIOUS
  <2> USE VpsAssumption
  <2>1. TypeOK
    <3>1. NoInstance \in InstanceRow
      BY DEF NoInstance, InstanceRow, Status, Date, NoTime
    <3>2. Free \in [at: Stage \cup {"idle"}, on: Orders]
      BY DEF Free
    <3>3. Idle \in [op: AllOps, on: Orders, at: {"idle", "listed", "read", "told", "marked"}]
      BY DEF Idle, AllOps
    <3>4. Asleep \in [now: Nat, left: SUBSET Orders, stamp: SUBSET Orders,
                      seen: [Orders -> Date]]
      BY DEF Asleep, Date
    <3>5. vm \subseteq Orders /\ now \in Nat /\ restarts \in 0..Restarts
      BY DEF Init
    <3>6. lost \in BOOLEAN
      BY Zenon DEF Init
    <3>7. /\ job \in [Orders -> [at: {"none", "queued", "fetched", "acked", "dropped"},
                                sent: 0..MaxDeliver]]
          /\ pc \in [Orders -> Phase]
      BY DEF Init, Phase
    <3>8. reserved \in [Nodes -> Nat] /\ reported \in [Orders -> Nat]
      BY DEF Init
    <3> HIDE VpsAssumption
    <3> QED BY <3>1, <3>2, <3>3, <3>4, <3>5, <3>6, <3>7, <3>8 DEF Init, TypeOK
  <2>2. JobsDue
    BY DEF Init, JobsDue, Free
  <2>3. RunningBacked
    BY DEF Init, RunningBacked, NoInstance, Idle, Free
  <2> QED BY <2>1, <2>2, <2>3 DEF IInv
<1>2. IInv /\ [Next]_vars => IInv'
  <2> SUFFICES ASSUME IInv, [Next]_vars PROVE IInv'
    OBVIOUS
  <2>1. TypeOK' /\ JobsDue'
    BY TypeStep, JobsStep DEF IInv
  <2>2. ASSUME Intact' PROVE RunningBacked'
    BY <2>2, IntactBefore, RunningStep DEF IInv
  <2> QED BY <2>1, <2>2 DEF IInv
<1> QED BY <1>1, <1>2, PTL DEF Spec

\* Every row, message and counter keeps its type: no status outside the nine of
\* the table's column, no reservation below zero, no job delivered more often
\* than MaxDeliver allows.
THEOREM TypeCorrect == Spec => []TypeOK
<1>1. IInv => TypeOK
  BY DEF IInv
<1> QED BY <1>1, Inductive, PTL

\* What the meter lists has a machine or is being terminated, for any number of
\* instances and of requests that overlap with the worker
\* (instance_usecase.go:55-73, 143-167; provision_usecase.go:259).
THEOREM MeteredBacked == Spec => []MeteredHasMachine
<1>1. IInv => MeteredHasMachine
  BY DEF IInv, MeteredHasMachine, Metered, Live, RunningBacked, Backing, Backed, Intact
<1> QED BY <1>1, Inductive, PTL
-----------------------------------------------------------------------------
(***************************************************************************)
(* The reservations.                                                       *)
(***************************************************************************)

\* The database and NATS answer, and vps-service stays up.
Answering == "db" \notin Faults /\ "nats" \notin Faults /\ Restarts = 0

\* The orders of a set on a node; Claim is the sum of what they ask for.
OnNode(set, n) == {o \in set : inst[o].node = n}

\* Machines belong to orders that were handed to the worker.
MachinesHanded == \A o \in vm : job[o].at # "none"

\* No node has given back what an order under way asked for.
ReservedCovers == \A n \in Nodes : reserved[n] >= Claim(Reserving, n)

\* A job that was published is not forgotten, and no order moves.
JobsStay == \A o \in Orders : job[o].at # "none" => job'[o].at # "none"
NodesStay == \A o \in Reserving : inst'[o].node = inst[o].node

\* What a step does to the reservations and to the orders that count on them.
Unreserved ==
  /\ reserved' = reserved /\ Reserving' \subseteq Reserving
  /\ Answering => Reserving' = Reserving
Reserved(o) ==
  /\ reserved' = Reserve(inst[o].node, RAM[o])
  /\ o \notin Reserving /\ Reserving' = Reserving \cup {o} /\ inst'[o].node = inst[o].node
ReservedLost(o) ==
  /\ reserved' = Reserve(inst[o].node, RAM[o]) /\ Reserving' = Reserving /\ ~Answering
Released(o) ==
  /\ reserved' = Release(inst[o].node, RAM[o])
  /\ o \in Reserving /\ Reserving' = Reserving \ {o}

LEMMA ClaimSums ==
  ASSUME TypeOK, NEW set \in SUBSET Orders, NEW n \in Nodes
  PROVE  /\ Naturals(RAM, OnNode(set, n)) /\ OnNode(set, n) \subseteq Orders
         /\ Claim(set, n) = SumFunctionOnSet(RAM, OnNode(set, n)) /\ Claim(set, n) \in Nat
         /\ \A o \in Orders : RAM[o] \in Nat
<1>1. OnNode(set, n) \subseteq Orders /\ IsFiniteSet(OnNode(set, n))
  BY FS_Subset, VpsAssumption DEF OnNode
<1>2. \A o \in Orders : RAM[o] \in Nat
  BY VpsAssumption
<1>3. Naturals(RAM, OnNode(set, n)) /\ Claim(set, n) = SumFunctionOnSet(RAM, OnNode(set, n))
  BY <1>1, <1>2 DEF Naturals, Claim, OnNode
<1> QED BY <1>1, <1>2, <1>3, SumNat DEF Naturals

\* What is claimed on a node shrinks with the set.
LEMMA ClaimShrinks ==
  ASSUME TypeOK, NEW set \in SUBSET Orders, NEW part \in SUBSET set, NEW n \in Nodes
  PROVE  Claim(part, n) <= Claim(set, n)
<1>1. OnNode(part, n) \subseteq OnNode(set, n)
  BY DEF OnNode
<1>2. part \in SUBSET Orders
  OBVIOUS
<1>3. SumFunctionOnSet(RAM, OnNode(part, n)) <= SumFunctionOnSet(RAM, OnNode(set, n))
  BY <1>1, ClaimSums, SumPart DEF Naturals
<1> QED BY <1>2, <1>3, ClaimSums

\* How what is claimed on a node changes.
LEMMA ClaimMoves ==
  ASSUME TypeOK, NodesStay, NEW n \in Nodes, TypeOK'
  PROVE  /\ Reserving' \subseteq Reserving => Claim(Reserving, n)' <= Claim(Reserving, n)
         /\ Reserving' = Reserving => Claim(Reserving, n)' = Claim(Reserving, n)
         /\ \A o \in Orders :
              /\ o \notin Reserving /\ Reserving' = Reserving \cup {o}
                 /\ inst'[o].node = inst[o].node
                   => Claim(Reserving, n)'
                        = Claim(Reserving, n) + (IF inst[o].node = n THEN RAM[o] ELSE 0)
              /\ o \in Reserving /\ Reserving' = Reserving \ {o}
                   => /\ Claim(Reserving, n)'
                           = Claim(Reserving, n) - (IF inst[o].node = n THEN RAM[o] ELSE 0)
                      /\ inst[o].node = n => RAM[o] <= Claim(Reserving, n)
<1> DEFINE before == OnNode(Reserving, n)
           after == OnNode(Reserving, n)'
<1>1. Reserving \subseteq Orders /\ Reserving' \subseteq Orders
  BY DEF Reserving
<1>2. Claim(Reserving, n)' = SumFunctionOnSet(RAM, after)
  BY DEF Claim, OnNode
<1>3. /\ Naturals(RAM, before) /\ Claim(Reserving, n) = SumFunctionOnSet(RAM, before)
      /\ Claim(Reserving, n) \in Nat /\ \A o \in Orders : RAM[o] \in Nat
  BY <1>1, ClaimSums
<1>4. Agree(RAM, RAM, before) /\ Agree(RAM, RAM, after)
  BY DEF Agree
<1>5. /\ \A o \in Orders : o \in before <=> o \in Reserving /\ inst[o].node = n
      /\ \A o \in Orders : o \in after <=> o \in Reserving' /\ inst'[o].node = n
      /\ before \subseteq Orders /\ after \subseteq Orders
  BY <1>1 DEF OnNode
<1> HIDE DEF before, after
<1>6. ASSUME Reserving' \subseteq Reserving PROVE Claim(Reserving, n)' <= Claim(Reserving, n)
  <2>1. after \subseteq before
    BY <1>1, <1>5, <1>6 DEF NodesStay
  <2> QED BY <1>2, <1>3, <2>1, SumPart DEF Naturals
<1>7. ASSUME Reserving' = Reserving PROVE Claim(Reserving, n)' = Claim(Reserving, n)
  <2>1. after = before
    BY <1>1, <1>5, <1>7 DEF NodesStay
  <2> QED BY <1>2, <1>3, <2>1
<1>8. ASSUME NEW o \in Orders, o \notin Reserving, Reserving' = Reserving \cup {o},
             inst'[o].node = inst[o].node
      PROVE  Claim(Reserving, n)'
               = Claim(Reserving, n) + (IF inst[o].node = n THEN RAM[o] ELSE 0)
  <2>1. CASE inst[o].node = n
    <3>1. o \notin before /\ after = before \cup {o}
      BY <1>1, <1>5, <1>8, <2>1 DEF NodesStay
    <3>2. SumFunctionOnSet(RAM, after) = SumFunctionOnSet(RAM, before) + RAM[o]
      BY <1>3, <1>4, <3>1, SumJoins
    <3> QED BY <1>2, <1>3, <2>1, <3>2
  <2>2. CASE inst[o].node # n
    <3>1. after = before
      BY <1>1, <1>5, <1>8, <2>2 DEF NodesStay
    <3> QED BY <1>2, <1>3, <2>2, <3>1
  <2> QED BY <2>1, <2>2
<1>9. ASSUME NEW o \in Orders, o \in Reserving, Reserving' = Reserving \ {o}
      PROVE  /\ Claim(Reserving, n)'
                  = Claim(Reserving, n) - (IF inst[o].node = n THEN RAM[o] ELSE 0)
             /\ inst[o].node = n => RAM[o] <= Claim(Reserving, n)
  <2>1. CASE inst[o].node = n
    <3>1. o \in before /\ after = before \ {o}
      BY <1>1, <1>5, <1>9, <2>1 DEF NodesStay
    <3>2. SumFunctionOnSet(RAM, after) = SumFunctionOnSet(RAM, before) - RAM[o]
          /\ RAM[o] <= SumFunctionOnSet(RAM, before)
      BY <1>3, <1>4, <3>1, SumLeaves
    <3> QED BY <1>2, <1>3, <2>1, <3>2
  <2>2. CASE inst[o].node # n
    <3>1. after = before
      BY <1>1, <1>5, <1>9, <2>2 DEF NodesStay
    <3> QED BY <1>2, <1>3, <2>2, <3>1
  <2> QED BY <2>1, <2>2
<1> QED BY <1>6, <1>7, <1>8, <1>9

\* A reservation and a release, node by node.
LEMMA ReservedOn ==
  ASSUME TypeOK, NEW o \in Orders, NEW n \in Nodes
  PROVE  /\ reserved[n] \in Nat /\ RAM[o] \in Nat /\ inst[o].node \in Nodes
         /\ Reserve(inst[o].node, RAM[o])[n]
              = reserved[n] + (IF inst[o].node = n THEN RAM[o] ELSE 0)
         /\ inst[o].node = n /\ RAM[o] <= reserved[n]
              => Release(inst[o].node, RAM[o])[n] = reserved[n] - RAM[o]
         /\ inst[o].node # n => Release(inst[o].node, RAM[o])[n] = reserved[n]
<1>1. /\ reserved \in [Nodes -> Nat] /\ reserved[n] \in Nat
      /\ RAM[o] \in Nat /\ inst[o].node \in Nodes
  BY VpsAssumption DEF TypeOK, InstanceRow
<1>2. inst[o].node = n /\ RAM[o] <= reserved[n]
        => Release(inst[o].node, RAM[o])[n] = reserved[n] - RAM[o]
  <2> SUFFICES ASSUME inst[o].node = n, RAM[o] <= reserved[n]
               PROVE  Release(inst[o].node, RAM[o])[n] = reserved[n] - RAM[o]
    OBVIOUS
  <2>1. reserved[n] - RAM[o] \in Nat
    BY <1>1
  <2>2. Max({0, reserved[n] - RAM[o]}) = reserved[n] - RAM[o]
    BY <2>1, MaxZero
  <2> QED BY <1>1, <2>2 DEF Release
<1>3. inst[o].node # n => Release(inst[o].node, RAM[o])[n] = reserved[n]
  BY <1>1 DEF Release
<1>4. Reserve(inst[o].node, RAM[o])[n] = reserved[n] + (IF inst[o].node = n THEN RAM[o] ELSE 0)
  BY <1>1 DEF Reserve
<1> QED BY <1>1, <1>2, <1>3, <1>4

\* Each kind of step keeps the reservations covering, and exact while all
\* answers come.
LEMMA CoverStays ==
  ASSUME TypeOK, TypeOK', NodesStay, ReservedCovers,
         \/ Unreserved
         \/ \E o \in Orders : Reserved(o) \/ ReservedLost(o) \/ Released(o)
  PROVE  /\ ReservedCovers'
         /\ Answering /\ RefusedGiveBack => RefusedGiveBack'
<1> SUFFICES ASSUME NEW n \in Nodes
             PROVE  /\ reserved'[n] >= Claim(Reserving, n)'
                    /\ Answering /\ reserved[n] = Claim(Reserving, n)
                         => reserved'[n] = Claim(Reserving, n)'
  BY DEF ReservedCovers, RefusedGiveBack
<1>1. PICK c \in Nat, k \in Nat :
        c = Claim(Reserving, n) /\ k = reserved[n] /\ k >= c
  <2>1. Reserving \in SUBSET Orders
    BY DEF Reserving
  <2> QED BY <2>1, ClaimSums DEF ReservedCovers, TypeOK
<1>2. PICK d \in Nat : d = Claim(Reserving, n)'
  <2>1. (Reserving \in SUBSET Orders)'
    BY DEF Reserving
  <2>2. SumFunctionOnSet(RAM, OnNode(Reserving, n)') \in Nat
    <3>1. OnNode(Reserving, n)' \subseteq Orders
      BY <2>1 DEF OnNode
    <3>2. IsFiniteSet(OnNode(Reserving, n)') /\ \A o \in OnNode(Reserving, n)' : RAM[o] \in Nat
      BY <3>1, FS_Subset, VpsAssumption
    <3> QED BY <3>2, SumNat
  <2>3. Claim(Reserving, n)' = SumFunctionOnSet(RAM, OnNode(Reserving, n)')
    BY DEF Claim, OnNode
  <2> QED BY <2>2, <2>3
<1>3. CASE Unreserved
  BY <1>1, <1>2, <1>3, ClaimMoves DEF Unreserved
<1>4. ASSUME NEW o \in Orders, Reserved(o) \/ ReservedLost(o) \/ Released(o)
      PROVE  /\ reserved'[n] >= Claim(Reserving, n)'
             /\ Answering /\ reserved[n] = Claim(Reserving, n)
                  => reserved'[n] = Claim(Reserving, n)'
  <2>1. PICK r \in Nat : r = RAM[o]
    BY ReservedOn
  <2>2. CASE Reserved(o)
    <3>1. /\ d = c + (IF inst[o].node = n THEN r ELSE 0)
          /\ reserved'[n] = k + (IF inst[o].node = n THEN r ELSE 0)
      BY <1>1, <1>2, <2>1, <2>2, ClaimMoves, ReservedOn DEF Reserved
    <3> QED BY <1>1, <1>2, <3>1
  <2>3. CASE ReservedLost(o)
    <3>1. d = c /\ reserved'[n] = k + (IF inst[o].node = n THEN r ELSE 0) /\ ~Answering
      BY <1>1, <1>2, <2>1, <2>3, ClaimMoves, ReservedOn DEF ReservedLost
    <3> QED BY <1>1, <1>2, <3>1
  <2>4. CASE Released(o)
    <3>1. /\ d = c - (IF inst[o].node = n THEN r ELSE 0)
          /\ inst[o].node = n => r <= c
      BY <1>1, <1>2, <2>1, <2>4, ClaimMoves DEF Released
    <3>2. reserved'[n] = k - (IF inst[o].node = n THEN r ELSE 0)
      BY <1>1, <2>1, <2>4, <3>1, ReservedOn DEF Released
    <3> QED BY <1>1, <1>2, <3>1, <3>2
  <2> QED BY <1>4, <2>2, <2>3, <2>4
<1> QED BY <1>3, <1>4

Counted == {"reserved", "inserted", "accepted", "failing", "releasing"}

\* CreateVPS reserves once, and releases what it reserved.
LEMMA CreateReserves ==
  ASSUME TypeOK, JobsDue, NEW o \in Orders, Create(o)
  PROVE  /\ NodesStay /\ JobsStay /\ vm' = vm
         /\ Unreserved \/ Reserved(o) \/ ReservedLost(o) \/ Released(o)
<1>1. /\ inst \in [Orders -> InstanceRow] /\ pc \in [Orders -> Phase] /\ job \in [Orders -> [
           at: {"none", "queued", "fetched", "acked", "dropped"}, sent: 0..MaxDeliver]]
  BY DEF TypeOK
<1>2. job[o].at = "none" /\ (o \in Reserving <=> pc[o] \in Counted)
  <2>1. pc[o] # "done"
    BY DEF Create, Lookup, SelectNode, ReserveNode, Insert, Hold, MarkRefused, ReleaseNode, Publish
  <2>2. job[o].at = "none"
    BY <2>1 DEF JobsDue
  <2> QED BY <2>2 DEF Reserving, Counted
<1>3. ASSUME NEW phase, Goto(o, phase), job' = job
      PROVE  /\ JobsStay
             /\ IF phase \in Counted THEN Reserving' = Reserving \cup {o}
                ELSE Reserving' = Reserving \ {o}
  <2>1. \A p \in Orders : pc'[p] = IF p = o THEN phase ELSE pc[p]
    BY <1>1, <1>3 DEF Goto
  <2>2. \A p \in Orders : p \in Reserving' <=> pc'[p] \in Counted \/ job[p].at # "none"
    BY <1>3 DEF Reserving, Counted
  <2>3. \A p \in Orders : p # o => (p \in Reserving' <=> p \in Reserving)
    BY <2>1, <2>2 DEF Reserving, Counted
  <2>4. o \in Reserving' <=> phase \in Counted
    BY <1>2, <2>1, <2>2
  <2>5. Reserving \subseteq Orders /\ Reserving' \subseteq Orders
    BY DEF Reserving
  <2> QED BY <1>3, <2>3, <2>4, <2>5 DEF JobsStay
<1>4. ASSUME NEW s, SetStatus(o, s) PROVE NodesStay /\ reserved' = reserved /\ vm' = vm
  BY <1>1, <1>4 DEF SetStatus, NodesStay, Reserving, InstanceRow
<1>5. ASSUME inst' = inst PROVE NodesStay
  BY <1>5 DEF NodesStay
<1>6. CASE Lookup(o) \/ SelectNode(o)
  <2>1. PICK phase \in {"checked", "selected", "done"} : Goto(o, phase)
    BY <1>6 DEF Lookup, SelectNode
  <2>2. pc[o] \notin Counted /\ job' = job /\ reserved' = reserved /\ vm' = vm
    BY <1>6 DEF Lookup, SelectNode, rows, Counted
  <2>3. Reserving' = Reserving /\ JobsStay
    BY <1>2, <1>3, <2>1, <2>2 DEF Counted
  <2>4. NodesStay
    <3>1. CASE inst' = inst
      BY <1>5, <3>1
    <3>2. ASSUME NEW n, inst' = [inst EXCEPT ![o].node = n] PROVE NodesStay
      BY <1>1, <1>2, <2>2, <3>2 DEF NodesStay, Reserving
    <3> QED BY <1>6, <3>1, <3>2 DEF Lookup, SelectNode, rows
  <2> QED BY <2>2, <2>3, <2>4 DEF Unreserved
<1>7. CASE ReserveNode(o)
  <2>1. /\ pc[o] = "selected" /\ job' = job /\ inst' = inst /\ vm' = vm
        /\ \/ reserved' = Reserve(inst[o].node, RAM[o]) /\ Goto(o, "reserved")
           \/ /\ "db" \in Faults /\ Goto(o, "done")
              /\ reserved' = Reserve(inst[o].node, RAM[o]) \/ reserved' = reserved
    BY <1>7 DEF ReserveNode, Try, rows
  <2>2. o \notin Reserving
    BY <1>2, <2>1 DEF Counted
  <2>3. CASE reserved' = Reserve(inst[o].node, RAM[o]) /\ Goto(o, "reserved")
    <3>1. Reserving' = Reserving \cup {o} /\ JobsStay
      BY <1>3, <2>1, <2>3 DEF Counted
    <3> QED BY <1>5, <2>1, <2>2, <2>3, <3>1 DEF Reserved
  <2>4. CASE /\ "db" \in Faults /\ Goto(o, "done")
             /\ reserved' = Reserve(inst[o].node, RAM[o]) \/ reserved' = reserved
    <3>1. Reserving' = Reserving /\ JobsStay
      BY <1>3, <2>1, <2>2, <2>4 DEF Counted
    <3> QED BY <1>5, <2>1, <2>4, <3>1 DEF ReservedLost, Unreserved, Answering
  <2> QED BY <2>1, <2>3, <2>4
<1>8. CASE Insert(o) \/ Hold(o) \/ MarkRefused(o)
  <2>1. PICK phase \in {"releasing", "inserted", "accepted", "failing"} : Goto(o, phase)
    BY <1>8 DEF Insert, Hold, MarkRefused, Try
  <2>2. pc[o] \in Counted /\ job' = job
    BY <1>8 DEF Insert, Hold, MarkRefused, Counted
  <2>3. Reserving' = Reserving /\ JobsStay
    BY <1>2, <1>3, <2>1, <2>2 DEF Counted
  <2>4. (\E s : SetStatus(o, s)) \/ UNCHANGED rows
    BY <1>8 DEF Insert, Hold, MarkRefused, Try
  <2>5. NodesStay /\ reserved' = reserved /\ vm' = vm
    BY <1>4, <1>5, <2>4 DEF rows
  <2> QED BY <2>3, <2>5 DEF Unreserved
<1>9. CASE ReleaseNode(o)
  <2>1. /\ pc[o] = "releasing" /\ job' = job /\ inst' = inst /\ vm' = vm /\ Goto(o, "done")
        /\ \/ reserved' = Release(inst[o].node, RAM[o])
           \/ "db" \in Faults /\ reserved' = reserved
    BY <1>9 DEF ReleaseNode, Try, rows
  <2>2. o \in Reserving /\ Reserving' = Reserving \ {o} /\ JobsStay
    BY <1>2, <1>3, <2>1 DEF Counted
  <2> QED BY <1>5, <2>1, <2>2 DEF Released, Unreserved, Answering
<1>10. CASE Publish(o)
  <2>1. /\ pc[o] = "accepted" /\ inst' = inst /\ vm' = vm /\ reserved' = reserved /\ Goto(o, "done")
        /\ \/ job' = [job EXCEPT ![o].at = "queued"]
           \/ "nats" \in Faults /\ job' = job
    BY <1>10 DEF Publish, rows
  <2>2. o \in Reserving
    BY <1>2, <2>1 DEF Counted
  <2>3. CASE "nats" \in Faults /\ job' = job
    <3>1. Reserving' = Reserving \ {o} /\ JobsStay
      BY <1>3, <2>1, <2>3 DEF Counted
    <3> QED BY <1>5, <2>1, <2>3, <3>1 DEF Unreserved, Answering
  <2>4. CASE job' = [job EXCEPT ![o].at = "queued"]
    <3>1. /\ \A p \in Orders : p # o => job'[p] = job[p] /\ pc'[p] = pc[p]
          /\ job'[o].at = "queued"
      BY <1>1, <2>1, <2>4 DEF Goto
    <3>2. \A p \in Orders : p \in Reserving' <=> p \in Reserving
      BY <2>2, <3>1 DEF Reserving
    <3>3. Reserving' = Reserving
      BY <3>2 DEF Reserving
    <3>4. JobsStay
      BY <3>1 DEF JobsStay
    <3> QED BY <1>5, <2>1, <3>3, <3>4 DEF Unreserved
  <2> QED BY <2>1, <2>3, <2>4
<1> QED BY <1>6, <1>7, <1>8, <1>9, <1>10 DEF Create

\* A release of nothing releases nothing.
LEMMA RefundNothing ==
  ASSUME TypeOK, NEW o \in Orders
  PROVE  Release(inst[o].node, Refund(o)) = reserved
<1>1. reserved \in [Nodes -> Nat] /\ inst[o].node \in Nodes
  BY DEF TypeOK, InstanceRow
<1>2. reserved[inst[o].node] - 0 = reserved[inst[o].node] /\ reserved[inst[o].node] \in Nat
  BY <1>1
<1>3. Max({0, reserved[inst[o].node] - 0}) = reserved[inst[o].node]
  BY <1>2, MaxZero
<1> QED BY <1>1, <1>3 DEF Release, Refund

\* Steps that reserve and release nothing, move no order and are not those of
\* CreateVPS.
Still ==
  reserved' = reserved /\ pc' = pc /\ \A p \in Orders : inst'[p].node = inst[p].node

LEMMA UnreservedSteps ==
  ASSUME TypeOK, Still, \A p \in Orders : job'[p].at = "none" <=> job[p].at = "none"
  PROVE  NodesStay /\ JobsStay /\ Unreserved
<1>1. Reserving' = Reserving
  BY DEF Reserving, Still
<1> QED BY <1>1 DEF NodesStay, JobsStay, Unreserved, Reserving, Still

\* The worker makes machines of orders that were handed to it.
LEMMA ProvisionReserves ==
  ASSUME TypeOK, JobsDue, NEW o \in Orders,
         \/ Fetch(o) \/ Load(o) \/ MarkProvisioning(o) \/ CreateVM(o) \/ StartVM(o) \/ Boot(o)
         \/ Activate(o) \/ Ack(o) \/ MarkFailed(o) \/ ReleaseFailed(o)
  PROVE  /\ Still /\ NodesStay /\ JobsStay /\ Unreserved
         /\ vm' = vm \/ (vm' = vm \cup {o} /\ job[o].at # "none")
<1>1. /\ inst \in [Orders -> InstanceRow] /\ job \in [Orders -> [
           at: {"none", "queued", "fetched", "acked", "dropped"}, sent: 0..MaxDeliver]]
  BY DEF TypeOK
<1>2. pc' = pc
  BY Zenon DEF Fetch, Load, MarkProvisioning, CreateVM, StartVM, Boot, Activate, Ack, MarkFailed,
     ReleaseFailed
<1>3. job[o].at # "none"
  <2>1. CASE Fetch(o) \/ Load(o)
    BY <2>1 DEF Fetch, Load, Fetched
  <2>2. CASE ~Fetch(o) /\ ~Load(o)
    <3>1. \E stage \in Stage : worker = [at |-> stage, on |-> o]
      BY <2>2 DEF MarkProvisioning, CreateVM, StartVM, Boot, Activate, Ack, MarkFailed,
         ReleaseFailed, Working, Stage
    <3> QED BY <3>1 DEF JobsDue, Stage
  <2> QED BY <2>1, <2>2
<1>4. \A p \in Orders : job'[p].at = "none" <=> job[p].at = "none"
  <2>1. CASE job' = job
    BY <2>1
  <2>2. CASE job' = [job EXCEPT ![o] = Undelivered(@)]
    <3>1. Undelivered(job[o]).at # "none"
      BY <1>1 DEF Undelivered
    <3>2. \A p \in Orders : job'[p] = IF p = o THEN Undelivered(job[o]) ELSE job[p]
      BY <1>1, <2>2
    <3> QED BY <1>3, <3>1, <3>2
  <2>3. CASE Fetch(o)
    BY <1>1, <1>3, <2>3 DEF Fetch
  <2>4. CASE job' = [job EXCEPT ![o].at = "acked"]
    BY <1>1, <1>3, <2>4
  <2> QED
    BY <2>1, <2>2, <2>3, <2>4 DEF Load, MarkProvisioning, CreateVM, StartVM, Boot, Activate, Ack,
       MarkFailed, ReleaseFailed, Nak
<1>5. \A p \in Orders : inst'[p].node = inst[p].node
  <2>1. CASE inst' = inst
    BY <2>1
  <2>2. ASSUME NEW s, SetStatus(o, s) PROVE \A p \in Orders : inst'[p].node = inst[p].node
    BY <1>1, <2>2 DEF SetStatus, InstanceRow
  <2>3. ASSUME Activate(o) PROVE \A p \in Orders : inst'[p].node = inst[p].node
    <3>1. \/ inst' = inst
          \/ inst' = [inst EXCEPT ![o].status = "running", ![o].started = now, ![o].billed = now]
      BY <2>3 DEF Activate, Try, rows
    <3> QED BY <1>1, <3>1 DEF InstanceRow
  <2>4. inst' = inst \/ (\E s : SetStatus(o, s)) \/ Activate(o)
    BY DEF Fetch, Load, MarkProvisioning, CreateVM, StartVM, Boot, Ack, MarkFailed,
       ReleaseFailed, Try, rows
  <2> QED BY <2>1, <2>2, <2>3, <2>4
<1>6. reserved' = reserved
  <2>1. CASE ReleaseFailed(o)
    BY <2>1, RefundNothing DEF ReleaseFailed, Try, rows
  <2>2. CASE ~ReleaseFailed(o)
    BY <2>2 DEF Fetch, Load, MarkProvisioning, CreateVM, StartVM, Boot, Activate, Ack,
       MarkFailed, Try, SetStatus, rows
  <2> QED BY <2>1, <2>2
<1>7. vm' = vm \/ vm' = vm \cup {o}
  BY DEF Fetch, Load, MarkProvisioning, CreateVM, StartVM, Boot, Activate, Ack, MarkFailed,
     ReleaseFailed, Try, SetStatus, rows
<1>8. Still
  BY <1>2, <1>5, <1>6 DEF Still
<1> QED BY <1>3, <1>4, <1>7, <1>8, UnreservedSteps

\* Requests, the meter and the clock reserve nothing and make no machine.
LEMMA OthersReserve ==
  ASSUME TypeOK, (\E c \in Calls : Read(c) \/ Serve(c)) \/ Meter \/ Tick \/ UNCHANGED vars
  PROVE  Still /\ NodesStay /\ JobsStay /\ Unreserved /\ vm' \subseteq vm
<1>1. /\ inst \in [Orders -> InstanceRow] /\ \A c \in Calls : call[c].on \in Orders
  BY DEF TypeOK
<1>2. ASSUME reserved' = reserved, pc' = pc, job' = job, vm' \subseteq vm,
             \A p \in Orders : inst'[p].node = inst[p].node
      PROVE  Still /\ NodesStay /\ JobsStay /\ Unreserved /\ vm' \subseteq vm
  BY <1>2, UnreservedSteps DEF Still
<1>3. ASSUME NEW c \in Calls, Read(c) \/ Serve(c)
      PROVE  Still /\ NodesStay /\ JobsStay /\ Unreserved /\ vm' \subseteq vm
  <2>1. pc' = pc /\ job' = job
    BY <1>3, Zenon DEF Read, Serve, ReadAgain, Command, WriteStatus, SoftDelete
  <2>2. vm' \subseteq vm /\ reserved' = reserved
    BY <1>3 DEF Read, Serve, ReadAgain, Command, WriteStatus, SoftDelete, Try, SetStatus, rows
  <2>3. \A p \in Orders : inst'[p].node = inst[p].node
    <3>1. CASE inst' = inst
      BY <3>1
    <3>2. ASSUME NEW s, SetStatus(call[c].on, s)
          PROVE  \A p \in Orders : inst'[p].node = inst[p].node
      BY <1>1, <3>2 DEF SetStatus, InstanceRow
    <3>3. CASE inst' = [inst EXCEPT ![call[c].on].ended = now]
      BY <1>1, <3>3 DEF InstanceRow
    <3>4. \/ inst' = inst \/ (\E s : SetStatus(call[c].on, s))
          \/ inst' = [inst EXCEPT ![call[c].on].ended = now]
      BY <1>3 DEF Read, Serve, ReadAgain, Command, WriteStatus, SoftDelete, Try, rows
    <3> QED BY <3>1, <3>2, <3>3, <3>4
  <2> QED BY <1>2, <2>1, <2>2, <2>3
<1>4. CASE Meter \/ Tick \/ UNCHANGED vars
  <2>1. pc' = pc /\ job' = job
    BY <1>4, Zenon DEF Meter, ListRunning, SkipUsage, ReportUsage, StampBilled, Tick, vars
  <2>2. vm' \subseteq vm /\ reserved' = reserved
    BY <1>4 DEF Meter, ListRunning, SkipUsage, ReportUsage, StampBilled, Try, Tick, rows, vars
  <2>3. \A p \in Orders : inst'[p].node = inst[p].node
    <3>1. CASE inst' = inst
      BY <3>1
    <3>2. ASSUME NEW o \in Orders, inst' = [inst EXCEPT ![o].billed = round.now]
          PROVE  \A p \in Orders : inst'[p].node = inst[p].node
      BY <1>1, <3>2 DEF InstanceRow
    <3>3. inst' = inst \/ \E o \in Orders : inst' = [inst EXCEPT ![o].billed = round.now]
      BY <1>4 DEF Meter, ListRunning, SkipUsage, ReportUsage, StampBilled, Try, Tick, rows, vars
    <3> QED BY <3>1, <3>2, <3>3
  <2> QED BY <1>2, <2>1, <2>2, <2>3
<1> QED BY <1>3, <1>4

\* A restart forgets requests with their reservations, and no job.
LEMMA RestartReserves ==
  ASSUME TypeOK, JobsDue, Restart
  PROVE  NodesStay /\ JobsStay /\ Unreserved /\ vm' = vm
<1>1. reserved' = reserved /\ inst' = inst /\ vm' = vm
  BY DEF Restart, rows
<1>2. \A p \in Orders : job'[p].at = "none" <=> job[p].at = "none"
  <2>1. \A p \in Orders : job'[p] = IF p \in Fetched THEN Undelivered(job[p]) ELSE job[p]
    BY DEF Restart
  <2>2. \A p \in Orders : Undelivered(job[p]).at # "none"
    BY DEF Undelivered, TypeOK
  <2> QED BY <2>1, <2>2 DEF Fetched
<1>3. \A p \in Orders : pc'[p] \in {"arrived", "done"}
  BY DEF Restart
<1>4. Reserving' \subseteq Reserving
  BY <1>2, <1>3 DEF Reserving
<1>5. ~Answering
  BY VpsAssumption DEF Restart, Answering, TypeOK
<1> QED BY <1>1, <1>2, <1>4, <1>5 DEF NodesStay, JobsStay, Unreserved

ReserveInv == MachinesHanded /\ ReservedCovers

\* Every step keeps the machines covered, and the reservations exact while all
\* answers come.
LEMMA ReserveStep ==
  ASSUME IInv, IInv', ReserveInv, [Next]_vars
  PROVE  ReserveInv' /\ (Answering /\ RefusedGiveBack => RefusedGiveBack')
<1>1. TypeOK /\ TypeOK' /\ JobsDue
  BY DEF IInv
<1>2. /\ NodesStay /\ JobsStay
      /\ Unreserved \/ (\E o \in Orders : Reserved(o) \/ ReservedLost(o) \/ Released(o))
      /\ \A p \in vm' : p \in vm \/ (p \in Orders /\ job[p].at # "none")
  <2>1. ASSUME NEW o \in Orders, Create(o) PROVE
          /\ NodesStay /\ JobsStay
          /\ Unreserved \/ (\E p \in Orders : Reserved(p) \/ ReservedLost(p) \/ Released(p))
          /\ \A p \in vm' : p \in vm
    BY <1>1, <2>1, CreateReserves
  <2>2. CASE Provision
    BY <1>1, <2>2, ProvisionReserves DEF Provision
  <2>3. CASE (\E c \in Calls : Read(c) \/ Serve(c)) \/ Meter \/ Tick \/ UNCHANGED vars
    BY <1>1, <2>3, OthersReserve
  <2>4. CASE Restart
    BY <1>1, <2>4, RestartReserves
  <2> QED BY <2>1, <2>2, <2>3, <2>4 DEF Next
<1>3. MachinesHanded'
  BY <1>1, <1>2 DEF ReserveInv, MachinesHanded, JobsStay, TypeOK
<1>4. ReservedCovers' /\ (Answering /\ RefusedGiveBack => RefusedGiveBack')
  BY <1>1, <1>2, CoverStays DEF ReserveInv
<1> QED BY <1>3, <1>4 DEF ReserveInv

\* At the start nothing is reserved and nothing counts on it.
LEMMA ReserveInitially == Init => ReserveInv /\ RefusedGiveBack
<1> SUFFICES ASSUME Init PROVE ReserveInv /\ RefusedGiveBack
  OBVIOUS
<1>1. Reserving = {} /\ vm = {} /\ \A n \in Nodes : reserved[n] = 0
  BY DEF Init, Reserving
<1>2. ASSUME NEW n \in Nodes PROVE Claim(Reserving, n) = 0
  <2>1. {o \in Reserving : inst[o].node = n} = {}
    BY <1>1
  <2> QED BY <2>1, SumEmpty DEF Claim
<1> QED BY <1>1, <1>2 DEF ReserveInv, MachinesHanded, ReservedCovers, RefusedGiveBack

LEMMA ReserveInvariant == Spec => []ReserveInv
<1>1. Init => ReserveInv
  BY ReserveInitially
<1>2. IInv /\ IInv' /\ ReserveInv /\ [Next]_vars => ReserveInv'
  BY ReserveStep
<1> QED BY <1>1, <1>2, Inductive, PTL DEF Spec

\* The machines on a node were all reserved there, whatever fails, whenever
\* vps-service restarts and however often a job is delivered
\* (provision_usecase.go:141-192, 289-301).
THEOREM MachinesAreCovered == Spec => []ReservationsCoverMachines
<1>1. ASSUME IInv, ReserveInv, NEW n \in Nodes PROVE reserved[n] >= Claim(vm, n)
  <2>1. vm \in SUBSET Reserving /\ Reserving \in SUBSET Orders
    BY <1>1 DEF IInv, TypeOK, ReserveInv, MachinesHanded, Reserving
  <2>2. TypeOK /\ vm \in SUBSET Orders
    BY <1>1 DEF IInv, TypeOK
  <2>3. /\ Claim(vm, n) <= Claim(Reserving, n)
        /\ Claim(vm, n) \in Nat /\ Claim(Reserving, n) \in Nat
    BY <2>1, <2>2, ClaimShrinks, ClaimSums
  <2>4. reserved[n] >= Claim(Reserving, n) /\ reserved[n] \in Nat
    BY <1>1, <2>2 DEF ReserveInv, ReservedCovers, TypeOK
  <2> QED BY <2>3, <2>4
<1>2. IInv /\ ReserveInv => ReservationsCoverMachines
  BY <1>1 DEF ReservationsCoverMachines
<1> QED BY <1>2, Inductive, ReserveInvariant, PTL

\* While the database and NATS answer and vps-service stays up, a node has
\* reserved what the orders under way and those handed to the worker ask for,
\* and no more: every refused request gives back its own reservation
\* (provision_usecase.go:141-192).
THEOREM RefusedAlwaysGiveBack == ASSUME Answering PROVE Spec => []RefusedGiveBack
<1>1. Init => RefusedGiveBack
  BY ReserveInitially
<1>2. IInv /\ IInv' /\ ReserveInv /\ RefusedGiveBack /\ [Next]_vars => RefusedGiveBack'
  BY ReserveStep
<1> QED BY <1>1, <1>2, Inductive, ReserveInvariant, PTL DEF Spec
-----------------------------------------------------------------------------
(***************************************************************************)
(* The capacity of nodes.                                                  *)
(***************************************************************************)

\* No two requests are between the choice of a node and its reservation at the
\* same time, for the same node.
OneSelection ==
  \A o, p \in Orders :
    pc[o] = "selected" /\ pc[p] = "selected" /\ inst[o].node = inst[p].node => o = p

\* Reservations stay within the nodes, also when the order that selected a node
\* reserves it.
WithinNodes == \A n \in Nodes : reserved[n] <= Total[n]
RoomLeft ==
  \A o \in Orders : pc[o] = "selected" =>
    reserved[inst[o].node] + RAM[o] <= Total[inst[o].node]
CapacityInv == WithinNodes /\ RoomLeft

\* The margin of selectNode is not less than the plan (provision_usecase.go:342).
LEMMA HeadroomCovers == ASSUME NEW o \in Orders PROVE RAM[o] <= Headroom(o)
<1>1. RAM[o] \in Nat
  BY VpsAssumption
<1>2. \A x \in Nat : x <= (x * 12) \div 10
  OBVIOUS
<1> QED BY <1>1, <1>2 DEF Headroom

\* A release takes nothing.
LEMMA ReleaseShrinks ==
  ASSUME TypeOK, NEW o \in Orders, NEW n \in Nodes
  PROVE  Release(inst[o].node, RAM[o])[n] <= reserved[n]
<1>1. /\ reserved \in [Nodes -> Nat] /\ reserved[n] \in Nat
      /\ RAM[o] \in Nat /\ inst[o].node \in Nodes
  BY VpsAssumption DEF TypeOK, InstanceRow
<1>2. CASE inst[o].node = n
  <2>1. PICK d \in Int : d = reserved[n] - RAM[o]
    BY <1>1
  <2>2. \E m \in {0, d} : \A y \in {0, d} : m >= y
    OBVIOUS
  <2>3. Max({0, d}) \in {0, d}
    BY <2>2 DEF Max
  <2>4. Release(inst[o].node, RAM[o])[n] = Max({0, d})
    BY <1>1, <1>2, <2>1 DEF Release
  <2> QED BY <1>1, <2>1, <2>3, <2>4
<1>3. CASE inst[o].node # n
  BY <1>1, <1>3, ReservedOn
<1> QED BY <1>2, <1>3

\* A step that reserves nothing, moves no order and selects no node.
Frees ==
  /\ \A n \in Nodes : reserved'[n] <= reserved[n]
  /\ \A o \in Orders : pc'[o] = "selected" =>
       pc[o] = "selected" /\ inst'[o].node = inst[o].node

LEMMA FreesKeeps == ASSUME TypeOK, TypeOK', CapacityInv, Frees PROVE CapacityInv'
<1>1. /\ \A n \in Nodes : reserved[n] \in Nat /\ reserved'[n] \in Nat /\ Total[n] \in Nat
      /\ \A o \in Orders : RAM[o] \in Nat /\ inst[o].node \in Nodes
  BY VpsAssumption DEF TypeOK, InstanceRow
<1>2. WithinNodes'
  BY <1>1 DEF CapacityInv, WithinNodes, Frees
<1>3. ASSUME NEW o \in Orders, pc'[o] = "selected"
      PROVE  reserved'[inst'[o].node] + RAM[o] <= Total[inst'[o].node]
  <2>1. /\ inst'[o].node = inst[o].node
        /\ reserved[inst[o].node] + RAM[o] <= Total[inst[o].node]
        /\ reserved'[inst[o].node] <= reserved[inst[o].node]
    BY <1>1, <1>3 DEF CapacityInv, RoomLeft, Frees
  <2> QED BY <1>1, <2>1
<1> QED BY <1>2, <1>3 DEF CapacityInv, RoomLeft

\* All of CreateVPS after the reservation frees, and so does its lookup.
LEMMA CreateFrees ==
  ASSUME TypeOK, NEW o \in Orders,
         Lookup(o) \/ Insert(o) \/ Hold(o) \/ MarkRefused(o) \/ ReleaseNode(o) \/ Publish(o)
  PROVE  Frees
<1>1. /\ reserved \in [Nodes -> Nat] /\ inst \in [Orders -> InstanceRow]
      /\ pc \in [Orders -> Phase]
  BY DEF TypeOK
<1>2. /\ \A p \in Orders \ {o} : pc'[p] = pc[p]
      /\ pc'[o] # "selected"
  BY <1>1 DEF Lookup, Insert, Hold, MarkRefused, ReleaseNode, Publish, Try, Goto
<1>3. \A p \in Orders \ {o} : inst'[p] = inst[p]
  BY <1>1 DEF Lookup, Insert, Hold, MarkRefused, ReleaseNode, Publish, Try, SetStatus, rows
<1>4. \A n \in Nodes : reserved'[n] <= reserved[n]
  <2>1. CASE ReleaseNode(o)
    <3>1. reserved' = Release(inst[o].node, RAM[o]) \/ reserved' = reserved
      BY <2>1 DEF ReleaseNode, Try, rows
    <3> QED BY <1>1, <3>1, ReleaseShrinks
  <2>2. CASE ~ReleaseNode(o)
    <3>1. reserved' = reserved
      BY <2>2 DEF Lookup, Insert, Hold, MarkRefused, Publish, Try, SetStatus, rows
    <3> QED BY <1>1, <3>1
  <2> QED BY <2>1, <2>2
<1> QED BY <1>2, <1>3, <1>4 DEF Frees

\* The worker, requests on instances, the meter and restarts reserve nothing
\* and move no order.
LEMMA OthersFree ==
  ASSUME TypeOK, JobsDue, Provision \/ (\E c \in Calls : Read(c) \/ Serve(c)) \/ Meter \/ Tick
                          \/ Restart \/ UNCHANGED vars
  PROVE  Frees
<1>1. reserved \in [Nodes -> Nat]
  BY DEF TypeOK
<1>2. CASE Restart
  <2>1. reserved' = reserved /\ \A o \in Orders : pc'[o] \in {"arrived", "done"}
    BY <1>2 DEF Restart, rows
  <2> QED BY <1>1, <2>1 DEF Frees
<1>3. CASE Provision
  <2>1. Still
    BY <1>3, ProvisionReserves DEF Provision
  <2> QED BY <1>1, <2>1 DEF Still, Frees
<1>4. CASE (\E c \in Calls : Read(c) \/ Serve(c)) \/ Meter \/ Tick \/ UNCHANGED vars
  <2>1. Still
    BY <1>4, OthersReserve
  <2> QED BY <1>1, <2>1 DEF Still, Frees
<1> QED BY <1>2, <1>3, <1>4

\* The node is chosen with room for the order, and what was there for it is
\* there when it reserves: nobody else selected the node meanwhile.
LEMMA CapacityStep ==
  ASSUME TypeOK, TypeOK', JobsDue, OneSelection, CapacityInv, [Next]_vars
  PROVE  CapacityInv'
<1>1. /\ reserved \in [Nodes -> Nat] /\ inst \in [Orders -> InstanceRow]
      /\ pc \in [Orders -> Phase]
      /\ \A n \in Nodes : reserved[n] \in Nat /\ Total[n] \in Nat
      /\ \A o \in Orders : RAM[o] \in Nat /\ inst[o].node \in Nodes
  BY VpsAssumption DEF TypeOK, InstanceRow
<1>2. ASSUME NEW o \in Orders, SelectNode(o) PROVE CapacityInv'
  <2>1. /\ reserved' = reserved
        /\ \A p \in Orders \ {o} : inst'[p] = inst[p] /\ pc'[p] = pc[p]
        /\ pc'[o] = "selected" => \E n \in Fitting(o) : inst'[o].node = n
    BY <1>1, <1>2 DEF SelectNode, Goto, InstanceRow
  <2>2. ASSUME NEW n \in Fitting(o) PROVE reserved[n] + RAM[o] <= Total[n]
    <3>1. n \in Nodes /\ Total[n] - reserved[n] >= Headroom(o)
      BY <2>2 DEF Fitting, Available
    <3>2. RAM[o] <= Headroom(o) /\ Headroom(o) \in Int
      BY <1>1, HeadroomCovers DEF Headroom
    <3> QED BY <1>1, <3>1, <3>2
  <2>3. WithinNodes' /\ RoomLeft'
    BY <2>1, <2>2 DEF CapacityInv, WithinNodes, RoomLeft
  <2> QED BY <2>3 DEF CapacityInv
<1>3. ASSUME NEW o \in Orders, ReserveNode(o) PROVE CapacityInv'
  <2> DEFINE n == inst[o].node
  <2>1. /\ pc[o] = "selected" /\ inst' = inst
        /\ reserved' = Reserve(n, RAM[o]) \/ reserved' = reserved
        /\ \A p \in Orders \ {o} : pc'[p] = pc[p]
        /\ pc'[o] # "selected"
    BY <1>1, <1>3 DEF ReserveNode, Try, Goto, rows
  <2>2. n \in Nodes /\ reserved[n] + RAM[o] <= Total[n]
    BY <1>1, <2>1 DEF CapacityInv, RoomLeft
  <2>3. /\ reserved'[n] \in {reserved[n], reserved[n] + RAM[o]}
        /\ \A m \in Nodes \ {n} : reserved'[m] = reserved[m]
    BY <1>1, <2>1, <2>2 DEF Reserve
  <2>4. \A p \in Orders \ {o} : pc[p] = "selected" => inst[p].node # n
    BY <2>1 DEF OneSelection
  <2>5. reserved'[n] <= Total[n]
    BY <1>1, <2>2, <2>3
  <2>6. WithinNodes'
    BY <2>3, <2>5 DEF CapacityInv, WithinNodes
  <2>7. RoomLeft'
    BY <1>1, <2>1, <2>3, <2>4 DEF CapacityInv, RoomLeft
  <2> QED BY <2>6, <2>7 DEF CapacityInv
<1>4. ASSUME NEW o \in Orders, Create(o), ~SelectNode(o), ~ReserveNode(o) PROVE CapacityInv'
  BY <1>4, CreateFrees, FreesKeeps DEF Create
<1>5. CASE Provision \/ (\E c \in Calls : Read(c) \/ Serve(c)) \/ Meter \/ Tick \/ Restart
           \/ UNCHANGED vars
  BY <1>5, OthersFree, FreesKeeps
<1> QED BY <1>2, <1>3, <1>4, <1>5 DEF Next

\* The reservations do what docs/06-VPS-SERVICE.md:18 says of them as long as
\* no request chooses a node that another one has chosen and not reserved yet:
\* no node runs machines that ask for more than it has, whatever fails.
THEOREM NeverOvercommittedInTurn == Spec /\ []OneSelection => []NodesNotOvercommitted
<1>1. Init => CapacityInv
  BY VpsAssumption DEF Init, CapacityInv, WithinNodes, RoomLeft
<1>2. IInv /\ IInv' /\ OneSelection /\ CapacityInv /\ [Next]_vars => CapacityInv'
  BY CapacityStep DEF IInv
<1>3. IInv /\ ReservationsCoverMachines /\ CapacityInv => NodesNotOvercommitted
  <2>1. ASSUME IInv, ReservationsCoverMachines, CapacityInv, NEW n \in Nodes
        PROVE  Claim(vm, n) <= Total[n]
    <3>1. TypeOK /\ vm \in SUBSET Orders
      BY <2>1 DEF IInv, TypeOK
    <3>2. Claim(vm, n) \in Nat
      BY <3>1, ClaimSums
    <3>3. reserved[n] \in Nat /\ Total[n] \in Nat
      BY <3>1, VpsAssumption DEF TypeOK
    <3>4. Claim(vm, n) <= reserved[n] /\ reserved[n] <= Total[n]
      BY <2>1 DEF ReservationsCoverMachines, CapacityInv, WithinNodes
    <3> QED BY <3>2, <3>3, <3>4
  <2> QED BY <2>1 DEF NodesNotOvercommitted
<1> QED BY <1>1, <1>2, <1>3, Inductive, MachinesAreCovered, PTL DEF Spec
-----------------------------------------------------------------------------
(***************************************************************************)
(* The hours reported.                                                     *)
(***************************************************************************)

\* The clock is ahead of every time that is stored, and a row that has been
\* activated has a time of its last bill.
TimesPast ==
  /\ round.now <= now
  /\ \A o \in Orders : /\ inst[o].billed <= now /\ inst[o].started <= now
                       /\ inst[o].started # NoTime => inst[o].billed # NoTime
                       /\ round.seen[o] <= now

\* What a round is about to report reaches back to what was reported, or the
\* instance was activated after the round began.
RoundReports ==
  \A o \in round.left : inst[o].started # NoTime =>
    IF round.seen[o] = NoTime THEN round.now <= inst[o].started
    ELSE reported[o] >= round.seen[o] - inst[o].started

\* What a round has reported, and is about to store.
RoundReported ==
  \A o \in round.stamp : inst[o].started # NoTime =>
    reported[o] >= round.now - inst[o].started

\* A round lists instances before their termination.
RoundLive == \A o \in round.left : inst[o].ended # NoTime => round.now <= inst[o].ended

\* And they are rows of the table, which no statement deletes.
RoundPlaced == \A o \in round.left : Placed(o)

UsageInv ==
  /\ UsageCovered /\ TimesPast /\ RoundReports /\ RoundReported /\ RoundLive /\ RoundPlaced

\* The times of a row stay.
SameTimes(o) ==
  /\ inst'[o].started = inst[o].started /\ inst'[o].billed = inst[o].billed
  /\ inst'[o].ended = inst[o].ended /\ reported'[o] = reported[o]

\* Most steps change neither a time nor the round.
LEMMA TimesStay ==
  ASSUME TypeOK, UsageInv, round' = round, now' \in Nat, now' >= now,
         \A o \in Orders : SameTimes(o) /\ (Placed(o) => Placed(o)')
  PROVE  UsageInv'
<1>1. /\ round.left \subseteq Orders /\ round.stamp \subseteq Orders /\ round.now \in Nat
      /\ round.seen \in [Orders -> Date] /\ now \in Nat
      /\ \A o \in Orders : /\ inst[o].billed \in Date /\ inst[o].started \in Date
                           /\ inst[o].ended \in Date /\ reported[o] \in Nat
  BY DEF TypeOK, InstanceRow
<1>2. UsageCovered'
  BY DEF UsageInv, UsageCovered, SameTimes, NoTime
<1>3. TimesPast'
  <2>1. round'.now <= now'
    BY <1>1 DEF UsageInv, TimesPast
  <2>2. ASSUME NEW o \in Orders
        PROVE  /\ inst'[o].billed <= now' /\ inst'[o].started <= now' /\ round'.seen[o] <= now'
               /\ inst'[o].started # NoTime => inst'[o].billed # NoTime
    BY <1>1 DEF UsageInv, TimesPast, SameTimes, Date, NoTime
  <2> QED BY <2>1, <2>2 DEF TimesPast, NoTime
<1>4. RoundReports'
  BY <1>1 DEF UsageInv, RoundReports, SameTimes, NoTime
<1>5. RoundReported'
  BY <1>1 DEF UsageInv, RoundReported, SameTimes, NoTime
<1>6. RoundLive'
  BY <1>1 DEF UsageInv, RoundLive, SameTimes, NoTime
<1>7. RoundPlaced'
  BY <1>1 DEF UsageInv, RoundPlaced
<1> QED BY <1>2, <1>3, <1>4, <1>5, <1>6, <1>7 DEF UsageInv

\* Status updates and node choices keep the times.
LEMMA StatusKeepsTimes ==
  ASSUME TypeOK, NEW o \in Orders, reported' = reported,
         \/ inst' = inst
         \/ \E s \in Status \ {"none"} : inst' = [inst EXCEPT ![o].status = s]
         \/ \E n \in Nodes : inst' = [inst EXCEPT ![o].node = n]
  PROVE  \A p \in Orders : SameTimes(p) /\ (Placed(p) => Placed(p)')
<1>1. inst \in [Orders -> InstanceRow]
  BY DEF TypeOK
<1>2. CASE inst' = inst
  BY <1>2 DEF SameTimes, Placed
<1>3. ASSUME NEW s \in Status \ {"none"}, inst' = [inst EXCEPT ![o].status = s]
      PROVE  \A p \in Orders : SameTimes(p) /\ (Placed(p) => Placed(p)')
  BY <1>1, <1>3 DEF SameTimes, Placed, InstanceRow
<1>4. ASSUME NEW n \in Nodes, inst' = [inst EXCEPT ![o].node = n]
      PROVE  \A p \in Orders : SameTimes(p) /\ (Placed(p) => Placed(p)')
  BY <1>1, <1>4 DEF SameTimes, Placed, InstanceRow
<1> QED BY <1>2, <1>3, <1>4

\* An activation starts the count of an instance anew.
LEMMA ActivateUsage ==
  ASSUME TypeOK, UsageInv, NEW o \in Orders, Activate(o)
  PROVE  UsageInv'
<1>1. round' = round /\ now' = now
  BY DEF Activate
<1>2. CASE inst' = inst /\ reported' = reported
  BY <1>1, <1>2, StatusKeepsTimes, TimesStay DEF TypeOK
<1>3. CASE /\ inst' = [inst EXCEPT ![o].status = "running", ![o].started = now, ![o].billed = now]
           /\ reported' = [reported EXCEPT ![o] = 0]
  <2> DEFINE new == [inst[o] EXCEPT !.status = "running", !.started = now, !.billed = now]
  <2>1. /\ round.left \subseteq Orders /\ round.stamp \subseteq Orders /\ round.now \in Nat
        /\ round.seen \in [Orders -> Date] /\ now \in Nat
  BY DEF TypeOK
  <2>2. /\ new.status = "running" /\ new.started = now /\ new.billed = now
        /\ new.ended = inst[o].ended
    BY DEF TypeOK, InstanceRow
  <2>3. inst' = [inst EXCEPT ![o] = new]
    BY <1>3 DEF TypeOK
  <2> HIDE DEF new
  <2>4. /\ \A p \in Orders : inst'[p] = IF p = o THEN new ELSE inst[p]
        /\ \A p \in Orders : reported'[p] = IF p = o THEN 0 ELSE reported[p]
    BY <1>3, <2>3 DEF TypeOK
  <2>5. UsageCovered'
    <3> SUFFICES ASSUME NEW p \in Orders, inst'[p].started # NoTime
                 PROVE  reported'[p] >= inst'[p].billed - inst'[p].started
      BY DEF UsageCovered, NoTime
    <3>1. CASE p = o
      BY <2>1, <2>2, <2>4, <3>1
    <3>2. CASE p # o
      BY <2>4, <3>2 DEF UsageInv, UsageCovered
    <3> QED BY <3>1, <3>2
  <2>6. TimesPast'
    <3>1. /\ round.now <= now
          /\ \A p \in Orders : /\ inst[p].billed <= now /\ inst[p].started <= now
                               /\ inst[p].started # NoTime => inst[p].billed # NoTime
                               /\ round.seen[p] <= now
      BY DEF UsageInv, TimesPast
    <3>2. now <= now /\ now # NoTime
      BY <2>1 DEF NoTime
    <3>3. \A p \in Orders : /\ inst'[p].billed <= now /\ inst'[p].started <= now
                            /\ inst'[p].started # NoTime => inst'[p].billed # NoTime
      BY <2>2, <2>4, <3>1, <3>2
    <3> QED BY <1>1, <3>1, <3>3 DEF TimesPast, NoTime
  <2>7. RoundReports'
    <3> SUFFICES ASSUME NEW p \in round.left, inst'[p].started # NoTime
                 PROVE  IF round.seen[p] = NoTime THEN round.now <= inst'[p].started
                        ELSE reported'[p] >= round.seen[p] - inst'[p].started
      BY <1>1 DEF RoundReports, NoTime
    <3>1. CASE p = o
      <4>1. inst'[p].started = now /\ reported'[p] = 0
        BY <2>1, <2>2, <2>4, <3>1
      <4>2. round.now <= now /\ round.seen[p] <= now /\ round.seen[p] \in Int
        BY <2>1 DEF UsageInv, TimesPast, Date, NoTime
      <4> QED BY <2>1, <4>1, <4>2
    <3>2. CASE p # o
      BY <2>1, <2>4, <3>2 DEF UsageInv, RoundReports
    <3> QED BY <3>1, <3>2
  <2>8. RoundReported'
    <3> SUFFICES ASSUME NEW p \in round.stamp, inst'[p].started # NoTime
                 PROVE  reported'[p] >= round.now - inst'[p].started
      BY <1>1 DEF RoundReported, NoTime
    <3>1. CASE p = o
      <4>1. inst'[p].started = now /\ reported'[p] = 0 /\ round.now <= now
        BY <2>1, <2>2, <2>4, <3>1 DEF UsageInv, TimesPast
      <4> QED BY <2>1, <4>1
    <3>2. CASE p # o
      BY <2>1, <2>4, <3>2 DEF UsageInv, RoundReported
    <3> QED BY <3>1, <3>2
  <2>9. RoundLive' /\ RoundPlaced'
    BY <1>1, <2>1, <2>2, <2>4 DEF UsageInv, RoundLive, RoundPlaced, Placed, NoTime
  <2> QED BY <2>5, <2>6, <2>7, <2>8, <2>9 DEF UsageInv
<1> QED BY <1>2, <1>3 DEF Activate, Try, rows

\* A termination comes after the rounds that listed the instance.
LEMMA DeleteUsage ==
  ASSUME TypeOK, UsageInv, NEW c \in Calls, SoftDelete(c)
  PROVE  UsageInv'
<1>1. round' = round /\ now' = now /\ reported' = reported
  BY DEF SoftDelete, Try, rows
<1>2. PICK o \in Orders : o = call[c].on
  BY DEF TypeOK
<1>3. CASE inst' = inst
  BY <1>1, <1>2, <1>3, StatusKeepsTimes, TimesStay DEF TypeOK
<1>4. CASE inst' = [inst EXCEPT ![o].ended = now]
  <2> DEFINE new == [inst[o] EXCEPT !.ended = now]
  <2>1. /\ round.left \subseteq Orders /\ round.stamp \subseteq Orders
        /\ round.now \in Nat /\ now \in Nat
    BY DEF TypeOK
  <2>2. /\ new.status = inst[o].status /\ new.started = inst[o].started
        /\ new.billed = inst[o].billed /\ new.ended = now
    BY DEF TypeOK, InstanceRow
  <2>3. inst' = [inst EXCEPT ![o] = new]
    BY <1>4 DEF TypeOK
  <2> HIDE DEF new
  <2>4. \A p \in Orders : inst'[p] = IF p = o THEN new ELSE inst[p]
    BY <2>3 DEF TypeOK
  <2>5. \A p \in Orders : /\ inst'[p].status = inst[p].status
                          /\ inst'[p].started = inst[p].started
                          /\ inst'[p].billed = inst[p].billed
                          /\ inst'[p].ended = IF p = o THEN now ELSE inst[p].ended
    BY <2>2, <2>4
  <2>6. UsageCovered' /\ TimesPast' /\ RoundReports' /\ RoundReported' /\ RoundPlaced'
    BY <1>1, <2>1, <2>5 DEF UsageInv, UsageCovered, TimesPast, RoundReports, RoundReported,
       RoundPlaced, Placed, NoTime
  <2>7. round.now <= now
    BY DEF UsageInv, TimesPast
  <2>8. RoundLive'
    BY <1>1, <2>1, <2>5, <2>7 DEF UsageInv, RoundLive, NoTime
  <2> QED BY <2>6, <2>8 DEF UsageInv
<1> QED BY <1>2, <1>3, <1>4 DEF SoftDelete, Try, rows

\* A round reports what was not reported, and stores its own time.
LEMMA RoundUsage ==
  ASSUME TypeOK, UsageInv,
         ListRunning \/ \E o \in Orders : SkipUsage(o) \/ ReportUsage(o) \/ StampBilled(o)
  PROVE  UsageInv'
<1>1. /\ round.left \subseteq Orders /\ round.stamp \subseteq Orders /\ round.now \in Nat
      /\ round.seen \in [Orders -> Date] /\ now \in Nat
      /\ \A o \in Orders : /\ inst[o].billed \in Date /\ inst[o].started \in Date
                           /\ inst[o].ended \in Date /\ reported[o] \in Nat
                           /\ round.seen[o] \in Date
  BY DEF TypeOK, InstanceRow
<1>2. /\ round.now <= now
      /\ \A o \in Orders : /\ inst[o].billed <= now /\ inst[o].started <= now
                           /\ inst[o].started # NoTime => inst[o].billed # NoTime
                           /\ round.seen[o] <= now
  BY DEF UsageInv, TimesPast
<1>3. CASE ListRunning
  <2>1. /\ inst' = inst /\ reported' = reported /\ now' = now
        /\ round'.now = now /\ round'.left = Metered /\ round'.stamp = {}
        /\ \A o \in Orders : round'.seen[o] = inst[o].billed
    BY <1>3 DEF ListRunning, rows
  <2>2. UsageCovered'
    BY <2>1 DEF UsageInv, UsageCovered, NoTime
  <2>3. TimesPast'
    BY <1>1, <1>2, <2>1 DEF TimesPast, NoTime
  <2>4. RoundReports' /\ RoundReported'
    BY <1>2, <2>1 DEF UsageInv, UsageCovered, RoundReports, RoundReported, Metered, NoTime
  <2>5. RoundLive' /\ RoundPlaced'
    BY <2>1 DEF RoundLive, RoundPlaced, Metered, Live, Placed, NoTime
  <2> QED BY <2>2, <2>3, <2>4, <2>5 DEF UsageInv
<1>4. ASSUME NEW o \in Orders, SkipUsage(o) PROVE UsageInv'
  <2>1. /\ inst' = inst /\ reported' = reported /\ now' = now
        /\ round' = [round EXCEPT !.left = round.left \ {o}]
    BY <1>4 DEF SkipUsage, rows
  <2>2. /\ round'.now = round.now /\ round'.left = round.left \ {o}
        /\ round'.stamp = round.stamp /\ round'.seen = round.seen
    BY <2>1 DEF TypeOK
  <2>3. UsageCovered' /\ TimesPast'
    BY <1>2, <2>1, <2>2 DEF UsageInv, UsageCovered, TimesPast, NoTime
  <2>4. RoundReports' /\ RoundReported' /\ RoundLive' /\ RoundPlaced'
    BY <2>1, <2>2 DEF UsageInv, RoundReports, RoundReported, RoundLive, RoundPlaced, Placed, NoTime
  <2> QED BY <2>3, <2>4 DEF UsageInv
<1>5. ASSUME NEW o \in Orders, ReportUsage(o) PROVE UsageInv'
  <2> DEFINE hours == Hours(o)
  <2>1. /\ inst' = inst /\ now' = now /\ o \in round.left /\ hours > 0
        /\ reported' = [reported EXCEPT ![o] = reported[o] + hours]
        /\ round' = [round EXCEPT !.left = round.left \ {o}, !.stamp = {o}]
    BY <1>5 DEF ReportUsage
  <2>2. hours \in Nat
    BY <1>1, <2>1 DEF Hours, Date, NoTime
  <2>3. inst[o].started # NoTime => reported[o] + hours >= round.now - inst[o].started
    <3>1. CASE round.seen[o] = NoTime
      <4>1. inst[o].started # NoTime => round.now <= inst[o].started
        BY <2>1, <3>1 DEF UsageInv, RoundReports
      <4> QED BY <1>1, <2>2, <4>1 DEF Date, NoTime
    <3>2. CASE round.seen[o] # NoTime
      <4>1. inst[o].started # NoTime => reported[o] >= round.seen[o] - inst[o].started
        BY <2>1, <3>2 DEF UsageInv, RoundReports
      <4>2. hours = round.now - round.seen[o] /\ round.seen[o] \in Nat
        BY <1>1, <3>2 DEF Hours, Date
      <4> QED BY <1>1, <4>1, <4>2 DEF Date, NoTime
    <3> QED BY <3>1, <3>2
  <2> HIDE DEF hours
  <2>4. /\ round'.now = round.now /\ round'.left = round.left \ {o}
        /\ round'.stamp = {o} /\ round'.seen = round.seen
    BY <2>1 DEF TypeOK
  <2>5. \A p \in Orders : reported'[p] = IF p = o THEN reported[o] + hours ELSE reported[p]
    BY <2>1 DEF TypeOK
  <2>6. UsageCovered'
    <3> SUFFICES ASSUME NEW p \in Orders, inst[p].started # NoTime
                 PROVE  reported'[p] >= inst[p].billed - inst[p].started
      BY <2>1 DEF UsageCovered, NoTime
    <3>1. reported[p] >= inst[p].billed - inst[p].started
      BY DEF UsageInv, UsageCovered
    <3> QED BY <1>1, <2>2, <2>5, <3>1 DEF Date, NoTime
  <2>7. TimesPast'
    BY <1>2, <2>1, <2>4 DEF TimesPast, NoTime
  <2>8. RoundReports' /\ RoundReported'
    BY <1>1, <2>1, <2>3, <2>4, <2>5 DEF UsageInv, RoundReports, RoundReported, NoTime
  <2>9. RoundLive' /\ RoundPlaced'
    BY <2>1, <2>4 DEF UsageInv, RoundLive, RoundPlaced, Placed, NoTime
  <2> QED BY <2>6, <2>7, <2>8, <2>9 DEF UsageInv
<1>6. ASSUME NEW o \in Orders, StampBilled(o) PROVE UsageInv'
  <2>1. /\ reported' = reported /\ now' = now /\ o \in round.stamp
        /\ inst' = inst \/ inst' = [inst EXCEPT ![o].billed = round.now]
        /\ round' = [round EXCEPT !.stamp = {}]
    BY <1>6 DEF StampBilled, Try, rows
  <2>2. /\ round'.now = round.now /\ round'.left = round.left
        /\ round'.stamp = {} /\ round'.seen = round.seen
    BY <2>1 DEF TypeOK
  <2>3. \A p \in Orders : /\ inst'[p].status = inst[p].status
                          /\ inst'[p].started = inst[p].started
                          /\ inst'[p].ended = inst[p].ended
                          /\ \/ inst'[p].billed = inst[p].billed
                             \/ p = o /\ inst'[p].billed = round.now
    <3>1. CASE inst' = inst
      BY <3>1
    <3>2. CASE inst' = [inst EXCEPT ![o].billed = round.now]
      BY <3>2 DEF TypeOK, InstanceRow
    <3> QED BY <2>1, <3>1, <3>2
  <2>4. UsageCovered'
    BY <2>1, <2>3 DEF UsageInv, UsageCovered, RoundReported, NoTime
  <2>5. TimesPast'
    BY <1>1, <1>2, <2>1, <2>2, <2>3 DEF TimesPast, NoTime
  <2>6. RoundReports' /\ RoundReported' /\ RoundLive' /\ RoundPlaced'
    BY <1>1, <2>1, <2>2, <2>3 DEF UsageInv, RoundReports, RoundReported, RoundLive, RoundPlaced,
       Placed, NoTime
  <2> QED BY <2>4, <2>5, <2>6 DEF UsageInv
<1> QED BY <1>3, <1>4, <1>5, <1>6

\* Every step keeps what was reported ahead of what is stored as billed.
LEMMA UsageStep == TypeOK /\ TypeOK' /\ UsageInv /\ [Next]_vars => UsageInv'
<1> SUFFICES ASSUME TypeOK, TypeOK', UsageInv, [Next]_vars PROVE UsageInv'
  OBVIOUS
<1>1. now \in Nat /\ now >= now
  BY DEF TypeOK
<1>2. ASSUME NEW o \in Orders, round' = round, now' = now, reported' = reported,
             \/ inst' = inst
             \/ \E s \in Status \ {"none"} : inst' = [inst EXCEPT ![o].status = s]
             \/ \E n \in Nodes : inst' = [inst EXCEPT ![o].node = n]
      PROVE  UsageInv'
  BY <1>1, <1>2, StatusKeepsTimes, TimesStay
<1>3. ASSUME NEW o \in Orders, Create(o) PROVE UsageInv'
  <2>1. round' = round /\ now' = now
    BY <1>3, Zenon DEF Create, Lookup, SelectNode, ReserveNode, Insert, Hold, MarkRefused,
       ReleaseNode, Publish
  <2>2. reported' = reported
    BY <1>3 DEF Create, Lookup, SelectNode, ReserveNode, Insert, Hold, MarkRefused,
       ReleaseNode, Publish, Try, SetStatus, rows
  <2>3. \/ inst' = inst \/ \E n \in Nodes : inst' = [inst EXCEPT ![o].node = n]
        \/ \E s \in {"pending", "failed"} : inst' = [inst EXCEPT ![o].status = s]
    BY <1>3 DEF Create, Lookup, SelectNode, ReserveNode, Insert, Hold, MarkRefused,
       ReleaseNode, Publish, Try, SetStatus, rows, Fitting
  <2>4. {"pending", "failed"} \subseteq Status \ {"none"}
    BY DEF Status
  <2> QED BY <1>2, <2>1, <2>2, <2>3, <2>4
<1>4. CASE Provision
  <2>1. ASSUME NEW o \in Orders,
               \/ Fetch(o) \/ Load(o) \/ MarkProvisioning(o) \/ CreateVM(o) \/ StartVM(o)
               \/ Boot(o) \/ Ack(o) \/ MarkFailed(o) \/ ReleaseFailed(o)
        PROVE  UsageInv'
    <3>1. round' = round /\ now' = now
      BY <2>1, Zenon DEF Fetch, Load, MarkProvisioning, CreateVM, StartVM, Boot, Ack,
         MarkFailed, ReleaseFailed
    <3>2. reported' = reported
      BY <2>1 DEF Fetch, Load, MarkProvisioning, CreateVM, StartVM, Boot, Ack,
         MarkFailed, ReleaseFailed, Try, SetStatus, rows
    <3>3. \/ inst' = inst
          \/ \E s \in {"provisioning", "booting", "failed"} : inst' = [inst EXCEPT ![o].status = s]
      BY <2>1 DEF Fetch, Load, MarkProvisioning, CreateVM, StartVM, Boot, Ack,
         MarkFailed, ReleaseFailed, Try, SetStatus, rows
    <3>4. {"provisioning", "booting", "failed"} \subseteq Status \ {"none"}
      BY DEF Status
    <3> QED BY <1>2, <3>1, <3>2, <3>3, <3>4
  <2> QED BY <1>4, <2>1, ActivateUsage DEF Provision
<1>5. ASSUME NEW c \in Calls, Read(c) \/ Serve(c) PROVE UsageInv'
  <2>1. CASE SoftDelete(c)
    BY <2>1, DeleteUsage
  <2>2. CASE ~SoftDelete(c)
    <3>1. PICK o \in Orders : o = call[c].on
      BY DEF TypeOK
    <3>2. round' = round /\ now' = now
      BY <1>5, <2>2, Zenon DEF Read, Serve, ReadAgain, Command, WriteStatus
    <3>3. reported' = reported
      BY <1>5, <2>2 DEF Read, Serve, ReadAgain, Command, WriteStatus, Try, SetStatus, rows
    <3>4. inst' = inst \/ inst' = [inst EXCEPT ![o].status = Target(call[c].op)]
      BY <1>5, <2>2, <3>1 DEF Read, Serve, ReadAgain, Command, WriteStatus, Try, SetStatus, rows
    <3>5. Target(call[c].op) \in Status \ {"none"}
      BY DEF TypeOK, AllOps, Target, Status
    <3> QED BY <1>2, <3>2, <3>3, <3>4, <3>5
  <2> QED BY <2>1, <2>2
<1>6. CASE Meter
  BY <1>6, RoundUsage DEF Meter
<1>7. CASE Tick \/ UNCHANGED vars
  <2>1. /\ round' = round /\ inst' = inst /\ reported' = reported
        /\ now' \in Nat /\ now' >= now
    BY <1>1, <1>7 DEF Tick, rows, vars
  <2>2. \A o \in Orders : SameTimes(o) /\ (Placed(o) => Placed(o)')
    BY <2>1 DEF SameTimes, Placed
  <2> QED BY <2>1, <2>2, TimesStay
<1>8. CASE Restart
  <2>1. /\ round'.left = {} /\ round'.stamp = {} /\ round'.now = 0
        /\ \A o \in Orders : round'.seen[o] = NoTime
        /\ inst' = inst /\ reported' = reported /\ now' = now
    BY <1>8 DEF Restart, Asleep, rows
  <2>2. UsageCovered' /\ TimesPast'
    BY <1>1, <2>1 DEF UsageInv, UsageCovered, TimesPast, NoTime
  <2> QED BY <2>1, <2>2 DEF UsageInv, RoundReports, RoundReported, RoundLive, RoundPlaced
<1> QED BY <1>3, <1>4, <1>5, <1>6, <1>7, <1>8 DEF Next

LEMMA UsageInvariant == Spec => []UsageInv
<1>1. Init => UsageInv
  BY DEF Init, UsageInv, UsageCovered, TimesPast, RoundReports, RoundReported, RoundLive,
     RoundPlaced, NoInstance, Asleep, NoTime
<1>2. TypeOK /\ TypeOK' /\ UsageInv /\ [Next]_vars => UsageInv'
  BY UsageStep
<1> QED BY <1>1, <1>2, TypeCorrect, PTL DEF Spec

\* Every hour between an activation and the last time stored as billed was
\* reported, for any number of instances and whatever fails, restarts and
\* activations in the middle of a round included (instance_usecase.go:276-301).
THEOREM UsageAlwaysCovered == Spec => []UsageCovered
<1>1. UsageInv => UsageCovered
  BY DEF UsageInv
<1> QED BY <1>1, UsageInvariant, PTL

\* No round that begins after a termination reports the instance
\* (vps_repo.go:239-244).
THEOREM NeverUsageAfterTermination == Spec => NoUsageAfterTermination
<1>1. ASSUME TypeOK, TypeOK', UsageInv, [Next]_vars, NEW o \in Orders,
             reported'[o] > reported[o], ~Live(o)
      PROVE  round.now <= inst[o].ended
  <2>1. ReportUsage(o)
    <3>1. reported' # reported
      BY <1>1 DEF TypeOK
    <3>2. (\E p \in Orders : Activate(p)) \/ (\E p \in Orders : ReportUsage(p))
      BY <1>1, <3>1 DEF Next, Create, Lookup, SelectNode, ReserveNode, Insert, Hold, MarkRefused,
         ReleaseNode, Publish, Provision, Fetch, Load, MarkProvisioning, CreateVM, StartVM, Boot,
         Ack, MarkFailed, ReleaseFailed, Read, Serve, ReadAgain, Command, WriteStatus, SoftDelete,
         Meter, ListRunning, SkipUsage, StampBilled, Tick, Restart, vars, Try, SetStatus, rows
    <3>3. ASSUME NEW p \in Orders, Activate(p) PROVE FALSE
      <4>1. reported' = reported \/ reported' = [reported EXCEPT ![p] = 0]
        BY <3>3 DEF Activate, Try, rows
      <4>2. reported \in [Orders -> Nat] /\ reported'[o] > reported[o]
        BY <1>1 DEF TypeOK
      <4> QED BY <4>1, <4>2
    <3>4. ASSUME NEW p \in Orders, ReportUsage(p) PROVE p = o
      BY <1>1, <3>4 DEF ReportUsage, TypeOK
    <3> QED BY <3>2, <3>3, <3>4
  <2>2. o \in round.left
    BY <2>1 DEF ReportUsage
  <2> QED BY <1>1, <2>2 DEF UsageInv, RoundLive, RoundPlaced, Live
<1>2. TypeOK /\ TypeOK' /\ UsageInv /\ [Next]_vars =>
        [\A o \in Orders : reported'[o] > reported[o] /\ ~Live(o) =>
           round.now <= inst[o].ended]_vars
  BY <1>1
<1> QED BY <1>2, TypeCorrect, UsageInvariant, PTL DEF Spec, NoUsageAfterTermination
=============================================================================
