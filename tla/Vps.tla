-------------------------------- MODULE Vps --------------------------------
(***************************************************************************)
(* The orders and machines of vps-service: CreateVPS and the reservations  *)
(* on nodes (provision_usecase.go), the worker that provisions machines    *)
(* from a JetStream consumer (provision_usecase.go, nats.go, main.go), the *)
(* operations on instances and the suspension on an empty wallet, and the  *)
(* hourly meter (instance_usecase.go).                                     *)
(*                                                                         *)
(* Every statement on vps.nodes and vps.instances is one step, and so is   *)
(* every command to Proxmox with the wait for its task.  No statement      *)
(* checks what it overwrites.  Proxmox is external: main.go leaves         *)
(* CreateVM a placeholder, and the model follows the interface.  The       *)
(* billing adapter is a stub, so of its calls only the answer of Hold      *)
(* matters.  RAM stands for RAM and disk, which are treated alike.         *)
(***************************************************************************)
EXTENDS Integers, FiniteSetsExt, Functions

CONSTANTS
  Orders,      \* CreateVPS requests, and the instances they make
  Keys,        \* idempotency keys; "" is a request without one
  Nodes,       \* vps.nodes that are online
  RAM,         \* the RAM of the plan that each order asks for
  Total,       \* total_ram_mb of each node
  Calls,       \* requests on instances that may be open at a time
  Ops,         \* which of the operations on instances are called
  MaxDeliver,  \* deliveries of a provision job
  Horizon,     \* bound: the clock stops here, in hours
  MaxReported, \* bound: hours reported of an instance
  Restarts,    \* bound: restarts of vps-service
  Faults       \* what may fail: "db", "nats", "proxmox"

AllOps == {"start", "stop", "suspend", "terminate"}

ASSUME VpsAssumption ==
  /\ Orders # {} /\ IsFiniteSet(Orders) /\ Nodes # {} /\ Ops \subseteq AllOps
  /\ RAM \in [Orders -> Nat \ {0}] /\ Total \in [Nodes -> Nat]
  /\ MaxDeliver \in Nat \ {0} /\ Horizon \in Nat /\ MaxReported \in Nat /\ Restarts \in Nat
  /\ Faults \subseteq {"db", "nats", "proxmox"}

VARIABLES
  reserved,  \* reserved_ram_mb of each node
  inst,      \* vps.instances
  vm,        \* the instances that have a machine in Proxmox
  key,       \* the idempotency key of each CreateVPS
  pc,        \* how far each CreateVPS is
  job,       \* the message vm.provision.requested of each instance
  worker,    \* the provision worker: the instance at hand and its stage
  call,      \* the open requests on instances
  round,     \* the hourly meter: its time, the rows it listed and has left
  reported,  \* history: hours reported since billing_started_at
  now,       \* the clock
  restarts,  \* history: restarts so far
  lost       \* history: a write, or a deletion that was done, has reported an error

vars == <<reserved, inst, vm, key, pc, job, worker, call, round, reported, now, restarts,
          lost>>
rows == <<reserved, inst, vm, reported>>

NoTime == -1  \* a NULL timestamp
Date == {NoTime} \cup Nat

Status == {"none", "pending", "provisioning", "booting", "running", "stopped",
           "suspended", "terminated", "failed"}
InstanceRow == [status: Status, node: Nodes, started: Date, billed: Date, ended: Date]
NoInstance == [status |-> "none", node |-> CHOOSE n \in Nodes : TRUE, started |-> NoTime,
               billed |-> NoTime, ended |-> NoTime]

Phase == {"arrived", "checked", "selected", "reserved", "inserted", "accepted",
          "failing", "releasing", "done"}
Stage == {"load", "mark", "create", "start", "boot", "activate", "ack", "fail", "refund"}
Free == [at |-> "idle", on |-> CHOOSE o \in Orders : TRUE]
Asleep == [now |-> 0, left |-> {}, seen |-> [o \in Orders |-> NoTime], stamp |-> {}]
-----------------------------------------------------------------------------
Placed(o) == inst[o].status # "none"
Live(o) == Placed(o) /\ inst[o].ended = NoTime   \* terminated_at IS NULL

\* A statement.  One that reports an error may have run.
Try(ran, Done, Failed) ==
  \/ ran /\ lost' = lost /\ Done
  \/ "db" \in Faults /\ lost' = TRUE /\ (ran \/ UNCHANGED rows) /\ Failed

SetStatus(o, s) ==
  inst' = [inst EXCEPT ![o].status = s] /\ UNCHANGED <<reserved, vm, reported>>

\* plan.RAMMB * 12 / 10
Headroom(o) == (RAM[o] * 12) \div 10
Available(n) == Total[n] - reserved[n]

Fitting(o) == {n \in Nodes : Available(n) >= Headroom(o)}

Reserve(n, ram) == [reserved EXCEPT ![n] = @ + ram]
Release(n, ram) == [reserved EXCEPT ![n] = Max({0, @ - ram})]
-----------------------------------------------------------------------------
(***************************************************************************)
(* CreateVPS.  A request for a missing or inactive plan changes nothing    *)
(* and is left out.                                                        *)
(***************************************************************************)
Goto(o, phase) == pc' = [pc EXCEPT ![o] = phase]

\* GetByIdempotencyKey; an error counts as "not found".
Lookup(o) ==
  LET known == key[o] # "" /\ \E p \in Orders : Placed(p) /\ key[p] = key[o]
  IN  /\ pc[o] = "arrived"
      /\ \/ known /\ Goto(o, "done")
         \/ (~known \/ "db" \in Faults) /\ Goto(o, "checked")
      /\ UNCHANGED <<rows, key, job, worker, call, round, now, restarts, lost>>

\* Of the nodes that fit, one with the most RAM available.
SelectNode(o) ==
  /\ pc[o] = "checked"
  /\ \/ \E n \in Fitting(o) :
          /\ \A m \in Fitting(o) : Available(m) <= Available(n)
          /\ inst' = [inst EXCEPT ![o].node = n]
          /\ Goto(o, "selected")
     \/ (Fitting(o) = {} \/ "db" \in Faults) /\ inst' = inst /\ Goto(o, "done")
  /\ UNCHANGED <<reserved, vm, key, job, worker, call, round, reported, now, restarts, lost>>

ReserveNode(o) ==
  /\ pc[o] = "selected"
  /\ Try(reserved' = Reserve(inst[o].node, RAM[o]) /\ UNCHANGED <<inst, vm, reported>>,
         Goto(o, "reserved"), Goto(o, "done"))
  /\ UNCHANGED <<key, job, worker, call, round, now, restarts>>

\* Mutant: a request that finds its key taken keeps its reservation.
InsertOrGiveUp(o) ==
  /\ pc[o] = "reserved"
  /\ IF \E p \in Orders : Placed(p) /\ key[p] = key[o]
     THEN Goto(o, "done") /\ UNCHANGED <<rows, lost>>
     ELSE Try(SetStatus(o, "pending"), Goto(o, "inserted"), Goto(o, "releasing"))
  /\ UNCHANGED <<key, job, worker, call, round, now, restarts>>

\* idempotency_key is UNIQUE, and "" is a key like any other.
Insert(o) ==
  /\ pc[o] = "reserved"
  /\ IF \E p \in Orders : Placed(p) /\ key[p] = key[o]
     THEN Goto(o, "releasing") /\ UNCHANGED <<rows, lost>>
     ELSE Try(SetStatus(o, "pending"), Goto(o, "inserted"), Goto(o, "releasing"))
  /\ UNCHANGED <<key, job, worker, call, round, now, restarts>>

\* billing may refuse.
Hold(o) ==
  /\ pc[o] = "inserted"
  /\ Goto(o, "accepted") \/ Goto(o, "failing")
  /\ UNCHANGED <<rows, key, job, worker, call, round, now, restarts, lost>>

MarkRefused(o) ==
  /\ pc[o] = "failing"
  /\ Try(SetStatus(o, "failed"), Goto(o, "releasing"), Goto(o, "releasing"))
  /\ UNCHANGED <<key, job, worker, call, round, now, restarts>>

ReleaseNode(o) ==
  /\ pc[o] = "releasing"
  /\ Try(reserved' = Release(inst[o].node, RAM[o]) /\ UNCHANGED <<inst, vm, reported>>,
         Goto(o, "done"), Goto(o, "done"))
  /\ UNCHANGED <<key, job, worker, call, round, now, restarts>>

\* The result of PublishProvisionRequested is not looked at.
Publish(o) ==
  /\ pc[o] = "accepted" /\ Goto(o, "done")
  /\ \/ job' = [job EXCEPT ![o].at = "queued"]
     \/ "nats" \in Faults /\ job' = job
  /\ UNCHANGED <<rows, key, worker, call, round, now, restarts, lost>>

Create(o) ==
  \/ Lookup(o) \/ SelectNode(o) \/ ReserveNode(o) \/ Insert(o) \/ Hold(o)
  \/ MarkRefused(o) \/ ReleaseNode(o) \/ Publish(o)
-----------------------------------------------------------------------------
(***************************************************************************)
(* The provision worker: one goroutine that fetches a batch of jobs and    *)
(* runs RunProvisionWorker for each.  The acknowledgement comes after, and *)
(* a job that was refused or not acknowledged is delivered again.          *)
(***************************************************************************)
Work(o, stage) == worker' = [at |-> stage, on |-> o]
Working(o, stage) == worker = [at |-> stage, on |-> o]
Fetched == {o \in Orders : job[o].at = "fetched"}

\* Mutant: no MaxDeliver.
UndeliveredForever(j) == [j EXCEPT !.at = "queued"]

Undelivered(j) == [j EXCEPT !.at = IF j.sent < MaxDeliver THEN "queued" ELSE "dropped"]
Nak(o) == worker' = Free /\ job' = [job EXCEPT ![o] = Undelivered(@)]

\* A pull stays open while its first jobs are worked on.
Fetch(o) ==
  /\ job[o].at = "queued"
  /\ job' = [job EXCEPT ![o] = [at |-> "fetched", sent |-> @.sent + 1]]
  /\ UNCHANGED <<rows, key, pc, worker, call, round, now, restarts, lost>>

\* GetByID does not see a terminated instance.
Load(o) ==
  /\ worker = Free /\ o \in Fetched
  /\ \/ Live(o) /\ Work(o, "mark") /\ job' = job
     \/ (~Live(o) \/ "db" \in Faults) /\ Nak(o)
  /\ UNCHANGED <<rows, key, pc, call, round, now, restarts, lost>>

MarkProvisioning(o) ==
  /\ Working(o, "mark")
  /\ Try(SetStatus(o, "provisioning"), Work(o, "create"), Work(o, "create"))
  /\ UNCHANGED <<key, pc, job, call, round, now, restarts>>

\* Proxmox refuses a vmid that it has.  A task that times out may have run.
CreateVM(o) ==
  /\ Working(o, "create")
  /\ \/ o \notin vm /\ vm' = vm \cup {o} /\ Work(o, "start")
     \/ o \notin vm /\ "proxmox" \in Faults /\ vm' \in {vm, vm \cup {o}} /\ Work(o, "fail")
     \/ o \in vm /\ vm' = vm /\ Work(o, "fail")
  /\ UNCHANGED <<reserved, inst, key, pc, job, call, round, reported, now, restarts, lost>>

StartVM(o) ==
  /\ Working(o, "start")
  /\ \/ o \in vm /\ Try(SetStatus(o, "booting"), Work(o, "boot"), Work(o, "boot"))
     \/ (o \notin vm \/ "proxmox" \in Faults) /\ UNCHANGED <<rows, lost>> /\ Work(o, "fail")
  /\ UNCHANGED <<key, pc, job, call, round, now, restarts>>

\* The start task, and the wait for an address.
Boot(o) ==
  /\ Working(o, "boot")
  /\ \/ o \in vm /\ Work(o, "activate")
     \/ (o \notin vm \/ "proxmox" \in Faults) /\ Work(o, "fail")
  /\ UNCHANGED <<rows, key, pc, job, call, round, now, restarts, lost>>

\* UpdateAfterProvisioning
Activate(o) ==
  /\ Working(o, "activate")
  /\ Try(/\ inst' = [inst EXCEPT ![o].status = "running", ![o].started = now,
                                 ![o].billed = now]
         /\ reported' = [reported EXCEPT ![o] = 0]
         /\ UNCHANGED <<reserved, vm>>,
         Work(o, "ack"), Work(o, "fail"))
  /\ UNCHANGED <<key, pc, job, call, round, now, restarts>>

Ack(o) ==
  /\ Working(o, "ack")
  /\ \/ job' = [job EXCEPT ![o].at = "acked"] /\ worker' = Free
     \/ "nats" \in Faults /\ Nak(o)
  /\ UNCHANGED <<rows, key, pc, call, round, now, restarts, lost>>

\* Mutant: what is released is the plan.
RefundPlan(o) == RAM[o]

\* What fail() releases: "fetch plan to get values".
Refund(o) == 0

\* Mutant: fail() does not write the status.
MarkNothing(o) ==
  /\ Working(o, "fail") /\ Work(o, "refund")
  /\ UNCHANGED <<rows, key, pc, job, call, round, now, restarts, lost>>

MarkFailed(o) ==
  /\ Working(o, "fail")
  /\ Try(SetStatus(o, "failed"), Work(o, "refund"), Work(o, "refund"))
  /\ UNCHANGED <<key, pc, job, call, round, now, restarts>>

ReleaseFailed(o) ==
  /\ Working(o, "refund") /\ Nak(o)
  /\ Try(reserved' = Release(inst[o].node, Refund(o)) /\ UNCHANGED <<inst, vm, reported>>,
         TRUE, TRUE)
  /\ UNCHANGED <<key, pc, call, round, now, restarts>>

Provision ==
  \E o \in Orders :
    \/ Fetch(o) \/ Load(o) \/ MarkProvisioning(o) \/ CreateVM(o) \/ StartVM(o) \/ Boot(o)
    \/ Activate(o) \/ Ack(o) \/ MarkFailed(o) \/ ReleaseFailed(o)
-----------------------------------------------------------------------------
(***************************************************************************)
(* Requests on instances, and HandleWalletEmpty: it lists the running      *)
(* instances, and SuspendInstance reads each again without a check of its  *)
(* status.  Reboot changes nothing that is kept; Resume has no caller.     *)
(***************************************************************************)
Idle == [op |-> "start", on |-> CHOOSE o \in Orders : TRUE, at |-> "idle"]
At(c, stage) == call[c].at = stage
Move(c, stage) == call' = [call EXCEPT ![c].at = stage]
Leave(c) == call' = [call EXCEPT ![c] = Idle]

Admits(op, o) ==
  \/ op \in {"start", "terminate"} /\ inst[o].status # "terminated"
  \/ op = "stop"
  \/ op = "suspend" /\ inst[o].status = "running"

Target(op) ==
  CASE op = "start" -> "running" [] op = "stop" -> "stopped"
    [] op = "suspend" -> "suspended" [] op = "terminate" -> "terminated"

Read(c) ==
  /\ At(c, "idle")
  /\ \E op \in Ops, o \in Orders :
       /\ Live(o) /\ Admits(op, o)
       /\ call' = [call EXCEPT ![c] = [op |-> op, on |-> o,
                                       at |-> IF op = "suspend" THEN "listed" ELSE "read"]]
  /\ UNCHANGED <<rows, key, pc, job, worker, round, now, restarts, lost>>

ReadAgain(c) ==
  /\ At(c, "listed")
  /\ IF Live(call[c].on) THEN Move(c, "read") ELSE Leave(c)
  /\ UNCHANGED <<rows, key, pc, job, worker, round, now, restarts, lost>>

\* The command fails without a machine.  Terminate does not look at how its
\* task ends, and one that reports an error may have deleted the machine.
Command(c) ==
  LET o == call[c].on
      deletes == call[c].op = "terminate"
  IN  /\ At(c, "read")
      /\ \/ /\ o \in vm /\ Move(c, "told") /\ lost' = lost
            /\ \/ vm' = IF deletes THEN vm \ {o} ELSE vm
               \/ deletes /\ "proxmox" \in Faults /\ vm' = vm
         \/ (o \notin vm \/ "proxmox" \in Faults) /\ UNCHANGED <<vm, lost>> /\ Leave(c)
         \/ /\ deletes /\ o \in vm /\ "proxmox" \in Faults /\ Leave(c)
            /\ vm' = vm \ {o} /\ lost' = TRUE
      /\ UNCHANGED <<reserved, inst, key, pc, job, worker, round, reported, now, restarts>>

\* Mutant: Terminate does not set terminated_at.
WriteStatusOnly(c) ==
  /\ At(c, "told")
  /\ Try(SetStatus(call[c].on, Target(call[c].op)), Leave(c), Leave(c))
  /\ UNCHANGED <<key, pc, job, worker, round, now, restarts>>

\* The result of UpdateStatus is not looked at.
WriteStatus(c) ==
  LET Onwards == IF call[c].op = "terminate" THEN Move(c, "marked") ELSE Leave(c)
  IN  /\ At(c, "told")
      /\ Try(SetStatus(call[c].on, Target(call[c].op)), Onwards, Onwards)
      /\ UNCHANGED <<key, pc, job, worker, round, now, restarts>>

SoftDelete(c) ==
  /\ At(c, "marked")
  /\ Try(inst' = [inst EXCEPT ![call[c].on].ended = now] /\ UNCHANGED <<reserved, vm, reported>>,
         Leave(c), Leave(c))
  /\ UNCHANGED <<key, pc, job, worker, round, now, restarts>>

Serve(c) == ReadAgain(c) \/ Command(c) \/ WriteStatus(c) \/ SoftDelete(c)
-----------------------------------------------------------------------------
(***************************************************************************)
(* The hourly meter.  A round works on the rows it listed and on the time  *)
(* it took after listing them.                                             *)
(***************************************************************************)

\* Mutant: ListRunning sees terminated rows.
MeteredDeleted == {o \in Orders : inst[o].status = "running"}

\* ListRunning
Metered == {o \in Orders : inst[o].status = "running" /\ Live(o)}

ListRunning ==
  /\ round.left = {} /\ round.stamp = {} /\ Metered # {}
  /\ round' = [now |-> now, left |-> Metered, stamp |-> {},
               seen |-> [o \in Orders |-> inst[o].billed]]
  /\ UNCHANGED <<rows, key, pc, job, worker, call, now, restarts, lost>>

Hours(o) == IF round.seen[o] = NoTime THEN 1 ELSE round.now - round.seen[o]

\* "too soon", or the plan or the publication failed.
SkipUsage(o) ==
  /\ o \in round.left /\ round.stamp = {}
  /\ Hours(o) <= 0 \/ "db" \in Faults \/ "nats" \in Faults
  /\ round' = [round EXCEPT !.left = @ \ {o}]
  /\ UNCHANGED <<rows, key, pc, job, worker, call, now, restarts, lost>>

ReportUsage(o) ==
  /\ o \in round.left /\ round.stamp = {}
  /\ Hours(o) > 0 /\ reported[o] + Hours(o) <= MaxReported
  /\ reported' = [reported EXCEPT ![o] = @ + Hours(o)]
  /\ round' = [round EXCEPT !.left = @ \ {o}, !.stamp = {o}]
  /\ UNCHANGED <<reserved, inst, vm, key, pc, job, worker, call, now, restarts, lost>>

\* Mutant: the time of the update is stored, not that of the round.
StampNow(o) ==
  /\ o \in round.stamp
  /\ Try(inst' = [inst EXCEPT ![o].billed = now] /\ UNCHANGED <<reserved, vm, reported>>,
         TRUE, TRUE)
  /\ round' = [round EXCEPT !.stamp = {}]
  /\ UNCHANGED <<key, pc, job, worker, call, now, restarts>>

\* UpdateLastBilled with the time of the round.
StampBilled(o) ==
  /\ o \in round.stamp
  /\ Try(inst' = [inst EXCEPT ![o].billed = round.now] /\ UNCHANGED <<reserved, vm, reported>>,
         TRUE, TRUE)
  /\ round' = [round EXCEPT !.stamp = {}]
  /\ UNCHANGED <<key, pc, job, worker, call, now, restarts>>

Meter == ListRunning \/ \E o \in Orders : SkipUsage(o) \/ ReportUsage(o) \/ StampBilled(o)
-----------------------------------------------------------------------------
Tick ==
  /\ now < Horizon /\ now' = now + 1
  /\ UNCHANGED <<rows, key, pc, job, worker, call, round, restarts, lost>>

\* vps-service restarts: what was under way is gone, and the jobs that were
\* fetched come back after AckWait.
Restart ==
  /\ restarts < Restarts /\ restarts' = restarts + 1
  /\ pc' = [o \in Orders |-> IF pc[o] = "arrived" THEN "arrived" ELSE "done"]
  /\ job' = [o \in Orders |-> IF o \in Fetched THEN Undelivered(job[o]) ELSE job[o]]
  /\ worker' = Free /\ call' = [c \in Calls |-> Idle] /\ round' = Asleep
  /\ UNCHANGED <<rows, key, now, lost>>

Init ==
  /\ reserved = [n \in Nodes |-> 0]
  /\ inst = [o \in Orders |-> NoInstance]
  /\ vm = {}
  /\ key \in [Orders -> Keys]
  /\ pc = [o \in Orders |-> "arrived"]
  /\ job = [o \in Orders |-> [at |-> "none", sent |-> 0]]
  /\ worker = Free
  /\ call = [c \in Calls |-> Idle]
  /\ round = Asleep
  /\ reported = [o \in Orders |-> 0]
  /\ now = 0
  /\ restarts = 0
  /\ lost = FALSE

Next ==
  \/ \E o \in Orders : Create(o)
  \/ Provision
  \/ \E c \in Calls : Read(c) \/ Serve(c)
  \/ Meter \/ Tick \/ Restart

\* Requests that were accepted run to their end, and the consumer runs.
Fairness == (\A o \in Orders : WF_vars(Create(o))) /\ WF_vars(Provision)

Spec == Init /\ [][Next]_vars
FairSpec == Spec /\ Fairness

TypeOK ==
  /\ reserved \in [Nodes -> Nat]
  /\ inst \in [Orders -> InstanceRow]
  /\ vm \subseteq Orders
  /\ key \in [Orders -> Keys]
  /\ pc \in [Orders -> Phase]
  /\ job \in [Orders -> [at: {"none", "queued", "fetched", "acked", "dropped"},
                         sent: 0..MaxDeliver]]
  /\ worker \in [at: Stage \cup {"idle"}, on: Orders]
  /\ call \in [Calls -> [op: AllOps, on: Orders,
                         at: {"idle", "listed", "read", "told", "marked"}]]
  /\ round \in [now: Nat, left: SUBSET Orders, stamp: SUBSET Orders,
                seen: [Orders -> Date]]
  /\ reported \in [Orders -> Nat]
  /\ now \in Nat
  /\ restarts \in 0..Restarts
  /\ lost \in BOOLEAN
-----------------------------------------------------------------------------
(***************************************************************************)
(* The reservations.                                                       *)
(***************************************************************************)
Claim(set, n) == SumFunctionOnSet(RAM, {o \in set : inst[o].node = n})

\* Every machine in Proxmox is covered by a reservation on its node, whatever
\* fails, whenever vps-service restarts and however often a job is delivered:
\* no failed attempt gives back what a later one builds on
\* (provision_usecase.go:141-192, 289-301).
ReservationsCoverMachines == \A n \in Nodes : reserved[n] >= Claim(vm, n)

Reserving == {o \in Orders : \/ pc[o] \in {"reserved", "inserted", "accepted", "failing",
                                          "releasing"}
                             \/ job[o].at # "none"}

\* While the database and NATS answer, a node has reserved exactly what the
\* orders under way and the orders handed to the worker asked for: a request
\* that loses the race for its idempotency key, or that billing refuses, gives
\* back its own reservation and no other (provision_usecase.go:141-192).
RefusedGiveBack == \A n \in Nodes : reserved[n] = Claim(Reserving, n)

\* "Resource reservation để tránh overcommit" (docs/06-VPS-SERVICE.md:18): no
\* node runs machines that ask for more than it has.
NodesNotOvercommitted == \A n \in Nodes : Claim(vm, n) <= Total[n]
-----------------------------------------------------------------------------
(***************************************************************************)
(* The machines and the meter.                                             *)
(***************************************************************************)
Terminating(o) ==
  \E c \in Calls : call[c].op = "terminate" /\ call[c].on = o /\ call[c].at \in {"told", "marked"}

\* While no write or deletion that was done reports an error, and vps-service
\* stays up, an instance that the meter lists has a machine, or is being
\* terminated: no race of the worker, Start and Terminate leaves a row that is
\* billed without one (instance_usecase.go:55-73, 143-167;
\* provision_usecase.go:266-270).
MeteredHasMachine ==
  ~lost /\ restarts = 0 => \A o \in Metered : o \in vm \/ Terminating(o)

\* Every hour between billing_started_at and last_billed_at has been reported,
\* also when a publication or an update fails, or vps-service restarts in the
\* middle of a round (instance_usecase.go:276-301).
UsageCovered ==
  \A o \in Orders : inst[o].started # NoTime =>
    reported[o] >= inst[o].billed - inst[o].started

\* What is reported of an instance after its termination was metered before:
\* a Start, or a worker, that writes "running" afterwards does not bring it
\* back to the meter (vps_repo.go:239-244).
NoUsageAfterTermination ==
  [][\A o \in Orders : reported'[o] > reported[o] /\ ~Live(o) =>
       round.now <= inst[o].ended]_vars

\* A job that reached the worker's stream comes to an end, and its instance
\* does not stay pending, provisioning or booting (provision_usecase.go:210-301,
\* nats.go:114-142).
EveryJobSettles ==
  \A o \in Orders :
    job[o].at # "none" ~>
      [](job[o].at \in {"acked", "dropped"}
         /\ inst[o].status \notin {"pending", "provisioning", "booting"})
=============================================================================
