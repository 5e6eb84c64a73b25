------------------------------ MODULE Proxmox -------------------------------
(***************************************************************************)
(* infrastructure/proxmox: the pool routes a command on a machine to the   *)
(* client of its node, Proxmox makes a task of it, and WaitForTask polls   *)
(* the task.  A machine obeys when its task ends, which may be long after  *)
(* the caller stopped waiting.  One machine for each node will do: those   *)
(* of one node share nothing here.                                         *)
(***************************************************************************)
EXTENDS Platform

CONSTANT Nodes  \* the names that instances carry

ASSUME ProxmoxAssumption == Nodes # {}

VARIABLES
  pool,     \* the nodes that AddNode put into the pool; the others' machines are
            \* out of reach
  machine,  \* the state of each node's machine
  tasks,    \* Proxmox's tasks
  waiter,   \* the calls of the adapter: the task each polls, 0 for one whose
            \* id it could not read
  sure      \* history: what the callers were told of each machine

proxmoxVars == <<pool, machine, tasks, waiter, sure>>

MachineStates == {"absent", "stopped", "running", "paused"}
Actions == {"CreateVM", "StartVM", "StopVM", "ShutdownVM", "RebootVM", "SuspendVM",
            "ResumeVM", "DeleteVM"}

NoExit == ""  \* the exit status of a task that has none yet
ExitStatuses == {NoExit, "OK", "error"}

\* alone (history): no other task on the machine ran since this one began.
Task == [node: Nodes, action: Actions, status: {"running", "stopped"},
         exit: ExitStatuses, alone: BOOLEAN]

NotWaiting == [on |-> FALSE, task |-> 0]
-----------------------------------------------------------------------------
ProxmoxInit ==
  /\ pool \in SUBSET Nodes /\ machine \in [Nodes -> MachineStates]
  /\ tasks = <<>> /\ sure = [n \in Nodes |-> "unknown"]
  /\ waiter = [q \in Calls |-> NotWaiting]

(* Proxmox. *)

\* The states in which a machine can obey, and what becomes of it.
Obeying(action) ==
  CASE action = "CreateVM" -> {"absent"}
    [] action \in {"StartVM", "DeleteVM"} -> {"stopped"}
    [] action = "StopVM" -> {"running", "paused", "stopped"}
    [] action = "ResumeVM" -> {"paused"}
    [] OTHER -> {"running"}

Becomes(action) ==
  CASE action \in {"CreateVM", "StopVM", "ShutdownVM"} -> "stopped"
    [] action = "DeleteVM" -> "absent"
    [] action = "SuspendVM" -> "paused"
    [] OTHER -> "running"

Running(n) == {i \in DOMAIN tasks : tasks[i].node = n /\ tasks[i].status = "running"}

\* A task ends, and has done what it is for or failed.
Ends(i) ==
  LET t == tasks[i] IN
  /\ t.status = "running"
  /\ \E exit \in {"OK", "error"} :
       /\ exit = "OK" => machine[t.node] \in Obeying(t.action)
       /\ tasks' = [tasks EXCEPT ![i] = [t EXCEPT !.status = "stopped", !.exit = exit]]
       /\ machine' = IF exit = "OK" THEN [machine EXCEPT ![t.node] = Becomes(t.action)]
                     ELSE machine
  /\ UNCHANGED <<pool, waiter, sure>>
-----------------------------------------------------------------------------
(* The pool and the clients. *)

nodeFor(n) == n \in pool

\* The command reaches Proxmox, which starts a task.
Post(n, action) ==
  /\ tasks' = Append([i \in DOMAIN tasks |->
                        [tasks[i] EXCEPT !.alone = @ /\ tasks[i].node # n]],
                     [node |-> n, action |-> action, status |-> "running", exit |-> NoExit,
                      alone |-> Running(n) = {}])
  /\ sure' = [sure EXCEPT ![n] = "unknown"]

\* The id in the answer, which is the empty string if it cannot be read.
taskID == {0, Len(tasks) + 1}

\* The caller goes on to wait; or the answer was lost, and it takes the command
\* for failed.  One that Proxmox refuses leaves no trace.
VMAction(q, n, action) ==
  /\ ~waiter[q].on /\ Asked(action) /\ nodeFor(n)
  /\ Cardinality({c \in Calls : waiter[c].on}) < workload.inFlight
  /\ Len(tasks) < workload.starts
  /\ Post(n, action)
  /\ \/ \E i \in taskID :
          waiter' = [waiter EXCEPT ![q] = [on |-> TRUE, task |-> i]]
     \/ UNCHANGED waiter
  /\ UNCHANGED <<pool, machine>>

\* Mutant: the status of the task is not looked at.
NeverRunning(t) == FALSE

\* GetTaskStatus: the field is set from the status.
IsRunning(t) == t.status = "running"

\* A poll that fails, or finds the task running, is one of many.  The exit code
\* of one that is over decides; what the caller knows is sure if no other task
\* met this one.
TaskOver(q) ==
  LET t == tasks[waiter[q].task] IN
  /\ waiter[q].on /\ waiter[q].task # 0 /\ ~IsRunning(t)
  /\ sure' = IF t.exit \in {"OK", NoExit} /\ t.alone
             THEN [sure EXCEPT ![t.node] = Becomes(t.action)] ELSE sure
  /\ waiter' = [waiter EXCEPT ![q] = NotWaiting]
  /\ UNCHANGED <<pool, machine, tasks>>

\* The deadline passes, or the caller leaves: the task goes on.
TimedOut(q) ==
  /\ waiter[q].on
  /\ waiter' = [waiter EXCEPT ![q] = NotWaiting]
  /\ UNCHANGED <<pool, machine, tasks, sure>>

ProxmoxNext ==
  \/ \E q \in Calls :
       \/ \E n \in Nodes, action \in Actions : VMAction(q, n, action)
       \/ TaskOver(q) \/ TimedOut(q)
  \/ \E i \in DOMAIN tasks : Ends(i)

ProxmoxSpec ==
  /\ WorkloadInit /\ ProxmoxInit
  /\ [][ProxmoxNext /\ UNCHANGED workload]_<<proxmoxVars, workload>>
-----------------------------------------------------------------------------
ProxmoxTypeOK ==
  /\ pool \subseteq Nodes /\ machine \in [Nodes -> MachineStates]
  /\ tasks \in Seq(Task)
  /\ waiter \in [Calls -> [on: BOOLEAN, task: Nat]]
  /\ sure \in [Nodes -> MachineStates \cup {"unknown"}]

\* When WaitForTask reports no error, the machine has done what was asked, and
\* is as its caller believes until the next task, unless two tasks met: of
\* those, and of one that was given up, nobody knows how the machine ends
\* (proxmox/client/client.go:246-287).
TasksTrue ==
  \A n \in Nodes : sure[n] \in {"unknown", machine[n]}
=============================================================================
