----------------------------- MODULE MCServices -----------------------------
(* Services on small instances. *)
EXTENDS Services, MCWallet

Clients(ops, inFlight, starts) ==
  [ops |-> ops, inFlight |-> inFlight, starts |-> starts]

\* Each service by itself, with the operations that meet on the same rows.
\* The first workload is Wallet's own.
MCWorkloads ==
  { Clients({"wallet"}, 1, 0), Clients({"deposit"}, 1, 0), Clients({"price"}, 1, 0),
    Clients({"login", "refresh", "logout", "wait"}, 2, 2),
    Clients({"login", "refresh", "wait"}, 1, 3), Clients({"login", "refresh"}, 2, 3),
    Clients({"login", "refresh", "role", "wait"}, 1, 2),
    Clients({"login", "refresh", "delete", "wait"}, 2, 2),
    Clients({"login", "setup", "enable", "disable", "admin_disable"}, 2, 1),
    Clients({"login", "profile", "password"}, 2, 1),
    Clients({"login", "register", "status", "delete"}, 1, 2),
    Clients({"login", "create_key", "revoke_key"}, 2, 1),
    Clients({"register"}, 2, 0),
    Clients({"create", "approve", "suspend", "create_sub"}, 2, 0),
    Clients({"create", "approve", "create_sub", "credit"}, 2, 0),
    Clients({"create", "admin_pricing", "pricing"}, 1, 0),
    Clients({"create", "create_reseller_key", "revoke_reseller_key"}, 2, 0),
    Clients({"create", "create_webhook", "delete_webhook"}, 2, 0),
    Clients({"Purchase", "Cancel"}, 2, 1),
    Clients({"Purchase", "Suspend", "Resume"}, 2, 1), Clients({"Purchase"}, 1, 2),
    Clients({"StartVM", "StopVM", "SuspendVM"}, 2, 3),
    Clients({"ResumeVM", "RebootVM", "ShutdownVM", "DeleteVM", "CreateVM"}, 2, 2),
    Clients({"event"}, 0, 2), Clients({"event", "watch"}, 1, 1),
    Clients({"execute"}, 3, 0), Clients({"limited"}, 3, 0), Clients({"retry"}, 1, 0) }

\* One rule of each scope, percentages, amounts and minima among them.
MCRuleBook ==
  { [level |-> 1, kind |-> "fixed", markup |-> 1, min |-> 0],
    [level |-> 2, kind |-> "percentage", markup |-> 50, min |-> 0],
    [level |-> 3, kind |-> "percentage", markup |-> 10, min |-> 9],
    [level |-> 4, kind |-> "other", markup |-> 0, min |-> 2] }

MCServicesInit == ServicesInit /\ (Asked("wallet") => OnlyDeductsOfZero)

MCServicesSpec == MCServicesInit /\ [][ServicesNext]_allVars
=============================================================================
