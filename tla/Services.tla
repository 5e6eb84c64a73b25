------------------------------ MODULE Services ------------------------------
(***************************************************************************)
(* The services side by side: billing-service with its deposits and        *)
(* prices, user-service, reseller-service, log-service, the adapters of    *)
(* proxy-service and of vps-service, and the components of pkg.            *)
(* They share the members and no table: a step of one leaves the state of  *)
(* the others alone.  The operations that the clients of a behaviour use   *)
(* are its workload, chosen at the start.                                  *)
(***************************************************************************)
EXTENDS Deposits, Accounts, Resellers, Pricing, Providers, Proxmox, Logs,
        CircuitBreaker, RateLimiter, Retry

billingVars == <<vars, depositVars>>
pkgVars == <<breakerVars, limiterVars, loop>>
otherVars == <<providersVars, proxmoxVars, logsVars, pkgVars>>
allVars == <<billingVars, pricingVars, accountsVars, resellersVars, otherVars, workload>>

\* Bound: a service takes steps when some client uses it.
Used(ops) == workload.ops \cap ops # {}

AccountsOps ==
  {"login", "refresh", "logout", "register", "profile", "password", "setup", "enable",
   "disable", "admin_disable", "role", "status", "delete", "create_key", "revoke_key",
   "wait"}

ResellersOps ==
  {"create", "approve", "suspend", "create_sub", "credit", "admin_pricing", "pricing",
   "create_reseller_key", "revoke_reseller_key", "create_webhook", "delete_webhook"}

\* What no client uses is not varied: the wallets are empty and the requests
\* of Wallet all alike, unsent; the payments too, without deposits.
BillingInit ==
  /\ \/ /\ Asked("deposit")
        /\ DepositsInit
        /\ \A r \in Requests : hook[r].step = "waiting"
        /\ req = [r \in Requests |-> CreditRequest(hook[r].payment)]
     \/ /\ ~Asked("deposit")
        /\ payment = [p \in Payments |-> CHOOSE q \in Payment :
                        q.state = "absent" /\ ~q.checkout /\ ~q.known]
        /\ hook = [r \in Requests |-> CHOOSE h \in Hook :
                     h.step = "plain" /\ ~h.overtaken]
        /\ \/ Asked("wallet")
           \/ /\ row = [u \in Users |-> EmptyRow] /\ opened = {}
              /\ req = [r \in Requests |-> CHOOSE q \in Request : TRUE]
  /\ Init /\ DepositsInit

ServicesInit ==
  /\ WorkloadInit
  /\ Asked("price") \/ rules = {}
  /\ BillingInit /\ PricingInit /\ AccountsInit /\ ResellersInit
  /\ Used(Actions) \/ (pool = {} /\ machine = [n \in Nodes |-> "absent"])
  /\ ProvidersInit /\ ProxmoxInit /\ LogsInit /\ BreakerInit /\ LimiterInit /\ RetryInit

\* A step of one of the components without tables of the services above.
OtherNext ==
  \/ /\ Used({"Purchase"}) /\ ProvidersNext
     /\ UNCHANGED <<proxmoxVars, logsVars, pkgVars>>
  \/ /\ Used(Actions) /\ ProxmoxNext
     /\ UNCHANGED <<providersVars, logsVars, pkgVars>>
  \/ /\ Used({"event"}) /\ LogsNext
     /\ UNCHANGED <<providersVars, proxmoxVars, pkgVars>>
  \/ /\ \/ Used({"execute"}) /\ BreakerNext /\ UNCHANGED <<limiterVars, loop>>
        \/ Used({"limited"}) /\ LimiterNext /\ UNCHANGED <<breakerVars, loop>>
        \/ Used({"retry"}) /\ RetryNext /\ UNCHANGED <<breakerVars, limiterVars>>
     /\ UNCHANGED <<providersVars, proxmoxVars, logsVars>>

ServicesNext ==
  /\ UNCHANGED workload
  /\ \/ /\ IF Asked("deposit")
           THEN DepositsNext
           ELSE Used({"wallet"}) /\ Next /\ UNCHANGED depositVars
        /\ UNCHANGED <<pricingVars, accountsVars, resellersVars, otherVars>>
     \/ /\ Used({"price"}) /\ PricingNext
        /\ UNCHANGED <<billingVars, accountsVars, resellersVars, otherVars>>
     \/ /\ Used(AccountsOps) /\ AccountsNext
        /\ UNCHANGED <<billingVars, pricingVars, resellersVars, otherVars>>
     \/ /\ Used(ResellersOps) /\ ResellersNext
        /\ UNCHANGED <<billingVars, pricingVars, accountsVars, otherVars>>
     \/ /\ OtherNext
        /\ UNCHANGED <<billingVars, pricingVars, accountsVars, resellersVars>>

ServicesSpec == ServicesInit /\ [][ServicesNext]_allVars

\* Every variable has its type: the conjunction of the modules' invariants.
ServicesTypeOK ==
  /\ TypeOK /\ DepositsTypeOK /\ PricingTypeOK /\ AccountsTypeOK
  /\ ResellersTypeOK /\ ProvidersTypeOK /\ ProxmoxTypeOK /\ LogsTypeOK
  /\ BreakerTypeOK /\ LimiterTypeOK /\ RetryTypeOK
=============================================================================
