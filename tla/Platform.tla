------------------------------ MODULE Platform ------------------------------
(***************************************************************************)
(* What the services have in common: the JWT middleware of pkg/middleware  *)
(* (every service and api-gateway mount the same Auth and RequireRole),    *)
(* and the workload of a run.                                              *)
(***************************************************************************)
EXTENDS Naturals, Sequences, FiniteSets

CONSTANTS
  Members,   \* the people who have or may get an account
  Calls,     \* bound: the requests of a service that can be in flight at a time
  Workloads, \* bound: what the clients of a behaviour may do
  MaxKeys    \* bound: the API keys, and the webhooks, that are ever created

ASSUME PlatformAssumption ==
  Members # {} /\ IsFiniteSet(Calls) /\ MaxKeys \in Nat

\* The clients of this behaviour: the operations they use, how many requests
\* they keep in flight and how many logins, purchases or events they make.
VARIABLE workload

Roles == {"user", "reseller", "admin", "super_admin"}

WorkloadInit == workload \in Workloads

\* The client side of an operation: it is one of those this behaviour has.
Asked(op) == op \in workload.ops
-----------------------------------------------------------------------------
\* Auth: a token the middleware accepts.  Signatures are always good here:
\* tokens are only made by issueAccessToken with the shared secret.
Auth(token, time) == time < token.exp

\* RequireRole: the role is the one in the token, never the stored one.
RequireRole(token, allowed) == token.role \in allowed

AdminRoles == {"admin", "super_admin"}
=============================================================================
