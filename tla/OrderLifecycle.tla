--------------------------- MODULE OrderLifecycle ---------------------------
(***************************************************************************)
(* The lifecycle of a proxy order as the conditions of proxy-service draw  *)
(* it: CreateOrder, FulfillFromProxyCheap, CancelOrder, RenewOrder,        *)
(* LockOrder, UnlockOrder and the expiry scheduler, each as the one status *)
(* change that it means to make.  Cancelled and failed are terminal        *)
(* (order_usecase.go:311), and only an order with credentials is served.   *)
(***************************************************************************)
CONSTANTS Orders

VARIABLES
  status,  \* proxy.orders.status; "none" before the row exists
  creds    \* the orders whose credentials are stored

vars == <<status, creds>>

Change(o, from, to) ==
  status[o] \in from /\ status' = [status EXCEPT ![o] = to]

Init == status = [o \in Orders |-> "none"] /\ creds = {}

Place(o)   == Change(o, {"none"}, "pending") /\ creds' = creds
Await(o)   == Change(o, {"pending"}, "processing") /\ creds' = creds
Deliver(o) == Change(o, {"pending", "processing"}, "active") /\ creds' = creds \cup {o}
Fail(o)    == Change(o, {"pending"}, "failed") /\ creds' = creds
Expire(o)  == Change(o, {"active"}, "expired") /\ creds' = creds
Renew(o)   == Change(o, {"expired"}, "active") /\ creds' = creds
Lock(o)    == Change(o, {"active", "expired"}, "suspended") /\ creds' = creds
Unlock(o)  == Change(o, {"suspended"}, "active") /\ creds' = creds
Cancel(o)  == Change(o, {"pending", "active", "expired"}, "cancelled") /\ creds' = creds

Next ==
  \E o \in Orders : \/ Place(o) \/ Await(o) \/ Deliver(o) \/ Fail(o) \/ Expire(o)
                    \/ Renew(o) \/ Lock(o) \/ Unlock(o) \/ Cancel(o)

Spec == Init /\ [][Next]_vars
=============================================================================
