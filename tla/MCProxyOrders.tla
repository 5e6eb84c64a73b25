--------------------------- MODULE MCProxyOrders ---------------------------
(* ProxyOrders on small instances. *)
EXTENDS ProxyOrders, TLC

\* Requests on existing orders are interchangeable; orders are not (Idle picks one).
CallSymmetry == Permutations(Calls)
=============================================================================
