------------------------------- MODULE MCVps -------------------------------
(* Vps on small instances: every plan asks for 10, and a node has room for
   one such plan, with its headroom, and not for two. *)
EXTENDS Vps, TLC

SamePlan == [o \in Orders |-> 10]
OneEach == [n \in Nodes |-> 15]

CallSymmetry == Permutations(Calls)
=============================================================================
