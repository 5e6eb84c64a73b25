---------------------------- MODULE AtomicWallet ----------------------------
(***************************************************************************)
(* What wallet_usecase.go promises ("All mutations run inside DB           *)
(* transactions with SELECT FOR UPDATE"): each request takes effect at     *)
(* most once, in one step, on the row as it is at that moment, and a       *)
(* request that reports success did take effect.  A request that reports   *)
(* an error may have taken effect or not: the caller cannot know.          *)
(***************************************************************************)
EXTENDS WalletOps

CONSTANTS Users, Requests

VARIABLES
  row,     \* the money of each user
  req,     \* what each request asks for
  outcome  \* "pending", "applied" (not answered yet), "ok" or "error"

vars == <<row, req, outcome>>

Init ==
  /\ row \in [Users -> {w \in [bal: Nat, hold: Nat] : SolventRow(w)}]
  /\ req \in [Requests -> [kind: Kinds, user: Users, amt: Nat]]
  /\ outcome = [r \in Requests |-> "pending"]

Settle(r, from, to) ==
  outcome[r] \in from /\ outcome' = [outcome EXCEPT ![r] = to]

Apply(r) ==
  /\ Settle(r, {"pending"}, "applied")
  /\ ~InvalidAmount(req[r])
  /\ ~Insufficient(req[r], row[req[r].user])
  /\ row' = [row EXCEPT ![req[r].user] = Updated(req[r], @)]
  /\ req' = req

Succeed(r) == Settle(r, {"applied"}, "ok") /\ UNCHANGED <<row, req>>

Fail(r) == Settle(r, {"pending", "applied"}, "error") /\ UNCHANGED <<row, req>>

Next == \E r \in Requests : Apply(r) \/ Succeed(r) \/ Fail(r)

Spec == Init /\ [][Next]_vars
=============================================================================
