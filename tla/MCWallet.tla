------------------------------ MODULE MCWallet ------------------------------
(* Wallet on small instances. *)
EXTENDS Wallet, TLC

\* Requests are interchangeable: nothing orders them.
RequestSymmetry == Permutations(Requests)

\* Bound: of the requests for nothing, which the checks refuse, one kind.
OnlyDeductsOfZero == \A r \in Requests : req[r].amt = 0 => req[r].kind = "deduct"

MCInit == Init /\ OnlyDeductsOfZero

MCFairSpec == MCInit /\ [][Next]_vars /\ Fairness
=============================================================================
