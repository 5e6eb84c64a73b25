-------------------------- MODULE WalletOpsProofs --------------------------
(***************************************************************************)
(* What the wallet operations do to a row, for any amount: the lemmas that *)
(* the proofs about Wallet and about ProxyOrders share.                    *)
(***************************************************************************)
EXTENDS WalletOps, TLAPS

\* The operations of wallet_usecase.go map a solvent row that covers the
\* request to a solvent row: the one fact that makes lost updates harmless
\* to the CHECK constraints.
LEMMA UpdatedSolvent ==
  ASSUME NEW q, q.kind \in Kinds, q.amt \in Nat, NEW w \in Row,
         SolventRow(w), ~Insufficient(q, w)
  PROVE  Updated(q, w) \in Row /\ SolventRow(Updated(q, w))
<1>1. /\ w.bal \in Int /\ w.hold \in Int
      /\ q.amt \in Nat /\ q.kind \in Kinds
  BY DEF Row
<1>2. NewBalance(q, w) \in Int /\ NewHold(q, w) \in Int
  BY <1>1 DEF NewBalance, NewHold
<1>3. 0 <= NewHold(q, w) /\ NewHold(q, w) <= NewBalance(q, w)
  BY <1>1 DEF NewBalance, NewHold, Insufficient, Available, SolventRow, Kinds
<1> QED BY <1>2, <1>3 DEF Updated, Row, SolventRow

\* The ledger row's amount is the difference between the balances it records
\* (txnRepo.Create in each operation).
LEMMA DeltaInt ==
  ASSUME NEW q, q.kind \in Kinds, q.amt \in Nat, NEW w \in Row
  PROVE  Delta(q, w) \in Int /\ NewBalance(q, w) = w.bal + Delta(q, w)
<1>1. w.bal \in Int /\ q.amt \in Nat
  BY DEF Row
<1>2. NewBalance(q, w) \in Int
  BY <1>1 DEF NewBalance
<1> QED BY <1>1, <1>2 DEF Delta

\* An operation moves the balance by what it credits and debits, and holds
\* move nothing (wallet_usecase.go:104-316).
LEMMA BalanceMoves ==
  ASSUME NEW q, q.kind \in Kinds, q.amt \in Nat, NEW w \in Row
  PROVE  /\ CreditOf(q) \in Nat /\ DebitOf(q) \in Nat
         /\ NewBalance(q, w) = w.bal + CreditOf(q) - DebitOf(q)
<1>1. w.bal \in Int /\ q.amt \in Nat
  BY DEF Row
<1> QED BY <1>1 DEF CreditOf, DebitOf, NewBalance
=============================================================================
