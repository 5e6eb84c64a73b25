------------------------------ MODULE WalletOps ------------------------------
(***************************************************************************)
(* What the five operations of usecase/wallet_usecase.go check of the      *)
(* wallet row they read, and the row they compute from it.  q is a request *)
(* with a kind and an amount, w a row of billing.wallets.                  *)
(***************************************************************************)
EXTENDS Integers

Kinds == {"deduct", "hold", "confirm", "release", "credit"}
Row == [bal: Int, hold: Int]
EmptyRow == [bal |-> 0, hold |-> 0]
SolventRow(w) == 0 <= w.hold /\ w.hold <= w.bal

Available(w) == w.bal - w.hold

\* Deduct, Hold and Credit refuse amounts that are not positive.
InvalidAmount(q) == q.kind \in {"deduct", "hold", "credit"} /\ q.amt <= 0

\* ErrInsufficientFunds, and ConfirmHold's own check on hold_amount.
Insufficient(q, w) ==
  \/ q.kind \in {"deduct", "hold"} /\ Available(w) < q.amt
  \/ q.kind = "confirm" /\ w.hold < q.amt

\* Mutant: a release pays the amount out again.
NewBalanceRefunds(q, w) ==
  IF q.kind \in {"credit", "release"} THEN w.bal + q.amt
  ELSE IF q.kind \in {"deduct", "confirm"} THEN w.bal - q.amt
  ELSE w.bal

\* Mutant: a release is not floored at zero.
NewHoldUnfloored(q, w) ==
  IF q.kind = "hold" THEN w.hold + q.amt
  ELSE IF q.kind \in {"confirm", "release"} THEN w.hold - q.amt
  ELSE w.hold

\* The balance and hold_amount that UpdateBalance is called with: both
\* columns, each computed from the row that was read.
NewBalance(q, w) ==
  IF q.kind = "credit" THEN w.bal + q.amt
  ELSE IF q.kind \in {"deduct", "confirm"} THEN w.bal - q.amt
  ELSE w.bal

NewHold(q, w) ==
  IF q.kind = "hold" THEN w.hold + q.amt
  ELSE IF q.kind = "confirm" THEN w.hold - q.amt
  ELSE IF q.kind = "release" THEN (IF w.hold < q.amt THEN 0 ELSE w.hold - q.amt)
  ELSE w.hold

Updated(q, w) == [bal |-> NewBalance(q, w), hold |-> NewHold(q, w)]

\* What a request is meant to add to a balance, and to take from it.
CreditOf(q) == IF q.kind = "credit" THEN q.amt ELSE 0
DebitOf(q) == IF q.kind \in {"deduct", "confirm"} THEN q.amt ELSE 0

\* balance_after - balance_before, as the ledger row records them.
Delta(q, w) == NewBalance(q, w) - w.bal
=============================================================================
