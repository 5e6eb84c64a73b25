------------------------------ MODULE Deposits ------------------------------
(***************************************************************************)
(* Deposits in billing-service: PaymentUsecase of usecase/                 *)
(* pricing_usecase.go, on top of the wallet.  A delivery of a gateway's    *)
(* webhook is an HTTP request that looks the payment up, marks it          *)
(* completed and then runs WalletUsecase.Credit: it is one of the requests *)
(* of Wallet, which waits until HandleWebhook gets to its last part.       *)
(***************************************************************************)
EXTENDS Wallet

CONSTANT Payments  \* the payments of the run

VARIABLES
  payment,  \* billing.payments; owner and amount are what CreateDeposit will ask
  hook      \* the requests of Wallet that are deliveries: of which payment, how
            \* far HandleWebhook is, and (history) whether the payment was
            \* completed by another after it was looked up

depositVars == <<payment, hook>>

\* checkout: buildCheckoutURL knew the gateway.  known: gateway_txn_id is set.
Payment == [state: {"absent", "pending", "completed"}, owner: Users,
            amount: Amounts, checkout: BOOLEAN, known: BOOLEAN]

\* plain: not a delivery.  lost: Credit was cut off after the payment was
\* marked; the gateway's next delivery is acknowledged as a duplicate.
Hook == [payment: Payments, overtaken: BOOLEAN,
         step: {"plain", "waiting", "looked", "credit", "ended", "lost"}]

MinDeposit == 1

\* A delivery asks Wallet for a Credit of what the payment row says.
CreditRequest(p) ==
  [kind |-> "credit", user |-> payment[p].owner, amt |-> payment[p].amount]

DepositsInit ==
  /\ payment \in [Payments -> {p \in Payment :
                     p.state = "absent" /\ ~p.checkout /\ ~p.known}]
  /\ hook \in [Requests -> {h \in Hook :
                     h.step \in {"plain", "waiting"} /\ ~h.overtaken}]
-----------------------------------------------------------------------------
\* CreateDeposit, from the handler on: GetBalance needs the wallet, and the row
\* is there before the gateway's name is looked at, so it stays when the
\* gateway is unknown.
CreateDeposit(p, supported) ==
  /\ payment[p].state = "absent"
  /\ payment[p].owner \in opened /\ payment[p].amount >= MinDeposit
  /\ payment' = [payment EXCEPT ![p].state = "pending", ![p].checkout = supported]
  /\ UNCHANGED <<hook, vars>>

\* Whoever lets the customer pay stores the gateway's id with the payment.
RecordGatewayTxnID(p) ==
  /\ payment[p].state = "pending" /\ payment[p].checkout
  /\ payment' = [payment EXCEPT ![p].known = TRUE]
  /\ UNCHANGED <<hook, vars>>

\* GetByGatewayTxnID
FindPayment(p) == payment[p].state # "absent" /\ payment[p].known

\* Mutant: the status of the row that was found is not looked at.
UnprocessedAlways(p) == FindPayment(p)

\* The idempotency check.
Unprocessed(p) == FindPayment(p) /\ payment[p].state # "completed"

\* HandleWebhook's first part.  An unknown payment is an error, and the gateway
\* delivers again; a completed one is acknowledged.
HandleWebhookFind(r) ==
  /\ hook[r].step = "waiting" /\ payment[hook[r].payment].checkout
  /\ hook' = [hook EXCEPT ![r].step =
                IF Unprocessed(hook[r].payment) THEN "looked" ELSE "ended"]
  /\ UNCHANGED <<payment, vars>>

\* Mutant: it returns once the payment is marked.
CompleteAndReturn(r) ==
  LET p == hook[r].payment IN
  /\ hook[r].step = "looked"
  /\ payment' = [payment EXCEPT ![p].state = "completed"]
  /\ hook' = [hook EXCEPT ![r].step = "ended"]
  /\ UNCHANGED vars

\* UpdateStatus, unconditional, and the call of Credit.
HandleWebhookComplete(r) ==
  LET p == hook[r].payment IN
  /\ hook[r].step = "looked"
  /\ payment' = [payment EXCEPT ![p].state = "completed"]
  /\ hook' = [s \in Requests |->
       IF s = r THEN [hook[r] EXCEPT !.step = "credit"]
       ELSE [hook[s] EXCEPT !.overtaken =
               @ \/ (hook[s].step = "looked" /\ hook[s].payment = p)]]
  /\ UNCHANGED vars

\* UpdateStatus fails, or the gateway hangs up before it.
HandleWebhookFail(r) ==
  /\ Faults /\ hook[r].step = "looked"
  /\ hook' = [hook EXCEPT ![r].step = "ended"]
  /\ UNCHANGED <<payment, vars>>

\* WalletUsecase.Credit of a delivery, and every other request.
WalletStep(r) ==
  /\ hook[r].step \in {"plain", "credit"}
  /\ Serve(r)
  /\ UNCHANGED depositVars

\* Credit fails half-way.  Nothing undoes UpdateStatus.
WalletAbort(r) ==
  /\ hook[r].step \in {"plain", "credit"}
  /\ Abort(r)
  /\ hook' = [hook EXCEPT ![r].step = IF @ = "credit" THEN "lost" ELSE @]
  /\ UNCHANGED payment

DepositsNext ==
  \/ \E p \in Payments :
       RecordGatewayTxnID(p) \/ \E supported \in BOOLEAN : CreateDeposit(p, supported)
  \/ \E r \in Requests :
       \/ HandleWebhookFind(r) \/ HandleWebhookComplete(r) \/ HandleWebhookFail(r)
       \/ WalletStep(r) \/ WalletAbort(r)

\* Every delivery will ask for what its payment says.
DeliveriesMatch ==
  \A r \in Requests : hook[r].step # "plain" => req[r] = CreditRequest(hook[r].payment)

DepositsSpec == /\ Init /\ DepositsInit /\ DeliveriesMatch
                /\ [][DepositsNext]_<<vars, depositVars>>
-----------------------------------------------------------------------------
DepositsTypeOK == payment \in [Payments -> Payment] /\ hook \in [Requests -> Hook]

CreditsOf(p) == {r \in wrote : hook[r].payment = p /\ hook[r].step # "plain"}

\* "Idempotency: check if already processed" (pricing_usecase.go:167): however
\* often the gateway delivers, a payment is credited once, and once more only
\* for each delivery that had read the row before another completed it.
CreditedOnce ==
  \A p \in Payments : Cardinality({r \in CreditsOf(p) : ~hook[r].overtaken}) <= 1

\* A completed payment is credited, or its Credit is under way, unless that
\* Credit was cut off, which no later delivery makes good
\* (pricing_usecase.go:182-192).
CompletedIsCredited ==
  \A p \in Payments : payment[p].state = "completed" =>
    \E r \in Requests :
      /\ hook[r].payment = p
      /\ \/ r \in CreditsOf(p)
         \/ hook[r].step = "credit" /\ pc[r] \notin Final
         \/ hook[r].step = "lost"
=============================================================================
