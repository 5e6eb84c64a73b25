---------------------------- MODULE ProxyOrders ----------------------------
(***************************************************************************)
(* The orders of proxy-service: the creation saga (order_usecase.go), the  *)
(* webhook that fulfils orders of asynchronous providers                   *)
(* (webhook_usecase.go), cancellation, renewal, admin locks                *)
(* (lock_usecase.go), PATCH, and the expiry scheduler (expiry_usecase.go). *)
(*                                                                         *)
(* Every statement on proxy.orders, call to billing-service and call to a  *)
(* provider is one step.  No usecase locks a row: each works on the copy   *)
(* it read and writes unconditionally.  A call to billing-service is one   *)
(* step on the wallet (AtomicWallet) that the caller may lose the answer   *)
(* of.  All orders of a run belong to one user.                            *)
(*                                                                         *)
(* A crash or a cancelled request context needs no action of its own: from *)
(* there on every call fails, which Faults allows call by call.            *)
(***************************************************************************)
EXTENDS WalletOps, FiniteSets, Functions

CONSTANTS
  Orders,       \* CreateOrder requests, and the orders they make
  Calls,        \* requests on existing orders that may be open at a time
  Ops,          \* which of the operations on existing orders are called
  Adapters,     \* what the registry may hold: "sync", "async", "none"
  Keys,         \* idempotency keys; "" is a request without one
  Prices,       \* bound: total amounts
  Durations,    \* bound: duration_days of the products; 0 for NULL
  CustomPrices, \* bound: prices a PATCH may set
  CustomTimes,  \* bound: expiry dates a PATCH may set
  Grace,        \* DefaultGracePeriod
  Horizon,      \* bound: the clock stops here
  Openings,     \* bound: balances the user may start with
  MaxInFlight,  \* how many requests and scheduler ticks overlap
  Faults        \* which calls may fail, or lose their answer

AllOps == {"cancel", "renew", "lock", "unlock", "fulfil", "patch"}
Adapter == {"sync", "async", "none"}

ASSUME ProxyAssumption ==
  /\ Orders # {} /\ IsFiniteSet(Orders) /\ IsFiniteSet(Calls)
  /\ Ops \subseteq AllOps /\ Adapters \subseteq Adapter
  /\ Prices \subseteq Nat \ {0} /\ Durations \subseteq Nat
  /\ CustomPrices \subseteq Nat /\ CustomTimes \subseteq Nat
  /\ Grace \in Nat /\ Horizon \in Nat /\ Openings \subseteq Nat
  /\ MaxInFlight \in Nat \ {0}
  /\ Faults \subseteq {"db", "billing", "provider"}

VARIABLES
  orders,    \* proxy.orders
  terms,     \* what each CreateOrder asks for, and what its product says
  wallet,    \* the user's row in billing.wallets
  resource,  \* the proxy of each order at its provider
  pc,        \* how far each CreateOrder is
  call,      \* the open requests on existing orders, with the row they read
  sweep,     \* the scheduler: its stage and the orders left on its list
  now,       \* the clock, in days
  opening    \* history: the balance the run started with

vars == <<orders, terms, wallet, resource, pc, call, sweep, now, opening>>

NoTime == -1   \* a NULL timestamp
NoPrice == -1  \* a NULL custom_price
Date == {NoTime} \cup Nat

Status == {"none", "pending", "processing", "active", "expired", "cancelled",
           "failed", "suspended"}
Delivered == {"active", "expired", "suspended"}

\* granted is history: the first expiry that the order was activated with.
OrderRow == [status: Status, ref: BOOLEAN, creds: BOOLEAN, expires: Date,
             custom: Date, price: {NoPrice} \cup Nat, granted: Date]
NoOrder == [status |-> "none", ref |-> FALSE, creds |-> FALSE, expires |-> NoTime,
            custom |-> NoTime, price |-> NoPrice, granted |-> NoTime]
Terms == [price: Prices, days: Durations, adapter: Adapters, key: Keys]

Working == {"checked", "placed", "held", "bought", "activated", "ordered", "saved",
            "releasing", "failing"}
CallStage == {"idle", "read", "told", "marked", "held", "unpaid", "paid", "resumed",
              "extended", "cleared", "fulfilled"}
Call == [op: AllOps, order: Orders, seen: OrderRow, at: CallStage]
-----------------------------------------------------------------------------
\* COALESCE(custom_expires_at, expires_at)
Effective(w) == IF w.custom # NoTime THEN w.custom ELSE w.expires

Overdue(o) ==
  orders[o].status = "active" /\ Effective(orders[o]) # NoTime /\ Effective(orders[o]) < now

GraceOver(o) ==
  /\ orders[o].status = "expired"
  /\ Effective(orders[o]) # NoTime
  /\ Effective(orders[o]) + Grace < now

\* activatedAt + duration_days
FirstExpiry(o) == IF terms[o].days = 0 THEN NoTime ELSE now + terms[o].days

\* Mutant: a renewal runs from the day it is made.
RenewedFromNow(o, w) == now + terms[o].days

\* A renewal runs from the old expiry, "NOT from now".
Renewed(o, w) == Effective(w) + terms[o].days
RenewPrice(o, w) == IF w.price # NoPrice THEN w.price ELSE terms[o].price

\* What UpdateAfterPurchase stores when there are credentials.
Activated(w, expiry) ==
  [w EXCEPT !.status = "active", !.ref = TRUE, !.creds = TRUE, !.expires = expiry,
            !.granted = IF w.creds THEN @ ELSE expiry]

\* Mutant: a cancelled order can be renewed.
AdmitsLateRenewal(op, o) ==
  LET s == orders[o].status
  IN  \/ op = "cancel" /\ s \in {"active", "pending", "expired"}
      \/ /\ op = "renew" /\ s \in {"expired", "cancelled"}
         /\ terms[o].days > 0 /\ Effective(orders[o]) # NoTime
      \/ op = "lock" /\ s \in {"active", "expired"}
      \/ op = "unlock" /\ s = "suspended"
      \/ op = "fulfil" /\ s = "processing"

\* The status checks that the operations make on the row they read.
Admits(op, o) ==
  LET s == orders[o].status
  IN  \/ op = "cancel" /\ s \in {"active", "pending", "expired"}
      \/ op = "renew" /\ s = "expired" /\ terms[o].days > 0 /\ Effective(orders[o]) # NoTime
      \/ op = "lock" /\ s \in {"active", "expired"}
      \/ op = "unlock" /\ s = "suspended"
      \/ op = "fulfil" /\ s = "processing"
-----------------------------------------------------------------------------
(***************************************************************************)
(* The three things a step may do.  Done and Failed say where the caller   *)
(* goes when the call succeeds and when it reports an error.               *)
(***************************************************************************)

\* A statement on proxy.orders.  One that reports an error may have run.
Save(o, new, Done, Failed) ==
  \/ orders' = [orders EXCEPT ![o] = new] /\ Done
  \/ "db" \in Faults /\ orders' \in {orders, [orders EXCEPT ![o] = new]} /\ Failed

SetStatus(o, s, Done, Failed) == Save(o, [orders[o] EXCEPT !.status = s], Done, Failed)

\* A request to billing-service.
Bill(kind, amount, Done, Failed) ==
  LET q == [kind |-> kind, amt |-> amount]
      accepted == ~InvalidAmount(q) /\ ~Insufficient(q, wallet)
  IN  \/ accepted /\ wallet' = Updated(q, wallet) /\ Done
      \/ ~accepted /\ wallet' = wallet /\ Failed
      \/ /\ accepted /\ "billing" \in Faults
         /\ wallet' \in {wallet, Updated(q, wallet)} /\ Failed

\* Mutant: the provider is left in a state that no caller knows.
AfterSuspended(command, r) ==
  IF command = "cancel" THEN "deleted" ELSE IF command = "suspend" THEN "suspended" ELSE "running"

\* Mutant: Resume is not implemented.
AfterNoResume(command, r) ==
  IF command = "cancel" THEN "deleted"
  ELSE IF command = "suspend" /\ r = "running" THEN "stopped"
  ELSE r

\* Suspend, Resume and Cancel of a provider.  Callers log an error and go on;
\* adapters without such an API do nothing.
After(command, r) ==
  IF command = "cancel" THEN "deleted"
  ELSE IF command = "suspend" /\ r = "running" THEN "stopped"
  ELSE IF command = "resume" /\ r = "stopped" THEN "running"
  ELSE r

Tell(o, ref, command) ==
  LET told == [resource EXCEPT ![o] = After(command, @)]
  IN  IF ref /\ terms[o].adapter = "sync"
      THEN \/ resource' = told
           \/ "provider" \in Faults /\ resource' = resource
      ELSE resource' = resource
-----------------------------------------------------------------------------
(***************************************************************************)
(* The saga of CreateOrder.  A request that fails validation or pricing    *)
(* changes nothing and is left out.                                        *)
(***************************************************************************)

InFlight ==
  Cardinality({o \in Orders : pc[o] \in Working})
  + Cardinality({c \in Calls : call[c].at # "idle"})
  + (IF sweep.stage = "idle" THEN 0 ELSE 1)
MayStart == InFlight < MaxInFlight

Goto(o, stage) == pc' = [pc EXCEPT ![o] = stage]

Placed(o) == orders[o].status # "none"

\* GetByIdempotencyKey; an error counts as "not found".
Lookup(o) ==
  LET known == terms[o].key # "" /\ \E p \in Orders : Placed(p) /\ terms[p].key = terms[o].key
  IN  /\ pc[o] = "arrived" /\ MayStart
      /\ \/ known /\ Goto(o, "done")
         \/ (~known \/ "db" \in Faults) /\ Goto(o, "checked")
      /\ UNCHANGED <<orders, terms, wallet, resource, call, sweep, now, opening>>

\* Mutant: no UNIQUE on idempotency_key.
KeyNeverTaken(o) == FALSE

\* idempotency_key is UNIQUE, and "" is a key like any other.
KeyTaken(o) == \E p \in Orders : Placed(p) /\ terms[p].key = terms[o].key

\* orderRepo.Create
Insert(o) ==
  /\ pc[o] = "checked"
  /\ IF KeyTaken(o) THEN Goto(o, "done") /\ orders' = orders
     ELSE SetStatus(o, "pending", Goto(o, "placed"), Goto(o, "done"))
  /\ UNCHANGED <<terms, wallet, resource, call, sweep, now, opening>>

\* Mutant: a refused hold leaves the order as it is.
HoldFundsOrLeave(o) ==
  /\ pc[o] = "placed"
  /\ Bill("hold", terms[o].price, Goto(o, "held"), Goto(o, "done"))
  /\ UNCHANGED <<orders, terms, resource, call, sweep, now, opening>>

HoldFunds(o) ==
  /\ pc[o] = "placed"
  /\ Bill("hold", terms[o].price, Goto(o, "held"), Goto(o, "failing"))
  /\ UNCHANGED <<orders, terms, resource, call, sweep, now, opening>>

\* The registry may hold no adapter for the provider, and the provider may
\* refuse; one that reports an error may have sold the proxy all the same.
Purchase(o) ==
  /\ pc[o] = "held"
  /\ \/ /\ terms[o].adapter # "none"
        /\ resource' = [resource EXCEPT ![o] = "running"]
        /\ Goto(o, IF terms[o].adapter = "sync" THEN "bought" ELSE "ordered")
     \/ Goto(o, "releasing") /\ resource' = resource
     \/ /\ terms[o].adapter # "none" /\ "provider" \in Faults
        /\ resource' = [resource EXCEPT ![o] = "running"]
        /\ Goto(o, "releasing")
  /\ UNCHANGED <<orders, terms, wallet, call, sweep, now, opening>>

Activate(o) ==
  /\ pc[o] = "bought"
  /\ Save(o, Activated(orders[o], FirstExpiry(o)), Goto(o, "activated"), Goto(o, "releasing"))
  /\ UNCHANGED <<terms, wallet, resource, call, sweep, now, opening>>

\* The result of ConfirmHold is not looked at.
ConfirmFunds(o) ==
  /\ pc[o] = "activated"
  /\ Bill("confirm", terms[o].price, Goto(o, "done"), Goto(o, "done"))
  /\ UNCHANGED <<orders, terms, resource, call, sweep, now, opening>>

\* Mutant: UpdateAfterPurchase always activates.
SaveRefActive(o) ==
  /\ pc[o] = "ordered"
  /\ Save(o, [orders[o] EXCEPT !.ref = TRUE, !.creds = FALSE, !.expires = NoTime,
                               !.status = "active"],
          Goto(o, "saved"), Goto(o, "releasing"))
  /\ UNCHANGED <<terms, wallet, resource, call, sweep, now, opening>>

\* UpdateAfterPurchase without credentials keeps the status.
SaveRef(o) ==
  /\ pc[o] = "ordered"
  /\ Save(o, [orders[o] EXCEPT !.ref = TRUE, !.creds = FALSE, !.expires = NoTime],
          Goto(o, "saved"), Goto(o, "releasing"))
  /\ UNCHANGED <<terms, wallet, resource, call, sweep, now, opening>>

MarkProcessing(o) ==
  /\ pc[o] = "saved"
  /\ SetStatus(o, "processing", Goto(o, "done"), Goto(o, "done"))
  /\ UNCHANGED <<terms, wallet, resource, call, sweep, now, opening>>

\* Mutant: no compensation.
ReleaseNothing(o) ==
  /\ pc[o] = "releasing" /\ Goto(o, "failing")
  /\ UNCHANGED <<orders, terms, wallet, resource, call, sweep, now, opening>>

\* The compensation, and the end of every failed saga.
ReleaseFunds(o) ==
  /\ pc[o] = "releasing"
  /\ Bill("release", terms[o].price, Goto(o, "failing"), Goto(o, "failing"))
  /\ UNCHANGED <<orders, terms, resource, call, sweep, now, opening>>

MarkFailed(o) ==
  /\ pc[o] = "failing"
  /\ SetStatus(o, "failed", Goto(o, "done"), Goto(o, "done"))
  /\ UNCHANGED <<terms, wallet, resource, call, sweep, now, opening>>

Create(o) ==
  \/ Lookup(o) \/ Insert(o) \/ HoldFunds(o) \/ Purchase(o) \/ Activate(o)
  \/ ConfirmFunds(o) \/ SaveRef(o) \/ MarkProcessing(o) \/ ReleaseFunds(o) \/ MarkFailed(o)
-----------------------------------------------------------------------------
(***************************************************************************)
(* Requests on existing orders.  A request that its checks refuse changes  *)
(* nothing and is left out.                                                *)
(***************************************************************************)

Idle == [op |-> "cancel", order |-> CHOOSE o \in Orders : TRUE, seen |-> NoOrder,
         at |-> "idle"]

At(c, op, stage) == call[c].op = op /\ call[c].at = stage
Move(c, stage) == call' = [call EXCEPT ![c].at = stage]
Leave(c) == call' = [call EXCEPT ![c] = Idle]

\* GetByID (GetByProviderOrderID for the webhook), and the checks.
Read(c) ==
  /\ call[c].at = "idle" /\ MayStart
  /\ \E op \in Ops, o \in Orders :
       /\ Admits(op, o)
       /\ call' = [call EXCEPT ![c] = [op |-> op, order |-> o, seen |-> orders[o],
                                       at |-> "read"]]
  /\ UNCHANGED <<orders, terms, wallet, resource, pc, sweep, now, opening>>

\* CancelOrder, LockOrder and UnlockOrder go to the provider first.
TellProvider(c) ==
  LET o == call[c].order
  IN  /\ \/ At(c, "cancel", "read") /\ Tell(o, call[c].seen.ref, "cancel")
         \/ At(c, "lock", "read") /\ Tell(o, call[c].seen.ref, "suspend")
         \/ At(c, "unlock", "read") /\ Tell(o, call[c].seen.ref, "resume")
      /\ Move(c, "told")
      /\ UNCHANGED <<orders, terms, wallet, pc, sweep, now, opening>>

\* Only a cancellation that read active or pending goes on to release the hold.
MarkCancelled(c) ==
  /\ At(c, "cancel", "told")
  /\ SetStatus(call[c].order, "cancelled",
               IF call[c].seen.status \in {"active", "pending"} THEN Move(c, "marked")
               ELSE Leave(c),
               Leave(c))
  /\ UNCHANGED <<terms, wallet, resource, pc, sweep, now, opening>>

Refund(c) ==
  /\ At(c, "cancel", "marked")
  /\ Bill("release", terms[call[c].order].price, Leave(c), Leave(c))
  /\ UNCHANGED <<orders, terms, resource, pc, sweep, now, opening>>

MarkLocked(c) ==
  /\ At(c, "lock", "told")
  /\ SetStatus(call[c].order, "suspended", Leave(c), Leave(c))
  /\ UNCHANGED <<terms, wallet, resource, pc, sweep, now, opening>>

\* The last statement of UnlockOrder and of RenewOrder.
MarkActive(c) ==
  /\ At(c, "unlock", "told") \/ At(c, "renew", "cleared")
  /\ SetStatus(call[c].order, "active", Leave(c), Leave(c))
  /\ UNCHANGED <<terms, wallet, resource, pc, sweep, now, opening>>
-----------------------------------------------------------------------------
\* RenewOrder holds, confirms, resumes the proxy, then writes three times.
HoldRenewal(c) ==
  /\ At(c, "renew", "read")
  /\ Bill("hold", RenewPrice(call[c].order, call[c].seen), Move(c, "held"), Leave(c))
  /\ UNCHANGED <<orders, terms, resource, pc, sweep, now, opening>>

ConfirmRenewal(c) ==
  /\ At(c, "renew", "held")
  /\ Bill("confirm", RenewPrice(call[c].order, call[c].seen), Move(c, "paid"), Move(c, "unpaid"))
  /\ UNCHANGED <<orders, terms, resource, pc, sweep, now, opening>>

ReleaseRenewal(c) ==
  /\ At(c, "renew", "unpaid")
  /\ Bill("release", RenewPrice(call[c].order, call[c].seen), Leave(c), Leave(c))
  /\ UNCHANGED <<orders, terms, resource, pc, sweep, now, opening>>

ResumeRenewed(c) ==
  /\ At(c, "renew", "paid")
  /\ Tell(call[c].order, call[c].seen.ref, "resume")
  /\ Move(c, "resumed")
  /\ UNCHANGED <<orders, terms, wallet, pc, sweep, now, opening>>

\* UpdateAfterPurchase with what the request read, and the new expiry.
Extend(c) ==
  LET o == call[c].order
      w == call[c].seen
  IN  /\ At(c, "renew", "resumed")
      /\ Save(o, [orders[o] EXCEPT !.ref = w.ref, !.creds = w.creds,
                                   !.expires = Renewed(o, w),
                                   !.status = IF w.creds THEN "active" ELSE @],
              Move(c, "extended"), Leave(c))
      /\ UNCHANGED <<terms, wallet, resource, pc, sweep, now, opening>>

\* UpdateOrder(nil, nil, ...) clears the custom price with the custom expiry.
ClearCustom(c) ==
  LET o == call[c].order
  IN  /\ At(c, "renew", "extended")
      /\ Save(o, [orders[o] EXCEPT !.custom = NoTime, !.price = NoPrice],
              Move(c, "cleared"), Move(c, "cleared"))
      /\ UNCHANGED <<terms, wallet, resource, pc, sweep, now, opening>>
-----------------------------------------------------------------------------
\* FulfillFromProxyCheap: the expiry is the provider's, or the product's.
Fulfil(c) ==
  LET o == call[c].order
  IN  /\ At(c, "fulfil", "read")
      /\ \E expiry \in {FirstExpiry(o), now + 1} :
           Save(o, Activated(orders[o], expiry), Move(c, "fulfilled"), Leave(c))
      /\ UNCHANGED <<terms, wallet, resource, pc, sweep, now, opening>>

ConfirmFulfilled(c) ==
  /\ At(c, "fulfil", "fulfilled")
  /\ Bill("confirm", terms[call[c].order].price, Leave(c), Leave(c))
  /\ UNCHANGED <<orders, terms, resource, pc, sweep, now, opening>>

Proceed(c) ==
  \/ TellProvider(c) \/ MarkCancelled(c) \/ Refund(c) \/ MarkLocked(c) \/ MarkActive(c)
  \/ HoldRenewal(c) \/ ConfirmRenewal(c) \/ ReleaseRenewal(c) \/ ResumeRenewed(c)
  \/ Extend(c) \/ ClearCustom(c) \/ Fulfil(c) \/ ConfirmFulfilled(c)

\* PATCH: ownership is checked, then one UpdateOrder with whatever was sent.
PatchOrder(o) ==
  /\ "patch" \in Ops /\ Placed(o) /\ MayStart
  /\ \E price \in CustomPrices \cup {NoPrice}, expiry \in CustomTimes \cup {NoTime} :
       orders' = [orders EXCEPT ![o].price = price, ![o].custom = expiry]
  /\ UNCHANGED <<terms, wallet, resource, pc, call, sweep, now, opening>>
-----------------------------------------------------------------------------
(***************************************************************************)
(* The scheduler: one tick is ProcessExpired, then ProcessGraceExpired.  A *)
(* tick that lists nothing changes nothing and is left out.                *)
(***************************************************************************)

ListExpired ==
  /\ sweep.stage = "idle" /\ MayStart
  /\ \E o \in Orders : Overdue(o) \/ GraceOver(o)
  /\ sweep' = [stage |-> "expiring", left |-> {o \in Orders : Overdue(o)}, told |-> {}]
  /\ UNCHANGED <<orders, terms, wallet, resource, pc, call, now, opening>>

SuspendExpired(o) ==
  /\ sweep.stage = "expiring" /\ o \in sweep.left /\ sweep.told = {}
  /\ Tell(o, orders[o].ref, "suspend")
  /\ sweep' = [sweep EXCEPT !.told = {o}]
  /\ UNCHANGED <<orders, terms, wallet, pc, call, now, opening>>

Skip(o) == sweep' = [sweep EXCEPT !.left = @ \ {o}, !.told = {}]

MarkExpired(o) ==
  /\ sweep.stage = "expiring" /\ o \in sweep.told
  /\ SetStatus(o, "expired", Skip(o), Skip(o))
  /\ UNCHANGED <<terms, wallet, resource, pc, call, now, opening>>

\* Mutant: the grace list asks for active orders.
ListGraceActive ==
  /\ sweep.stage = "expiring" /\ sweep.left = {}
  /\ sweep' = [stage |-> "purging", left |-> {o \in Orders : Overdue(o)}, told |-> {}]
  /\ UNCHANGED <<orders, terms, wallet, resource, pc, call, now, opening>>

ListGrace ==
  /\ sweep.stage = "expiring" /\ sweep.left = {}
  /\ sweep' = [stage |-> "purging", left |-> {o \in Orders : GraceOver(o)}, told |-> {}]
  /\ UNCHANGED <<orders, terms, wallet, resource, pc, call, now, opening>>

DeleteProxy(o) ==
  /\ sweep.stage = "purging" /\ o \in sweep.left /\ sweep.told = {}
  /\ Tell(o, orders[o].ref, "cancel")
  /\ sweep' = [sweep EXCEPT !.told = {o}]
  /\ UNCHANGED <<orders, terms, wallet, pc, call, now, opening>>

MarkDeleted(o) ==
  /\ sweep.stage = "purging" /\ o \in sweep.told
  /\ SetStatus(o, "cancelled", Skip(o), Skip(o))
  /\ UNCHANGED <<terms, wallet, resource, pc, call, now, opening>>

EndTick ==
  /\ sweep.stage = "purging" /\ sweep.left = {}
  /\ sweep' = [sweep EXCEPT !.stage = "idle"]
  /\ UNCHANGED <<orders, terms, wallet, resource, pc, call, now, opening>>

Sweep ==
  \/ ListExpired \/ ListGrace \/ EndTick
  \/ \E o \in Orders : SuspendExpired(o) \/ MarkExpired(o) \/ DeleteProxy(o) \/ MarkDeleted(o)

Tick ==
  /\ now < Horizon /\ now' = now + 1
  /\ UNCHANGED <<orders, terms, wallet, resource, pc, call, sweep, opening>>
-----------------------------------------------------------------------------
Init ==
  /\ orders = [o \in Orders |-> NoOrder]
  /\ terms \in [Orders -> Terms]
  /\ wallet \in [bal: Openings, hold: {0}]
  /\ resource = [o \in Orders |-> "none"]
  /\ pc = [o \in Orders |-> "arrived"]
  /\ call = [c \in Calls |-> Idle]
  /\ sweep = [stage |-> "idle", left |-> {}, told |-> {}]
  /\ now = 0
  /\ opening = wallet.bal

Next ==
  \/ \E o \in Orders : Create(o) \/ PatchOrder(o)
  \/ \E c \in Calls : Read(c) \/ Proceed(c)
  \/ Sweep \/ Tick

\* Requests that were accepted run to their end, and the ticker fires.
Fairness ==
  /\ \A o \in Orders : WF_vars(Create(o))
  /\ \A c \in Calls : WF_vars(Proceed(c))
  /\ WF_vars(Sweep)

Spec == Init /\ [][Next]_vars
FairSpec == Spec /\ Fairness

TypeOK ==
  /\ orders \in [Orders -> OrderRow]
  /\ terms \in [Orders -> Terms]
  /\ wallet \in Row
  /\ resource \in [Orders -> {"none", "running", "stopped", "deleted"}]
  /\ pc \in [Orders -> Working \cup {"arrived", "done"}]
  /\ call \in [Calls -> Call]
  /\ sweep \in [stage: {"idle", "expiring", "purging"}, left: SUBSET Orders,
                told: SUBSET Orders]
  /\ now \in Nat
  /\ opening \in Nat
-----------------------------------------------------------------------------
(***************************************************************************)
(* The money.                                                              *)
(***************************************************************************)

\* The saga of o holds its price: from the Hold until the ConfirmHold or the
\* ReleaseHold, or until the webhook has confirmed.
Escrowed(o) ==
  \/ pc[o] \in {"held", "bought", "activated", "ordered", "saved", "releasing"}
  \/ pc[o] = "done" /\ orders[o].status = "processing"
  \/ \E c \in Calls : At(c, "fulfil", "fulfilled") /\ call[c].order = o

Escrow ==
  SumFunctionOnSet([o \in Orders |-> terms[o].price], {o \in Orders : Escrowed(o)})

Renewing == {c \in Calls : call[c].op = "renew" /\ call[c].at \in {"held", "unpaid"}}
RenewalEscrow ==
  SumFunctionOnSet([c \in Calls |-> RenewPrice(call[c].order, call[c].seen)], Renewing)

\* With a reliable billing-service and no cancellation, what is on hold is
\* the price of the orders and renewals under way: no saga forgets its hold,
\* releases it twice or confirms another's (order_usecase.go:162-242).
HoldsMatchOrders == wallet.hold = Escrow + RenewalEscrow

\* "Refund only if order is still active (billing hold not yet confirmed for
\* expired orders)" (order_usecase.go:333): a cancellation releases funds that
\* are on hold for the cancelled order, never those of another.
RefundsOwnHold ==
  [][\A c \in Calls :
       At(c, "cancel", "marked") /\ call'[c].at = "idle" /\ wallet' # wallet
         => Escrowed(call[c].order)]_vars

Paying == {c \in Calls : call[c].op = "renew" /\ call[c].at \in {"paid", "resumed"}}

\* The periods that an order has been given: the first, and its renewals.
Periods(o) ==
  IF terms[o].days = 0 THEN 1
  ELSE 1 + (orders[o].expires - orders[o].granted) \div terms[o].days

\* Whenever no order is between its activation and its charge, every period
\* served was paid, at its price, and nothing else was: late renewals lose no
\* days, and no price is charged for a period that was not granted
\* (order_usecase.go:361-363, 395-409).
PeriodsPaid ==
  Paying = {} /\ (\A o \in Orders : pc[o] # "activated")
    /\ (\A c \in Calls : call[c].at # "fulfilled")
  => wallet.bal = opening
       - SumFunctionOnSet([o \in Orders |-> terms[o].price * Periods(o)],
                          {o \in Orders : orders[o].creds})

\* A wallet is never overdrawn, whatever fails and however the sagas overlap.
WalletSolvent == SolventRow(wallet)
-----------------------------------------------------------------------------
(***************************************************************************)
(* The orders.                                                             *)
(***************************************************************************)

\* An order that GetCredentials may serve, now or after a renewal or an
\* unlock, has its credentials stored: no race of the saga, the webhook,
\* renewals, locks and the scheduler serves an order without them
\* (order_usecase.go:274, proxy_repo.go:104).
ServedHasCredentials ==
  \A o \in Orders : orders[o].status \in Delivered => orders[o].creds

\* Retries of a CreateOrder with one key buy at most one proxy, also when
\* they overlap and when the first of them failed (order_usecase.go:93; UNIQUE
\* in migration 000004).
OnePurchasePerKey ==
  \A o, p \in Orders :
    o # p /\ terms[o].key = terms[p].key /\ terms[o].key # "" =>
      resource[o] = "none" \/ resource[p] = "none"

\* With no request open, the provider runs exactly the proxies of the active
\* orders and has deleted those of the cancelled ones.
ProviderAgrees ==
  InFlight = 0 =>
    \A o \in Orders : terms[o].adapter = "sync" =>
      /\ orders[o].status = "active" <=> resource[o] = "running"
      /\ orders[o].status \in {"expired", "suspended"} <=> resource[o] = "stopped"
      /\ orders[o].status = "cancelled" <=> resource[o] = "deleted"

\* "cancelled/failed/refunded are terminal" (order_usecase.go:311).
TerminalStays ==
  [][\A o \in Orders : orders[o].status \in {"cancelled", "failed"}
       => orders'[o].status = orders[o].status]_vars

\* Every order that is placed leaves "pending" (order_usecase.go:162-240).
EveryOrderSettles ==
  \A o \in Orders : orders[o].status = "pending" ~> orders[o].status # "pending"

\* An order past its expiry stops being active, and one past its grace period
\* stops being expired (expiry_usecase.go:51-121).
OverdueOrdersLeave ==
  \A o \in Orders : /\ Overdue(o) ~> ~Overdue(o)
                    /\ GraceOver(o) ~> ~GraceOver(o)

\* Requests that do not overlap follow the lifecycle.
Lifecycle == INSTANCE OrderLifecycle WITH
  status <- [o \in Orders |-> orders[o].status],
  creds <- {o \in Orders : orders[o].creds}
ImplementsOrderLifecycle == Lifecycle!Spec
=============================================================================
