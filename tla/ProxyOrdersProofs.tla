------------------------- MODULE ProxyOrdersProofs -------------------------
(***************************************************************************)
(* Proofs about ProxyOrders, for any number of orders and requests, any    *)
(* overlap of them and any failure.                                        *)
(***************************************************************************)
EXTENDS ProxyOrders, WalletOpsProofs, FiniteSetTheorems

\* The stages of a saga that has not stored credentials.
Early == {"arrived", "checked", "placed", "held", "bought", "ordered"}

\* The saga stores credentials once, and clears them only before that.
EarlyWithout == \A o \in Orders : pc[o] \in Early => ~orders[o].creds

\* An order waits for the webhook once its saga is over.
ProcessingDone == \A o \in Orders : orders[o].status = "processing" => pc[o] = "done"

\* What the row that a request read implies about the row as it is now.
OpenBacked ==
  \A c \in Calls : call[c].at # "idle" =>
    /\ call[c].op \in {"lock", "unlock", "renew"} => orders[call[c].order].creds
    /\ call[c].op = "renew" => /\ call[c].seen.creds
                               /\ Effective(call[c].seen) # NoTime
    /\ call[c].op = "fulfil" => pc[call[c].order] = "done"

\* The scheduler expires orders that were delivered.
SweptBacked ==
  sweep.stage = "expiring" => \A o \in sweep.left \cup sweep.told : orders[o].creds

IInv ==
  /\ TypeOK
  /\ WalletSolvent
  /\ ServedHasCredentials
  /\ EarlyWithout
  /\ ProcessingDone
  /\ OpenBacked
  /\ SweptBacked
-----------------------------------------------------------------------------
(***************************************************************************)
(* The wallet.                                                             *)
(***************************************************************************)

\* A call to billing-service either did nothing or applied one operation that
\* the row covered.
Settles(kind, amount) ==
  \/ wallet' = wallet
  \/ LET q == [kind |-> kind, amt |-> amount]
     IN  ~Insufficient(q, wallet) /\ wallet' = Updated(q, wallet)

\* Holds, confirmations and releases keep a solvent wallet solvent.
LEMMA SettlesSolvent ==
  ASSUME wallet \in Row, SolventRow(wallet), NEW kind \in Kinds, NEW amount \in Nat,
         Settles(kind, amount)
  PROVE  wallet' \in Row /\ SolventRow(wallet')
<1> DEFINE q == [kind |-> kind, amt |-> amount]
<1>1. CASE wallet' = wallet
  BY <1>1
<1>2. CASE ~Insufficient(q, wallet) /\ wallet' = Updated(q, wallet)
  <2>1. q.kind \in Kinds /\ q.amt \in Nat
    OBVIOUS
  <2> HIDE DEF q
  <2> QED BY <1>2, <2>1, UpdatedSolvent
<1> QED BY <1>1, <1>2 DEF Settles

\* A renewal costs the order's total or its custom price.
LEMMA RenewPriceNat ==
  ASSUME TypeOK, NEW c \in Calls
  PROVE  RenewPrice(call[c].order, call[c].seen) \in Nat
BY ProxyAssumption DEF TypeOK, RenewPrice, Call, OrderRow, Terms, NoPrice

\* Every step of the sagas, the requests and the scheduler leaves the wallet
\* solvent (billing_client.go: the four calls).
LEMMA WalletStep == IInv /\ [Next]_vars => wallet' \in Row /\ WalletSolvent'
<1> SUFFICES ASSUME IInv, [Next]_vars PROVE wallet' \in Row /\ SolventRow(wallet')
  BY DEF WalletSolvent
<1>1. TypeOK /\ wallet \in Row /\ SolventRow(wallet)
  BY DEF IInv, TypeOK, WalletSolvent
<1>2. \A o \in Orders : terms[o].price \in Nat
  BY <1>1, ProxyAssumption DEF TypeOK, Terms
<1>3. "hold" \in Kinds /\ "confirm" \in Kinds /\ "release" \in Kinds
  BY DEF Kinds
<1>4. CASE wallet' = wallet
  BY <1>1, <1>4
<1>5. ASSUME NEW o \in Orders, HoldFunds(o) \/ ConfirmFunds(o) \/ ReleaseFunds(o)
      PROVE  wallet' \in Row /\ SolventRow(wallet')
  <2>1. \/ Settles("hold", terms[o].price)
        \/ Settles("confirm", terms[o].price)
        \/ Settles("release", terms[o].price)
    BY <1>5 DEF HoldFunds, ConfirmFunds, ReleaseFunds, Bill, Settles
  <2> QED BY <1>1, <1>2, <1>3, <2>1, SettlesSolvent
<1>6. ASSUME NEW c \in Calls, Refund(c) \/ ConfirmFulfilled(c)
      PROVE  wallet' \in Row /\ SolventRow(wallet')
  <2>1. call[c].order \in Orders
    BY <1>1 DEF TypeOK, Call
  <2>2. \/ Settles("confirm", terms[call[c].order].price)
        \/ Settles("release", terms[call[c].order].price)
    BY <1>6 DEF Refund, ConfirmFulfilled, Bill, Settles
  <2> QED BY <1>1, <1>2, <1>3, <2>1, <2>2, SettlesSolvent
<1>7. ASSUME NEW c \in Calls, HoldRenewal(c) \/ ConfirmRenewal(c) \/ ReleaseRenewal(c)
      PROVE  wallet' \in Row /\ SolventRow(wallet')
  <2> DEFINE amount == RenewPrice(call[c].order, call[c].seen)
  <2>1. amount \in Nat
    BY <1>1, RenewPriceNat
  <2>2. Settles("hold", amount) \/ Settles("confirm", amount) \/ Settles("release", amount)
    BY <1>7 DEF HoldRenewal, ConfirmRenewal, ReleaseRenewal, Bill, Settles
  <2> HIDE DEF amount
  <2> QED BY <1>1, <1>3, <2>1, <2>2, SettlesSolvent
<1>8. ASSUME NEW o \in Orders,
             \/ Lookup(o) \/ Insert(o) \/ Purchase(o) \/ Activate(o) \/ SaveRef(o)
             \/ MarkProcessing(o) \/ MarkFailed(o) \/ PatchOrder(o)
      PROVE  wallet' = wallet
  BY <1>8 DEF Lookup, Insert, Purchase, Activate, SaveRef, MarkProcessing, MarkFailed,
     PatchOrder
<1>9. ASSUME NEW c \in Calls,
             \/ Read(c) \/ TellProvider(c) \/ MarkCancelled(c) \/ MarkLocked(c)
             \/ MarkActive(c) \/ ResumeRenewed(c) \/ Extend(c) \/ ClearCustom(c) \/ Fulfil(c)
      PROVE  wallet' = wallet
  BY <1>9 DEF Read, TellProvider, MarkCancelled, MarkLocked, MarkActive, ResumeRenewed,
     Extend, ClearCustom, Fulfil
<1>10. ASSUME Sweep \/ Tick PROVE wallet' = wallet
  BY <1>10 DEF Sweep, Tick, ListExpired, ListGrace, EndTick, SuspendExpired, MarkExpired,
     DeleteProxy, MarkDeleted
<1>11. CASE UNCHANGED vars
  BY <1>4, <1>11 DEF vars
<1> QED
  BY <1>4, <1>5, <1>6, <1>7, <1>8, <1>9, <1>10, <1>11 DEF Next, Create, Proceed
-----------------------------------------------------------------------------
(***************************************************************************)
(* What every step but the two that take a fresh reading does.             *)
(***************************************************************************)

\* Credentials are kept, and an order is delivered with them.
OrdersCarryOn ==
  \A o \in Orders : /\ orders[o].creds => orders'[o].creds
                    /\ orders'[o].status \in Delivered => orders'[o].creds

\* A saga ends once.
SagasCarryOn ==
  \A o \in Orders : /\ pc[o] = "done" => pc'[o] = "done"
                    /\ pc'[o] \in Early => ~orders'[o].creds
                    /\ orders'[o].status = "processing" => pc'[o] = "done"

\* A request keeps its operation, its order and the row it read.
CallsCarryOn ==
  \A c \in Calls : call'[c].at # "idle" =>
    /\ call[c].at # "idle"
    /\ call'[c].op = call[c].op /\ call'[c].order = call[c].order
    /\ call'[c].seen = call[c].seen

\* The list of expired orders only shrinks.
SweepCarriesOn ==
  sweep'.stage = "expiring" =>
    /\ sweep.stage = "expiring"
    /\ sweep'.left \cup sweep'.told \subseteq sweep.left \cup sweep.told

\* Such a step keeps the invariant.
LEMMA CarryOn ==
  ASSUME IInv, TypeOK', WalletSolvent', OrdersCarryOn, SagasCarryOn, CallsCarryOn,
         SweepCarriesOn
  PROVE  IInv'
<1>1. ServedHasCredentials'
  BY DEF ServedHasCredentials, OrdersCarryOn
<1>2. EarlyWithout' /\ ProcessingDone'
  BY DEF EarlyWithout, ProcessingDone, SagasCarryOn
<1>3. OpenBacked'
  <2> SUFFICES ASSUME NEW c \in Calls, call'[c].at # "idle"
               PROVE  /\ call'[c].op \in {"lock", "unlock", "renew"}
                           => orders'[call'[c].order].creds
                      /\ call'[c].op = "renew" => /\ call'[c].seen.creds
                                                  /\ Effective(call'[c].seen) # NoTime
                      /\ call'[c].op = "fulfil" => pc'[call'[c].order] = "done"
    BY DEF OpenBacked, Effective, NoTime
  <2>1. /\ call[c].at # "idle" /\ call'[c].op = call[c].op
        /\ call'[c].order = call[c].order /\ call'[c].seen = call[c].seen
    BY DEF CallsCarryOn
  <2>2. call[c].order \in Orders
    BY DEF IInv, TypeOK, Call
  <2> QED BY <2>1, <2>2 DEF IInv, OpenBacked, OrdersCarryOn, SagasCarryOn
<1>4. SweptBacked'
  <2> SUFFICES ASSUME sweep'.stage = "expiring", NEW o \in sweep'.left \cup sweep'.told
               PROVE  orders'[o].creds
    BY DEF SweptBacked
  <2>1. sweep.stage = "expiring" /\ o \in sweep.left \cup sweep.told
    BY DEF SweepCarriesOn
  <2>2. o \in Orders
    BY <2>1 DEF IInv, TypeOK
  <2> QED BY <2>1, <2>2 DEF IInv, SweptBacked, OrdersCarryOn
<1> QED BY <1>1, <1>2, <1>3, <1>4 DEF IInv
-----------------------------------------------------------------------------
(***************************************************************************)
(* Statements on proxy.orders.                                             *)
(***************************************************************************)

\* A statement outside the sagas may deliver an order whose saga is over or
\* that has credentials, and makes none wait for the webhook.
LEMMA RowWritten ==
  ASSUME IInv, pc' = pc, NEW o \in Orders, NEW new \in OrderRow,
         orders' \in {orders, [orders EXCEPT ![o] = new]},
         orders[o].creds => new.creds,
         new.status \in Delivered => new.creds,
         new.creds => orders[o].creds \/ pc[o] = "done",
         new.status = "processing" => orders[o].status = "processing"
  PROVE  orders' \in [Orders -> OrderRow] /\ OrdersCarryOn /\ SagasCarryOn
<1>1. orders \in [Orders -> OrderRow] /\ "done" \notin Early
  BY DEF IInv, TypeOK, Early
<1>2. orders' \in [Orders -> OrderRow]
  BY <1>1
<1>3. \A p \in Orders : orders'[p] = orders[p] \/ (p = o /\ orders'[p] = new)
  BY <1>1
<1>4. OrdersCarryOn
  BY <1>3 DEF OrdersCarryOn, IInv, ServedHasCredentials
<1>5. SagasCarryOn
  BY <1>1, <1>3 DEF SagasCarryOn, IInv, EarlyWithout, ProcessingDone
<1> QED BY <1>2, <1>4, <1>5

\* UpdateStatus keeps the credentials (proxy_repo.go:81).
LEMMA StatusWritten ==
  ASSUME IInv, pc' = pc, NEW o \in Orders, NEW s \in Status \ {"processing"},
         s \in Delivered => orders[o].creds,
         orders' \in {orders, [orders EXCEPT ![o] = [orders[o] EXCEPT !.status = s]]}
  PROVE  orders' \in [Orders -> OrderRow] /\ OrdersCarryOn /\ SagasCarryOn
<1> DEFINE new == [orders[o] EXCEPT !.status = s]
<1>1. orders[o] \in OrderRow
  BY DEF IInv, TypeOK
<1>2. new \in OrderRow /\ new.creds = orders[o].creds /\ new.status = s
  BY <1>1 DEF OrderRow
<1>3. orders' \in {orders, [orders EXCEPT ![o] = new]}
  OBVIOUS
<1> HIDE DEF new
<1> QED BY <1>2, <1>3, RowWritten

\* A saga stores credentials on its way from an early stage to a late one.
LEMMA SagaWritten ==
  ASSUME IInv, NEW o \in Orders, NEW new \in OrderRow, pc[o] # "done",
         NEW s \in Working \cup {"done"}, pc' = [pc EXCEPT ![o] = s],
         orders' \in {orders, [orders EXCEPT ![o] = new]},
         orders[o].creds => new.creds,
         new.status \in Delivered => new.creds,
         s \in Early => pc[o] \in Early /\ ~new.creds,
         new.status = "processing" => s = "done"
  PROVE  /\ orders' \in [Orders -> OrderRow] /\ OrdersCarryOn
         /\ pc' \in [Orders -> Working \cup {"arrived", "done"}] /\ SagasCarryOn
<1>1. /\ orders \in [Orders -> OrderRow]
      /\ pc \in [Orders -> Working \cup {"arrived", "done"}]
  BY DEF IInv, TypeOK
<1>2. orders' \in [Orders -> OrderRow]
  BY <1>1
<1>3. pc' \in [Orders -> Working \cup {"arrived", "done"}]
  BY <1>1
<1>4. \A p \in Orders : orders'[p] = orders[p] \/ (p = o /\ orders'[p] = new)
  BY <1>1
<1>5. \A p \in Orders : IF p = o THEN pc'[p] = s ELSE pc'[p] = pc[p]
  BY <1>1
<1>6. OrdersCarryOn
  BY <1>4 DEF OrdersCarryOn, IInv, ServedHasCredentials
<1>7. SagasCarryOn
  BY <1>4, <1>5 DEF SagasCarryOn, IInv, EarlyWithout, ProcessingDone
<1> QED BY <1>2, <1>3, <1>6, <1>7
-----------------------------------------------------------------------------
(***************************************************************************)
(* The steps, one actor at a time.                                         *)
(***************************************************************************)

\* The part of TypeOK that a kind of step is about.
OrdersTyped == orders \in [Orders -> OrderRow]
SagasTyped == pc \in [Orders -> Working \cup {"arrived", "done"}]
CallsTyped == call \in [Calls -> Call]
SweepTyped == sweep \in [stage: {"idle", "expiring", "purging"}, left: SUBSET Orders,
                         told: SUBSET Orders]
RestTyped ==
  /\ terms \in [Orders -> Terms]
  /\ resource \in [Orders -> {"none", "running", "stopped", "deleted"}]
  /\ now \in Nat /\ opening \in Nat

Carries ==
  /\ OrdersTyped' /\ OrdersCarryOn
  /\ SagasTyped' /\ SagasCarryOn
  /\ CallsTyped' /\ CallsCarryOn
  /\ SweepTyped' /\ SweepCarriesOn

\* What the invariant says of steps that leave a part alone.
LEMMA Untouched ==
  ASSUME IInv
  PROVE  /\ orders' = orders /\ pc' = pc
             => OrdersTyped' /\ OrdersCarryOn /\ SagasTyped' /\ SagasCarryOn
         /\ call' = call => CallsTyped' /\ CallsCarryOn
         /\ sweep' = sweep => SweepTyped' /\ SweepCarriesOn
<1>1. OrdersTyped /\ SagasTyped /\ CallsTyped /\ SweepTyped
  BY DEF IInv, TypeOK, OrdersTyped, SagasTyped, CallsTyped, SweepTyped
<1>2. ASSUME orders' = orders, pc' = pc
      PROVE  OrdersTyped' /\ OrdersCarryOn /\ SagasTyped' /\ SagasCarryOn
  BY <1>1, <1>2 DEF OrdersTyped, SagasTyped, OrdersCarryOn, SagasCarryOn, IInv,
     ServedHasCredentials, EarlyWithout, ProcessingDone
<1>3. ASSUME call' = call PROVE CallsTyped' /\ CallsCarryOn
  BY <1>1, <1>3 DEF CallsTyped, CallsCarryOn
<1>4. ASSUME sweep' = sweep PROVE SweepTyped' /\ SweepCarriesOn
  BY <1>1, <1>4 DEF SweepTyped, SweepCarriesOn
<1> QED BY <1>2, <1>3, <1>4

\* The creation saga (order_usecase.go:79-262).
LEMMA CreateCarries == ASSUME IInv, NEW o \in Orders, Create(o) PROVE Carries
<1>1. call' = call /\ sweep' = sweep
  BY DEF Create, Lookup, Insert, HoldFunds, Purchase, Activate, ConfirmFunds, SaveRef,
     MarkProcessing, ReleaseFunds, MarkFailed
<1>2. /\ OrdersTyped /\ orders[o] \in OrderRow
      /\ pc \in [Orders -> Working \cup {"arrived", "done"}]
      /\ FirstExpiry(o) \in Date
      /\ orders[o].status \in Delivered => orders[o].creds
      /\ pc[o] \in Early => ~orders[o].creds
      /\ orders[o].status = "processing" => pc[o] = "done"
  <2>1. TypeOK /\ terms[o].days \in Nat
    BY ProxyAssumption DEF IInv, TypeOK, Terms
  <2>2. FirstExpiry(o) \in Date
    BY <2>1 DEF TypeOK, FirstExpiry, Date
  <2>3. OrdersTyped /\ orders[o] \in OrderRow
        /\ pc \in [Orders -> Working \cup {"arrived", "done"}]
    BY <2>1 DEF TypeOK, OrdersTyped
  <2> QED BY <2>2, <2>3 DEF IInv, ServedHasCredentials, EarlyWithout, ProcessingDone
<1> DEFINE Saga == OrdersTyped' /\ OrdersCarryOn /\ SagasTyped' /\ SagasCarryOn
<1>3. ASSUME orders' = orders, pc[o] # "done",
             NEW s \in Working \cup {"done"}, pc' = [pc EXCEPT ![o] = s],
             s \in Early => pc[o] \in Early
      PROVE  Saga
  <2>1. orders' \in {orders, [orders EXCEPT ![o] = orders[o]]}
    BY <1>3
  <2> QED BY <1>2, <1>3, <2>1, SagaWritten DEF OrdersTyped, SagasTyped
<1>4. ASSUME Lookup(o) \/ HoldFunds(o) \/ Purchase(o) \/ ConfirmFunds(o) \/ ReleaseFunds(o)
      PROVE  Saga
  <2>1. /\ orders' = orders /\ pc[o] # "done"
        /\ \E s \in Working \cup {"done"} :
             pc' = [pc EXCEPT ![o] = s] /\ (s \in Early => pc[o] \in Early)
    BY <1>4 DEF Lookup, HoldFunds, Purchase, ConfirmFunds, ReleaseFunds, Bill, Goto, Working,
       Early
  <2> QED BY <1>3, <2>1
<1>5. ASSUME Insert(o)
      PROVE  Saga
  <2> DEFINE new == [orders[o] EXCEPT !.status = "pending"]
  <2>1. new \in OrderRow /\ new.creds = orders[o].creds /\ new.status = "pending"
    BY <1>2 DEF OrderRow, Status
  <2>2. \/ orders' = orders /\ pc' = [pc EXCEPT ![o] = "done"]
        \/ /\ orders' \in {orders, [orders EXCEPT ![o] = new]}
           /\ \E s \in {"placed", "done"} : pc' = [pc EXCEPT ![o] = s]
    BY <1>5 DEF Insert, SetStatus, Save, Goto
  <2>3. pc[o] = "checked"
    BY <1>5 DEF Insert
  <2>4. "pending" \notin Delivered \cup {"processing"} /\ {"placed", "checked"} \subseteq Early
        /\ "done" \notin Early /\ {"placed", "done"} \subseteq Working \cup {"done"}
    BY DEF Delivered, Early, Working
  <2> HIDE DEF new
  <2>5. CASE orders' = orders /\ pc' = [pc EXCEPT ![o] = "done"]
    BY <1>3, <2>3, <2>4, <2>5
  <2>6. ASSUME orders' \in {orders, [orders EXCEPT ![o] = new]},
               NEW s \in {"placed", "done"}, pc' = [pc EXCEPT ![o] = s]
        PROVE  Saga
    <3>1. ~new.creds /\ pc[o] \in Early /\ pc[o] # "done" /\ s \in Working \cup {"done"}
      BY <1>2, <2>1, <2>3, <2>4
    <3> QED BY <1>2, <2>1, <2>4, <2>6, <3>1, SagaWritten DEF OrdersTyped, SagasTyped
  <2> QED BY <2>2, <2>5, <2>6
<1>6. ASSUME Activate(o)
      PROVE  Saga
  <2> DEFINE new == Activated(orders[o], FirstExpiry(o))
  <2>1. new \in OrderRow /\ new.creds /\ new.status = "active"
    BY <1>2 DEF OrderRow, Status, Activated
  <2>2. /\ pc[o] = "bought" /\ orders' \in {orders, [orders EXCEPT ![o] = new]}
        /\ \E s \in {"activated", "releasing"} : pc' = [pc EXCEPT ![o] = s]
    BY <1>6 DEF Activate, Save, Goto
  <2>3. \A s \in {"activated", "releasing"} : s \in Working \cup {"done"} /\ s \notin Early
    BY DEF Working, Early
  <2> HIDE DEF new
  <2> QED BY <1>2, <2>1, <2>2, <2>3, SagaWritten DEF OrdersTyped, SagasTyped
<1>7. ASSUME SaveRef(o)
      PROVE  Saga
  <2> DEFINE new == [orders[o] EXCEPT !.ref = TRUE, !.creds = FALSE, !.expires = NoTime]
  <2>1. new \in OrderRow /\ new.creds = FALSE /\ new.status = orders[o].status
    BY <1>2 DEF OrderRow, Date
  <2>2. /\ pc[o] = "ordered" /\ orders' \in {orders, [orders EXCEPT ![o] = new]}
        /\ \E s \in {"saved", "releasing"} : pc' = [pc EXCEPT ![o] = s]
    BY <1>7 DEF SaveRef, Save, Goto
  <2>3. /\ \A s \in {"saved", "releasing"} : s \in Working \cup {"done"} /\ s \notin Early
        /\ "ordered" \in Early
    BY DEF Working, Early
  <2> HIDE DEF new
  <2> QED BY <1>2, <2>1, <2>2, <2>3, SagaWritten DEF OrdersTyped, SagasTyped
<1>8. ASSUME NEW status \in {"processing", "failed"}, pc[o] \in {"saved", "failing"},
             pc' = [pc EXCEPT ![o] = "done"],
             orders' \in {orders, [orders EXCEPT ![o] = [orders[o] EXCEPT !.status = status]]}
      PROVE  Saga
  <2> DEFINE new == [orders[o] EXCEPT !.status = status]
  <2>1. new \in OrderRow /\ new.creds = orders[o].creds /\ new.status = status
    BY <1>2 DEF OrderRow, Status
  <2>2. status \notin Delivered /\ "done" \notin Early /\ pc[o] # "done"
    BY <1>8 DEF Delivered, Early
  <2>3. orders' \in {orders, [orders EXCEPT ![o] = new]}
    BY <1>8
  <2> HIDE DEF new
  <2> QED BY <1>2, <1>8, <2>1, <2>2, <2>3, SagaWritten DEF OrdersTyped, SagasTyped
<1>9. ASSUME MarkProcessing(o)
      PROVE  Saga
  <2>1. /\ pc[o] \in {"saved", "failing"} /\ pc' = [pc EXCEPT ![o] = "done"]
        /\ orders' \in {orders, [orders EXCEPT ![o] = [orders[o] EXCEPT !.status = "processing"]]}
    BY <1>9 DEF MarkProcessing, SetStatus, Save, Goto
  <2> QED BY <1>8, <2>1
<1>10. ASSUME MarkFailed(o)
      PROVE  Saga
  <2>1. /\ pc[o] \in {"saved", "failing"} /\ pc' = [pc EXCEPT ![o] = "done"]
        /\ orders' \in {orders, [orders EXCEPT ![o] = [orders[o] EXCEPT !.status = "failed"]]}
    BY <1>10 DEF MarkFailed, SetStatus, Save, Goto
  <2> QED BY <1>8, <2>1
<1>11. Saga
  BY <1>4, <1>5, <1>6, <1>7, <1>9, <1>10 DEF Create
<1> QED BY <1>1, <1>11, Untouched DEF Carries
-----------------------------------------------------------------------------
\* A request that goes on, or ends, keeps what it read.
LEMMA MoveOrLeave ==
  ASSUME IInv, NEW c \in Calls, call[c].at # "idle",
         Leave(c) \/ \E stage \in CallStage : Move(c, stage)
  PROVE  CallsTyped' /\ CallsCarryOn
<1>1. call \in [Calls -> Call]
  BY DEF IInv, TypeOK
<1>2. Idle \in Call /\ Idle.at = "idle"
  <2>1. (CHOOSE o \in Orders : TRUE) \in Orders
    BY ProxyAssumption
  <2>2. NoOrder \in OrderRow
    BY DEF NoOrder, OrderRow, Status, Date, NoTime, NoPrice
  <2> QED BY <2>1, <2>2 DEF Idle, Call, AllOps, CallStage
<1>3. CASE Leave(c)
  <2> HIDE DEF Idle
  <2>1. call' = [call EXCEPT ![c] = Idle]
    BY <1>3 DEF Leave
  <2> QED BY <1>1, <1>2, <2>1 DEF CallsTyped, CallsCarryOn
<1>4. ASSUME NEW stage \in CallStage, Move(c, stage)
      PROVE  CallsTyped' /\ CallsCarryOn
  <2>1. call' = [call EXCEPT ![c].at = stage]
    BY <1>4 DEF Move
  <2> QED BY <1>1, <2>1 DEF CallsTyped, CallsCarryOn, Call
<1> QED BY <1>3, <1>4

\* The requests on existing orders (order_usecase.go:301-456,
\* lock_usecase.go:45-111, webhook_usecase.go:52-152).
LEMMA ProceedCarries == ASSUME IInv, NEW c \in Calls, Proceed(c) PROVE Carries
<1> DEFINE o == call[c].order
           w == call[c].seen
<1>1. pc' = pc /\ sweep' = sweep
  BY DEF Proceed, TellProvider, MarkCancelled, Refund, MarkLocked, MarkActive, HoldRenewal,
     ConfirmRenewal, ReleaseRenewal, ResumeRenewed, Extend, ClearCustom, Fulfil,
     ConfirmFulfilled
<1>2. CallsTyped' /\ CallsCarryOn
  <2>1. call[c].at # "idle"
    BY DEF Proceed, TellProvider, MarkCancelled, Refund, MarkLocked, MarkActive, HoldRenewal,
       ConfirmRenewal, ReleaseRenewal, ResumeRenewed, Extend, ClearCustom, Fulfil,
       ConfirmFulfilled, At
  <2>2. CASE TellProvider(c) \/ ResumeRenewed(c)
    BY <2>1, <2>2, MoveOrLeave DEF TellProvider, ResumeRenewed, CallStage
  <2>3. CASE Refund(c) \/ HoldRenewal(c) \/ ConfirmRenewal(c) \/ ReleaseRenewal(c)
             \/ ConfirmFulfilled(c)
    <3>1. Leave(c) \/ \E stage \in {"held", "paid", "unpaid"} : Move(c, stage)
      BY <2>3 DEF Refund, HoldRenewal, ConfirmRenewal, ReleaseRenewal, ConfirmFulfilled, Bill
    <3> QED BY <2>1, <3>1, MoveOrLeave DEF CallStage
  <2>4. CASE MarkCancelled(c) \/ MarkLocked(c) \/ MarkActive(c) \/ Extend(c)
             \/ ClearCustom(c) \/ Fulfil(c)
    <3>1. Leave(c) \/ \E stage \in {"marked", "extended", "cleared", "fulfilled"} :
                       Move(c, stage)
      BY <2>4 DEF MarkCancelled, MarkLocked, MarkActive, Extend, ClearCustom, Fulfil,
         SetStatus, Save
    <3> QED BY <2>1, <3>1, MoveOrLeave DEF CallStage
  <2> QED BY <2>2, <2>3, <2>4 DEF Proceed
<1> DEFINE Saga == OrdersTyped' /\ OrdersCarryOn /\ SagasTyped' /\ SagasCarryOn
<1>3. /\ o \in Orders /\ w \in OrderRow /\ orders[o] \in OrderRow /\ SagasTyped
      /\ orders[o].status \in Delivered => orders[o].creds
  BY DEF IInv, TypeOK, Call, SagasTyped, ServedHasCredentials
<1>4. ASSUME TellProvider(c) \/ Refund(c) \/ HoldRenewal(c) \/ ConfirmRenewal(c)
             \/ ReleaseRenewal(c) \/ ResumeRenewed(c) \/ ConfirmFulfilled(c)
      PROVE  Saga
  <2>1. orders' = orders
    BY <1>4 DEF TellProvider, Refund, HoldRenewal, ConfirmRenewal, ReleaseRenewal,
       ResumeRenewed, ConfirmFulfilled
  <2> QED BY <1>1, <2>1, Untouched
<1>5. ASSUME NEW s \in Status \ {"processing"}, s \in Delivered => orders[o].creds,
             orders' \in {orders, [orders EXCEPT ![o] = [orders[o] EXCEPT !.status = s]]}
      PROVE  Saga
  <2> HIDE DEF o
  <2> QED BY <1>1, <1>3, <1>5, StatusWritten DEF OrdersTyped, SagasTyped
<1>6. ASSUME MarkCancelled(c)
      PROVE  Saga
  <2>1. orders' \in {orders, [orders EXCEPT ![o] = [orders[o] EXCEPT !.status = "cancelled"]]}
    BY <1>6 DEF MarkCancelled, SetStatus, Save
  <2> QED BY <1>5, <2>1 DEF Status, Delivered
<1>7. ASSUME MarkLocked(c)
      PROVE  Saga
  <2>1. orders' \in {orders, [orders EXCEPT ![o] = [orders[o] EXCEPT !.status = "suspended"]]}
    BY <1>7 DEF MarkLocked, SetStatus, Save
  <2>2. orders[o].creds
    BY <1>7 DEF MarkLocked, At, IInv, OpenBacked
  <2> QED BY <1>5, <2>1, <2>2 DEF Status
<1>8. ASSUME MarkActive(c)
      PROVE  Saga
  <2>1. orders' \in {orders, [orders EXCEPT ![o] = [orders[o] EXCEPT !.status = "active"]]}
    BY <1>8 DEF MarkActive, SetStatus, Save
  <2>2. orders[o].creds
    BY <1>8 DEF MarkActive, At, IInv, OpenBacked
  <2> QED BY <1>5, <2>1, <2>2 DEF Status
<1>9. ASSUME Extend(c)
      PROVE  Saga
  <2> DEFINE new == [orders[o] EXCEPT !.ref = w.ref, !.creds = w.creds,
                                      !.expires = Renewed(o, w),
                                      !.status = IF w.creds THEN "active" ELSE @]
  <2>1. w.creds /\ orders[o].creds /\ Effective(w) # NoTime
    BY <1>9 DEF Extend, At, IInv, OpenBacked
  <2>2. Renewed(o, w) \in Date
    <3>1. Effective(w) \in Nat
      BY <1>3, <2>1 DEF OrderRow, Effective, Date
    <3>2. terms[o].days \in Nat
      BY <1>3, ProxyAssumption DEF IInv, TypeOK, Terms
    <3> QED BY <3>1, <3>2 DEF Renewed, Date
  <2>3. new \in OrderRow /\ new.creds /\ new.status = "active"
    BY <1>3, <2>1, <2>2 DEF OrderRow, Status
  <2>4. orders' \in {orders, [orders EXCEPT ![o] = new]}
    BY <1>9 DEF Extend, Save
  <2> HIDE DEF new, o
  <2> QED BY <1>1, <1>3, <2>1, <2>3, <2>4, RowWritten DEF OrdersTyped, SagasTyped
<1>10. ASSUME ClearCustom(c)
      PROVE  Saga
  <2> DEFINE new == [orders[o] EXCEPT !.custom = NoTime, !.price = NoPrice]
  <2>1. new \in OrderRow /\ new.creds = orders[o].creds /\ new.status = orders[o].status
    BY <1>3 DEF OrderRow, Date
  <2>2. orders' \in {orders, [orders EXCEPT ![o] = new]}
    BY <1>10 DEF ClearCustom, Save
  <2> HIDE DEF new, o
  <2> QED BY <1>1, <1>3, <2>1, <2>2, RowWritten DEF OrdersTyped, SagasTyped
<1>11. ASSUME Fulfil(c)
      PROVE  Saga
  <2>1. pc[o] = "done"
    BY <1>11 DEF Fulfil, At, IInv, OpenBacked
  <2>2. PICK expiry \in {FirstExpiry(o), now + 1} :
          orders' \in {orders, [orders EXCEPT ![o] = Activated(orders[o], expiry)]}
    BY <1>11 DEF Fulfil, Save
  <2> DEFINE new == Activated(orders[o], expiry)
  <2>3. expiry \in Date
    <3>1. now \in Nat /\ terms[o].days \in Nat
      BY <1>3, ProxyAssumption DEF IInv, TypeOK, Terms
    <3> QED BY <2>2, <3>1 DEF FirstExpiry, Date
  <2>4. new \in OrderRow /\ new.creds /\ new.status = "active"
    BY <1>3, <2>3 DEF OrderRow, Status, Activated
  <2> HIDE DEF new, o
  <2> QED BY <1>1, <1>3, <2>1, <2>2, <2>4, RowWritten DEF new, OrdersTyped, SagasTyped
<1>12. Saga
  BY <1>4, <1>6, <1>7, <1>8, <1>9, <1>10, <1>11 DEF Proceed
<1> QED BY <1>1, <1>2, <1>12, Untouched DEF Carries
-----------------------------------------------------------------------------
\* The scheduler, but for taking a new list of expired orders
\* (expiry_usecase.go:51-121).
LEMMA SweepCarries == ASSUME IInv, Sweep, ~ListExpired PROVE Carries
<1>1. pc' = pc /\ call' = call
  BY DEF Sweep, ListExpired, ListGrace, EndTick, SuspendExpired, MarkExpired, DeleteProxy,
     MarkDeleted
<1>2. SweepTyped /\ SagasTyped
  BY DEF IInv, TypeOK, SweepTyped, SagasTyped
<1> DEFINE Saga == OrdersTyped' /\ OrdersCarryOn /\ SagasTyped' /\ SagasCarryOn
           List == SweepTyped' /\ SweepCarriesOn
<1>3. ASSUME ListGrace \/ EndTick
      PROVE  Saga /\ List
  <2>1. orders' = orders
    BY <1>3 DEF ListGrace, EndTick
  <2>2. List
    BY <1>2, <1>3 DEF ListGrace, EndTick, SweepTyped, SweepCarriesOn
  <2> QED BY <1>1, <2>1, <2>2, Untouched
<1>4. ASSUME NEW o \in Orders, SuspendExpired(o) \/ DeleteProxy(o)
      PROVE  Saga /\ List
  <2>1. orders' = orders
    BY <1>4 DEF SuspendExpired, DeleteProxy
  <2>2. o \in sweep.left /\ sweep' = [sweep EXCEPT !.told = {o}]
    BY <1>4 DEF SuspendExpired, DeleteProxy
  <2>3. List
    BY <1>2, <2>2 DEF SweepTyped, SweepCarriesOn
  <2> QED BY <1>1, <2>1, <2>3, Untouched
<1>5. ASSUME NEW o \in Orders, MarkExpired(o) \/ MarkDeleted(o)
      PROVE  Saga /\ List
  <2>1. sweep' = [sweep EXCEPT !.left = @ \ {o}, !.told = {}]
    BY <1>5 DEF MarkExpired, MarkDeleted, SetStatus, Save, Skip
  <2>2. List
    BY <1>2, <2>1 DEF SweepTyped, SweepCarriesOn
  <2>3. PICK s \in {"expired", "cancelled"} :
          /\ s = "expired" => sweep.stage = "expiring" /\ o \in sweep.told
          /\ orders' \in {orders, [orders EXCEPT ![o] = [orders[o] EXCEPT !.status = s]]}
    BY <1>5 DEF MarkExpired, MarkDeleted, SetStatus, Save
  <2>4. s \in Status \ {"processing"} /\ (s \in Delivered => orders[o].creds)
    BY <2>3 DEF Status, Delivered, IInv, SweptBacked
  <2> QED BY <1>1, <1>2, <2>2, <2>3, <2>4, StatusWritten DEF OrdersTyped, SagasTyped
<1>6. Saga /\ List
  BY <1>3, <1>4, <1>5 DEF Sweep
<1> QED BY <1>1, <1>6, Untouched DEF Carries

\* PATCH and the clock.
LEMMA PatchCarries == ASSUME IInv, NEW o \in Orders, PatchOrder(o) PROVE Carries
<1>1. pc' = pc /\ call' = call /\ sweep' = sweep
  BY DEF PatchOrder
<1>2. PICK price \in CustomPrices \cup {NoPrice}, expiry \in CustomTimes \cup {NoTime} :
        orders' = [orders EXCEPT ![o].price = price, ![o].custom = expiry]
  BY DEF PatchOrder
<1> DEFINE new == [orders[o] EXCEPT !.price = price, !.custom = expiry]
<1>3. price \in {NoPrice} \cup Nat /\ expiry \in Date
  BY <1>2, ProxyAssumption DEF Date
<1>4. orders \in [Orders -> OrderRow] /\ orders[o] \in OrderRow
  BY DEF IInv, TypeOK
<1>5. new \in OrderRow /\ new.creds = orders[o].creds /\ new.status = orders[o].status
  BY <1>3, <1>4 DEF OrderRow
<1>6. orders' = [orders EXCEPT ![o] = new]
  BY <1>2, <1>4 DEF OrderRow
<1>7. SagasTyped /\ (orders[o].status \in Delivered => orders[o].creds)
  BY DEF IInv, TypeOK, SagasTyped, ServedHasCredentials
<1> HIDE DEF new
<1> QED BY <1>1, <1>5, <1>6, <1>7, RowWritten, Untouched DEF Carries, OrdersTyped, SagasTyped

\* Nobody changes what was asked for, and a provider's proxy is in a known state.
LEMMA RestStep == IInv /\ [Next]_vars => RestTyped'
<1> SUFFICES ASSUME IInv, [Next]_vars PROVE RestTyped'
  OBVIOUS
<1>1. RestTyped
  BY DEF IInv, TypeOK, RestTyped
<1>2. ASSUME NEW o \in Orders, NEW ref, NEW command, Tell(o, ref, command)
      PROVE  resource' \in [Orders -> {"none", "running", "stopped", "deleted"}]
  <2>1. \A r \in {"none", "running", "stopped", "deleted"} :
          After(command, r) \in {"none", "running", "stopped", "deleted"}
    BY DEF After
  <2>2. resource' \in {resource, [resource EXCEPT ![o] = After(command, resource[o])]}
    BY <1>2 DEF Tell
  <2> QED BY <1>1, <2>1, <2>2 DEF RestTyped
<1>3. ASSUME NEW o \in Orders,
             Purchase(o) \/ SuspendExpired(o) \/ DeleteProxy(o)
      PROVE  RestTyped'
  <2>1. terms' = terms /\ now' = now /\ opening' = opening
    BY <1>3 DEF Purchase, SuspendExpired, DeleteProxy
  <2>2. resource' \in [Orders -> {"none", "running", "stopped", "deleted"}]
    BY <1>1, <1>2, <1>3 DEF Purchase, SuspendExpired, DeleteProxy, RestTyped
  <2> QED BY <1>1, <2>1, <2>2 DEF RestTyped
<1>4. ASSUME NEW c \in Calls, TellProvider(c) \/ ResumeRenewed(c)
      PROVE  RestTyped'
  <2>1. terms' = terms /\ now' = now /\ opening' = opening /\ call[c].order \in Orders
    BY <1>4 DEF TellProvider, ResumeRenewed, IInv, TypeOK, Call
  <2>2. \E command \in {"cancel", "suspend", "resume"} :
          Tell(call[c].order, call[c].seen.ref, command)
    BY <1>4 DEF TellProvider, ResumeRenewed
  <2>3. resource' \in [Orders -> {"none", "running", "stopped", "deleted"}]
    BY <1>2, <2>1, <2>2
  <2> QED BY <1>1, <2>1, <2>3 DEF RestTyped
<1>5. ASSUME NEW o \in Orders,
             \/ Lookup(o) \/ Insert(o) \/ HoldFunds(o) \/ Activate(o) \/ ConfirmFunds(o)
             \/ SaveRef(o) \/ MarkProcessing(o) \/ ReleaseFunds(o) \/ MarkFailed(o)
             \/ PatchOrder(o) \/ MarkExpired(o) \/ MarkDeleted(o)
      PROVE  RestTyped'
  BY <1>1, <1>5 DEF Lookup, Insert, HoldFunds, Activate, ConfirmFunds, SaveRef,
     MarkProcessing, ReleaseFunds, MarkFailed, PatchOrder, MarkExpired, MarkDeleted, RestTyped
<1>6. ASSUME NEW c \in Calls,
             \/ Read(c) \/ MarkCancelled(c) \/ Refund(c) \/ MarkLocked(c) \/ MarkActive(c)
             \/ HoldRenewal(c) \/ ConfirmRenewal(c) \/ ReleaseRenewal(c) \/ Extend(c)
             \/ ClearCustom(c) \/ Fulfil(c) \/ ConfirmFulfilled(c)
      PROVE  RestTyped'
  BY <1>1, <1>6 DEF Read, MarkCancelled, Refund, MarkLocked, MarkActive, HoldRenewal,
     ConfirmRenewal, ReleaseRenewal, Extend, ClearCustom, Fulfil, ConfirmFulfilled, RestTyped
<1>7. ASSUME ListExpired \/ ListGrace \/ EndTick
      PROVE  RestTyped'
  BY <1>1, <1>7 DEF ListExpired, ListGrace, EndTick, RestTyped
<1>8. ASSUME Tick
      PROVE  RestTyped'
  <2>1. terms' = terms /\ resource' = resource /\ opening' = opening /\ now' = now + 1
    BY <1>8 DEF Tick
  <2> QED BY <1>1, <2>1 DEF RestTyped
<1>9. CASE UNCHANGED vars
  BY <1>1, <1>9 DEF vars, RestTyped
<1> QED
  BY <1>3, <1>4, <1>5, <1>6, <1>7, <1>8, <1>9 DEF Next, Create, Proceed, Sweep
-----------------------------------------------------------------------------
(***************************************************************************)
(* The invariant.                                                          *)
(***************************************************************************)

\* Such a step, with a solvent wallet, keeps the whole invariant.
LEMMA CarriesKeeps ==
  ASSUME IInv, Carries, RestTyped', wallet' \in Row, WalletSolvent'
  PROVE  IInv'
<1>1. TypeOK'
  BY DEF TypeOK, Carries, RestTyped, OrdersTyped, SagasTyped, CallsTyped, SweepTyped
<1> QED BY <1>1, CarryOn DEF Carries

\* A request is admitted by the row it reads (GetByID and the checks after it).
LEMMA ReadKeeps ==
  ASSUME IInv, NEW c \in Calls, Read(c), RestTyped', wallet' \in Row, WalletSolvent'
  PROVE  IInv'
<1>1. PICK op \in Ops, o \in Orders :
        /\ Admits(op, o)
        /\ call' = [call EXCEPT ![c] = [op |-> op, order |-> o, seen |-> orders[o],
                                        at |-> "read"]]
  BY DEF Read
<1>2. orders' = orders /\ pc' = pc /\ sweep' = sweep
  BY DEF Read
<1> DEFINE new == [op |-> op, order |-> o, seen |-> orders[o], at |-> "read"]
<1>3. new \in Call
  BY ProxyAssumption DEF IInv, TypeOK, Call, CallStage
<1>4. CallsTyped'
  <2>1. call \in [Calls -> Call]
    BY DEF IInv, TypeOK
  <2> HIDE DEF new
  <2> QED BY <1>1, <1>3, <2>1 DEF new, CallsTyped
<1>5. /\ op \in {"lock", "unlock", "renew"} => orders[o].creds
      /\ op = "renew" => Effective(orders[o]) # NoTime
      /\ op = "fulfil" => pc[o] = "done"
  BY <1>1 DEF Admits, Delivered, IInv, ServedHasCredentials, ProcessingDone
<1>6. \A d \in Calls : call'[d] = (IF d = c THEN new ELSE call[d])
  BY <1>1 DEF IInv, TypeOK
<1>7. OpenBacked'
  <2> SUFFICES ASSUME NEW d \in Calls, call'[d].at # "idle"
               PROVE  /\ call'[d].op \in {"lock", "unlock", "renew"}
                           => orders'[call'[d].order].creds
                      /\ call'[d].op = "renew" => /\ call'[d].seen.creds
                                                  /\ Effective(call'[d].seen) # NoTime
                      /\ call'[d].op = "fulfil" => pc'[call'[d].order] = "done"
    BY DEF OpenBacked, Effective, NoTime
  <2>1. CASE d = c
    BY <1>2, <1>5, <1>6, <2>1
  <2>2. CASE d # c
    BY <1>2, <1>6, <2>2 DEF IInv, OpenBacked
  <2> QED BY <2>1, <2>2
<1>8. TypeOK' /\ ServedHasCredentials' /\ EarlyWithout' /\ ProcessingDone' /\ SweptBacked'
  BY <1>2, <1>4 DEF IInv, TypeOK, CallsTyped, RestTyped, ServedHasCredentials, EarlyWithout,
     ProcessingDone, SweptBacked
<1> QED BY <1>7, <1>8 DEF IInv

\* ListExpiredActive lists active orders, and those have credentials.
LEMMA ListExpiredKeeps ==
  ASSUME IInv, ListExpired, RestTyped', wallet' \in Row, WalletSolvent'
  PROVE  IInv'
<1>1. /\ orders' = orders /\ pc' = pc /\ call' = call
      /\ sweep' = [stage |-> "expiring", left |-> {o \in Orders : Overdue(o)}, told |-> {}]
  BY DEF ListExpired
<1>2. SweptBacked'
  BY <1>1 DEF SweptBacked, Overdue, IInv, ServedHasCredentials, Delivered
<1>3. TypeOK' /\ ServedHasCredentials' /\ EarlyWithout' /\ ProcessingDone'
  BY <1>1 DEF IInv, TypeOK, RestTyped, ServedHasCredentials, EarlyWithout, ProcessingDone
<1>4. OpenBacked'
  BY <1>1 DEF IInv, OpenBacked
<1> QED BY <1>2, <1>3, <1>4 DEF IInv

\* Every step keeps the invariant.
LEMMA Inductive == IInv /\ [Next]_vars => IInv'
<1> SUFFICES ASSUME IInv, [Next]_vars PROVE IInv'
  OBVIOUS
<1>1. RestTyped' /\ wallet' \in Row /\ WalletSolvent'
  BY RestStep, WalletStep
<1>2. ASSUME NEW o \in Orders, Create(o) PROVE IInv'
  BY <1>1, <1>2, CreateCarries, CarriesKeeps
<1>3. ASSUME NEW o \in Orders, PatchOrder(o) PROVE IInv'
  BY <1>1, <1>3, PatchCarries, CarriesKeeps
<1>4. ASSUME NEW c \in Calls, Read(c) PROVE IInv'
  BY <1>1, <1>4, ReadKeeps
<1>5. ASSUME NEW c \in Calls, Proceed(c) PROVE IInv'
  BY <1>1, <1>5, ProceedCarries, CarriesKeeps
<1>6. ASSUME Sweep PROVE IInv'
  BY <1>1, <1>6, SweepCarries, ListExpiredKeeps, CarriesKeeps
<1>7. CASE Tick \/ UNCHANGED vars
  <2>1. orders' = orders /\ pc' = pc /\ call' = call /\ sweep' = sweep
    BY <1>7 DEF Tick, vars
  <2> QED BY <1>1, <2>1, Untouched, CarriesKeeps DEF Carries
<1> QED BY <1>2, <1>3, <1>4, <1>5, <1>6, <1>7 DEF Next

\* Before the first request nothing is placed and nothing is open.
LEMMA Initially == Init => IInv
<1> SUFFICES ASSUME Init PROVE IInv
  OBVIOUS
<1>1. NoOrder \in OrderRow /\ NoOrder.status = "none" /\ ~NoOrder.creds
  BY DEF NoOrder, OrderRow, Status, Date, NoTime, NoPrice
<1>2. Idle \in Call /\ Idle.at = "idle"
  <2>1. (CHOOSE o \in Orders : TRUE) \in Orders
    BY ProxyAssumption
  <2> QED BY <1>1, <2>1 DEF Idle, Call, AllOps, CallStage
<1>3. wallet \in Row /\ WalletSolvent /\ opening \in Nat
  BY ProxyAssumption DEF Init, Row, WalletSolvent, SolventRow
<1> HIDE DEF NoOrder, Idle
<1>4. TypeOK
  BY <1>1, <1>2, <1>3 DEF Init, TypeOK
<1>5. ServedHasCredentials /\ EarlyWithout /\ ProcessingDone
  BY <1>1 DEF Init, ServedHasCredentials, EarlyWithout, ProcessingDone, Delivered
<1>6. OpenBacked /\ SweptBacked
  BY <1>2 DEF Init, OpenBacked, SweptBacked
<1> QED BY <1>3, <1>4, <1>5, <1>6 DEF IInv

\* The strengthened invariant holds in every reachable state.
THEOREM Invariant == Spec => []IInv
BY Initially, Inductive, PTL DEF Spec

\* Every reachable state of proxy-service is well typed.
THEOREM TypeCorrect == Spec => []TypeOK
<1>1. IInv => TypeOK
  BY DEF IInv
<1> QED BY <1>1, Invariant, PTL

\* No race and no failure overdraws the wallet.
THEOREM WalletStaysSolvent == Spec => []WalletSolvent
<1>1. IInv => WalletSolvent
  BY DEF IInv
<1> QED BY <1>1, Invariant, PTL

\* No race and no failure serves an order without credentials, although no
\* usecase locks the row it checks (order_usecase.go:274).
THEOREM DeliveredWithCredentials == Spec => []ServedHasCredentials
<1>1. IInv => ServedHasCredentials
  BY DEF IInv
<1> QED BY <1>1, Invariant, PTL
-----------------------------------------------------------------------------
(***************************************************************************)
(* Idempotency keys.                                                       *)
(***************************************************************************)

\* The stages of a saga after its INSERT.
Inserted == Working \ {"checked"}

\* Proxies, sagas under way, requests and the scheduler belong to orders in
\* the table.
Backed ==
  /\ \A o \in Orders : resource[o] # "none" \/ pc[o] \in Inserted => Placed(o)
  /\ \A c \in Calls : call[c].at # "idle" => Placed(call[c].order)
  /\ \A o \in sweep.left \cup sweep.told : Placed(o)

\* The UNIQUE on idempotency_key.
KeysDistinct ==
  \A o, p \in Orders : Placed(o) /\ Placed(p) /\ o # p => terms[o].key # terms[p].key

KeyInv == Backed /\ KeysDistinct

\* What every step but the INSERT does: the table keeps its rows, and what is
\* begun is begun on one of them.
RowsStay == \A o \in Orders : orders'[o].status = "none" <=> orders[o].status = "none"
BeginsBacked ==
  /\ \A o \in Orders : /\ resource'[o] # "none" => resource[o] # "none" \/ Placed(o)
                       /\ pc'[o] \in Inserted => pc[o] \in Inserted
  /\ \A c \in Calls : call'[c].at # "idle" =>
       \/ call[c].at # "idle" /\ call'[c].order = call[c].order
       \/ call'[c].order \in Orders /\ Placed(call'[c].order)
  /\ \A o \in sweep'.left \cup sweep'.told :
       o \in sweep.left \cup sweep.told \/ (o \in Orders /\ Placed(o))

\* Such a step keeps the keys distinct.
LEMMA RowsStayKeeps ==
  ASSUME TypeOK, KeyInv, RowsStay, BeginsBacked, terms' = terms
  PROVE  KeyInv'
<1>1. \A o \in Orders : Placed(o)' <=> Placed(o)
  BY DEF RowsStay, Placed
<1>2. /\ \A o \in Orders : resource'[o] # "none" \/ pc'[o] \in Inserted => Placed(o)
      /\ \A c \in Calls : call'[c].at # "idle" =>
           call'[c].order \in Orders /\ Placed(call'[c].order)
      /\ \A o \in sweep'.left \cup sweep'.told : o \in Orders /\ Placed(o)
  BY DEF KeyInv, Backed, BeginsBacked, TypeOK, Call
<1>3. Backed'
  BY <1>2, RowsStay DEF Backed, Placed, RowsStay
<1>4. KeysDistinct'
  BY <1>1 DEF KeyInv, KeysDistinct
<1> QED BY <1>3, <1>4 DEF KeyInv

\* A statement that updates a row leaves one.
LEMMA UpdateStays ==
  ASSUME TypeOK, NEW o \in Orders, Placed(o), NEW new, new.status # "none",
         orders' \in {orders, [orders EXCEPT ![o] = new]}
  PROVE  RowsStay
<1>1. \A p \in Orders : orders'[p] = orders[p] \/ (p = o /\ orders'[p] = new)
  BY DEF TypeOK
<1> QED BY <1>1 DEF RowsStay, Placed

\* UpdateStatus.
LEMMA StatusStays ==
  ASSUME TypeOK, NEW o \in Orders, Placed(o), NEW s, s # "none",
         orders' \in {orders, [orders EXCEPT ![o] = [orders[o] EXCEPT !.status = s]]}
  PROVE  RowsStay
<1> DEFINE new == [orders[o] EXCEPT !.status = s]
<1>1. new.status # "none"
  BY DEF TypeOK, OrderRow
<1>2. orders' \in {orders, [orders EXCEPT ![o] = new]}
  OBVIOUS
<1> HIDE DEF new
<1> QED BY <1>1, <1>2, UpdateStays

\* The INSERT takes a key that no row has (migration 000004).
LEMMA InsertKeeps == ASSUME TypeOK, KeyInv, NEW o \in Orders, Insert(o) PROVE KeyInv'
<1> DEFINE new == [orders[o] EXCEPT !.status = "pending"]
<1>1. /\ terms' = terms /\ resource' = resource /\ call' = call /\ sweep' = sweep
      /\ pc[o] = "checked"
  BY DEF Insert
<1>2. \A p \in Orders : p # o => pc'[p] = pc[p]
  BY DEF Insert, SetStatus, Save, Goto, TypeOK
<1>3. new.status = "pending" /\ "done" \notin Inserted
  BY DEF TypeOK, OrderRow, Inserted, Working
<1>4. CASE orders' = orders /\ pc' = [pc EXCEPT ![o] = "done"]
  <2>1. RowsStay /\ BeginsBacked
    BY <1>1, <1>3, <1>4 DEF RowsStay, BeginsBacked, TypeOK
  <2> QED BY <1>1, <2>1, RowsStayKeeps
<1>5. CASE orders' = [orders EXCEPT ![o] = new] /\ ~KeyTaken(o)
  <2> HIDE DEF new
  <2>1. \A p \in Orders : Placed(p)' <=> Placed(p) \/ p = o
    BY <1>3, <1>5 DEF Placed, TypeOK
  <2>2. Backed'
    <3>1. \A p \in Orders : resource'[p] # "none" \/ pc'[p] \in Inserted => Placed(p)'
      BY <1>1, <1>2, <2>1 DEF KeyInv, Backed
    <3>2. \A c \in Calls : call'[c].at # "idle" =>
            call'[c].order \in Orders /\ orders'[call'[c].order].status # "none"
      BY <1>1, <2>1 DEF KeyInv, Backed, TypeOK, Call, Placed
    <3>3. \A p \in sweep'.left \cup sweep'.told : orders'[p].status # "none"
      BY <1>1, <2>1 DEF KeyInv, Backed, TypeOK, Placed
    <3> QED BY <3>1, <3>2, <3>3 DEF Backed, Placed
  <2>3. KeysDistinct'
    BY <1>1, <1>5, <2>1 DEF KeyInv, KeysDistinct, KeyTaken
  <2> QED BY <2>2, <2>3 DEF KeyInv
<1> QED BY <1>4, <1>5 DEF Insert, SetStatus, Save, Goto

\* Every step keeps the keys distinct.
LEMMA KeysInductive == TypeOK /\ KeyInv /\ [Next]_vars => KeyInv'
<1> SUFFICES ASSUME TypeOK, KeyInv, [Next]_vars PROVE KeyInv'
  OBVIOUS
<1>1. /\ \A o \in Orders : orders[o] \in OrderRow
      /\ \A c \in Calls : call[c] \in Call /\ call[c].order \in Orders
  BY DEF TypeOK, Call
<1>2. ASSUME NEW o \in Orders,
             \/ Lookup(o) \/ HoldFunds(o) \/ ConfirmFunds(o) \/ ReleaseFunds(o)
      PROVE  KeyInv'
  <2>1. orders' = orders /\ terms' = terms /\ resource' = resource /\ call' = call
        /\ sweep' = sweep
    BY <1>2 DEF Lookup, HoldFunds, ConfirmFunds, ReleaseFunds
  <2>2. \A p \in Orders : pc'[p] \in Inserted => pc[p] \in Inserted
    BY <1>2 DEF Lookup, HoldFunds, ConfirmFunds, ReleaseFunds, Bill, Goto, TypeOK, Inserted,
       Working
  <2>3. RowsStay /\ BeginsBacked
    BY <2>1, <2>2 DEF RowsStay, BeginsBacked
  <2> QED BY <2>1, <2>3, RowsStayKeeps
<1>3. ASSUME NEW o \in Orders, Purchase(o)
      PROVE  KeyInv'
  <2>1. orders' = orders /\ terms' = terms /\ call' = call /\ sweep' = sweep
    BY <1>3 DEF Purchase
  <2>2. pc[o] \in Inserted
    BY <1>3 DEF Purchase, Inserted, Working
  <2>3. \A p \in Orders : /\ pc'[p] \in Inserted => pc[p] \in Inserted
                          /\ p # o => resource'[p] = resource[p]
    BY <1>3, <2>2 DEF Purchase, Goto, TypeOK
  <2>4. RowsStay /\ BeginsBacked
    BY <2>1, <2>2, <2>3 DEF RowsStay, BeginsBacked, KeyInv, Backed
  <2> QED BY <2>1, <2>4, RowsStayKeeps
<1>4. ASSUME NEW o \in Orders, Activate(o) \/ SaveRef(o) \/ MarkProcessing(o) \/ MarkFailed(o)
      PROVE  KeyInv'
  <2>1. terms' = terms /\ resource' = resource /\ call' = call /\ sweep' = sweep
    BY <1>4 DEF Activate, SaveRef, MarkProcessing, MarkFailed
  <2>2. pc[o] \in Inserted /\ Placed(o)
    BY <1>4 DEF Activate, SaveRef, MarkProcessing, MarkFailed, Inserted, Working, KeyInv, Backed
  <2>3. \A p \in Orders : pc'[p] \in Inserted => pc[p] \in Inserted
    BY <1>4, <2>2 DEF Activate, SaveRef, MarkProcessing, MarkFailed, SetStatus, Save, Goto,
       TypeOK
  <2>4. RowsStay
    <3>1. CASE Activate(o)
      <4> DEFINE new == Activated(orders[o], FirstExpiry(o))
      <4>1. new.status # "none"
        BY <1>1 DEF Activated, OrderRow
      <4>2. orders' \in {orders, [orders EXCEPT ![o] = new]}
        BY <3>1 DEF Activate, Save
      <4> HIDE DEF new
      <4> QED BY <2>2, <4>1, <4>2, UpdateStays
    <3>2. CASE SaveRef(o)
      <4> DEFINE new == [orders[o] EXCEPT !.ref = TRUE, !.creds = FALSE, !.expires = NoTime]
      <4>1. new.status # "none"
        BY <1>1, <2>2 DEF OrderRow, Placed
      <4>2. orders' \in {orders, [orders EXCEPT ![o] = new]}
        BY <3>2 DEF SaveRef, Save
      <4> HIDE DEF new
      <4> QED BY <2>2, <4>1, <4>2, UpdateStays
    <3>3. CASE MarkProcessing(o) \/ MarkFailed(o)
      <4>1. PICK s \in {"processing", "failed"} :
              orders' \in {orders, [orders EXCEPT ![o] = [orders[o] EXCEPT !.status = s]]}
        BY <3>3 DEF MarkProcessing, MarkFailed, SetStatus, Save
      <4> QED BY <2>2, <4>1, StatusStays
    <3> QED BY <1>4, <3>1, <3>2, <3>3
  <2>5. BeginsBacked
    BY <2>1, <2>3 DEF BeginsBacked
  <2> QED BY <2>1, <2>4, <2>5, RowsStayKeeps
<1>5. ASSUME NEW o \in Orders, PatchOrder(o)
      PROVE  KeyInv'
  <2>1. /\ terms' = terms /\ resource' = resource /\ call' = call /\ sweep' = sweep
        /\ pc' = pc
    BY <1>5 DEF PatchOrder
  <2>2. PICK price, expiry : orders' = [orders EXCEPT ![o].price = price, ![o].custom = expiry]
    BY <1>5 DEF PatchOrder
  <2>3. \A p \in Orders : orders'[p].status = orders[p].status
    BY <1>1, <2>2 DEF TypeOK, OrderRow
  <2>4. RowsStay /\ BeginsBacked
    BY <2>1, <2>3 DEF RowsStay, BeginsBacked
  <2> QED BY <2>1, <2>4, RowsStayKeeps
<1>6. ASSUME NEW c \in Calls, Read(c)
      PROVE  KeyInv'
  <2>1. /\ terms' = terms /\ resource' = resource /\ orders' = orders /\ sweep' = sweep
        /\ pc' = pc
    BY <1>6 DEF Read
  <2>2. PICK op \in Ops, o \in Orders :
        /\ Admits(op, o)
        /\ call' = [call EXCEPT ![c] = [op |-> op, order |-> o, seen |-> orders[o],
                                        at |-> "read"]]
    BY <1>6 DEF Read
  <2>3. Placed(o)
    BY <2>2 DEF Admits, Placed
  <2>4. \A d \in Calls : call'[d] = call[d] \/ call'[d].order = o
    BY <2>2 DEF TypeOK
  <2>5. RowsStay /\ BeginsBacked
    BY <2>1, <2>3, <2>4 DEF RowsStay, BeginsBacked
  <2> QED BY <2>1, <2>5, RowsStayKeeps
<1>7. ASSUME NEW c \in Calls, Proceed(c)
      PROVE  KeyInv'
  <2> DEFINE o == call[c].order
  <2>1. terms' = terms /\ pc' = pc /\ sweep' = sweep
    BY <1>7 DEF Proceed, TellProvider, MarkCancelled, Refund, MarkLocked, MarkActive,
       HoldRenewal, ConfirmRenewal, ReleaseRenewal, ResumeRenewed, Extend, ClearCustom, Fulfil,
       ConfirmFulfilled
  <2>2. call[c].at # "idle" /\ o \in Orders /\ Placed(o) /\ orders[o] \in OrderRow
    <3>1. call[c].at # "idle"
      BY <1>7 DEF Proceed, TellProvider, MarkCancelled, Refund, MarkLocked, MarkActive,
         HoldRenewal, ConfirmRenewal, ReleaseRenewal, ResumeRenewed, Extend, ClearCustom, Fulfil,
         ConfirmFulfilled, At
    <3> QED BY <1>1, <3>1 DEF KeyInv, Backed
  <2>3. \E stage : Move(c, stage) \/ Leave(c)
    BY <1>7 DEF Proceed, TellProvider, MarkCancelled, Refund, MarkLocked, MarkActive,
       HoldRenewal, ConfirmRenewal, ReleaseRenewal, ResumeRenewed, Extend, ClearCustom, Fulfil,
       ConfirmFulfilled, Bill, SetStatus, Save
  <2>4. \A d \in Calls : call'[d].at # "idle" =>
          call[d].at # "idle" /\ call'[d].order = call[d].order
    <3>1. Idle.at = "idle"
      BY DEF Idle
    <3> HIDE DEF Idle
    <3> QED BY <1>1, <2>2, <2>3, <3>1 DEF Move, Leave, TypeOK, Call
  <2>5. \A p \in Orders : resource'[p] # "none" => resource[p] # "none" \/ Placed(p)
    <3>1. ASSUME NEW ref, NEW command, Tell(o, ref, command)
          PROVE  \A p \in Orders : p # o => resource'[p] = resource[p]
      BY <2>2, <3>1 DEF Tell, TypeOK
    <3>2. resource' = resource \/ \E ref, command : Tell(o, ref, command)
      BY <1>7 DEF Proceed, TellProvider, MarkCancelled, Refund, MarkLocked, MarkActive,
         HoldRenewal, ConfirmRenewal, ReleaseRenewal, ResumeRenewed, Extend, ClearCustom, Fulfil,
         ConfirmFulfilled
    <3> QED BY <2>2, <3>1, <3>2
  <2>6. CASE orders' = orders
    <3>1. RowsStay /\ BeginsBacked
      BY <2>1, <2>4, <2>5, <2>6 DEF RowsStay, BeginsBacked
    <3> QED BY <2>1, <3>1, RowsStayKeeps
  <2>7. CASE \E new : new.status # "none" /\ orders' \in {orders, [orders EXCEPT ![o] = new]}
    <3> HIDE DEF o
    <3>1. RowsStay
      BY <2>2, <2>7, UpdateStays
    <3>2. BeginsBacked
      BY <2>1, <2>4, <2>5 DEF BeginsBacked
    <3> QED BY <2>1, <3>1, <3>2, RowsStayKeeps
  <2>8. CASE MarkCancelled(c) \/ MarkLocked(c) \/ MarkActive(c)
    <3>1. PICK s \in {"cancelled", "suspended", "active"} :
            orders' \in {orders, [orders EXCEPT ![o] = [orders[o] EXCEPT !.status = s]]}
      BY <2>8 DEF MarkCancelled, MarkLocked, MarkActive, SetStatus, Save
    <3>2. [orders[o] EXCEPT !.status = s].status # "none"
      BY <2>2 DEF OrderRow
    <3> QED BY <2>7, <3>1, <3>2
  <2>9. CASE Extend(c)
    <3> DEFINE w == call[c].seen
               new == [orders[o] EXCEPT !.ref = w.ref, !.creds = w.creds,
                                        !.expires = Renewed(o, w),
                                        !.status = IF w.creds THEN "active" ELSE @]
    <3>1. new.status # "none"
      BY <2>2 DEF OrderRow, Placed
    <3>2. orders' \in {orders, [orders EXCEPT ![o] = new]}
      BY <2>9 DEF Extend, Save
    <3> QED BY <2>7, <3>1, <3>2
  <2>10. CASE ClearCustom(c)
    <3> DEFINE new == [orders[o] EXCEPT !.custom = NoTime, !.price = NoPrice]
    <3>1. new.status # "none"
      BY <2>2 DEF OrderRow, Placed
    <3>2. orders' \in {orders, [orders EXCEPT ![o] = new]}
      BY <2>10 DEF ClearCustom, Save
    <3> QED BY <2>7, <3>1, <3>2
  <2>11. CASE Fulfil(c)
    <3>1. PICK expiry : orders' \in {orders, [orders EXCEPT ![o] = Activated(orders[o], expiry)]}
      BY <2>11 DEF Fulfil, Save
    <3>2. Activated(orders[o], expiry).status # "none"
      BY <2>2 DEF Activated, OrderRow
    <3> QED BY <2>7, <3>1, <3>2
  <2>12. CASE \/ TellProvider(c) \/ Refund(c) \/ HoldRenewal(c) \/ ConfirmRenewal(c)
              \/ ReleaseRenewal(c) \/ ResumeRenewed(c) \/ ConfirmFulfilled(c)
    BY <2>6, <2>12 DEF TellProvider, Refund, HoldRenewal, ConfirmRenewal, ReleaseRenewal,
       ResumeRenewed, ConfirmFulfilled
  <2> QED BY <1>7, <2>8, <2>9, <2>10, <2>11, <2>12 DEF Proceed
<1>8. ASSUME Sweep
      PROVE  KeyInv'
  <2>1. terms' = terms /\ pc' = pc /\ call' = call
    BY <1>8 DEF Sweep, ListExpired, ListGrace, EndTick, SuspendExpired, MarkExpired, DeleteProxy,
       MarkDeleted
  <2>2. CASE ListExpired \/ ListGrace \/ EndTick
    <3>1. orders' = orders /\ resource' = resource
      BY <2>2 DEF ListExpired, ListGrace, EndTick
    <3>2. \A o \in sweep'.left \cup sweep'.told :
            o \in sweep.left \cup sweep.told \/ (o \in Orders /\ Placed(o))
      BY <2>2 DEF ListExpired, ListGrace, EndTick, Overdue, GraceOver, Placed, TypeOK
    <3>3. RowsStay /\ BeginsBacked
      BY <2>1, <3>1, <3>2 DEF RowsStay, BeginsBacked
    <3> QED BY <2>1, <3>3, RowsStayKeeps
  <2>3. ASSUME NEW o \in Orders, SuspendExpired(o) \/ DeleteProxy(o)
        PROVE  KeyInv'
    <3>1. orders' = orders /\ o \in sweep.left /\ sweep' = [sweep EXCEPT !.told = {o}]
      BY <2>3 DEF SuspendExpired, DeleteProxy
    <3>2. Placed(o) /\ \A p \in Orders : p # o => resource'[p] = resource[p]
      BY <2>3, <3>1 DEF SuspendExpired, DeleteProxy, Tell, TypeOK, KeyInv, Backed
    <3>3. \A p \in sweep'.left \cup sweep'.told : p \in sweep.left \cup sweep.told
      BY <3>1 DEF TypeOK
    <3>4. RowsStay /\ BeginsBacked
      BY <2>1, <3>1, <3>2, <3>3 DEF RowsStay, BeginsBacked
    <3> QED BY <2>1, <3>4, RowsStayKeeps
  <2>4. ASSUME NEW o \in Orders, MarkExpired(o) \/ MarkDeleted(o)
        PROVE  KeyInv'
    <3>1. /\ resource' = resource /\ o \in sweep.told
          /\ sweep' = [sweep EXCEPT !.left = @ \ {o}, !.told = {}]
      BY <2>4 DEF MarkExpired, MarkDeleted, SetStatus, Save, Skip
    <3>2. PICK s \in {"expired", "cancelled"} :
            orders' \in {orders, [orders EXCEPT ![o] = [orders[o] EXCEPT !.status = s]]}
      BY <2>4 DEF MarkExpired, MarkDeleted, SetStatus, Save
    <3>3. Placed(o)
      BY <3>1 DEF KeyInv, Backed
    <3>4. \A p \in sweep'.left \cup sweep'.told : p \in sweep.left \cup sweep.told
      BY <3>1 DEF TypeOK
    <3>5. RowsStay
      BY <3>2, <3>3, StatusStays
    <3>6. BeginsBacked
      BY <2>1, <3>1, <3>4 DEF BeginsBacked
    <3> QED BY <2>1, <3>5, <3>6, RowsStayKeeps
  <2> QED BY <1>8, <2>2, <2>3, <2>4 DEF Sweep
<1>9. CASE Tick \/ UNCHANGED vars
  <2>1. /\ orders' = orders /\ terms' = terms /\ resource' = resource /\ pc' = pc
        /\ call' = call /\ sweep' = sweep
    BY <1>9 DEF Tick, vars
  <2>2. RowsStay /\ BeginsBacked
    BY <2>1 DEF RowsStay, BeginsBacked
  <2> QED BY <2>1, <2>2, RowsStayKeeps
<1> QED
  BY <1>2, <1>3, <1>4, <1>5, <1>6, <1>7, <1>8, <1>9, InsertKeeps DEF Next, Create

\* Before the first request no key is taken.
LEMMA KeysInitially == Init => KeyInv
<1>1. NoOrder.status = "none" /\ Idle.at = "idle"
  BY DEF NoOrder, Idle
<1> HIDE DEF NoOrder, Idle
<1> QED BY <1>1 DEF Init, KeyInv, Backed, KeysDistinct, Placed, Inserted, Working

\* Requests with one idempotency key buy at most one proxy, whatever overlaps
\* and whatever fails: the lookup may miss the row (order_usecase.go:93), the
\* UNIQUE does not.
THEOREM OneKeyOnePurchase == Spec => []OnePurchasePerKey
<1>1. Spec => []KeyInv
  BY KeysInitially, KeysInductive, TypeCorrect, PTL DEF Spec
<1>2. KeyInv => OnePurchasePerKey
  BY DEF KeyInv, Backed, KeysDistinct, OnePurchasePerKey
<1> QED BY <1>1, <1>2, PTL
-----------------------------------------------------------------------------
(***************************************************************************)
(* Requests that do not overlap.  The database answers: a statement that   *)
(* ran and still reports an error makes the saga mark a delivered order    *)
(* failed.                                                                 *)
(***************************************************************************)

\* Nothing is under way.
Quiet ==
  /\ \A o \in Orders : pc[o] \notin Working
  /\ \A c \in Calls : call[c].at = "idle"
  /\ sweep.stage = "idle"

\* One saga, one request or the scheduler is under way.
Alone ==
  /\ \A o, p \in Orders : pc[o] \in Working /\ pc[p] \in Working => o = p
  /\ \A c, d \in Calls : call[c].at # "idle" /\ call[d].at # "idle" => c = d
  /\ \A o \in Orders, c \in Calls : pc[o] \in Working => call[c].at = "idle"
  /\ sweep.stage # "idle" => /\ \A o \in Orders : pc[o] \notin Working
                             /\ \A c \in Calls : call[c].at = "idle"

\* A step that opens nothing.
OpensNothing ==
  /\ \A o \in Orders : pc'[o] \in Working => pc[o] \in Working
  /\ \A c \in Calls : call'[c].at # "idle" => call[c].at # "idle"
  /\ sweep'.stage # "idle" => sweep.stage # "idle"

LEMMA CountsNothing == InFlight = 0 => Quiet
<1> DEFINE A == {o \in Orders : pc[o] \in Working}
           B == {c \in Calls : call[c].at # "idle"}
<1>1. IsFiniteSet(A) /\ IsFiniteSet(B)
  BY ProxyAssumption, FS_Subset
<1>2. /\ Cardinality(A) \in Nat /\ (Cardinality(A) = 0 <=> A = {})
      /\ Cardinality(B) \in Nat /\ (Cardinality(B) = 0 <=> B = {})
  BY <1>1, FS_CardinalityType, FS_EmptySet
<1>3. InFlight = Cardinality(A) + Cardinality(B) + (IF sweep.stage = "idle" THEN 0 ELSE 1)
  BY DEF InFlight
<1>4. InFlight = 0 => A = {} /\ B = {} /\ sweep.stage = "idle"
  <2> HIDE DEF A, B
  <2> QED BY <1>2, <1>3
<1> QED BY <1>4 DEF Quiet

LEMMA StartsQuiet == ASSUME MaxInFlight = 1, MayStart PROVE Quiet
<1>1. InFlight \in Nat
  <2>1. /\ IsFiniteSet({o \in Orders : pc[o] \in Working})
        /\ IsFiniteSet({c \in Calls : call[c].at # "idle"})
    BY ProxyAssumption, FS_Subset
  <2>2. /\ Cardinality({o \in Orders : pc[o] \in Working}) \in Nat
        /\ Cardinality({c \in Calls : call[c].at # "idle"}) \in Nat
    BY <2>1, FS_CardinalityType
  <2> QED BY <2>2 DEF InFlight
<1>2. InFlight = 0
  BY <1>1 DEF MayStart
<1> QED BY <1>2, CountsNothing

LEMMA AloneStays == ASSUME Alone, OpensNothing PROVE Alone'
BY DEF Alone, OpensNothing
-----------------------------------------------------------------------------
(***************************************************************************)
(* The lifecycle of an order.                                              *)
(***************************************************************************)

\* What one step may make of a row.
Legal(w, new) ==
  \/ new.status = w.status /\ new.creds = w.creds
  \/ w.status \in {"pending", "processing"} /\ new.status = "active" /\ new.creds
  \/ /\ new.creds = w.creds
     /\ \/ w.status = "none" /\ new.status = "pending"
        \/ w.status = "pending" /\ new.status \in {"processing", "failed", "cancelled"}
        \/ w.status = "active" /\ new.status \in {"expired", "suspended", "cancelled"}
        \/ w.status = "expired" /\ new.status \in {"active", "suspended", "cancelled"}
        \/ w.status = "suspended" /\ new.status = "active"

Moves(o) ==
  \E new \in OrderRow : orders' = [orders EXCEPT ![o] = new] /\ Legal(orders[o], new)

\* The status of an order at each stage of its saga.
SagaFits(stage, status) ==
  /\ stage \in {"arrived", "checked"} => status = "none"
  /\ stage \in {"placed", "held", "bought", "ordered", "saved", "releasing", "failing"}
       => status = "pending"
  /\ stage = "activated" => status = "active"
  /\ stage = "done" => status # "pending"

\* The row of an order at each stage of a request.
CallFits(k, w) ==
  /\ k.at = "read" \/ (k.op # "renew" /\ k.at = "told")
       \/ (k.op = "renew" /\ k.at \in {"held", "unpaid", "paid", "resumed"})
     => /\ w = k.seen
        /\ k.op = "cancel" => w.status \in {"active", "expired"}
        /\ k.op = "lock" => w.status \in {"active", "expired"}
        /\ k.op = "unlock" => w.status = "suspended"
        /\ k.op = "renew" => w.status = "expired"
        /\ k.op = "fulfil" => w.status = "processing"
  /\ k.op = "renew" /\ k.at \in {"extended", "cleared"} => w.status = "active"
  /\ k.op # "renew" => k.at \in {"idle", "read", "told", "marked", "fulfilled"}
  /\ k.at # "idle" => w.status # "none"

\* The rows on the scheduler's list.
SweepFits ==
  /\ sweep.told \subseteq sweep.left
  /\ \A o, p \in sweep.told : o = p
  /\ sweep.stage = "idle" => sweep.left = {}
  /\ sweep.stage = "expiring" => \A o \in sweep.left : orders[o].status = "active"
  /\ sweep.stage = "purging" => \A o \in sweep.left : orders[o].status = "expired"

LifeInv ==
  /\ Alone
  /\ \A o \in Orders : SagaFits(pc[o], orders[o].status)
  /\ \A c \in Calls : call[c].at # "idle" => CallFits(call[c], orders[call[c].order])
  /\ SweepFits

\* A statement that does not fail, on the row of o.
LEMMA Writes ==
  ASSUME IInv, NEW o \in Orders, NEW new \in OrderRow, Legal(orders[o], new),
         orders' = [orders EXCEPT ![o] = new]
  PROVE  Moves(o) /\ orders'[o] = new
<1>1. orders \in [Orders -> OrderRow]
  BY DEF IInv, TypeOK
<1> QED BY <1>1 DEF Moves

LEMMA WritesStatus ==
  ASSUME IInv, NEW o \in Orders, NEW s \in Status,
         Legal(orders[o], [orders[o] EXCEPT !.status = s]),
         orders' = [orders EXCEPT ![o] = [orders[o] EXCEPT !.status = s]]
  PROVE  /\ Moves(o) /\ orders'[o].status = s /\ orders'[o].ref = orders[o].ref
<1> DEFINE new == [orders[o] EXCEPT !.status = s]
<1>1. orders[o] \in OrderRow
  BY DEF IInv, TypeOK
<1>2. new \in OrderRow /\ new.status = s /\ new.ref = orders[o].ref
  BY <1>1 DEF OrderRow
<1>3. orders' = [orders EXCEPT ![o] = new] /\ Legal(orders[o], new)
  OBVIOUS
<1> HIDE DEF new
<1> QED BY <1>2, <1>3, Writes

LEMMA KeepsRow ==
  ASSUME IInv, NEW o \in Orders, orders' = orders
  PROVE  Moves(o)
<1>1. orders \in [Orders -> OrderRow]
  BY DEF IInv, TypeOK
<1>2. orders' = [orders EXCEPT ![o] = orders[o]] /\ orders[o] \in OrderRow
  BY <1>1
<1> QED BY <1>2 DEF Moves, Legal

\* The rows that the saga writes.
LEMMA SagaRows ==
  ASSUME IInv, NEW o \in Orders
  PROVE  /\ orders[o] \in OrderRow
         /\ \A e \in Date : Activated(orders[o], e) \in OrderRow
                           /\ Activated(orders[o], e).status = "active"
                           /\ Activated(orders[o], e).ref
                           /\ Activated(orders[o], e).creds
         /\ FirstExpiry(o) \in Date /\ now + 1 \in Date
         /\ [orders[o] EXCEPT !.ref = TRUE, !.creds = FALSE, !.expires = NoTime] \in OrderRow
<1>1. orders[o] \in OrderRow
  BY DEF IInv, TypeOK
<1>2. terms[o].days \in Nat /\ now \in Nat
  BY ProxyAssumption DEF IInv, TypeOK, Terms
<1>3. FirstExpiry(o) \in Date /\ now + 1 \in Date
  BY <1>2 DEF FirstExpiry, Date
<1>4. ASSUME NEW e \in Date
      PROVE  /\ Activated(orders[o], e) \in OrderRow
             /\ Activated(orders[o], e).status = "active"
             /\ Activated(orders[o], e).ref /\ Activated(orders[o], e).creds
  BY <1>1 DEF Activated, OrderRow, Status
<1>5. [orders[o] EXCEPT !.ref = TRUE, !.creds = FALSE, !.expires = NoTime] \in OrderRow
  BY <1>1 DEF OrderRow, Date, NoTime
<1> QED BY <1>1, <1>3, <1>4, <1>5

\* A saga takes its order along the lifecycle (order_usecase.go:79-262).
LEMMA SagaAdvances ==
  ASSUME MaxInFlight = 1, "db" \notin Faults, IInv, LifeInv, NEW o \in Orders, Create(o)
  PROVE  /\ Moves(o) /\ call' = call /\ sweep' = sweep
         /\ \A p \in Orders \ {o} : pc[p] \notin Working
         /\ \A c \in Calls : call[c].at = "idle"
         /\ sweep.stage = "idle"
         /\ \E s \in Working \cup {"done"} :
              pc' = [pc EXCEPT ![o] = s] /\ SagaFits(s, orders'[o].status)
<1>1. SagaFits(pc[o], orders[o].status) /\ Alone
  BY DEF LifeInv
<1>2. call' = call /\ sweep' = sweep
  BY DEF Create, Lookup, Insert, HoldFunds, Purchase, Activate, ConfirmFunds, SaveRef,
     MarkProcessing, ReleaseFunds, MarkFailed
<1>3. pc[o] \in Working \/ Quiet
  <2>1. CASE Lookup(o)
    BY <2>1, StartsQuiet DEF Lookup
  <2>2. CASE ~Lookup(o)
    BY <2>2 DEF Create, Insert, HoldFunds, Purchase, Activate, ConfirmFunds, SaveRef,
       MarkProcessing, ReleaseFunds, MarkFailed, Working
  <2> QED BY <2>1, <2>2
<1>4. /\ \A p \in Orders \ {o} : pc[p] \notin Working
      /\ \A c \in Calls : call[c].at = "idle"
      /\ sweep.stage = "idle"
  BY <1>1, <1>3 DEF Quiet, Alone
<1> DEFINE Goes == \E s \in Working \cup {"done"} :
                     pc' = [pc EXCEPT ![o] = s] /\ SagaFits(s, orders'[o].status)
<1>5. ASSUME Lookup(o) \/ HoldFunds(o) \/ Purchase(o) \/ ConfirmFunds(o) \/ ReleaseFunds(o)
      PROVE  Moves(o) /\ Goes
  <2>1. orders' = orders
    BY <1>5 DEF Lookup, HoldFunds, Purchase, ConfirmFunds, ReleaseFunds
  <2>2. Moves(o)
    BY <2>1, KeepsRow
  <2>3. \E s \in Working \cup {"done"} :
           pc' = [pc EXCEPT ![o] = s] /\ SagaFits(s, orders[o].status)
    <3>1. CASE Lookup(o)
      <4>1. pc[o] = "arrived" /\ \E s \in {"done", "checked"} : pc' = [pc EXCEPT ![o] = s]
        BY <3>1 DEF Lookup, Goto
      <4>2. SagaFits("done", orders[o].status) /\ SagaFits("checked", orders[o].status)
        BY <1>1, <4>1 DEF SagaFits
      <4> QED BY <4>1, <4>2 DEF Working
    <3>2. CASE HoldFunds(o)
      <4>1. pc[o] = "placed" /\ \E s \in {"held", "failing"} : pc' = [pc EXCEPT ![o] = s]
        BY <3>2 DEF HoldFunds, Bill, Goto
      <4>2. SagaFits("held", orders[o].status) /\ SagaFits("failing", orders[o].status)
        BY <1>1, <4>1 DEF SagaFits
      <4> QED BY <4>1, <4>2 DEF Working
    <3>3. CASE Purchase(o)
      <4>1. /\ pc[o] = "held"
            /\ \E s \in {"bought", "ordered", "releasing"} : pc' = [pc EXCEPT ![o] = s]
        BY <3>3, Zenon DEF Purchase, Goto
      <4>2. /\ SagaFits("bought", orders[o].status) /\ SagaFits("ordered", orders[o].status)
            /\ SagaFits("releasing", orders[o].status)
        BY <1>1, <4>1 DEF SagaFits
      <4> QED BY <4>1, <4>2 DEF Working
    <3>4. CASE ConfirmFunds(o)
      <4>1. pc[o] = "activated" /\ pc' = [pc EXCEPT ![o] = "done"]
        BY <3>4 DEF ConfirmFunds, Bill, Goto
      <4>2. SagaFits("done", orders[o].status)
        BY <1>1, <4>1 DEF SagaFits
      <4> QED BY <4>1, <4>2
    <3>5. CASE ReleaseFunds(o)
      <4>1. pc[o] = "releasing" /\ pc' = [pc EXCEPT ![o] = "failing"]
        BY <3>5 DEF ReleaseFunds, Bill, Goto
      <4>2. SagaFits("failing", orders[o].status)
        BY <1>1, <4>1 DEF SagaFits
      <4> QED BY <4>1, <4>2 DEF Working
    <3> QED BY <1>5, <3>1, <3>2, <3>3, <3>4, <3>5
  <2> QED BY <2>1, <2>2, <2>3
<1>6. ASSUME Insert(o) PROVE Moves(o) /\ Goes
  <2>1. CASE KeyTaken(o)
    <3>1. orders' = orders /\ pc[o] = "checked" /\ pc' = [pc EXCEPT ![o] = "done"]
      BY <1>6, <2>1 DEF Insert, Goto
    <3>2. Goes
      BY <1>1, <3>1 DEF SagaFits
    <3> QED BY <3>1, <3>2, KeepsRow
  <2>2. CASE ~KeyTaken(o)
    <3>1. /\ pc[o] = "checked" /\ pc' = [pc EXCEPT ![o] = "placed"]
          /\ orders' = [orders EXCEPT ![o] = [orders[o] EXCEPT !.status = "pending"]]
      BY <1>6, <2>2 DEF Insert, SetStatus, Save, Goto
    <3>2. Legal(orders[o], [orders[o] EXCEPT !.status = "pending"])
      BY <1>1, <3>1, SagaRows DEF SagaFits, Legal, OrderRow
    <3>3. Moves(o) /\ orders'[o].status = "pending"
      BY <3>1, <3>2, WritesStatus DEF Status
    <3>4. Goes
      BY <3>1, <3>3 DEF SagaFits, Working
    <3> QED BY <3>3, <3>4
  <2> QED BY <2>1, <2>2
<1>7. ASSUME Activate(o) PROVE Moves(o) /\ Goes
  <2> DEFINE new == Activated(orders[o], FirstExpiry(o))
  <2>1. /\ pc[o] = "bought" /\ pc' = [pc EXCEPT ![o] = "activated"]
        /\ orders' = [orders EXCEPT ![o] = new]
    BY <1>7 DEF Activate, Save, Goto
  <2>2. new \in OrderRow /\ new.status = "active" /\ new.creds
    BY SagaRows
  <2> HIDE DEF new
  <2>3. Legal(orders[o], new)
    BY <1>1, <2>1, <2>2 DEF SagaFits, Legal
  <2>4. Moves(o) /\ orders'[o] = new
    BY <2>1, <2>2, <2>3, Writes
  <2>5. Goes
    BY <2>1, <2>2, <2>4 DEF SagaFits, Working
  <2> QED BY <2>4, <2>5
<1>8. ASSUME SaveRef(o) PROVE Moves(o) /\ Goes
  <2> DEFINE new == [orders[o] EXCEPT !.ref = TRUE, !.creds = FALSE, !.expires = NoTime]
  <2>1. /\ pc[o] = "ordered" /\ pc' = [pc EXCEPT ![o] = "saved"]
        /\ orders' = [orders EXCEPT ![o] = new]
    BY <1>8 DEF SaveRef, Save, Goto
  <2>2. new \in OrderRow
    BY SagaRows
  <2>3. ~orders[o].creds
    BY <2>1 DEF IInv, EarlyWithout, Early
  <2>4. new.status = orders[o].status /\ new.creds = orders[o].creds
    <3>1. orders[o] \in OrderRow
      BY SagaRows
    <3> QED BY <2>3, <3>1 DEF OrderRow
  <2> HIDE DEF new
  <2>5. Moves(o) /\ orders'[o] = new
    BY <2>1, <2>2, <2>4, Writes DEF Legal
  <2>6. Goes
    BY <1>1, <2>1, <2>4, <2>5 DEF SagaFits, Working
  <2> QED BY <2>5, <2>6
<1>9. ASSUME MarkProcessing(o) \/ MarkFailed(o) PROVE Moves(o) /\ Goes
  <2>1. PICK s \in {"processing", "failed"} :
          /\ pc[o] \in {"saved", "failing"} /\ pc' = [pc EXCEPT ![o] = "done"]
          /\ orders' = [orders EXCEPT ![o] = [orders[o] EXCEPT !.status = s]]
    BY <1>9 DEF MarkProcessing, MarkFailed, SetStatus, Save, Goto
  <2>2. Legal(orders[o], [orders[o] EXCEPT !.status = s])
    BY <1>1, <2>1, SagaRows DEF SagaFits, Legal, OrderRow
  <2>3. Moves(o) /\ orders'[o].status = s
    BY <2>1, <2>2, WritesStatus DEF Status
  <2>4. Goes
    BY <2>1, <2>3 DEF SagaFits
  <2> QED BY <2>3, <2>4
<1> QED BY <1>2, <1>4, <1>5, <1>6, <1>7, <1>8, <1>9 DEF Create

\* A request ends, or goes on to a stage that its order's row fits.
Follows(c) ==
  \/ call' = [call EXCEPT ![c] = Idle]
  \/ \E s \in CallStage \ {"idle", "read"} :
       /\ call' = [call EXCEPT ![c].at = s]
       /\ CallFits([call[c] EXCEPT !.at = s], orders'[call[c].order])

\* A request takes its order along the lifecycle (order_usecase.go:304-445,
\* lock_usecase.go:33-107, webhook_usecase.go:82-170).
LEMMA RequestAdvances ==
  ASSUME "db" \notin Faults, IInv, LifeInv, NEW c \in Calls, Proceed(c)
  PROVE  Moves(call[c].order) /\ Follows(c) /\ call[c].at # "idle"
<1> DEFINE o == call[c].order
           k == call[c]
<1>1. k \in Call /\ o \in Orders /\ orders[o] \in OrderRow
  BY DEF IInv, TypeOK, Call
<1>2. call[c].at # "idle"
  BY DEF Proceed, TellProvider, MarkCancelled, Refund, MarkLocked, MarkActive, HoldRenewal,
     ConfirmRenewal, ReleaseRenewal, ResumeRenewed, Extend, ClearCustom, Fulfil,
     ConfirmFulfilled, At
<1>3. CallFits(k, orders[o])
  BY <1>2 DEF LifeInv
<1>4. \A s : /\ [k EXCEPT !.at = s].op = k.op /\ [k EXCEPT !.at = s].seen = k.seen
             /\ [k EXCEPT !.at = s].order = k.order /\ [k EXCEPT !.at = s].at = s
  BY <1>1 DEF Call
<1>5. ASSUME \/ TellProvider(c) \/ Refund(c) \/ HoldRenewal(c) \/ ConfirmRenewal(c)
             \/ ReleaseRenewal(c) \/ ResumeRenewed(c) \/ ConfirmFulfilled(c)
      PROVE  Moves(o) /\ Follows(c)
  <2>1. orders' = orders
    BY <1>5 DEF TellProvider, Refund, HoldRenewal, ConfirmRenewal, ReleaseRenewal,
       ResumeRenewed, ConfirmFulfilled
  <2>2. Moves(o)
    BY <1>1, <2>1, KeepsRow
  <2>3. \/ Leave(c)
        \/ k.op \in {"cancel", "lock", "unlock"} /\ k.at = "read" /\ Move(c, "told")
        \/ k.op = "renew" /\ \/ k.at = "read" /\ Move(c, "held")
                             \/ k.at = "held" /\ (Move(c, "paid") \/ Move(c, "unpaid"))
                             \/ k.at = "paid" /\ Move(c, "resumed")
    BY <1>5 DEF TellProvider, Refund, HoldRenewal, ConfirmRenewal, ReleaseRenewal,
       ResumeRenewed, ConfirmFulfilled, At, Bill
  <2>4. ASSUME k.op \in {"cancel", "lock", "unlock"}, k.at = "read"
        PROVE  CallFits([k EXCEPT !.at = "told"], orders[o])
    BY <1>3, <1>4, <2>4 DEF CallFits
  <2>5. ASSUME k.op = "renew", k.at \in {"read", "held", "paid"},
               NEW s \in {"held", "paid", "unpaid", "resumed"}
        PROVE  CallFits([k EXCEPT !.at = s], orders[o])
    BY <1>3, <1>4, <2>5 DEF CallFits
  <2>6. Follows(c)
    <3> HIDE DEF k, o
    <3>1. CASE Leave(c)
      BY <3>1 DEF Follows, Leave
    <3>2. CASE k.op \in {"cancel", "lock", "unlock"} /\ k.at = "read" /\ Move(c, "told")
      <4>1. CallFits([call[c] EXCEPT !.at = "told"], orders'[call[c].order])
        BY <2>1, <2>4, <3>2 DEF k, o
      <4> QED BY <3>2, <4>1 DEF Follows, Move, CallStage
    <3>3. CASE k.op = "renew" /\ \/ k.at = "read" /\ Move(c, "held")
                                 \/ k.at = "held" /\ (Move(c, "paid") \/ Move(c, "unpaid"))
                                 \/ k.at = "paid" /\ Move(c, "resumed")
      <4>1. PICK s \in {"held", "paid", "unpaid", "resumed"} :
              call' = [call EXCEPT ![c].at = s]
        BY <3>3 DEF Move
      <4>2. CallFits([call[c] EXCEPT !.at = s], orders'[call[c].order])
        BY <2>1, <2>5, <3>3 DEF k, o
      <4> QED BY <4>1, <4>2 DEF Follows, CallStage
    <3> QED BY <2>3, <3>1, <3>2, <3>3
  <2> QED BY <2>2, <2>6
<1>6. ASSUME MarkCancelled(c) \/ MarkLocked(c) \/ MarkActive(c)
      PROVE  Moves(o) /\ Follows(c)
  <2>1. PICK s \in {"cancelled", "suspended", "active"} :
          /\ orders' = [orders EXCEPT ![o] = [orders[o] EXCEPT !.status = s]]
          /\ \/ s = "cancelled" /\ k.op = "cancel" /\ k.at = "told"
             \/ s = "suspended" /\ k.op = "lock" /\ k.at = "told"
             \/ s = "active" /\ k.op = "unlock" /\ k.at = "told"
             \/ s = "active" /\ k.op = "renew" /\ k.at = "cleared"
          /\ Leave(c) \/ (s = "cancelled" /\ Move(c, "marked"))
    BY <1>6 DEF MarkCancelled, MarkLocked, MarkActive, SetStatus, Save, At
  <2>2. Legal(orders[o], [orders[o] EXCEPT !.status = s])
    BY <1>1, <1>3, <2>1 DEF CallFits, Legal, OrderRow
  <2>3. Moves(o) /\ orders'[o].status = s
    BY <1>1, <2>1, <2>2, WritesStatus DEF Status
  <2>4. Follows(c)
    <3>1. CASE Leave(c)
      BY <3>1 DEF Follows, Leave
    <3>2. CASE s = "cancelled" /\ Move(c, "marked")
      <4>1. k.op = "cancel"
        BY <2>1, <3>2
      <4>2. CallFits([k EXCEPT !.at = "marked"], orders'[o])
        BY <1>4, <2>3, <3>2, <4>1 DEF CallFits
      <4> QED BY <3>2, <4>2 DEF Follows, Move, CallStage
    <3> QED BY <2>1, <3>1, <3>2
  <2> QED BY <2>3, <2>4
<1>7. ASSUME Extend(c) PROVE Moves(o) /\ Follows(c)
  <2> DEFINE w == call[c].seen
             new == [orders[o] EXCEPT !.ref = w.ref, !.creds = w.creds,
                                      !.expires = Renewed(o, w),
                                      !.status = IF w.creds THEN "active" ELSE @]
  <2>1. /\ k.op = "renew" /\ k.at = "resumed" /\ Move(c, "extended")
        /\ orders' = [orders EXCEPT ![o] = new]
    BY <1>7 DEF Extend, Save, At
  <2>2. w.creds /\ orders[o].creds /\ orders[o].status = "expired"
    <3>1. w = orders[o] /\ orders[o].status = "expired"
      BY <1>3, <2>1 DEF CallFits
    <3>2. w.creds
      BY <1>2, <2>1 DEF IInv, OpenBacked
    <3> QED BY <3>1, <3>2
  <2>3. w \in OrderRow /\ Renewed(o, w) \in Date
    <3>1. w \in OrderRow /\ terms[o].days \in Nat /\ Effective(w) # NoTime
      BY <1>1, <1>2, <2>1, ProxyAssumption DEF IInv, OpenBacked, TypeOK, Terms, Call
    <3>2. Effective(w) \in Nat
      BY <3>1 DEF OrderRow, Date, Effective
    <3> QED BY <3>1, <3>2 DEF Renewed, Date
  <2>4. new \in OrderRow /\ new.status = "active" /\ new.creds = orders[o].creds
    BY <1>1, <2>2, <2>3 DEF OrderRow, Status
  <2> HIDE DEF new
  <2>5. Legal(orders[o], new)
    BY <2>2, <2>4 DEF Legal
  <2>6. Moves(o) /\ orders'[o] = new
    BY <1>1, <2>1, <2>4, <2>5, Writes
  <2>7. CallFits([k EXCEPT !.at = "extended"], orders'[o])
    BY <1>4, <2>1, <2>4, <2>6 DEF CallFits
  <2>8. Follows(c)
    BY <2>1, <2>7 DEF Follows, Move, CallStage
  <2> QED BY <2>6, <2>8
<1>8. ASSUME ClearCustom(c) PROVE Moves(o) /\ Follows(c)
  <2> DEFINE new == [orders[o] EXCEPT !.custom = NoTime, !.price = NoPrice]
  <2>1. /\ k.op = "renew" /\ k.at = "extended" /\ Move(c, "cleared")
        /\ orders' = [orders EXCEPT ![o] = new]
    BY <1>8 DEF ClearCustom, Save, At
  <2>2. new \in OrderRow /\ new.status = orders[o].status /\ new.creds = orders[o].creds
    BY <1>1 DEF OrderRow, Date, NoTime, NoPrice
  <2>3. orders[o].status = "active"
    BY <1>3, <2>1 DEF CallFits
  <2> HIDE DEF new
  <2>4. Moves(o) /\ orders'[o] = new
    BY <1>1, <2>1, <2>2, Writes DEF Legal
  <2>5. CallFits([k EXCEPT !.at = "cleared"], orders'[o])
    BY <1>4, <2>1, <2>2, <2>3, <2>4 DEF CallFits
  <2>6. Follows(c)
    BY <2>1, <2>5 DEF Follows, Move, CallStage
  <2> QED BY <2>4, <2>6
<1>9. ASSUME Fulfil(c) PROVE Moves(o) /\ Follows(c)
  <2>1. PICK e \in {FirstExpiry(o), now + 1} :
          /\ k.op = "fulfil" /\ k.at = "read" /\ Move(c, "fulfilled")
          /\ orders' = [orders EXCEPT ![o] = Activated(orders[o], e)]
    BY <1>9 DEF Fulfil, Save, At
  <2> DEFINE new == Activated(orders[o], e)
  <2>2. new \in OrderRow /\ new.status = "active" /\ new.creds
    BY <1>1, <2>1, SagaRows
  <2>3. orders[o].status = "processing"
    BY <1>3, <2>1 DEF CallFits
  <2> HIDE DEF new
  <2>4. Moves(o) /\ orders'[o] = new
    BY <1>1, <2>1, <2>2, <2>3, Writes DEF Legal, new
  <2>5. CallFits([k EXCEPT !.at = "fulfilled"], orders'[o])
    BY <1>4, <2>1, <2>2, <2>4 DEF CallFits
  <2>6. Follows(c)
    BY <2>1, <2>5 DEF Follows, Move, CallStage
  <2> QED BY <2>4, <2>6
<1> QED BY <1>2, <1>5, <1>6, <1>7, <1>8, <1>9 DEF Proceed

\* The scheduler takes orders along the lifecycle (expiry_usecase.go:51-121).
LEMMA SweepAdvances ==
  ASSUME MaxInFlight = 1, "db" \notin Faults, IInv, LifeInv, Sweep
  PROVE  /\ \E o \in Orders : Moves(o) /\ (orders[o].status = "none" => orders' = orders)
         /\ Quiet \/ sweep.stage # "idle"
         /\ SweepFits'
         /\ pc' = pc /\ call' = call
<1>1. /\ orders \in [Orders -> OrderRow]
      /\ sweep \in [stage: {"idle", "expiring", "purging"}, left: SUBSET Orders,
                    told: SUBSET Orders]
      /\ Orders # {}
  BY ProxyAssumption DEF IInv, TypeOK
<1>2. SweepFits
  BY DEF LifeInv
<1> DEFINE Acts == \E o \in Orders :
                     Moves(o) /\ (orders[o].status = "none" => orders' = orders)
           Swept == Acts /\ (Quiet \/ sweep.stage # "idle") /\ SweepFits'
<1>3. ASSUME ListExpired PROVE Swept
  <2>1. /\ orders' = orders /\ Quiet
        /\ sweep' = [stage |-> "expiring", left |-> {o \in Orders : Overdue(o)}, told |-> {}]
    BY <1>3, StartsQuiet DEF ListExpired
  <2>2. SweepFits'
    BY <2>1 DEF SweepFits, Overdue
  <2>3. Acts
    BY <1>1, <2>1, KeepsRow
  <2> QED BY <2>1, <2>2, <2>3
<1>4. ASSUME ListGrace PROVE Swept
  <2>1. /\ orders' = orders /\ sweep.stage = "expiring"
        /\ sweep' = [stage |-> "purging", left |-> {o \in Orders : GraceOver(o)}, told |-> {}]
    BY <1>4 DEF ListGrace
  <2>2. SweepFits'
    BY <2>1 DEF SweepFits, GraceOver
  <2>3. Acts
    BY <1>1, <2>1, KeepsRow
  <2> QED BY <2>1, <2>2, <2>3
<1>5. ASSUME EndTick PROVE Swept
  <2>1. /\ orders' = orders /\ sweep.stage = "purging" /\ sweep.left = {}
        /\ sweep'.stage = "idle" /\ sweep'.left = sweep.left /\ sweep'.told = sweep.told
    BY <1>1, <1>5 DEF EndTick
  <2>2. SweepFits'
    BY <1>2, <2>1 DEF SweepFits
  <2>3. Acts
    BY <1>1, <2>1, KeepsRow
  <2> QED BY <2>1, <2>2, <2>3
<1>6. ASSUME NEW o \in Orders, SuspendExpired(o) \/ DeleteProxy(o)
      PROVE  Acts /\ sweep.stage # "idle" /\ SweepFits'
  <2>1. /\ orders' = orders /\ sweep.stage # "idle" /\ o \in sweep.left
        /\ sweep'.stage = sweep.stage /\ sweep'.left = sweep.left /\ sweep'.told = {o}
    BY <1>1, <1>6 DEF SuspendExpired, DeleteProxy
  <2>2. SweepFits'
    BY <1>2, <2>1 DEF SweepFits
  <2> QED BY <2>1, <2>2, KeepsRow
<1>7. ASSUME NEW o \in Orders, MarkExpired(o) \/ MarkDeleted(o)
      PROVE  Acts /\ sweep.stage # "idle" /\ SweepFits'
  <2>1. PICK s \in {"expired", "cancelled"} :
          /\ orders' = [orders EXCEPT ![o] = [orders[o] EXCEPT !.status = s]]
          /\ o \in sweep.told /\ Skip(o)
          /\ s = "expired" => sweep.stage = "expiring"
          /\ s = "cancelled" => sweep.stage = "purging"
    BY <1>7 DEF MarkExpired, MarkDeleted, SetStatus, Save
  <2>2. /\ sweep'.stage = sweep.stage /\ sweep'.left = sweep.left \ {o}
        /\ sweep'.told = {} /\ sweep.stage # "idle"
    BY <1>1, <2>1 DEF Skip
  <2>3. s = "expired" => orders[o].status = "active"
    BY <1>2, <2>1 DEF SweepFits
  <2>4. s = "cancelled" => orders[o].status = "expired"
    BY <1>2, <2>1 DEF SweepFits
  <2>5. Legal(orders[o], [orders[o] EXCEPT !.status = s])
    BY <1>1, <2>3, <2>4 DEF Legal, OrderRow
  <2>6. Moves(o)
    BY <2>1, <2>5, WritesStatus DEF Status
  <2>7. \A p \in Orders \ {o} : orders'[p] = orders[p]
    BY <2>6 DEF Moves
  <2>8. SweepFits'
    BY <1>1, <1>2, <2>2, <2>7 DEF SweepFits
  <2>9. orders[o].status # "none"
    BY <2>1, <2>3, <2>4
  <2> QED BY <2>2, <2>6, <2>8, <2>9
<1>8. pc' = pc /\ call' = call
  BY DEF Sweep, ListExpired, ListGrace, EndTick, SuspendExpired, MarkExpired, DeleteProxy,
     MarkDeleted
<1> QED BY <1>3, <1>4, <1>5, <1>6, <1>7, <1>8 DEF Sweep

\* PATCH changes neither status nor credentials (order_usecase.go:466-505).
LEMMA PatchAdvances ==
  ASSUME IInv, NEW o \in Orders, PatchOrder(o)
  PROVE  /\ Moves(o)
         /\ orders'[o].status = orders[o].status /\ orders'[o].ref = orders[o].ref
<1>1. orders \in [Orders -> OrderRow] /\ orders[o] \in OrderRow
  BY DEF IInv, TypeOK
<1>2. PICK price \in CustomPrices \cup {NoPrice}, expiry \in CustomTimes \cup {NoTime} :
        orders' = [orders EXCEPT ![o].price = price, ![o].custom = expiry]
  BY DEF PatchOrder
<1> DEFINE new == [orders[o] EXCEPT !.price = price, !.custom = expiry]
<1>3. /\ new \in OrderRow /\ new.status = orders[o].status
      /\ new.creds = orders[o].creds /\ new.ref = orders[o].ref
  BY <1>1, ProxyAssumption DEF OrderRow, Date, NoTime, NoPrice
<1>4. orders' = [orders EXCEPT ![o] = new]
  BY <1>1, <1>2
<1> HIDE DEF new
<1> QED BY <1>3, <1>4, Writes DEF Legal

-----------------------------------------------------------------------------
\* A legal change keeps an order that was placed placed, and leaves none
\* pending that was not.
LEMMA LegalKeeps ==
  ASSUME IInv, NEW o \in Orders, Moves(o)
  PROVE  /\ \A p \in Orders \ {o} : orders'[p] = orders[p]
         /\ Legal(orders[o], orders'[o])
         /\ \A p \in Orders : Legal(orders[p], orders'[p])
<1>1. orders \in [Orders -> OrderRow]
  BY DEF IInv, TypeOK
<1>2. PICK new \in OrderRow : orders' = [orders EXCEPT ![o] = new] /\ Legal(orders[o], new)
  BY DEF Moves
<1>3. orders'[o] = new /\ \A p \in Orders \ {o} : orders'[p] = orders[p]
  BY <1>1, <1>2
<1> QED BY <1>2, <1>3 DEF Legal

\* An order whose saga is over, or has not begun, stays in its place.
LEMMA RestFits ==
  ASSUME NEW w, NEW v, NEW stage, Legal(w, v), SagaFits(stage, w.status),
         stage \in {"arrived", "done"}, w.status = "none" => v.status = "none"
  PROVE  SagaFits(stage, v.status)
BY DEF Legal, SagaFits

LEMMA LifeStep ==
  ASSUME MaxInFlight = 1, "db" \notin Faults, IInv, LifeInv, [Next]_vars
  PROVE  LifeInv' /\ (UNCHANGED orders \/ \E o \in Orders : Moves(o))
<1> DEFINE Keeps == LifeInv' /\ (UNCHANGED orders \/ \E o \in Orders : Moves(o))
<1>1. /\ orders \in [Orders -> OrderRow] /\ call \in [Calls -> Call]
      /\ pc \in [Orders -> Working \cup {"arrived", "done"}]
  BY DEF IInv, TypeOK
<1>2. /\ Alone /\ SweepFits
      /\ \A o \in Orders : SagaFits(pc[o], orders[o].status)
      /\ \A c \in Calls : call[c].at # "idle" => CallFits(call[c], orders[call[c].order])
  BY DEF LifeInv
<1>3. ASSUME UNCHANGED <<orders, pc, call, sweep>> PROVE Keeps
  BY <1>3, <1>2 DEF LifeInv, Alone, SweepFits
<1>4. ASSUME NEW o \in Orders, Create(o) PROVE Keeps
  <2>1. /\ Moves(o) /\ call' = call /\ sweep' = sweep
        /\ \A p \in Orders \ {o} : pc[p] \notin Working
        /\ \A c \in Calls : call[c].at = "idle"
        /\ sweep.stage = "idle"
    BY <1>4, SagaAdvances
  <2>2. PICK s \in Working \cup {"done"} :
          pc' = [pc EXCEPT ![o] = s] /\ SagaFits(s, orders'[o].status)
    BY <1>4, SagaAdvances
  <2>3. pc'[o] = s /\ \A p \in Orders \ {o} : pc'[p] = pc[p]
    BY <1>1, <2>2
  <2>4. \A p \in Orders \ {o} : orders'[p] = orders[p]
    BY <2>1, LegalKeeps
  <2>5. Alone'
    BY <2>1, <2>3 DEF Alone
  <2>6. SweepFits'
    BY <1>2, <2>1 DEF SweepFits
  <2>7. \A p \in Orders : SagaFits(pc'[p], orders'[p].status)
    BY <1>2, <2>2, <2>3, <2>4
  <2>8. \A c \in Calls : call'[c].at = "idle"
    BY <2>1
  <2> QED BY <2>1, <2>5, <2>6, <2>7, <2>8 DEF LifeInv
<1>5. ASSUME NEW c \in Calls, Proceed(c) PROVE Keeps
  <2> DEFINE o == call[c].order
  <2>1. Moves(o) /\ Follows(c) /\ call[c].at # "idle" /\ o \in Orders
    BY <1>1, <1>5, RequestAdvances DEF Call
  <2>2. /\ \A p \in Orders : pc[p] \in {"arrived", "done"}
        /\ \A d \in Calls \ {c} : call[d].at = "idle"
        /\ sweep.stage = "idle"
    BY <1>1, <1>2, <2>1 DEF Alone
  <2>3. pc' = pc /\ sweep' = sweep
    BY <1>5 DEF Proceed, TellProvider, MarkCancelled, Refund, MarkLocked, MarkActive,
       HoldRenewal, ConfirmRenewal, ReleaseRenewal, ResumeRenewed, Extend, ClearCustom,
       Fulfil, ConfirmFulfilled
  <2>4. /\ \A d \in Calls \ {c} : call'[d] = call[d]
        /\ call'[c].at # "idle" => CallFits(call'[c], orders'[call'[c].order])
    <3>1. CASE call' = [call EXCEPT ![c] = Idle]
      BY <1>1, <3>1 DEF Idle
    <3>2. ASSUME NEW s \in CallStage, call' = [call EXCEPT ![c].at = s],
                 CallFits([call[c] EXCEPT !.at = s], orders'[o])
          PROVE  /\ \A d \in Calls \ {c} : call'[d] = call[d]
                 /\ CallFits(call'[c], orders'[call'[c].order])
      <4>1. call'[c] = [call[c] EXCEPT !.at = s] /\ call'[c].order = o
        BY <1>1, <3>2 DEF Call
      <4>2. \A d \in Calls \ {c} : call'[d] = call[d]
        BY <1>1, <3>2
      <4> QED BY <3>2, <4>1, <4>2
    <3> QED BY <2>1, <3>1, <3>2 DEF Follows
  <2>5. Alone'
    BY <2>2, <2>3, <2>4 DEF Alone, Working
  <2>6. SweepFits'
    BY <1>2, <2>2, <2>3 DEF SweepFits
  <2>7. \A p \in Orders : SagaFits(pc'[p], orders'[p].status)
    <3>1. \A p \in Orders \ {o} : orders'[p] = orders[p]
      BY <2>1, LegalKeeps
    <3>2. Legal(orders[o], orders'[o])
      BY <2>1, LegalKeeps
    <3>3. pc[o] = "done"
      BY <1>2, <2>1, <2>2 DEF CallFits, SagaFits
    <3>4. SagaFits(pc[o], orders'[o].status)
      <4>1. orders[o].status # "none"
        BY <1>2, <2>1 DEF CallFits
      <4> QED BY <1>2, <2>1, <3>2, <3>3, <4>1, RestFits
    <3> QED BY <1>2, <2>3, <3>1, <3>4
  <2>8. \A d \in Calls : call'[d].at # "idle" => CallFits(call'[d], orders'[call'[d].order])
    BY <2>2, <2>4
  <2> QED BY <2>1, <2>5, <2>6, <2>7, <2>8 DEF LifeInv
<1>6. ASSUME NEW c \in Calls, Read(c) PROVE Keeps
  <2>1. Quiet /\ UNCHANGED <<orders, pc, sweep>>
    BY <1>6, StartsQuiet DEF Read
  <2>2. PICK op \in Ops, o \in Orders :
          /\ Admits(op, o)
          /\ call' = [call EXCEPT ![c] = [op |-> op, order |-> o, seen |-> orders[o],
                                          at |-> "read"]]
    BY <1>6 DEF Read
  <2>3. /\ \A d \in Calls \ {c} : call'[d] = call[d]
        /\ call'[c].op = op /\ call'[c].order = o /\ call'[c].seen = orders[o]
        /\ call'[c].at = "read"
    BY <1>1, <2>2
  <2>4. orders[o].status # "pending"
    BY <1>1, <1>2, <2>1, <2>2 DEF Quiet, SagaFits
  <2>5. CallFits(call'[c], orders'[o])
    BY <2>1, <2>2, <2>3, <2>4 DEF CallFits, Admits
  <2>6. Alone'
    BY <2>1, <2>3 DEF Alone, Quiet
  <2>7. SweepFits' /\ \A p \in Orders : SagaFits(pc'[p], orders'[p].status)
    BY <1>2, <2>1 DEF SweepFits
  <2>8. \A d \in Calls : call'[d].at # "idle" => CallFits(call'[d], orders'[call'[d].order])
    BY <2>1, <2>3, <2>5 DEF Quiet
  <2> QED BY <2>1, <2>6, <2>7, <2>8 DEF LifeInv
<1>7. ASSUME Sweep PROVE Keeps
  <2>1. PICK o \in Orders : Moves(o) /\ (orders[o].status = "none" => orders' = orders)
    BY <1>7, SweepAdvances
  <2>2. /\ pc' = pc /\ call' = call /\ SweepFits'
        /\ Quiet \/ sweep.stage # "idle"
    BY <1>7, SweepAdvances
  <2>3. /\ \A p \in Orders : pc[p] \in {"arrived", "done"}
        /\ \A c \in Calls : call[c].at = "idle"
    BY <1>1, <1>2, <2>2 DEF Alone, Quiet
  <2>4. Alone'
    BY <2>2, <2>3 DEF Alone, Working
  <2>5. \A p \in Orders : SagaFits(pc'[p], orders'[p].status)
    <3>1. \A p \in Orders : Legal(orders[p], orders'[p])
      BY <2>1, LegalKeeps
    <3>2. \A p \in Orders \ {o} : orders'[p] = orders[p]
      BY <2>1, LegalKeeps
    <3>3. \A p \in Orders : orders[p].status = "none" => orders'[p].status = "none"
      BY <2>1, <3>2
    <3> QED BY <1>2, <2>2, <2>3, <3>1, <3>3, RestFits
  <2> QED BY <2>1, <2>2, <2>3, <2>4, <2>5 DEF LifeInv
<1>8. ASSUME NEW o \in Orders, PatchOrder(o) PROVE Keeps
  <2>1. /\ Quiet /\ UNCHANGED <<pc, call, sweep>> /\ Moves(o)
        /\ orders'[o].status = orders[o].status
    BY <1>8, StartsQuiet, PatchAdvances DEF PatchOrder
  <2>2. \A p \in Orders \ {o} : orders'[p] = orders[p]
    BY <2>1, LegalKeeps
  <2>3. Alone'
    BY <1>2, <2>1 DEF Alone
  <2>4. SweepFits'
    BY <1>2, <2>1 DEF SweepFits, Quiet
  <2>5. \A p \in Orders : SagaFits(pc'[p], orders'[p].status)
    BY <1>2, <2>1, <2>2
  <2> QED BY <2>1, <2>3, <2>4, <2>5 DEF LifeInv, Quiet
<1>9. CASE Tick \/ UNCHANGED vars
  BY <1>3, <1>9 DEF Tick, vars
<1> QED BY <1>4, <1>5, <1>6, <1>7, <1>8, <1>9 DEF Next

\* No order exists, and nothing is under way, at first.
LEMMA LifeInitially == Init => LifeInv
BY DEF Init, LifeInv, Alone, SagaFits, SweepFits, Idle, NoOrder, Working

\* A legal change of one row is a step of the lifecycle, or none.
LEMMA MovesMap ==
  ASSUME IInv, NEW o \in Orders, Moves(o)
  PROVE  [Lifecycle!Next]_(Lifecycle!vars)
<1> DEFINE S == [p \in Orders |-> orders[p].status]
           C == {p \in Orders : orders[p].creds}
<1>1. orders \in [Orders -> OrderRow]
  BY DEF IInv, TypeOK
<1>2. PICK new \in OrderRow : orders' = [orders EXCEPT ![o] = new] /\ Legal(orders[o], new)
  BY DEF Moves
<1>3. S' = [S EXCEPT ![o] = new.status] /\ S[o] = orders[o].status
  BY <1>1, <1>2
<1>4. new.creds = orders[o].creds => C' = C
  BY <1>1, <1>2
<1>5. new.creds => C' = C \cup {o}
  BY <1>1, <1>2
<1>6. CASE new.status = orders[o].status /\ new.creds = orders[o].creds
  <2>1. S' = S
    BY <1>3, <1>6
  <2> QED BY <1>4, <1>6, <2>1 DEF Lifecycle!vars
<1>7. CASE orders[o].status \in {"pending", "processing"} /\ new.status = "active" /\ new.creds
  <2>1. Lifecycle!Deliver(o)
    BY <1>3, <1>5, <1>7 DEF Lifecycle!Deliver, Lifecycle!Change
  <2> QED BY <2>1 DEF Lifecycle!Next
<1>8. CASE new.creds = orders[o].creds /\ ~(new.status = orders[o].status)
  <2> USE <1>3, <1>4, <1>8 DEF Lifecycle!Change
  <2>1. CASE orders[o].status = "none" /\ new.status = "pending"
    BY <2>1 DEF Lifecycle!Next, Lifecycle!Place
  <2>2. CASE orders[o].status = "pending" /\ new.status = "processing"
    BY <2>2 DEF Lifecycle!Next, Lifecycle!Await
  <2>3. CASE orders[o].status = "pending" /\ new.status = "failed"
    BY <2>3 DEF Lifecycle!Next, Lifecycle!Fail
  <2>4. CASE orders[o].status = "active" /\ new.status = "expired"
    BY <2>4 DEF Lifecycle!Next, Lifecycle!Expire
  <2>5. CASE orders[o].status = "expired" /\ new.status = "active"
    BY <2>5 DEF Lifecycle!Next, Lifecycle!Renew
  <2>6. CASE orders[o].status \in {"active", "expired"} /\ new.status = "suspended"
    BY <2>6 DEF Lifecycle!Next, Lifecycle!Lock
  <2>7. CASE orders[o].status = "suspended" /\ new.status = "active"
    BY <2>7 DEF Lifecycle!Next, Lifecycle!Unlock
  <2>8. CASE orders[o].status \in {"pending", "active", "expired"} /\ new.status = "cancelled"
    BY <2>8 DEF Lifecycle!Next, Lifecycle!Cancel
  <2> HIDE <1>3, <1>4, <1>8 DEF Lifecycle!Change
  <2> QED BY <1>2, <1>7, <1>8, <2>1, <2>2, <2>3, <2>4, <2>5, <2>6, <2>7, <2>8 DEF Legal
<1> QED BY <1>2, <1>6, <1>7, <1>8 DEF Legal

\* While requests do not overlap and the database answers, orders follow the
\* lifecycle, whatever billing-service and the providers do: cancelled and
\* failed orders stay so, and only an order with credentials is served
\* (order_usecase.go:311).
THEOREM FollowsLifecycle ==
  ASSUME MaxInFlight = 1, "db" \notin Faults
  PROVE  Spec => ImplementsOrderLifecycle
<1>1. Init => Lifecycle!Init
  BY DEF Init, Lifecycle!Init, NoOrder
<1>2. IInv /\ LifeInv /\ [Next]_vars => LifeInv' /\ [Lifecycle!Next]_(Lifecycle!vars)
  <2>1. ASSUME UNCHANGED orders PROVE [Lifecycle!Next]_(Lifecycle!vars)
    BY <2>1 DEF Lifecycle!vars
  <2> QED BY <2>1, LifeStep, MovesMap
<1> QED
  BY <1>1, <1>2, LifeInitially, Invariant, PTL
  DEF Spec, ImplementsOrderLifecycle, Lifecycle!Spec

\* While requests do not overlap and the database answers, what the comment of
\* CancelOrder says is so: an order that was cancelled or failed stays so,
\* whatever billing-service and the providers do (order_usecase.go:311).
THEOREM TerminalWhenAlone ==
  ASSUME MaxInFlight = 1, "db" \notin Faults
  PROVE  Spec => TerminalStays
<1> DEFINE Stays == \A o \in Orders : orders[o].status \in {"cancelled", "failed"}
                      => orders'[o].status = orders[o].status
<1>1. IInv /\ LifeInv /\ [Next]_vars => LifeInv' /\ [Stays]_vars
  <2>1. ASSUME IInv, NEW p \in Orders, Moves(p) PROVE Stays
    <3>1. \A o \in Orders : Legal(orders[o], orders'[o])
      BY <2>1, LegalKeeps
    <3> QED BY <3>1 DEF Legal
  <2> QED BY <2>1, LifeStep
<1> QED
  BY <1>1, LifeInitially, Invariant, PTL DEF Spec, TerminalStays
-----------------------------------------------------------------------------
(***************************************************************************)
(* The provider and the orders, of adapters that sell at once.             *)
(***************************************************************************)

\* The proxy is as the status says, and a delivered order knows its proxy.
InAgreement(w, r) ==
  /\ w.status = "active" <=> r = "running"
  /\ w.status \in {"expired", "suspended"} <=> r = "stopped"
  /\ w.status = "cancelled" <=> r = "deleted"
  /\ w.status \in Delivered => w.ref

\* The proxy at each stage of the saga.
SagaAgrees(stage, w, r) ==
  /\ w.status # "processing" /\ stage \notin {"ordered", "saved"}
  /\ stage \in {"arrived", "checked", "placed", "held", "releasing", "failing"} => r = "none"
  /\ stage = "bought" => r = "running"

\* The proxy between a request's command and its statement.
CallAgrees(k, w, r) ==
  /\ k.at \in {"told", "resumed"} => w.ref
  /\ k.at = "told" /\ k.op = "cancel" => r = "deleted"
  /\ k.at = "told" /\ k.op = "lock" => r = "stopped"
  /\ k.at = "told" /\ k.op = "unlock" => r = "running"
  /\ k.at = "resumed" => r = "running"

\* The provider has been told and the row not been written.
Touched(o) ==
  \/ \E c \in Calls : call[c].order = o /\ call[c].at \in {"told", "resumed"}
  \/ o \in sweep.told

AgreeInv ==
  \A o \in Orders : terms[o].adapter = "sync" =>
    /\ SagaAgrees(pc[o], orders[o], resource[o])
    /\ pc[o] \in {"activated", "done"} /\ ~Touched(o) => InAgreement(orders[o], resource[o])
    /\ \A c \in Calls : call[c].at # "idle" /\ call[c].order = o =>
         CallAgrees(call[c], orders[o], resource[o])
    /\ o \in sweep.told =>
         orders[o].ref /\ resource[o] = IF sweep.stage = "expiring" THEN "stopped" ELSE "deleted"

\* A command that is not lost.
LEMMA Told ==
  ASSUME "provider" \notin Faults, IInv, NEW o \in Orders, NEW ref \in BOOLEAN,
         NEW command \in {"cancel", "suspend", "resume"}, Tell(o, ref, command)
  PROVE  /\ \A p \in Orders \ {o} : resource'[p] = resource[p]
         /\ ref /\ terms[o].adapter = "sync" => resource'[o] = After(command, resource[o])
<1>1. resource \in [Orders -> {"none", "running", "stopped", "deleted"}]
  BY DEF IInv, TypeOK
<1> QED BY <1>1 DEF Tell

\* A saga ends with its proxy in agreement.
LEMMA SagaAgreement ==
  ASSUME MaxInFlight = 1, "db" \notin Faults, "provider" \notin Faults, IInv, LifeInv,
         AgreeInv, NEW o \in Orders, Create(o), terms[o].adapter = "sync"
  PROVE  /\ SagaAgrees(pc'[o], orders'[o], resource'[o])
         /\ pc'[o] \in {"activated", "done"} => InAgreement(orders'[o], resource'[o])
<1>1. /\ orders \in [Orders -> OrderRow] /\ orders[o] \in OrderRow
      /\ pc \in [Orders -> Working \cup {"arrived", "done"}]
      /\ resource \in [Orders -> {"none", "running", "stopped", "deleted"}]
  BY DEF IInv, TypeOK
<1>2. /\ SagaAgrees(pc[o], orders[o], resource[o])
      /\ SagaFits(pc[o], orders[o].status)
  BY DEF AgreeInv, LifeInv
<1>3. ~Touched(o)
  <2>1. \A c \in Calls : call[c].at = "idle"
    BY SagaAdvances
  <2>2. sweep.stage = "idle"
    BY SagaAdvances
  <2>3. sweep.told = {}
    BY <2>2 DEF LifeInv, SweepFits
  <2> QED BY <2>1, <2>3 DEF Touched
<1> DEFINE Fine == /\ SagaAgrees(pc'[o], orders'[o], resource'[o])
                   /\ pc'[o] \in {"activated", "done"} => InAgreement(orders'[o], resource'[o])
<1>4. ASSUME orders' = orders, resource' = resource, resource[o] = "none",
             NEW s \in {"checked", "placed", "held", "releasing", "failing", "done"},
             pc' = [pc EXCEPT ![o] = s], s = "done" => orders[o].status = "none"
      PROVE  Fine
  <2>1. pc'[o] = s
    BY <1>1, <1>4
  <2>2. orders[o].status # "processing"
    BY <1>2 DEF SagaAgrees
  <2>3. SagaAgrees(s, orders[o], resource[o])
    BY <1>4, <2>2 DEF SagaAgrees
  <2>4. s = "done" => InAgreement(orders[o], resource[o])
    BY <1>4 DEF InAgreement, Delivered
  <2> QED BY <1>4, <2>1, <2>3, <2>4
<1>5. ASSUME Lookup(o) PROVE Fine
  <2>1. /\ pc[o] = "arrived" /\ orders' = orders /\ resource' = resource
        /\ \E s \in {"checked", "done"} : pc' = [pc EXCEPT ![o] = s]
    BY <1>5 DEF Lookup, Goto
  <2>2. resource[o] = "none" /\ orders[o].status = "none"
    BY <1>2, <2>1 DEF SagaAgrees, SagaFits
  <2> QED BY <1>4, <2>1, <2>2
<1>6. ASSUME Insert(o) PROVE Fine
  <2>1. pc[o] = "checked" /\ resource' = resource
    BY <1>6 DEF Insert
  <2>2. resource[o] = "none" /\ orders[o].status = "none"
    BY <1>2, <2>1 DEF SagaAgrees, SagaFits
  <2>3. CASE KeyTaken(o)
    <3>1. orders' = orders /\ pc' = [pc EXCEPT ![o] = "done"]
      BY <1>6, <2>3 DEF Insert, Goto
    <3> QED BY <1>4, <2>1, <2>2, <3>1
  <2>4. CASE ~KeyTaken(o)
    <3>1. /\ pc' = [pc EXCEPT ![o] = "placed"]
          /\ orders' = [orders EXCEPT ![o] = [orders[o] EXCEPT !.status = "pending"]]
      BY <1>6, <2>4 DEF Insert, SetStatus, Save, Goto
    <3>2. pc'[o] = "placed" /\ orders'[o].status = "pending"
      BY <1>1, <3>1 DEF OrderRow
    <3> QED BY <2>1, <2>2, <3>2 DEF SagaAgrees
  <2> QED BY <2>3, <2>4
<1>7. ASSUME HoldFunds(o) \/ ReleaseFunds(o) PROVE Fine
  <2>1. /\ pc[o] \in {"placed", "releasing"} /\ orders' = orders /\ resource' = resource
        /\ \E s \in {"held", "failing"} : pc' = [pc EXCEPT ![o] = s]
    BY <1>7 DEF HoldFunds, ReleaseFunds, Bill, Goto
  <2>2. resource[o] = "none"
    BY <1>2, <2>1 DEF SagaAgrees
  <2> QED BY <1>4, <2>1, <2>2
<1>8. ASSUME Purchase(o) PROVE Fine
  <2>1. /\ pc[o] = "held" /\ orders' = orders
        /\ \/ resource' = [resource EXCEPT ![o] = "running"] /\ pc' = [pc EXCEPT ![o] = "bought"]
           \/ resource' = resource /\ pc' = [pc EXCEPT ![o] = "releasing"]
    BY <1>8 DEF Purchase, Goto
  <2>2. resource[o] = "none" /\ orders[o].status # "processing"
    BY <1>2, <2>1 DEF SagaAgrees
  <2>3. CASE resource' = [resource EXCEPT ![o] = "running"] /\ pc' = [pc EXCEPT ![o] = "bought"]
    <3>1. resource'[o] = "running" /\ pc'[o] = "bought"
      BY <1>1, <2>3
    <3> QED BY <2>1, <2>2, <3>1 DEF SagaAgrees
  <2> QED BY <1>4, <2>1, <2>2, <2>3
<1>9. ASSUME Activate(o) PROVE Fine
  <2> DEFINE new == Activated(orders[o], FirstExpiry(o))
  <2>1. /\ pc[o] = "bought" /\ pc' = [pc EXCEPT ![o] = "activated"] /\ resource' = resource
        /\ orders' = [orders EXCEPT ![o] = new]
    BY <1>9 DEF Activate, Save, Goto
  <2>2. new.status = "active" /\ new.ref
    BY SagaRows
  <2> HIDE DEF new
  <2>3. orders'[o] = new /\ pc'[o] = "activated" /\ resource'[o] = "running"
    BY <1>1, <1>2, <2>1 DEF SagaAgrees
  <2> QED BY <2>2, <2>3 DEF SagaAgrees, InAgreement
<1>10. ASSUME ConfirmFunds(o) PROVE Fine
  <2>1. /\ pc[o] = "activated" /\ pc' = [pc EXCEPT ![o] = "done"]
        /\ orders' = orders /\ resource' = resource
    BY <1>10 DEF ConfirmFunds, Bill, Goto
  <2>2. pc'[o] = "done"
    BY <1>1, <2>1
  <2>3. InAgreement(orders[o], resource[o])
    BY <1>3, <2>1 DEF AgreeInv
  <2> QED BY <1>2, <2>1, <2>2, <2>3 DEF SagaAgrees
<1>11. ASSUME SaveRef(o) \/ MarkProcessing(o) PROVE FALSE
  BY <1>2, <1>11 DEF SaveRef, MarkProcessing, SagaAgrees
<1>12. ASSUME MarkFailed(o) PROVE Fine
  <2>1. /\ pc[o] = "failing" /\ pc' = [pc EXCEPT ![o] = "done"] /\ resource' = resource
        /\ orders' = [orders EXCEPT ![o] = [orders[o] EXCEPT !.status = "failed"]]
    BY <1>12 DEF MarkFailed, SetStatus, Save, Goto
  <2>2. /\ orders'[o].status = "failed" /\ pc'[o] = "done" /\ resource'[o] = "none"
    BY <1>1, <1>2, <2>1 DEF OrderRow, SagaAgrees
  <2> QED BY <2>2 DEF SagaAgrees, InAgreement, Delivered
<1> QED BY <1>5, <1>6, <1>7, <1>8, <1>9, <1>10, <1>11, <1>12 DEF Create

\* A request leaves its order and the proxy in agreement, or on their way
\* to it.
LEMMA RequestAgreement ==
  ASSUME "db" \notin Faults, "provider" \notin Faults, IInv, LifeInv, AgreeInv,
         NEW c \in Calls, Proceed(c)
  PROVE  /\ \A p \in Orders \ {call[c].order} : resource'[p] = resource[p]
         /\ terms[call[c].order].adapter = "sync" =>
              LET w == orders'[call[c].order]
                  r == resource'[call[c].order]
              IN  /\ w.status # "processing"
                  /\ call'[c].at \notin {"told", "resumed"} => InAgreement(w, r)
                  /\ call'[c].at # "idle" => CallAgrees(call'[c], w, r)
<1> DEFINE o == call[c].order
           k == call[c]
           Fine == /\ orders'[o].status # "processing"
                   /\ call'[c].at \notin {"told", "resumed"}
                        => InAgreement(orders'[o], resource'[o])
                   /\ call'[c].at # "idle" => CallAgrees(call'[c], orders'[o], resource'[o])
<1>1. /\ orders \in [Orders -> OrderRow] /\ orders[o] \in OrderRow /\ o \in Orders
      /\ call \in [Calls -> Call] /\ k \in Call /\ k.seen \in OrderRow
  BY DEF IInv, TypeOK, Call
<1>2. k.at # "idle" /\ CallFits(k, orders[o])
  BY RequestAdvances DEF LifeInv
<1>3. /\ \A d \in Calls \ {c} : call[d].at = "idle"
      /\ sweep.stage = "idle" /\ sweep.told = {} /\ pc[o] = "done"
  <2>1. \A d \in Calls \ {c} : call[d].at = "idle"
    BY <1>2 DEF LifeInv, Alone
  <2>2. sweep.stage = "idle" /\ pc[o] \notin Working
    BY <1>1, <1>2 DEF LifeInv, Alone
  <2>3. sweep.told = {}
    BY <2>2 DEF LifeInv, SweepFits
  <2>4. orders[o].status # "none" /\ SagaFits(pc[o], orders[o].status)
    BY <1>1, <1>2 DEF CallFits, LifeInv
  <2>5. pc[o] \in Working \cup {"arrived", "done"}
    BY <1>1 DEF IInv, TypeOK
  <2> QED BY <2>1, <2>2, <2>3, <2>4, <2>5 DEF SagaFits
<1>4. ASSUME terms[o].adapter = "sync"
      PROVE  /\ orders[o].status # "processing"
             /\ k.at \notin {"told", "resumed"} => InAgreement(orders[o], resource[o])
             /\ CallAgrees(k, orders[o], resource[o])
  <2>1. orders[o].status # "processing" /\ CallAgrees(k, orders[o], resource[o])
    BY <1>1, <1>2, <1>4 DEF AgreeInv, SagaAgrees
  <2>2. k.at \notin {"told", "resumed"} => ~Touched(o)
    BY <1>3 DEF Touched
  <2> QED BY <1>1, <1>3, <1>4, <2>1, <2>2 DEF AgreeInv
<1>5. \A s : Move(c, s) => /\ call'[c].at = s /\ call'[c].op = k.op
  BY <1>1 DEF Move, Call
<1>6. Leave(c) => call'[c].at = "idle"
  BY <1>1 DEF Leave, Idle
<1>7. ASSUME TellProvider(c) \/ ResumeRenewed(c)
      PROVE  /\ \A p \in Orders \ {o} : resource'[p] = resource[p]
             /\ terms[o].adapter = "sync" => Fine
  <2>1. /\ orders' = orders /\ k.at \in {"read", "paid"}
        /\ \/ /\ k.op = "cancel" /\ k.at = "read" /\ Move(c, "told")
              /\ Tell(o, k.seen.ref, "cancel")
           \/ /\ k.op = "lock" /\ k.at = "read" /\ Move(c, "told")
              /\ Tell(o, k.seen.ref, "suspend")
           \/ /\ k.op = "unlock" /\ k.at = "read" /\ Move(c, "told")
              /\ Tell(o, k.seen.ref, "resume")
           \/ /\ k.op = "renew" /\ k.at = "paid" /\ Move(c, "resumed")
              /\ Tell(o, k.seen.ref, "resume")
    BY <1>7 DEF TellProvider, ResumeRenewed, At
  <2>2. k.seen.ref \in BOOLEAN
    BY <1>1 DEF OrderRow
  <2>3. \A p \in Orders \ {o} : resource'[p] = resource[p]
    BY <1>1, <2>1, <2>2, Told
  <2>4. ASSUME terms[o].adapter = "sync" PROVE Fine
    <3>1. /\ k.seen = orders[o] /\ orders[o].status \in Delivered
          /\ k.op = "cancel" => orders[o].status \in {"active", "expired"}
          /\ k.op = "lock" => orders[o].status \in {"active", "expired"}
          /\ k.op = "unlock" => orders[o].status = "suspended"
          /\ k.op = "renew" => orders[o].status = "expired"
      BY <1>2, <2>1 DEF CallFits, Delivered
    <3>2. InAgreement(orders[o], resource[o]) /\ orders[o].ref
      BY <1>4, <2>1, <2>4, <3>1 DEF InAgreement
    <3>3. k.seen.ref
      BY <3>1, <3>2
    <3>4. \/ k.op = "cancel" /\ Move(c, "told") /\ resource'[o] = After("cancel", resource[o])
          \/ k.op = "lock" /\ Move(c, "told") /\ resource'[o] = After("suspend", resource[o])
          \/ k.op = "unlock" /\ Move(c, "told") /\ resource'[o] = After("resume", resource[o])
          \/ k.op = "renew" /\ Move(c, "resumed")
             /\ resource'[o] = After("resume", resource[o])
      BY <1>1, <2>1, <2>2, <2>4, <3>3, Told
    <3>5. resource[o] \in {"running", "stopped"}
          /\ (k.op \in {"unlock", "renew"} => resource[o] = "stopped")
      BY <2>1, <3>1, <3>2 DEF InAgreement, Delivered
    <3>6. \/ k.op = "cancel" /\ Move(c, "told") /\ resource'[o] = "deleted"
          \/ k.op = "lock" /\ Move(c, "told") /\ resource'[o] = "stopped"
          \/ k.op = "unlock" /\ Move(c, "told") /\ resource'[o] = "running"
          \/ k.op = "renew" /\ Move(c, "resumed") /\ resource'[o] = "running"
      BY <3>4, <3>5 DEF After
    <3>7. CallAgrees(call'[c], orders'[o], resource'[o])
      BY <1>5, <2>1, <3>2, <3>6 DEF CallAgrees
    <3>8. call'[c].at \in {"told", "resumed"}
      BY <1>5, <3>6
    <3> QED BY <1>4, <2>1, <2>4, <3>7, <3>8
  <2> QED BY <2>3, <2>4
<1>8. ASSUME \/ Refund(c) \/ HoldRenewal(c) \/ ConfirmRenewal(c) \/ ReleaseRenewal(c)
             \/ ConfirmFulfilled(c)
      PROVE  resource' = resource /\ (terms[o].adapter = "sync" => Fine)
  <2>1. /\ orders' = orders /\ resource' = resource
        /\ k.at \in {"marked", "read", "held", "unpaid", "fulfilled"}
        /\ \/ Leave(c)
           \/ \E s \in {"held", "paid", "unpaid"} : Move(c, s)
    BY <1>8 DEF Refund, HoldRenewal, ConfirmRenewal, ReleaseRenewal, ConfirmFulfilled, At, Bill
  <2>2. call'[c].at \in {"idle", "held", "paid", "unpaid"}
    BY <1>5, <1>6, <2>1
  <2>3. CallAgrees(call'[c], orders'[o], resource'[o])
    BY <2>2 DEF CallAgrees
  <2> QED BY <1>4, <2>1, <2>2, <2>3
<1>9. ASSUME MarkCancelled(c) \/ MarkLocked(c) \/ MarkActive(c)
      PROVE  resource' = resource /\ (terms[o].adapter = "sync" => Fine)
  <2>1. PICK s \in {"cancelled", "suspended", "active"} :
          /\ orders' = [orders EXCEPT ![o] = [orders[o] EXCEPT !.status = s]]
          /\ \/ s = "cancelled" /\ k.op = "cancel" /\ k.at = "told"
             \/ s = "suspended" /\ k.op = "lock" /\ k.at = "told"
             \/ s = "active" /\ k.op = "unlock" /\ k.at = "told"
             \/ s = "active" /\ k.op = "renew" /\ k.at = "cleared"
          /\ Leave(c) \/ Move(c, "marked")
          /\ resource' = resource
    BY <1>9 DEF MarkCancelled, MarkLocked, MarkActive, SetStatus, Save, At
  <2>2. orders'[o].status = s /\ orders'[o].ref = orders[o].ref
    BY <1>1, <2>1 DEF OrderRow
  <2>3. call'[c].at \in {"idle", "marked"}
    BY <1>5, <1>6, <2>1
  <2>4. k.op = "renew" => orders[o].status = "active"
    BY <1>2, <2>1 DEF CallFits
  <2>5. ASSUME terms[o].adapter = "sync" PROVE InAgreement(orders'[o], resource'[o])
    BY <1>4, <2>1, <2>2, <2>4, <2>5 DEF InAgreement, CallAgrees
  <2>6. CallAgrees(call'[c], orders'[o], resource'[o])
    BY <2>3 DEF CallAgrees
  <2> QED BY <2>1, <2>2, <2>3, <2>5, <2>6
<1>10. ASSUME Extend(c) PROVE resource' = resource /\ (terms[o].adapter = "sync" => Fine)
  <2> DEFINE w == call[c].seen
             new == [orders[o] EXCEPT !.ref = w.ref, !.creds = w.creds,
                                      !.expires = Renewed(o, w),
                                      !.status = IF w.creds THEN "active" ELSE @]
  <2>1. /\ k.op = "renew" /\ k.at = "resumed" /\ Move(c, "extended")
        /\ orders' = [orders EXCEPT ![o] = new] /\ resource' = resource
    BY <1>10 DEF Extend, Save, At
  <2>2. w.creds /\ w = orders[o]
    BY <1>2, <2>1 DEF CallFits, IInv, OpenBacked
  <2>3. new.status = "active" /\ new.ref = orders[o].ref
    BY <1>1, <2>2 DEF OrderRow
  <2> HIDE DEF new
  <2>4. orders'[o] = new
    BY <1>1, <2>1
  <2>5. ASSUME terms[o].adapter = "sync" PROVE InAgreement(orders'[o], resource'[o])
    BY <1>4, <2>1, <2>3, <2>4, <2>5 DEF InAgreement, CallAgrees
  <2>6. call'[c].at = "extended" /\ CallAgrees(call'[c], orders'[o], resource'[o])
    BY <1>5, <2>1 DEF CallAgrees
  <2> QED BY <2>1, <2>3, <2>4, <2>5, <2>6
<1>11. ASSUME ClearCustom(c) PROVE resource' = resource /\ (terms[o].adapter = "sync" => Fine)
  <2> DEFINE new == [orders[o] EXCEPT !.custom = NoTime, !.price = NoPrice]
  <2>1. /\ k.at = "extended" /\ Move(c, "cleared") /\ resource' = resource
        /\ orders' = [orders EXCEPT ![o] = new]
    BY <1>11 DEF ClearCustom, Save, At
  <2>2. new.status = orders[o].status /\ new.ref = orders[o].ref
    BY <1>1 DEF OrderRow
  <2> HIDE DEF new
  <2>3. orders'[o] = new
    BY <1>1, <2>1
  <2>4. call'[c].at = "cleared" /\ CallAgrees(call'[c], orders'[o], resource'[o])
    BY <1>5, <2>1 DEF CallAgrees
  <2> QED BY <1>4, <2>1, <2>2, <2>3, <2>4 DEF InAgreement
<1>12. ASSUME Fulfil(c)
       PROVE  resource' = resource /\ terms[o].adapter # "sync"
  <2>1. k.op = "fulfil" /\ k.at = "read" /\ resource' = resource
    BY <1>12 DEF Fulfil, At
  <2>2. orders[o].status = "processing"
    BY <1>2, <2>1 DEF CallFits
  <2> QED BY <1>4, <2>1, <2>2
<1> HIDE DEF Fine
<1>13. /\ \A p \in Orders \ {o} : resource'[p] = resource[p]
       /\ terms[o].adapter = "sync" => Fine
  BY <1>7, <1>8, <1>9, <1>10, <1>11, <1>12 DEF Proceed
<1> QED BY <1>13 DEF Fine

\* The scheduler tells the provider what it then writes.
LEMMA SweepAgreement ==
  ASSUME MaxInFlight = 1, "db" \notin Faults, "provider" \notin Faults, IInv, LifeInv,
         AgreeInv, Sweep, NEW o \in Orders, terms[o].adapter = "sync", pc[o] = "done"
  PROVE  /\ orders'[o].status # "processing"
         /\ o \notin sweep'.told => InAgreement(orders'[o], resource'[o])
         /\ o \in sweep'.told =>
              /\ orders'[o].ref
              /\ resource'[o] = IF sweep'.stage = "expiring" THEN "stopped" ELSE "deleted"
<1>1. /\ orders \in [Orders -> OrderRow] /\ orders[o] \in OrderRow
      /\ resource \in [Orders -> {"none", "running", "stopped", "deleted"}]
      /\ sweep \in [stage: {"idle", "expiring", "purging"}, left: SUBSET Orders,
                    told: SUBSET Orders]
  BY DEF IInv, TypeOK
<1>2. SweepFits /\ \A c \in Calls : call[c].at = "idle"
  <2>1. Quiet \/ sweep.stage # "idle"
    BY SweepAdvances
  <2> QED BY <2>1 DEF LifeInv, Alone, Quiet
<1>3. /\ orders[o].status # "processing"
      /\ o \notin sweep.told => InAgreement(orders[o], resource[o])
      /\ o \in sweep.told =>
           orders[o].ref /\ resource[o] = IF sweep.stage = "expiring" THEN "stopped" ELSE "deleted"
  BY <1>2 DEF AgreeInv, SagaAgrees, Touched
<1> DEFINE Fine == /\ orders'[o].status # "processing"
                   /\ o \notin sweep'.told => InAgreement(orders'[o], resource'[o])
                   /\ o \in sweep'.told =>
                        /\ orders'[o].ref
                        /\ resource'[o] = IF sweep'.stage = "expiring" THEN "stopped" ELSE "deleted"
<1>4. ASSUME ListExpired \/ ListGrace \/ EndTick PROVE Fine
  <2>1. /\ orders' = orders /\ resource' = resource
        /\ sweep.left = {} \/ sweep.stage = "idle"
        /\ sweep'.told \subseteq sweep.told
    BY <1>1, <1>4 DEF ListExpired, ListGrace, EndTick
  <2>2. sweep.told = {}
    BY <1>2, <2>1 DEF SweepFits
  <2> QED BY <1>3, <2>1, <2>2
<1>5. ASSUME NEW p \in Orders, SuspendExpired(p) \/ DeleteProxy(p) PROVE Fine
  <2>1. /\ orders' = orders /\ sweep.told = {} /\ p \in sweep.left
        /\ sweep'.told = {p} /\ sweep'.stage = sweep.stage
        /\ \/ sweep.stage = "expiring" /\ Tell(p, orders[p].ref, "suspend")
           \/ sweep.stage = "purging" /\ Tell(p, orders[p].ref, "cancel")
    BY <1>1, <1>5 DEF SuspendExpired, DeleteProxy
  <2>2. orders[p].ref \in BOOLEAN
    BY <1>1 DEF OrderRow
  <2>3. CASE p # o
    <3>1. resource'[o] = resource[o]
      BY <2>1, <2>2, <2>3, Told
    <3> QED BY <1>3, <2>1, <2>3, <3>1
  <2>4. CASE p = o
    <3>1. /\ sweep.stage = "expiring" => orders[o].status = "active"
          /\ sweep.stage = "purging" => orders[o].status = "expired"
      BY <1>2, <2>1, <2>4 DEF SweepFits
    <3>2. orders[o].ref /\ InAgreement(orders[o], resource[o])
      BY <1>3, <2>1, <3>1 DEF InAgreement, Delivered
    <3>3. \/ sweep.stage = "expiring" /\ resource'[o] = After("suspend", resource[o])
          \/ sweep.stage = "purging" /\ resource'[o] = After("cancel", resource[o])
      BY <2>1, <2>2, <2>4, <3>2, Told
    <3>4. sweep.stage = "expiring" => resource[o] = "running"
      BY <3>1, <3>2 DEF InAgreement
    <3>5. resource'[o] = IF sweep.stage = "expiring" THEN "stopped" ELSE "deleted"
      BY <3>3, <3>4 DEF After
    <3> QED BY <1>3, <2>1, <2>4, <3>2, <3>5
  <2> QED BY <2>3, <2>4
<1>6. ASSUME NEW p \in Orders, MarkExpired(p) \/ MarkDeleted(p) PROVE Fine
  <2>1. PICK s \in {"expired", "cancelled"} :
          /\ orders' = [orders EXCEPT ![p] = [orders[p] EXCEPT !.status = s]]
          /\ p \in sweep.told /\ sweep'.told = {} /\ resource' = resource
          /\ s = "expired" => sweep.stage = "expiring"
          /\ s = "cancelled" => sweep.stage = "purging"
    BY <1>1, <1>6 DEF MarkExpired, MarkDeleted, SetStatus, Save, Skip
  <2>2. CASE p # o
    <3>1. orders'[o] = orders[o]
      BY <1>1, <2>1, <2>2
    <3>2. o \notin sweep.told
      BY <1>2, <2>1, <2>2 DEF SweepFits
    <3> QED BY <1>3, <2>1, <3>1, <3>2
  <2>3. CASE p = o
    <3>1. orders'[o].status = s /\ orders'[o].ref = orders[o].ref
      BY <1>1, <2>1, <2>3 DEF OrderRow
    <3>2. orders[o].ref /\ resource'[o] = IF s = "expired" THEN "stopped" ELSE "deleted"
      BY <1>3, <2>1, <2>3
    <3> QED BY <2>1, <3>1, <3>2 DEF InAgreement, Delivered
  <2> QED BY <2>2, <2>3
<1> QED BY <1>4, <1>5, <1>6 DEF Sweep

\* The scheduler leaves alone what was never placed.
LEMMA SweepUnplaced ==
  ASSUME MaxInFlight = 1, "db" \notin Faults, "provider" \notin Faults, IInv, LifeInv,
         Sweep, NEW p \in Orders, orders[p].status = "none"
  PROVE  orders'[p].status = "none" /\ p \notin sweep'.told /\ resource'[p] = resource[p]
<1>1. /\ orders \in [Orders -> OrderRow]
      /\ sweep \in [stage: {"idle", "expiring", "purging"}, left: SUBSET Orders,
                    told: SUBSET Orders]
  BY DEF IInv, TypeOK
<1>2. PICK o \in Orders : Moves(o) /\ (orders[o].status = "none" => orders' = orders)
  BY SweepAdvances
<1>3. orders'[p].status = "none"
  BY <1>2, LegalKeeps
<1>4. SweepFits
  BY DEF LifeInv
<1>5. ASSUME NEW q \in Orders, SuspendExpired(q) \/ DeleteProxy(q)
      PROVE  p # q /\ resource'[p] = resource[p] /\ sweep'.told = {q}
  <2>1. /\ q \in sweep.left /\ sweep.stage \in {"expiring", "purging"} /\ sweep'.told = {q}
        /\ \/ Tell(q, orders[q].ref, "suspend")
           \/ Tell(q, orders[q].ref, "cancel")
    BY <1>1, <1>5 DEF SuspendExpired, DeleteProxy
  <2>2. p # q
    BY <1>4, <2>1 DEF SweepFits
  <2>3. orders[q].ref \in BOOLEAN
    BY <1>1 DEF OrderRow
  <2> QED BY <2>1, <2>2, <2>3, Told
<1>6. ASSUME ListExpired \/ ListGrace \/ EndTick
      PROVE  resource' = resource /\ p \notin sweep'.told
  <2>1. /\ resource' = resource /\ sweep'.told \subseteq sweep.told
        /\ sweep.left = {} \/ sweep.stage = "idle"
    BY <1>1, <1>6 DEF ListExpired, ListGrace, EndTick
  <2> QED BY <1>4, <2>1 DEF SweepFits
<1>7. ASSUME NEW q \in Orders, MarkExpired(q) \/ MarkDeleted(q)
      PROVE  resource' = resource /\ sweep'.told = {}
  BY <1>1, <1>7 DEF MarkExpired, MarkDeleted, SetStatus, Save, Skip
<1> QED BY <1>3, <1>5, <1>6, <1>7 DEF Sweep

LEMMA AgreeInitially == Init => AgreeInv
<1> SUFFICES ASSUME Init, NEW o \in Orders, terms[o].adapter = "sync"
             PROVE  /\ SagaAgrees("arrived", NoOrder, "none")
                    /\ pc[o] = "arrived" /\ orders[o] = NoOrder /\ resource[o] = "none"
                    /\ \A c \in Calls : call[c].at = "idle"
                    /\ o \notin sweep.told
  BY DEF AgreeInv
<1> QED BY DEF Init, SagaAgrees, NoOrder, Idle

\* Nobody changes what was asked for.
LEMMA TermsStay == ASSUME [Next]_vars PROVE terms' = terms
BY DEF Next, Create, Lookup, Insert, HoldFunds, Purchase, Activate, ConfirmFunds, SaveRef,
   MarkProcessing, ReleaseFunds, MarkFailed, PatchOrder, Read, Proceed, TellProvider,
   MarkCancelled, Refund, MarkLocked, MarkActive, HoldRenewal, ConfirmRenewal,
   ReleaseRenewal, ResumeRenewed, Extend, ClearCustom, Fulfil, ConfirmFulfilled, Sweep,
   ListExpired, ListGrace, EndTick, SuspendExpired, MarkExpired, DeleteProxy, MarkDeleted,
   Tick, vars

LEMMA AgreeStep ==
  ASSUME MaxInFlight = 1, "db" \notin Faults, "provider" \notin Faults, IInv, LifeInv,
         AgreeInv, [Next]_vars
  PROVE  AgreeInv'
<1>1. /\ orders \in [Orders -> OrderRow] /\ call \in [Calls -> Call]
      /\ pc \in [Orders -> Working \cup {"arrived", "done"}]
      /\ resource \in [Orders -> {"none", "running", "stopped", "deleted"}]
      /\ sweep.told \subseteq Orders
  BY DEF IInv, TypeOK
<1>2. terms' = terms
  BY TermsStay
<1> DEFINE Keeps(o) ==
      /\ SagaAgrees(pc'[o], orders'[o], resource'[o])
      /\ pc'[o] \in {"activated", "done"} /\ ~Touched(o)' => InAgreement(orders'[o], resource'[o])
      /\ \A c \in Calls : call'[c].at # "idle" /\ call'[c].order = o =>
           CallAgrees(call'[c], orders'[o], resource'[o])
      /\ o \in sweep'.told =>
           /\ orders'[o].ref
           /\ resource'[o] = IF sweep'.stage = "expiring" THEN "stopped" ELSE "deleted"
<1> SUFFICES ASSUME NEW p \in Orders, terms[p].adapter = "sync" PROVE Keeps(p)
  BY <1>2 DEF AgreeInv
<1>3. /\ SagaAgrees(pc[p], orders[p], resource[p])
      /\ pc[p] \in {"activated", "done"} /\ ~Touched(p) => InAgreement(orders[p], resource[p])
      /\ \A c \in Calls : call[c].at # "idle" /\ call[c].order = p =>
           CallAgrees(call[c], orders[p], resource[p])
      /\ p \in sweep.told =>
           orders[p].ref /\ resource[p] = IF sweep.stage = "expiring" THEN "stopped" ELSE "deleted"
  BY DEF AgreeInv
<1>4. ASSUME UNCHANGED <<orders, resource, pc, call, sweep>> PROVE Keeps(p)
  BY <1>3, <1>4 DEF Touched
<1>5. Quiet => sweep.told = {}
  BY DEF Quiet, LifeInv, SweepFits
<1>6. ASSUME NEW o \in Orders, Create(o) PROVE Keeps(p)
  <2>1. /\ Moves(o) /\ call' = call /\ sweep' = sweep
        /\ \A c \in Calls : call[c].at = "idle"
        /\ sweep.stage = "idle"
    BY <1>6, SagaAdvances
  <2>2. sweep.told = {}
    BY <2>1 DEF LifeInv, SweepFits
  <2>3. CASE p = o
    BY <1>6, <2>1, <2>2, <2>3, SagaAgreement
  <2>4. CASE p # o
    <3>1. orders'[p] = orders[p]
      BY <2>1, <2>4, LegalKeeps
    <3>2. pc'[p] = pc[p]
      BY <1>1, <1>6, <2>4, SagaAdvances
    <3>3. resource'[p] = resource[p]
      BY <1>1, <1>6, <2>4 DEF Create, Lookup, Insert, HoldFunds, Purchase, Activate,
         ConfirmFunds, SaveRef, MarkProcessing, ReleaseFunds, MarkFailed
    <3> QED BY <1>3, <2>1, <2>2, <3>1, <3>2, <3>3 DEF Touched
  <2> QED BY <2>3, <2>4
<1>7. ASSUME NEW c \in Calls, Proceed(c) PROVE Keeps(p)
  <2> DEFINE o == call[c].order
  <2>1. /\ Moves(o) /\ Follows(c) /\ call[c].at # "idle" /\ o \in Orders
    BY <1>1, <1>7, RequestAdvances DEF Call
  <2>2. /\ \A d \in Calls \ {c} : call[d].at = "idle"
        /\ sweep.told = {}
        /\ \A q \in Orders : pc[q] \notin Working
    BY <2>1 DEF LifeInv, Alone, SweepFits
  <2>3. pc' = pc /\ sweep' = sweep
    BY <1>7 DEF Proceed, TellProvider, MarkCancelled, Refund, MarkLocked, MarkActive,
       HoldRenewal, ConfirmRenewal, ReleaseRenewal, ResumeRenewed, Extend, ClearCustom,
       Fulfil, ConfirmFulfilled
  <2>4. /\ \A d \in Calls \ {c} : call'[d] = call[d]
        /\ call'[c].at # "idle" => call'[c].order = o
    <3>1. CASE call' = [call EXCEPT ![c] = Idle]
      BY <1>1, <3>1 DEF Idle
    <3>2. ASSUME NEW s \in CallStage, call' = [call EXCEPT ![c].at = s]
          PROVE  call'[c].order = o /\ \A d \in Calls \ {c} : call'[d] = call[d]
      BY <1>1, <3>2 DEF Call
    <3> QED BY <2>1, <3>1, <3>2 DEF Follows
  <2>5. pc[p] = "done" \/ pc[p] = "arrived"
    BY <1>1, <2>2
  <2>6. CASE p = o
    <3>1. /\ orders'[p].status # "processing"
          /\ call'[c].at \notin {"told", "resumed"} => InAgreement(orders'[p], resource'[p])
          /\ call'[c].at # "idle" => CallAgrees(call'[c], orders'[p], resource'[p])
      BY <1>7, <2>6, RequestAgreement
    <3>2. pc[p] = "done"
      <4>1. orders[p].status # "none"
        BY <2>1, <2>6 DEF LifeInv, CallFits
      <4> QED BY <2>5, <4>1 DEF LifeInv, SagaFits
    <3>3. SagaAgrees(pc'[p], orders'[p], resource'[p])
      BY <2>3, <3>1, <3>2 DEF SagaAgrees
    <3>4. ~Touched(p)' => InAgreement(orders'[p], resource'[p])
      BY <2>4, <2>6, <3>1 DEF Touched
    <3>5. \A d \in Calls : call'[d].at # "idle" /\ call'[d].order = p =>
            CallAgrees(call'[d], orders'[p], resource'[p])
      BY <2>2, <2>4, <3>1
    <3> QED BY <2>2, <2>3, <3>3, <3>4, <3>5
  <2>7. CASE p # o
    <3>1. orders'[p] = orders[p]
      BY <2>1, <2>7, LegalKeeps
    <3>2. resource'[p] = resource[p]
      BY <1>7, <2>7, RequestAgreement
    <3>3. ~Touched(p)
      BY <2>2, <2>7 DEF Touched
    <3>4. \A d \in Calls : call'[d].at # "idle" => call'[d].order # p
      BY <2>2, <2>4, <2>7
    <3> QED BY <1>3, <2>2, <2>3, <3>1, <3>2, <3>3, <3>4
  <2> QED BY <2>6, <2>7
<1>8. ASSUME NEW c \in Calls, Read(c) PROVE Keeps(p)
  <2>1. Quiet /\ UNCHANGED <<orders, resource, pc, sweep>>
    BY <1>8, StartsQuiet DEF Read
  <2>2. /\ \A d \in Calls \ {c} : call'[d] = call[d]
        /\ call'[c].at = "read"
    BY <1>1, <1>8 DEF Read
  <2>3. ~Touched(p) /\ \A d \in Calls : CallAgrees(call'[d], orders'[p], resource'[p])
    BY <1>5, <2>1, <2>2 DEF Touched, Quiet, CallAgrees
  <2> QED BY <1>3, <1>5, <2>1, <2>3
<1>9. ASSUME Sweep PROVE Keeps(p)
  <2>1. /\ pc' = pc /\ call' = call
        /\ Quiet \/ sweep.stage # "idle"
    BY <1>9, SweepAdvances
  <2>2. \A c \in Calls : call[c].at = "idle"
    BY <2>1 DEF Quiet, LifeInv, Alone
  <2>3. pc[p] = "done" \/ pc[p] = "arrived"
    BY <1>1, <2>1 DEF Quiet, LifeInv, Alone
  <2>4. CASE pc[p] = "done"
    <3>1. /\ orders'[p].status # "processing"
          /\ p \notin sweep'.told => InAgreement(orders'[p], resource'[p])
          /\ p \in sweep'.told =>
               /\ orders'[p].ref
               /\ resource'[p] = IF sweep'.stage = "expiring" THEN "stopped" ELSE "deleted"
      BY <1>9, <2>4, SweepAgreement
    <3>2. SagaAgrees(pc'[p], orders'[p], resource'[p])
      BY <2>1, <2>4, <3>1 DEF SagaAgrees
    <3> QED BY <2>1, <2>2, <3>1, <3>2 DEF Touched
  <2>5. CASE pc[p] = "arrived"
    <3>1. orders[p].status = "none"
      BY <2>5 DEF LifeInv, SagaFits
    <3>2. orders'[p].status = "none" /\ p \notin sweep'.told /\ resource'[p] = resource[p]
      BY <1>9, <3>1, SweepUnplaced
    <3> QED BY <1>3, <2>1, <2>2, <2>5, <3>1, <3>2 DEF SagaAgrees
  <2> QED BY <2>3, <2>4, <2>5
<1>10. ASSUME NEW o \in Orders, PatchOrder(o) PROVE Keeps(p)
  <2>1. /\ Quiet /\ UNCHANGED <<resource, pc, call, sweep>> /\ Moves(o)
        /\ orders'[o].status = orders[o].status /\ orders'[o].ref = orders[o].ref
    BY <1>10, StartsQuiet, PatchAdvances DEF PatchOrder
  <2>2. orders'[p].status = orders[p].status /\ orders'[p].ref = orders[p].ref
    BY <2>1, LegalKeeps
  <2>3. SagaAgrees(pc'[p], orders'[p], resource'[p])
    BY <1>3, <2>1, <2>2 DEF SagaAgrees
  <2>4. InAgreement(orders[p], resource[p]) => InAgreement(orders'[p], resource'[p])
    BY <2>1, <2>2 DEF InAgreement
  <2> QED BY <1>3, <1>5, <2>1, <2>3, <2>4 DEF Quiet, Touched
<1>11. CASE Tick \/ UNCHANGED vars
  BY <1>4, <1>11 DEF Tick, vars
<1> QED BY <1>6, <1>7, <1>8, <1>9, <1>10, <1>11 DEF Next

\* While requests do not overlap and database and providers answer, the
\* provider runs the proxies of the active orders, has stopped those of the
\* expired and locked ones and deleted those of the cancelled ones whenever no
\* request is open, whatever billing-service does (order_usecase.go:313-340,
\* 395-440; lock_usecase.go:33-107; expiry_usecase.go:51-121).
THEOREM ProviderAlwaysAgrees ==
  ASSUME MaxInFlight = 1, "db" \notin Faults, "provider" \notin Faults
  PROVE  Spec => []ProviderAgrees
<1> DEFINE Inv == LifeInv /\ AgreeInv
<1>1. Init => Inv
  BY LifeInitially, AgreeInitially
<1>2. IInv /\ Inv /\ [Next]_vars => Inv'
  BY LifeStep, AgreeStep
<1>3. IInv /\ Inv => ProviderAgrees
  <2> SUFFICES ASSUME IInv, LifeInv, AgreeInv, InFlight = 0,
                      NEW o \in Orders, terms[o].adapter = "sync"
               PROVE  /\ orders[o].status = "active" <=> resource[o] = "running"
                      /\ orders[o].status \in {"expired", "suspended"} <=> resource[o] = "stopped"
                      /\ orders[o].status = "cancelled" <=> resource[o] = "deleted"
    BY DEF ProviderAgrees
  <2>1. Quiet
    BY CountsNothing
  <2>2. ~Touched(o)
    BY <2>1 DEF Quiet, LifeInv, SweepFits, Touched
  <2>3. pc[o] \in {"arrived", "done"}
    BY <2>1 DEF Quiet, IInv, TypeOK
  <2>4. CASE pc[o] = "done"
    BY <2>2, <2>4 DEF AgreeInv, InAgreement
  <2>5. CASE pc[o] = "arrived"
    <3>1. orders[o].status = "none" /\ resource[o] = "none"
      BY <2>5 DEF LifeInv, SagaFits, AgreeInv, SagaAgrees
    <3> QED BY <3>1
  <2> QED BY <2>3, <2>4, <2>5
<1> HIDE DEF Inv
<1> QED BY <1>1, <1>2, <1>3, Invariant, PTL DEF Spec
=============================================================================
