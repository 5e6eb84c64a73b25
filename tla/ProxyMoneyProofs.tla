-------------------------- MODULE ProxyMoneyProofs --------------------------
(***************************************************************************)
(* Proofs about the money of ProxyOrders, for any number of orders and     *)
(* requests: what is on hold is what the orders under way cost, and what   *)
(* was charged is what was served.  The sums are those of Sums.            *)
(***************************************************************************)
EXTENDS ProxyOrdersProofs, Sums

(***************************************************************************)
(* The money on hold, when the database and billing-service are reliable   *)
(* and nothing is cancelled.                                               *)
(***************************************************************************)

Reliable == "db" \notin Faults /\ "billing" \notin Faults /\ "cancel" \notin Ops

\* No two deliveries of one order's webhook overlap.
OneDelivery ==
  \A c, d \in Calls :
    /\ call[c].at # "idle" /\ call[c].op = "fulfil"
    /\ call[d].at # "idle" /\ call[d].op = "fulfil"
    /\ call[c].order = call[d].order
    => c = d

\* Credentials are stored at the end of a saga, or after it, and an order that
\* waits for the webhook has none.
OrderStages ==
  \A o \in Orders : /\ orders[o].creds => pc[o] \in {"activated", "done"}
                    /\ orders[o].status = "processing" => ~orders[o].creds

\* A delivery finds the order waiting, and leaves it with credentials.
CallStages ==
  \A c \in Calls : /\ call[c].at # "idle" => call[c].op \in Ops
                   /\ At(c, "fulfil", "read") => orders[call[c].order].status = "processing"
                   /\ At(c, "fulfil", "fulfilled") => orders[call[c].order].creds

\* The scheduler lists delivered orders.
SweepStages == \A o \in sweep.left \cup sweep.told : orders[o].creds

StageInv == OrderStages /\ CallStages /\ SweepStages

\* What most steps do to the orders: credentials stay, and an order that waits
\* for the webhook goes on waiting.
OrdersWait ==
  \A o \in Orders : /\ orders[o].creds => orders'[o].creds
                    /\ orders[o].status = "processing" => orders'[o].status = "processing"

\* What most steps do to the requests: they go on, or end.
CallsGoOn ==
  \A c \in Calls : call'[c].at # "idle" =>
    /\ call[c].at # "idle"
    /\ call'[c].op = call[c].op /\ call'[c].order = call[c].order
    /\ call'[c].at = "read" => call[c].at = "read"
    /\ call'[c].at = "fulfilled" => call[c].at = "fulfilled"

SweepGoesOn == sweep'.left \cup sweep'.told \subseteq sweep.left \cup sweep.told

\* Such a step keeps the stages.
LEMMA StagesGoOn ==
  ASSUME IInv, StageInv, OrderStages', OrdersWait, CallsGoOn, SweepGoesOn
  PROVE  StageInv'
<1>1. CallStages'
  <2> SUFFICES ASSUME NEW c \in Calls, call'[c].at # "idle"
               PROVE  /\ call'[c].op \in Ops
                      /\ call'[c].op = "fulfil" /\ call'[c].at = "read"
                           => orders'[call'[c].order].status = "processing"
                      /\ call'[c].op = "fulfil" /\ call'[c].at = "fulfilled"
                           => orders'[call'[c].order].creds
    BY DEF CallStages, At
  <2>1. call[c].order \in Orders
    BY DEF IInv, TypeOK, Call
  <2> QED BY <2>1 DEF StageInv, CallStages, At, OrdersWait, CallsGoOn
<1>2. SweepStages'
  <2>1. \A o \in sweep.left \cup sweep.told : o \in Orders /\ orders[o].creds
    BY DEF IInv, TypeOK, StageInv, SweepStages
  <2> QED BY <2>1 DEF SweepStages, OrdersWait, SweepGoesOn
<1> QED BY <1>1, <1>2 DEF StageInv

\* A statement on an order with credentials leaves it with them.
LEMMA DeliveredWritten ==
  ASSUME IInv, StageInv, pc' = pc, NEW o \in Orders, orders[o].creds,
         NEW new, new.creds, new.status # "processing", orders' = [orders EXCEPT ![o] = new]
  PROVE  OrderStages' /\ OrdersWait
<1>1. \A p \in Orders : orders'[p] = IF p = o THEN new ELSE orders[p]
  BY DEF IInv, TypeOK
<1>2. orders[o].status # "processing" /\ pc[o] \in {"activated", "done"}
  BY DEF StageInv, OrderStages
<1> QED BY <1>1, <1>2 DEF StageInv, OrderStages, OrdersWait

LEMMA DeliveredStatus ==
  ASSUME IInv, StageInv, pc' = pc, NEW o \in Orders, orders[o].creds,
         NEW s \in Status \ {"processing"},
         orders' = [orders EXCEPT ![o] = [orders[o] EXCEPT !.status = s]]
  PROVE  OrderStages' /\ OrdersWait
<1> DEFINE new == [orders[o] EXCEPT !.status = s]
<1>1. new.creds /\ new.status # "processing"
  BY DEF IInv, TypeOK, OrderRow
<1>2. orders' = [orders EXCEPT ![o] = new]
  OBVIOUS
<1> HIDE DEF new
<1> QED BY <1>1, <1>2, DeliveredWritten

\* The saga of an order that has no credentials yet.
LEMMA SagaGoesOn ==
  ASSUME IInv, StageInv, NEW o \in Orders, ~orders[o].creds,
         orders[o].status # "processing",
         NEW s, pc' = [pc EXCEPT ![o] = s],
         NEW new, orders' = [orders EXCEPT ![o] = new],
         new.creds => s = "activated" /\ new.status # "processing"
  PROVE  OrderStages' /\ OrdersWait
<1>1. \A p \in Orders : orders'[p] = IF p = o THEN new ELSE orders[p]
  BY DEF IInv, TypeOK
<1>2. \A p \in Orders : pc'[p] = IF p = o THEN s ELSE pc[p]
  BY DEF IInv, TypeOK
<1> QED BY <1>1, <1>2 DEF StageInv, OrderStages, OrdersWait

\* The creation saga.
LEMMA CreateStages ==
  ASSUME Reliable, IInv, StageInv, NEW o \in Orders, Create(o)
  PROVE  OrderStages' /\ OrdersWait
<1>1. orders[o] \in OrderRow /\ orders \in [Orders -> OrderRow]
  BY DEF IInv, TypeOK
<1>2. ASSUME pc[o] \notin {"activated", "done"}
      PROVE  ~orders[o].creds /\ orders[o].status # "processing"
  BY <1>2 DEF StageInv, OrderStages, IInv, ProcessingDone
<1>3. CASE \/ Lookup(o) \/ HoldFunds(o) \/ Purchase(o) \/ ReleaseFunds(o)
  <2>1. orders' = [orders EXCEPT ![o] = orders[o]] /\ pc[o] \notin {"activated", "done"}
    BY <1>1, <1>3 DEF Lookup, HoldFunds, Purchase, ReleaseFunds
  <2>2. \E s : pc' = [pc EXCEPT ![o] = s]
    BY <1>3 DEF Lookup, HoldFunds, Purchase, ReleaseFunds, Bill, Goto
  <2> QED BY <1>2, <2>1, <2>2, SagaGoesOn
<1>4. CASE Insert(o)
  <2>1. pc[o] \notin {"activated", "done"}
    BY <1>4 DEF Insert
  <2>2. \E s : pc' = [pc EXCEPT ![o] = s]
    BY <1>4 DEF Insert, SetStatus, Save, Goto
  <2>3. \E new : orders' = [orders EXCEPT ![o] = new] /\ ~new.creds
    <3>1. orders = [orders EXCEPT ![o] = orders[o]] /\ ~orders[o].creds
      BY <1>1, <1>2, <2>1
    <3>2. ~[orders[o] EXCEPT !.status = "pending"].creds
      BY <1>1, <3>1 DEF OrderRow
    <3> QED BY <1>4, <3>1, <3>2 DEF Insert, SetStatus, Save
  <2> QED BY <1>2, <2>1, <2>2, <2>3, SagaGoesOn
<1>5. CASE Activate(o)
  <2> DEFINE new == Activated(orders[o], FirstExpiry(o))
  <2>1. pc[o] \notin {"activated", "done"} /\ pc' = [pc EXCEPT ![o] = "activated"]
        /\ orders' = [orders EXCEPT ![o] = new]
    BY <1>5 DEF Activate, Save, Goto, Reliable
  <2>2. new.status # "processing"
    BY <1>1 DEF OrderRow, Activated
  <2> HIDE DEF new
  <2> QED BY <1>2, <2>1, <2>2, SagaGoesOn
<1>6. CASE ConfirmFunds(o)
  <2>1. orders' = orders /\ pc[o] = "activated"
    BY <1>6 DEF ConfirmFunds
  <2>2. \A p \in Orders : pc'[p] = IF p = o THEN "done" ELSE pc[p]
    BY <1>6 DEF ConfirmFunds, Bill, Goto, IInv, TypeOK
  <2> QED BY <2>1, <2>2 DEF StageInv, OrderStages, OrdersWait
<1>7. CASE SaveRef(o)
  <2> DEFINE new == [orders[o] EXCEPT !.ref = TRUE, !.creds = FALSE, !.expires = NoTime]
  <2>1. pc[o] \notin {"activated", "done"} /\ pc' = [pc EXCEPT ![o] = "saved"]
        /\ orders' = [orders EXCEPT ![o] = new]
    BY <1>7 DEF SaveRef, Save, Goto, Reliable
  <2>2. ~new.creds
    BY <1>1 DEF OrderRow
  <2> HIDE DEF new
  <2> QED BY <1>2, <2>1, <2>2, SagaGoesOn
<1>8. CASE MarkProcessing(o) \/ MarkFailed(o)
  <2>1. pc[o] \notin {"activated", "done"} /\ pc' = [pc EXCEPT ![o] = "done"]
    BY <1>8 DEF MarkProcessing, MarkFailed, SetStatus, Save, Goto, Reliable
  <2>2. PICK s \in {"processing", "failed"} :
          orders' = [orders EXCEPT ![o] = [orders[o] EXCEPT !.status = s]]
    BY <1>8 DEF MarkProcessing, MarkFailed, SetStatus, Save, Goto, Reliable
  <2>3. ~[orders[o] EXCEPT !.status = s].creds
    BY <1>1, <1>2, <2>1 DEF OrderRow
  <2> QED BY <1>2, <2>1, <2>2, <2>3, SagaGoesOn
<1> QED BY <1>3, <1>4, <1>5, <1>6, <1>7, <1>8 DEF Create

\* Requests, but for the webhook's write.
LEMMA ProceedStages ==
  ASSUME Reliable, IInv, StageInv, NEW c \in Calls, Proceed(c), ~Fulfil(c)
  PROVE  OrderStages' /\ OrdersWait
<1> DEFINE o == call[c].order
<1>1. o \in Orders /\ orders[o] \in OrderRow
  BY DEF IInv, TypeOK, Call
<1>2. pc' = pc
  BY DEF Proceed, TellProvider, MarkCancelled, Refund, MarkLocked, MarkActive, HoldRenewal,
     ConfirmRenewal, ReleaseRenewal, ResumeRenewed, Extend, ClearCustom, ConfirmFulfilled
<1>3. ~MarkCancelled(c)
  BY DEF MarkCancelled, At, StageInv, CallStages, Reliable
<1>4. CASE orders' = orders
  BY <1>2, <1>4 DEF StageInv, OrderStages, OrdersWait
<1>5. CASE MarkLocked(c) \/ MarkActive(c)
  <2>1. PICK s \in {"suspended", "active"} :
          orders' = [orders EXCEPT ![o] = [orders[o] EXCEPT !.status = s]]
    BY <1>5 DEF MarkLocked, MarkActive, SetStatus, Save, Reliable
  <2>2. orders[o].creds /\ s \in Status \ {"processing"}
    BY <1>5 DEF MarkLocked, MarkActive, At, IInv, OpenBacked, Status
  <2> HIDE DEF o
  <2> QED BY <1>1, <1>2, <2>1, <2>2, DeliveredStatus
<1>6. CASE Extend(c)
  <2> DEFINE w == call[c].seen
             new == [orders[o] EXCEPT !.ref = w.ref, !.creds = w.creds,
                                      !.expires = Renewed(o, w),
                                      !.status = IF w.creds THEN "active" ELSE @]
  <2>1. w.creds /\ orders[o].creds
    BY <1>6 DEF Extend, At, IInv, OpenBacked
  <2>2. new.creds /\ new.status = "active"
    BY <1>1, <2>1 DEF OrderRow
  <2>3. orders' = [orders EXCEPT ![o] = new]
    BY <1>6 DEF Extend, Save, Reliable
  <2> HIDE DEF new, o
  <2> QED BY <1>1, <1>2, <2>1, <2>2, <2>3, DeliveredWritten
<1>7. CASE ClearCustom(c)
  <2> DEFINE new == [orders[o] EXCEPT !.custom = NoTime, !.price = NoPrice]
  <2>1. orders[o].creds /\ orders[o].status # "processing"
    BY <1>1, <1>7 DEF ClearCustom, At, IInv, OpenBacked, StageInv, OrderStages
  <2>2. new.creds /\ new.status # "processing"
    BY <1>1, <2>1 DEF OrderRow
  <2>3. orders' = [orders EXCEPT ![o] = new]
    BY <1>7 DEF ClearCustom, Save, Reliable
  <2> HIDE DEF new, o
  <2> QED BY <1>1, <1>2, <2>1, <2>2, <2>3, DeliveredWritten
<1>8. CASE \/ TellProvider(c) \/ Refund(c) \/ HoldRenewal(c) \/ ConfirmRenewal(c)
           \/ ReleaseRenewal(c) \/ ResumeRenewed(c) \/ ConfirmFulfilled(c)
  BY <1>4, <1>8 DEF TellProvider, Refund, HoldRenewal, ConfirmRenewal, ReleaseRenewal,
     ResumeRenewed, ConfirmFulfilled
<1> QED BY <1>3, <1>5, <1>6, <1>7, <1>8 DEF Proceed

\* A request moves on to a later stage or ends.
LEMMA ProceedGoesOn ==
  ASSUME IInv, NEW c \in Calls, Proceed(c), ~Fulfil(c)
  PROVE  CallsGoOn
<1>1. call \in [Calls -> Call] /\ Idle.at = "idle"
  BY DEF IInv, TypeOK, Idle
<1> HIDE DEF Idle
<1>2. call[c].at # "idle"
  BY DEF Proceed, TellProvider, MarkCancelled, Refund, MarkLocked, MarkActive, HoldRenewal,
     ConfirmRenewal, ReleaseRenewal, ResumeRenewed, Extend, ClearCustom, ConfirmFulfilled, At
<1>3. PICK stage : stage \notin {"read", "fulfilled"} /\ (Move(c, stage) \/ Leave(c))
  BY DEF Proceed, TellProvider, MarkCancelled, Refund, MarkLocked, MarkActive, HoldRenewal,
     ConfirmRenewal, ReleaseRenewal, ResumeRenewed, Extend, ClearCustom, ConfirmFulfilled,
     Bill, SetStatus, Save
<1>4. \A d \in Calls :
        IF d = c
        THEN call'[d] = Idle \/ call'[d] = [call[c] EXCEPT !.at = stage]
        ELSE call'[d] = call[d]
  BY <1>1, <1>3 DEF Move, Leave
<1>5. LET new == [call[c] EXCEPT !.at = stage]
      IN  new.op = call[c].op /\ new.order = call[c].order /\ new.at = stage
  BY <1>1 DEF Call
<1> QED BY <1>1, <1>2, <1>3, <1>4, <1>5 DEF CallsGoOn

\* The webhook's write ends the wait of one order.
LEMMA FulfilStages ==
  ASSUME Reliable, IInv, OneDelivery, StageInv, NEW c \in Calls, Fulfil(c)
  PROVE  StageInv'
<1> DEFINE o == call[c].order
<1>1. o \in Orders /\ orders[o] \in OrderRow /\ call \in [Calls -> Call]
  BY DEF IInv, TypeOK, Call
<1>2. /\ At(c, "fulfil", "read") /\ call' = [call EXCEPT ![c].at = "fulfilled"]
      /\ pc' = pc /\ sweep' = sweep
  BY DEF Fulfil, Save, Move, Reliable
<1>3. PICK expiry : orders' = [orders EXCEPT ![o] = Activated(orders[o], expiry)]
  BY DEF Fulfil, Save, Reliable
<1> DEFINE new == Activated(orders[o], expiry)
<1>4. new.creds /\ new.status = "active"
  BY <1>1 DEF Activated, OrderRow
<1> HIDE DEF new
<1>5. pc[o] = "done"
  BY <1>2 DEF At, IInv, OpenBacked
<1>6. \A p \in Orders : orders'[p] = IF p = o THEN new ELSE orders[p]
  BY <1>3 DEF IInv, TypeOK, new
<1>7. OrderStages'
  BY <1>2, <1>4, <1>5, <1>6 DEF StageInv, OrderStages
<1>8. SweepStages'
  <2>1. \A p \in sweep.left \cup sweep.told : p \in Orders /\ orders[p].creds
    BY DEF IInv, TypeOK, StageInv, SweepStages
  <2> QED BY <1>2, <1>4, <1>6, <2>1 DEF SweepStages
<1>9. CallStages'
  <2> SUFFICES ASSUME NEW d \in Calls
               PROVE  /\ call'[d].at # "idle" => call'[d].op \in Ops
                      /\ call'[d].op = "fulfil" /\ call'[d].at = "read"
                           => orders'[call'[d].order].status = "processing"
                      /\ call'[d].op = "fulfil" /\ call'[d].at = "fulfilled"
                           => orders'[call'[d].order].creds
    BY DEF CallStages, At
  <2>1. CASE d = c
    <3>1. call'[d].op = "fulfil" /\ call'[d].order = o /\ call'[d].at = "fulfilled"
      BY <1>1, <1>2, <2>1 DEF Call, At
    <3> HIDE DEF o
    <3> QED BY <1>1, <1>2, <1>4, <1>6, <3>1 DEF StageInv, CallStages, At, o
  <2>2. CASE d # c
    <3>1. call'[d] = call[d] /\ call[d].order \in Orders
      BY <1>1, <1>2, <2>2 DEF Call
    <3>2. call[d].op = "fulfil" /\ call[d].at # "idle" => call[d].order # o
      BY <1>2, <2>2 DEF OneDelivery, At
    <3>3. CASE call[d].op = "fulfil" /\ call[d].at # "idle"
      <4>1. orders'[call[d].order] = orders[call[d].order]
        BY <1>6, <3>1, <3>2, <3>3
      <4> QED BY <3>1, <4>1 DEF StageInv, CallStages, At
    <3>4. CASE ~(call[d].op = "fulfil" /\ call[d].at # "idle")
      BY <3>1, <3>4 DEF StageInv, CallStages
    <3> QED BY <3>3, <3>4
  <2> QED BY <2>1, <2>2
<1> QED BY <1>7, <1>8, <1>9 DEF StageInv

\* Every step keeps the stages.
LEMMA StagesInductive ==
  ASSUME Reliable
  PROVE  IInv /\ OneDelivery /\ StageInv /\ [Next]_vars => StageInv'
<1> SUFFICES ASSUME IInv, OneDelivery, StageInv, [Next]_vars PROVE StageInv'
  OBVIOUS
<1>1. /\ pc' = pc /\ orders' = orders => OrderStages' /\ OrdersWait
      /\ call' = call => CallsGoOn
      /\ sweep' = sweep => SweepGoesOn
  BY DEF StageInv, OrderStages, OrdersWait, CallsGoOn, SweepGoesOn
<1>2. ASSUME NEW o \in Orders, Create(o) PROVE StageInv'
  <2>1. call' = call /\ sweep' = sweep
    BY <1>2 DEF Create, Lookup, Insert, HoldFunds, Purchase, Activate, ConfirmFunds, SaveRef,
       MarkProcessing, ReleaseFunds, MarkFailed
  <2> QED BY <1>1, <1>2, <2>1, CreateStages, StagesGoOn
<1>3. ASSUME NEW o \in Orders, PatchOrder(o) PROVE StageInv'
  <2>1. call' = call /\ sweep' = sweep /\ pc' = pc
    BY <1>3 DEF PatchOrder
  <2>2. PICK price, expiry : orders' = [orders EXCEPT ![o].price = price, ![o].custom = expiry]
    BY <1>3 DEF PatchOrder
  <2>3. \A p \in Orders : orders'[p].status = orders[p].status /\ orders'[p].creds = orders[p].creds
    BY <2>2 DEF IInv, TypeOK, OrderRow
  <2>4. OrderStages' /\ OrdersWait
    BY <2>1, <2>3 DEF StageInv, OrderStages, OrdersWait
  <2> QED BY <1>1, <2>1, <2>4, StagesGoOn
<1>4. ASSUME NEW c \in Calls, Read(c) PROVE StageInv'
  <2>1. orders' = orders /\ sweep' = sweep /\ pc' = pc
    BY <1>4 DEF Read
  <2>2. PICK op \in Ops, o \in Orders :
        /\ Admits(op, o)
        /\ call' = [call EXCEPT ![c] = [op |-> op, order |-> o, seen |-> orders[o],
                                        at |-> "read"]]
    BY <1>4 DEF Read
  <2>3. op = "fulfil" => orders[o].status = "processing"
    BY <2>2 DEF Admits
  <2>4. \A d \in Calls :
          call'[d] = IF d = c THEN [op |-> op, order |-> o, seen |-> orders[o], at |-> "read"]
                     ELSE call[d]
    BY <2>2 DEF IInv, TypeOK
  <2>5. CallStages'
    BY <2>1, <2>3, <2>4 DEF StageInv, CallStages, At
  <2> QED BY <2>1, <2>5 DEF StageInv, OrderStages, SweepStages
<1>5. ASSUME NEW c \in Calls, Proceed(c) PROVE StageInv'
  <2>1. sweep' = sweep
    BY <1>5 DEF Proceed, TellProvider, MarkCancelled, Refund, MarkLocked, MarkActive,
       HoldRenewal, ConfirmRenewal, ReleaseRenewal, ResumeRenewed, Extend, ClearCustom, Fulfil,
       ConfirmFulfilled
  <2>2. CASE Fulfil(c)
    BY <2>2, FulfilStages
  <2>3. CASE ~Fulfil(c)
    BY <1>1, <1>5, <2>1, <2>3, ProceedStages, ProceedGoesOn, StagesGoOn
  <2> QED BY <2>2, <2>3
<1>6. ASSUME Sweep PROVE StageInv'
  <2>1. pc' = pc /\ call' = call
    BY <1>6 DEF Sweep, ListExpired, ListGrace, EndTick, SuspendExpired, MarkExpired, DeleteProxy,
       MarkDeleted
  <2>2. CASE ListExpired \/ ListGrace
    <3>1. orders' = orders /\ sweep'.told = {}
          /\ \A o \in sweep'.left : o \in Orders /\ orders[o].status \in Delivered
      BY <2>2 DEF ListExpired, ListGrace, Overdue, GraceOver, Delivered
    <3>2. SweepStages'
      BY <3>1 DEF SweepStages, IInv, ServedHasCredentials
    <3> QED BY <2>1, <3>1, <3>2 DEF StageInv, OrderStages, CallStages, At
  <2>3. CASE EndTick \/ \E o \in Orders : SuspendExpired(o) \/ DeleteProxy(o)
    <3>1. orders' = orders
      BY <2>3 DEF EndTick, SuspendExpired, DeleteProxy
    <3>2. SweepGoesOn
      BY <2>3 DEF EndTick, SuspendExpired, DeleteProxy, SweepGoesOn, IInv, TypeOK
    <3> QED BY <1>1, <2>1, <3>1, <3>2, StagesGoOn
  <2>4. ASSUME NEW o \in Orders, MarkExpired(o) \/ MarkDeleted(o)
        PROVE  StageInv'
    <3>1. o \in sweep.told /\ sweep' = [sweep EXCEPT !.left = @ \ {o}, !.told = {}]
      BY <2>4 DEF MarkExpired, MarkDeleted, SetStatus, Save, Skip
    <3>2. SweepGoesOn
      BY <3>1 DEF SweepGoesOn, IInv, TypeOK
    <3>3. PICK s \in {"expired", "cancelled"} :
            orders' = [orders EXCEPT ![o] = [orders[o] EXCEPT !.status = s]]
      BY <2>4 DEF MarkExpired, MarkDeleted, SetStatus, Save, Reliable
    <3>4. orders[o].creds /\ s \in Status \ {"processing"}
      BY <3>1 DEF StageInv, SweepStages, Status
    <3>5. OrderStages' /\ OrdersWait
      BY <2>1, <3>3, <3>4, DeliveredStatus
    <3> QED BY <1>1, <2>1, <3>2, <3>5, StagesGoOn
  <2> QED BY <1>6, <2>2, <2>3, <2>4 DEF Sweep
<1>7. CASE Tick \/ UNCHANGED vars
  <2>1. orders' = orders /\ pc' = pc /\ call' = call /\ sweep' = sweep
    BY <1>7 DEF Tick, vars
  <2> QED BY <1>1, <2>1, StagesGoOn
<1> QED BY <1>2, <1>3, <1>4, <1>5, <1>6, <1>7 DEF Next

LEMMA StagesInitially == Init => StageInv
<1>1. ~NoOrder.creds /\ NoOrder.status = "none" /\ Idle.at = "idle"
  BY DEF NoOrder, Idle
<1> HIDE DEF NoOrder, Idle
<1> QED BY <1>1 DEF Init, StageInv, OrderStages, CallStages, SweepStages, At
-----------------------------------------------------------------------------
(***************************************************************************)
(* Holds.                                                                  *)
(***************************************************************************)

Escrows == {o \in Orders : Escrowed(o)}
OrderPrices == [o \in Orders |-> terms[o].price]
RenewPrices == [c \in Calls |-> RenewPrice(call[c].order, call[c].seen)]

\* Both sums are over finite sets of natural numbers.
LEMMA HoldSums ==
  ASSUME TypeOK
  PROVE  /\ IsFiniteSet(Escrows) /\ Escrows \subseteq Orders
         /\ \A o \in Orders : OrderPrices[o] \in Nat /\ OrderPrices[o] = terms[o].price
         /\ IsFiniteSet(Renewing) /\ Renewing \subseteq Calls
         /\ \A c \in Calls : /\ RenewPrices[c] \in Nat
                             /\ RenewPrices[c] = RenewPrice(call[c].order, call[c].seen)
         /\ Escrow = SumFunctionOnSet(OrderPrices, Escrows) /\ Escrow \in Nat
         /\ RenewalEscrow = SumFunctionOnSet(RenewPrices, Renewing) /\ RenewalEscrow \in Nat
<1>1. Escrows \subseteq Orders /\ Renewing \subseteq Calls
  BY DEF Escrows, Renewing
<1>2. IsFiniteSet(Escrows) /\ IsFiniteSet(Renewing)
  BY <1>1, FS_Subset, ProxyAssumption
<1>3. \A o \in Orders : OrderPrices[o] \in Nat /\ OrderPrices[o] = terms[o].price
  BY ProxyAssumption DEF TypeOK, Terms, OrderPrices
<1>4. \A c \in Calls : /\ RenewPrices[c] \in Nat
                       /\ RenewPrices[c] = RenewPrice(call[c].order, call[c].seen)
  BY RenewPriceNat DEF RenewPrices
<1>5. /\ Escrow = SumFunctionOnSet(OrderPrices, Escrows)
      /\ RenewalEscrow = SumFunctionOnSet(RenewPrices, Renewing)
  BY DEF Escrow, RenewalEscrow, OrderPrices, RenewPrices, Escrows
<1>6. Escrow \in Nat
  <2>1. \A o \in Escrows : OrderPrices[o] \in Nat
    BY <1>1, <1>3
  <2> QED BY <1>2, <1>5, <2>1, SumNat
<1>7. RenewalEscrow \in Nat
  <2>1. \A c \in Renewing : RenewPrices[c] \in Nat
    BY <1>1, <1>4
  <2> QED BY <1>2, <1>5, <2>1, SumNat
<1> QED BY <1>1, <1>2, <1>3, <1>4, <1>5, <1>6, <1>7

\* What is on hold covers the order, or the renewal, that it is held for.
LEMMA HoldCovers ==
  ASSUME TypeOK, HoldsMatchOrders
  PROVE  /\ \A o \in Escrows : terms[o].price <= wallet.hold
         /\ \A c \in Renewing : RenewPrice(call[c].order, call[c].seen) <= wallet.hold
<1>1. ASSUME NEW o \in Escrows PROVE terms[o].price <= wallet.hold
  <2>1. o \in Orders /\ Naturals(OrderPrices, Escrows)
    BY HoldSums DEF Naturals
  <2>2. OrderPrices[o] <= SumFunctionOnSet(OrderPrices, Escrows)
    BY <2>1, SumLeaves DEF Agree
  <2>3. terms[o].price \in Nat /\ OrderPrices[o] = terms[o].price
    BY <2>1, HoldSums
  <2> QED BY <2>2, <2>3, HoldSums DEF HoldsMatchOrders
<1>2. ASSUME NEW c \in Renewing PROVE RenewPrice(call[c].order, call[c].seen) <= wallet.hold
  <2>1. c \in Calls /\ Naturals(RenewPrices, Renewing)
    BY HoldSums DEF Naturals
  <2>2. RenewPrices[c] <= SumFunctionOnSet(RenewPrices, Renewing)
    BY <2>1, SumLeaves DEF Agree
  <2>3. RenewPrices[c] = RenewPrice(call[c].order, call[c].seen) /\ RenewPrices[c] \in Nat
    BY <2>1, HoldSums
  <2> QED BY <2>2, <2>3, HoldSums DEF HoldsMatchOrders
<1> QED BY <1>1, <1>2

\* The amount that a step adds to a sum over orders.
OrdersMove(o, amount) ==
  \/ amount = 0 /\ Escrows' = Escrows
  \/ o \notin Escrows /\ Escrows' = Escrows \cup {o} /\ amount = terms[o].price
  \/ o \in Escrows /\ Escrows' = Escrows \ {o} /\ amount = -terms[o].price

RenewalsMove(c, amount) ==
  \/ amount = 0 /\ Renewing' = Renewing
  \/ /\ c \notin Renewing /\ Renewing' = Renewing \cup {c}
     /\ amount = RenewPrice(call[c].order, call[c].seen)
  \/ /\ c \in Renewing /\ Renewing' = Renewing \ {c}
     /\ amount = -RenewPrice(call[c].order, call[c].seen)

LEMMA EscrowMoves ==
  ASSUME TypeOK, TypeOK', terms' = terms, NEW o \in Orders, NEW amount, OrdersMove(o, amount)
  PROVE  amount \in Int /\ Escrow' = Escrow + amount
<1>1. /\ Naturals(OrderPrices, Escrows) /\ Agree(OrderPrices, OrderPrices, Escrows')
      /\ OrderPrices[o] \in Nat /\ OrderPrices[o] = terms[o].price
      /\ Escrow = SumFunctionOnSet(OrderPrices, Escrows) /\ Escrow \in Nat
  BY HoldSums DEF Naturals, Agree
<1>2. Escrow' = SumFunctionOnSet(OrderPrices, Escrows')
  <2>1. Escrow' = SumFunctionOnSet(OrderPrices', Escrows') /\ OrderPrices' = OrderPrices
    BY DEF Escrow, OrderPrices, Escrows
  <2> QED BY <2>1
<1>3. CASE amount = 0 /\ Escrows' = Escrows
  BY <1>1, <1>2, <1>3
<1>4. CASE o \notin Escrows /\ Escrows' = Escrows \cup {o} /\ amount = terms[o].price
  <2>1. Agree(OrderPrices, OrderPrices, Escrows)
    BY DEF Agree
  <2> QED BY <1>1, <1>2, <1>4, <2>1, SumJoins
<1>5. CASE o \in Escrows /\ Escrows' = Escrows \ {o} /\ amount = -terms[o].price
  <2>1. SumFunctionOnSet(OrderPrices, Escrows')
          = SumFunctionOnSet(OrderPrices, Escrows) - OrderPrices[o]
    BY <1>1, <1>5, SumLeaves
  <2> QED BY <1>1, <1>2, <1>5, <2>1
<1> QED BY <1>3, <1>4, <1>5 DEF OrdersMove

\* Requests under way keep the row they read, and with it their price.
PricesStay ==
  \A c \in Calls : call'[c].at # "idle" /\ call'[c].at # "read" =>
    call'[c].order = call[c].order /\ call'[c].seen = call[c].seen

LEMMA RenewalEscrowMoves ==
  ASSUME TypeOK, TypeOK', terms' = terms, PricesStay, NEW c \in Calls, NEW amount,
         RenewalsMove(c, amount)
  PROVE  amount \in Int /\ RenewalEscrow' = RenewalEscrow + amount
<1>1. Agree(RenewPrices, RenewPrices', Renewing')
  BY DEF Agree, Renewing, RenewPrices, RenewPrice, PricesStay
<1>2. /\ Naturals(RenewPrices, Renewing)
      /\ RenewPrices[c] \in Nat /\ RenewPrices[c] = RenewPrice(call[c].order, call[c].seen)
      /\ RenewalEscrow = SumFunctionOnSet(RenewPrices, Renewing) /\ RenewalEscrow \in Nat
  BY HoldSums DEF Naturals
<1>3. RenewalEscrow' = SumFunctionOnSet(RenewPrices', Renewing')
  BY DEF RenewalEscrow, RenewPrices
<1>4. CASE amount = 0 /\ Renewing' = Renewing
  BY <1>1, <1>2, <1>3, <1>4, SumStays
<1>5. CASE /\ c \notin Renewing /\ Renewing' = Renewing \cup {c}
           /\ amount = RenewPrice(call[c].order, call[c].seen)
  <2>1. Agree(RenewPrices, RenewPrices', Renewing) /\ RenewPrices'[c] = RenewPrices[c]
    BY <1>1, <1>5 DEF Agree
  <2>2. SumFunctionOnSet(RenewPrices', Renewing')
          = SumFunctionOnSet(RenewPrices, Renewing) + RenewPrices'[c]
    BY <1>2, <1>5, <2>1, SumJoins
  <2> QED BY <1>2, <1>3, <1>5, <2>1, <2>2
<1>6. CASE /\ c \in Renewing /\ Renewing' = Renewing \ {c}
           /\ amount = -RenewPrice(call[c].order, call[c].seen)
  <2>1. SumFunctionOnSet(RenewPrices', Renewing')
          = SumFunctionOnSet(RenewPrices, Renewing) - RenewPrices[c]
    BY <1>1, <1>2, <1>6, SumLeaves
  <2> QED BY <1>2, <1>3, <1>6, <2>1
<1> QED BY <1>4, <1>5, <1>6 DEF RenewalsMove

\* The books of holds: a step moves what is on hold by what it moves in one of
\* the two sums.
LEMMA OrderHoldMoves ==
  ASSUME TypeOK, TypeOK', HoldsMatchOrders, terms' = terms, PricesStay, Renewing' = Renewing,
         NEW o \in Orders, NEW amount, OrdersMove(o, amount),
         wallet'.hold = wallet.hold + amount
  PROVE  HoldsMatchOrders'
<1>1. amount \in Int /\ Escrow' = Escrow + amount
  BY EscrowMoves
<1>2. RenewalEscrow' = RenewalEscrow
  <2>1. Naturals(RenewPrices, Renewing) /\ RenewalEscrow = SumFunctionOnSet(RenewPrices, Renewing)
    BY HoldSums DEF Naturals
  <2>2. Agree(RenewPrices, RenewPrices', Renewing)
    BY DEF Agree, Renewing, RenewPrices, RenewPrice, PricesStay
  <2>3. RenewalEscrow' = SumFunctionOnSet(RenewPrices', Renewing')
    BY DEF RenewalEscrow, RenewPrices
  <2> QED BY <2>1, <2>2, <2>3, SumStays
<1>3. Escrow \in Nat /\ RenewalEscrow \in Nat /\ wallet.hold = Escrow + RenewalEscrow
  BY HoldSums DEF HoldsMatchOrders
<1> QED BY <1>1, <1>2, <1>3 DEF HoldsMatchOrders

LEMMA RenewalHoldMoves ==
  ASSUME TypeOK, TypeOK', HoldsMatchOrders, terms' = terms, PricesStay, Escrows' = Escrows,
         NEW c \in Calls, NEW amount, RenewalsMove(c, amount),
         wallet'.hold = wallet.hold + amount
  PROVE  HoldsMatchOrders'
<1>1. amount \in Int /\ RenewalEscrow' = RenewalEscrow + amount
  BY RenewalEscrowMoves
<1>2. Escrow' = Escrow
  <2>1. PICK o \in Orders : TRUE
    BY ProxyAssumption
  <2>2. OrdersMove(o, 0)
    BY DEF OrdersMove
  <2>3. Escrow' = Escrow + 0 /\ Escrow \in Nat
    BY <2>2, EscrowMoves, HoldSums
  <2> QED BY <2>3
<1>3. Escrow \in Nat /\ RenewalEscrow \in Nat /\ wallet.hold = Escrow + RenewalEscrow
  BY HoldSums DEF HoldsMatchOrders
<1> QED BY <1>1, <1>2, <1>3 DEF HoldsMatchOrders

\* A row that covers the amount settles every request for it.
LEMMA Covered ==
  ASSUME NEW w \in Row, NEW amount \in Nat
  PROVE  /\ Updated([kind |-> "hold", amt |-> amount], w)
              = [bal |-> w.bal, hold |-> w.hold + amount]
         /\ amount <= w.hold =>
              LET q == [kind |-> "confirm", amt |-> amount]
              IN  /\ ~InvalidAmount(q) /\ ~Insufficient(q, w)
                  /\ Updated(q, w) = [bal |-> w.bal - amount, hold |-> w.hold - amount]
         /\ amount <= w.hold =>
              LET q == [kind |-> "release", amt |-> amount]
              IN  /\ ~InvalidAmount(q) /\ ~Insufficient(q, w)
                  /\ Updated(q, w) = [bal |-> w.bal, hold |-> w.hold - amount]
<1>1. w.bal \in Int /\ w.hold \in Int
  BY DEF Row
<1>2. \A k \in Kinds : [kind |-> k, amt |-> amount].kind = k
                       /\ [kind |-> k, amt |-> amount].amt = amount
  OBVIOUS
<1> QED BY <1>1, <1>2 DEF Updated, NewBalance, NewHold, InvalidAmount, Insufficient, Kinds

\* What the four calls of the sagas, the renewals and the webhook do to the
\* wallet: a confirmation and a release find their hold.
Held(amount) == wallet' = [bal |-> wallet.bal, hold |-> wallet.hold + amount]
Charged(amount) == wallet' = [bal |-> wallet.bal - amount, hold |-> wallet.hold - amount]
Released(amount) == wallet' = [bal |-> wallet.bal, hold |-> wallet.hold - amount]

LEMMA SagaSettles ==
  ASSUME Reliable, TypeOK, HoldsMatchOrders, NEW o \in Orders
  PROVE  /\ HoldFunds(o) => \/ Held(terms[o].price) /\ Goto(o, "held")
                            \/ wallet' = wallet /\ Goto(o, "failing")
         /\ ConfirmFunds(o) => Charged(terms[o].price) /\ Goto(o, "done")
         /\ ReleaseFunds(o) => Released(terms[o].price) /\ Goto(o, "failing")
<1>1. wallet \in Row /\ terms[o].price \in Nat
  BY HoldSums DEF TypeOK
<1>2. ASSUME HoldFunds(o)
      PROVE  \/ Held(terms[o].price) /\ Goto(o, "held")
             \/ wallet' = wallet /\ Goto(o, "failing")
  BY <1>1, <1>2, Covered DEF HoldFunds, Bill, Held, Reliable
<1>3. ASSUME ConfirmFunds(o)
      PROVE  Charged(terms[o].price) /\ Goto(o, "done")
  <2>1. terms[o].price <= wallet.hold
    BY <1>3, HoldCovers DEF ConfirmFunds, Escrows, Escrowed
  <2> QED BY <1>1, <1>3, <2>1, Covered DEF ConfirmFunds, Bill, Charged, Reliable
<1>4. ASSUME ReleaseFunds(o)
      PROVE  Released(terms[o].price) /\ Goto(o, "failing")
  <2>1. terms[o].price <= wallet.hold
    BY <1>4, HoldCovers DEF ReleaseFunds, Escrows, Escrowed
  <2> QED BY <1>1, <1>4, <2>1, Covered DEF ReleaseFunds, Bill, Released, Reliable
<1> QED BY <1>2, <1>3, <1>4

LEMMA RequestSettles ==
  ASSUME Reliable, TypeOK, HoldsMatchOrders, NEW c \in Calls
  PROVE  /\ HoldRenewal(c) =>
              \/ Held(RenewPrice(call[c].order, call[c].seen)) /\ Move(c, "held")
              \/ wallet' = wallet /\ Leave(c)
         /\ ConfirmRenewal(c) =>
              Charged(RenewPrice(call[c].order, call[c].seen)) /\ Move(c, "paid")
         /\ ReleaseRenewal(c) =>
              Released(RenewPrice(call[c].order, call[c].seen)) /\ Leave(c)
         /\ ConfirmFulfilled(c) => Charged(terms[call[c].order].price) /\ Leave(c)
<1> DEFINE amount == RenewPrice(call[c].order, call[c].seen)
<1>1. wallet \in Row /\ amount \in Nat
  BY RenewPriceNat DEF TypeOK
<1>2. ASSUME HoldRenewal(c)
      PROVE  \/ Held(amount) /\ Move(c, "held")
             \/ wallet' = wallet /\ Leave(c)
  <2> HIDE DEF amount
  <2> QED BY <1>1, <1>2, Covered DEF HoldRenewal, Bill, Held, Reliable, amount
<1>3. ASSUME ConfirmRenewal(c)
      PROVE  Charged(amount) /\ Move(c, "paid")
  <2>1. amount <= wallet.hold
    BY <1>3, HoldCovers DEF ConfirmRenewal, Renewing, At
  <2> QED BY <1>1, <1>3, <2>1, Covered DEF ConfirmRenewal, Bill, Charged, Reliable
<1>4. ASSUME ReleaseRenewal(c)
      PROVE  Released(amount) /\ Leave(c)
  <2>1. amount <= wallet.hold
    BY <1>4, HoldCovers DEF ReleaseRenewal, Renewing, At
  <2> QED BY <1>1, <1>4, <2>1, Covered DEF ReleaseRenewal, Bill, Released, Reliable
<1>5. ASSUME ConfirmFulfilled(c)
      PROVE  Charged(terms[call[c].order].price) /\ Leave(c)
  <2>1. call[c].order \in Orders
    BY DEF TypeOK, Call
  <2>2. terms[call[c].order].price <= wallet.hold /\ terms[call[c].order].price \in Nat
    BY <1>5, <2>1, HoldCovers, HoldSums DEF ConfirmFulfilled, Escrows, Escrowed
  <2> QED BY <1>1, <1>5, <2>2, Covered DEF ConfirmFulfilled, Bill, Charged, Reliable
<1> QED BY <1>2, <1>3, <1>4, <1>5

\* A saga that is not over is not awaited by the webhook.
LEMMA SagaAlone ==
  ASSUME IInv, NEW o \in Orders, pc[o] # "done"
  PROVE  /\ orders[o].status # "processing"
         /\ ~ \E c \in Calls : At(c, "fulfil", "fulfilled") /\ call[c].order = o
BY DEF IInv, ProcessingDone, OpenBacked, At

\* A saga holds its price from HoldFunds to ConfirmFunds or ReleaseFunds, or,
\* by way of MarkProcessing, to the webhook.
Holding == {"held", "bought", "activated", "ordered", "saved", "releasing"}

LEMMA SagaMoves ==
  ASSUME IInv, NEW o \in Orders, pc[o] # "done", NEW s, Goto(o, s), call' = call,
         \A p \in Orders : p # o => orders'[p] = orders[p]
  PROVE  /\ o \in Escrows <=> pc[o] \in Holding
         /\ IF s \in Holding \/ (s = "done" /\ orders'[o].status = "processing")
            THEN Escrows' = Escrows \cup {o} ELSE Escrows' = Escrows \ {o}
<1>1. o \in Escrows <=> pc[o] \in Holding
  BY SagaAlone DEF Escrows, Escrowed, Holding
<1>2. \A p \in Orders : pc'[p] = IF p = o THEN s ELSE pc[p]
  BY DEF Goto, IInv, TypeOK
<1>3. \A p \in Orders : Escrowed(p)' <=>
        \/ pc'[p] \in Holding
        \/ (pc'[p] = "done" /\ orders'[p].status = "processing")
        \/ \E c \in Calls : At(c, "fulfil", "fulfilled") /\ call[c].order = p
  BY DEF Escrowed, At, Holding
<1>4. \A p \in Orders : p # o => (Escrowed(p)' <=> Escrowed(p))
  BY <1>2, <1>3 DEF Escrowed, Holding
<1>5. Escrowed(o)' <=> s \in Holding \/ (s = "done" /\ orders'[o].status = "processing")
  BY <1>2, <1>3, SagaAlone
<1> QED BY <1>1, <1>4, <1>5 DEF Escrows

LEMMA CreateHolds ==
  ASSUME Reliable, IInv, TypeOK', HoldsMatchOrders, NEW o \in Orders, Create(o)
  PROVE  HoldsMatchOrders'
<1>1. /\ call' = call /\ terms' = terms
      /\ TypeOK /\ pc \in [Orders -> Working \cup {"arrived", "done"}]
      /\ orders \in [Orders -> OrderRow]
  BY DEF Create, Lookup, Insert, HoldFunds, Purchase, Activate, ConfirmFunds, SaveRef,
     MarkProcessing, ReleaseFunds, MarkFailed, IInv, TypeOK
<1>2. Renewing' = Renewing /\ PricesStay
  BY <1>1 DEF Renewing, PricesStay
<1>3. pc[o] # "done" /\ orders[o].status # "processing"
  <2>1. pc[o] # "done"
    BY DEF Create, Lookup, Insert, HoldFunds, Purchase, Activate, ConfirmFunds, SaveRef,
       MarkProcessing, ReleaseFunds, MarkFailed
  <2> QED BY <2>1, SagaAlone
<1>4. wallet.hold \in Int /\ terms[o].price \in Int
  BY <1>1, HoldSums DEF TypeOK, Row
<1>5. ASSUME wallet' = wallet,
             NEW s, Goto(o, s), \A p \in Orders : p # o => orders'[p] = orders[p],
             pc[o] \in Holding <=>
               s \in Holding \/ (s = "done" /\ orders'[o].status = "processing")
      PROVE  HoldsMatchOrders'
  <2>1. Escrows' = Escrows
    BY <1>1, <1>3, <1>5, SagaMoves
  <2>2. OrdersMove(o, 0)
    BY <2>1 DEF OrdersMove
  <2> QED BY <1>1, <1>2, <1>4, <1>5, <2>2, OrderHoldMoves
<1>6. CASE HoldFunds(o)
  <2>1. orders' = orders /\ pc[o] = "placed"
    BY <1>6 DEF HoldFunds
  <2>2. CASE wallet' = wallet /\ Goto(o, "failing")
    BY <1>3, <1>5, <2>1, <2>2 DEF Holding
  <2>3. CASE Held(terms[o].price) /\ Goto(o, "held")
    <3>1. o \notin Escrows /\ Escrows' = Escrows \cup {o}
      BY <1>1, <1>3, <2>1, <2>3, SagaMoves DEF Holding
    <3>2. OrdersMove(o, terms[o].price) /\ wallet'.hold = wallet.hold + terms[o].price
      BY <2>3, <3>1 DEF OrdersMove, Held
    <3> QED BY <1>1, <1>2, <3>2, OrderHoldMoves
  <2> QED BY <1>1, <1>6, <2>2, <2>3, SagaSettles
<1>7. CASE ConfirmFunds(o) \/ ReleaseFunds(o)
  <2>1. orders' = orders /\ pc[o] \in {"activated", "releasing"}
    BY <1>7 DEF ConfirmFunds, ReleaseFunds
  <2>2. PICK s \in {"done", "failing"} : Goto(o, s)
    BY <1>1, <1>7, SagaSettles
  <2>3. wallet'.hold = wallet.hold + (-terms[o].price)
    BY <1>1, <1>4, <1>7, SagaSettles DEF Charged, Released
  <2>4. o \in Escrows /\ Escrows' = Escrows \ {o}
    BY <1>1, <1>3, <2>1, <2>2, SagaMoves DEF Holding
  <2>5. OrdersMove(o, -terms[o].price)
    BY <2>4 DEF OrdersMove
  <2> QED BY <1>1, <1>2, <2>3, <2>5, OrderHoldMoves
<1>8. CASE Lookup(o)
  <2>1. wallet' = wallet /\ orders' = orders /\ pc[o] = "arrived"
    BY <1>8 DEF Lookup
  <2>2. PICK s \in {"done", "checked"} : Goto(o, s)
    BY <1>8 DEF Lookup
  <2> QED BY <1>3, <1>5, <2>1, <2>2 DEF Holding
<1>9. CASE Insert(o)
  <2>1. wallet' = wallet /\ pc[o] = "checked"
    BY <1>9 DEF Insert
  <2>2. PICK s \in {"done", "placed"} : Goto(o, s)
    BY <1>9 DEF Insert, SetStatus, Save
  <2>3. /\ orders'[o].status # "processing"
        /\ \A p \in Orders : p # o => orders'[p] = orders[p]
    <3>1. \/ orders' = orders
          \/ orders' = [orders EXCEPT ![o] = [orders[o] EXCEPT !.status = "pending"]]
      BY <1>9 DEF Insert, SetStatus, Save
    <3>2. [orders[o] EXCEPT !.status = "pending"].status = "pending"
      BY <1>1 DEF OrderRow
    <3> QED BY <1>1, <1>3, <3>1, <3>2
  <2> QED BY <1>5, <2>1, <2>2, <2>3 DEF Holding
<1>10. CASE Purchase(o)
  <2>1. wallet' = wallet /\ orders' = orders /\ pc[o] = "held"
    BY <1>10 DEF Purchase
  <2>2. PICK s \in {"bought", "ordered", "releasing"} : Goto(o, s)
    BY <1>10 DEF Purchase
  <2> QED BY <1>5, <2>1, <2>2 DEF Holding
<1>11. CASE Activate(o) \/ SaveRef(o)
  <2>1. wallet' = wallet /\ pc[o] \in {"bought", "ordered"}
    BY <1>11 DEF Activate, SaveRef
  <2>2. PICK s \in {"activated", "saved"} : Goto(o, s)
    BY <1>11 DEF Activate, SaveRef, Save, Reliable
  <2>3. \A p \in Orders : p # o => orders'[p] = orders[p]
    BY <1>1, <1>11 DEF Activate, SaveRef, Save, Reliable
  <2> QED BY <1>5, <2>1, <2>2, <2>3 DEF Holding
<1>12. CASE MarkProcessing(o) \/ MarkFailed(o)
  <2>1. wallet' = wallet /\ Goto(o, "done")
    BY <1>12 DEF MarkProcessing, MarkFailed, SetStatus, Save, Reliable
  <2>2. PICK s \in {"processing", "failed"} :
          /\ orders' = [orders EXCEPT ![o] = [orders[o] EXCEPT !.status = s]]
          /\ pc[o] = IF s = "processing" THEN "saved" ELSE "failing"
    BY <1>12 DEF MarkProcessing, MarkFailed, SetStatus, Save, Reliable
  <2>3. orders'[o].status = s /\ \A p \in Orders : p # o => orders'[p] = orders[p]
    <3>1. [orders[o] EXCEPT !.status = s].status = s
      BY <1>1 DEF OrderRow
    <3> QED BY <1>1, <2>2, <3>1
  <2> QED BY <1>5, <2>1, <2>2, <2>3 DEF Holding
<1> QED BY <1>6, <1>7, <1>8, <1>9, <1>10, <1>11, <1>12 DEF Create

\* Statements that neither begin nor end a wait for the webhook leave the
\* holds alone.
LEMMA ElsewhereHolds ==
  ASSUME IInv, TypeOK', HoldsMatchOrders, terms' = terms, wallet' = wallet, pc' = pc,
         \A o \in Orders : orders'[o].status = "processing" <=> orders[o].status = "processing",
         PricesStay, Renewing' = Renewing,
         \A c \in Calls, o \in Orders :
           At(c, "fulfil", "fulfilled")' /\ call'[c].order = o
             <=> At(c, "fulfil", "fulfilled") /\ call[c].order = o
  PROVE  HoldsMatchOrders'
<1>1. \A o \in Orders : Escrowed(o)' <=> Escrowed(o)
  BY DEF Escrowed
<1>2. Escrows' = Escrows
  BY <1>1 DEF Escrows
<1>3. PICK o \in Orders : TRUE
  BY ProxyAssumption
<1>4. OrdersMove(o, 0)
  BY <1>2 DEF OrdersMove
<1>5. TypeOK /\ wallet'.hold = wallet.hold + 0
  BY DEF IInv, TypeOK, Row
<1> QED BY <1>4, <1>5, OrderHoldMoves

\* A step of one request: where the others are does not change.
LEMMA RequestMoves ==
  ASSUME TypeOK, NEW c \in Calls, NEW stage \in CallStage \ {"idle"},
         Move(c, stage) \/ Leave(c)
  PROVE  /\ IF Move(c, stage) /\ call[c].op = "renew" /\ stage \in {"held", "unpaid"}
            THEN Renewing' = Renewing \cup {c} ELSE Renewing' = Renewing \ {c}
         /\ PricesStay
         /\ \A d \in Calls, o \in Orders :
              At(d, "fulfil", "fulfilled")' /\ call'[d].order = o <=>
                IF d = c THEN /\ Move(c, stage) /\ stage = "fulfilled"
                              /\ call[c].op = "fulfil" /\ call[c].order = o
                ELSE At(d, "fulfil", "fulfilled") /\ call[d].order = o
<1> DEFINE moved == [call[c] EXCEPT !.at = stage]
<1>1. call \in [Calls -> Call] /\ Idle.at = "idle" /\ stage # "idle"
  BY DEF TypeOK, Idle
<1>2. moved.at = stage /\ moved.op = call[c].op /\ moved.order = call[c].order
      /\ moved.seen = call[c].seen
  BY <1>1 DEF Call
<1> HIDE DEF Idle, moved
<1>3. \A d \in Calls : d # c => call'[d] = call[d]
  BY <1>1 DEF Move, Leave
<1>4. IF Move(c, stage) THEN call'[c] = moved ELSE call'[c] = Idle
  BY <1>1 DEF Move, Leave, moved
<1>5. PricesStay
  BY <1>1, <1>2, <1>3, <1>4 DEF PricesStay
<1>6. IF Move(c, stage) /\ call[c].op = "renew" /\ stage \in {"held", "unpaid"}
      THEN Renewing' = Renewing \cup {c} ELSE Renewing' = Renewing \ {c}
  <2>1. \A d \in Calls : d # c => (d \in Renewing' <=> d \in Renewing)
    BY <1>3 DEF Renewing
  <2>2. c \in Renewing' <=>
          Move(c, stage) /\ call[c].op = "renew" /\ stage \in {"held", "unpaid"}
    BY <1>1, <1>2, <1>4 DEF Renewing
  <2>3. Renewing \subseteq Calls /\ Renewing' \subseteq Calls
    BY DEF Renewing
  <2> QED BY <2>1, <2>2, <2>3
<1>7. ASSUME NEW d \in Calls, NEW o \in Orders
      PROVE  At(d, "fulfil", "fulfilled")' /\ call'[d].order = o <=>
                IF d = c THEN /\ Move(c, stage) /\ stage = "fulfilled"
                              /\ call[c].op = "fulfil" /\ call[c].order = o
                ELSE At(d, "fulfil", "fulfilled") /\ call[d].order = o
  BY <1>1, <1>2, <1>3, <1>4 DEF At
<1> QED BY <1>5, <1>6, <1>7

\* A renewal holds its price from HoldRenewal to ConfirmRenewal.
LEMMA RenewalHolds ==
  ASSUME Reliable, IInv, TypeOK', HoldsMatchOrders, NEW c \in Calls,
         HoldRenewal(c) \/ ConfirmRenewal(c) \/ ReleaseRenewal(c)
  PROVE  HoldsMatchOrders'
<1> DEFINE amount == RenewPrice(call[c].order, call[c].seen)
<1>1. /\ TypeOK /\ terms' = terms /\ orders' = orders /\ pc' = pc
      /\ call[c].op = "renew"
  BY DEF HoldRenewal, ConfirmRenewal, ReleaseRenewal, IInv, At
<1>2. wallet.hold \in Int /\ amount \in Int
  BY <1>1, RenewPriceNat DEF TypeOK, Row
<1>3. PICK stage \in {"held", "paid"} : Move(c, stage) \/ Leave(c)
  BY <1>1, RequestSettles
<1>4. stage \in CallStage \ {"idle"}
  BY DEF CallStage
<1>5. PricesStay
  BY <1>1, <1>3, <1>4, RequestMoves
<1>6. Escrows' = Escrows
  <2>1. \A d \in Calls, o \in Orders :
          At(d, "fulfil", "fulfilled")' /\ call'[d].order = o
            <=> At(d, "fulfil", "fulfilled") /\ call[d].order = o
    BY <1>1, <1>3, <1>4, RequestMoves DEF At
  <2>2. \A o \in Orders : Escrowed(o)' <=> Escrowed(o)
    BY <1>1, <2>1 DEF Escrowed
  <2> QED BY <2>2 DEF Escrows
<1>7. SUFFICES \E b : RenewalsMove(c, b) /\ wallet'.hold = wallet.hold + b
  BY <1>1, <1>5, <1>6, RenewalHoldMoves
<1>8. CASE HoldRenewal(c) /\ Held(amount) /\ Move(c, "held")
  <2>1. c \notin Renewing
    BY <1>8 DEF HoldRenewal, At, Renewing
  <2>2. Renewing' = Renewing \cup {c}
    <3>1. "held" \in CallStage \ {"idle"}
      BY DEF CallStage
    <3> QED BY <1>1, <1>8, <3>1, RequestMoves
  <2>3. RenewalsMove(c, amount)
    BY <2>1, <2>2 DEF RenewalsMove
  <2>4. wallet'.hold = wallet.hold + amount
    BY <1>8 DEF Held
  <2> QED BY <2>3, <2>4
<1>9. CASE HoldRenewal(c) /\ wallet' = wallet /\ Leave(c)
  <2>1. c \notin Renewing
    BY <1>9 DEF HoldRenewal, At, Renewing
  <2>2. ~Move(c, "paid") /\ "paid" \in CallStage \ {"idle"}
    <3>1. Idle.at # "paid"
      BY DEF Idle
    <3> HIDE DEF Idle
    <3> QED BY <1>1, <1>9, <3>1 DEF Move, Leave, TypeOK, Call, CallStage
  <2>3. Renewing' = Renewing \ {c}
    BY <1>1, <1>9, <2>2, RequestMoves
  <2>4. RenewalsMove(c, 0)
    BY <2>1, <2>3 DEF RenewalsMove
  <2> QED BY <1>2, <1>9, <2>4
<1>10. CASE ConfirmRenewal(c) \/ ReleaseRenewal(c)
  <2>1. c \in Renewing
    BY <1>10 DEF ConfirmRenewal, ReleaseRenewal, At, Renewing
  <2>2. wallet'.hold = wallet.hold + (-amount)
    BY <1>1, <1>2, <1>10, RequestSettles DEF Charged, Released
  <2>3. Renewing' = Renewing \ {c}
    <3>1. "paid" \in CallStage \ {"idle"} /\ "paid" \notin {"held", "unpaid"}
      BY DEF CallStage
    <3>2. Move(c, "paid") \/ Leave(c)
      BY <1>1, <1>10, RequestSettles
    <3> QED BY <1>1, <3>1, <3>2, RequestMoves
  <2>4. RenewalsMove(c, -amount)
    BY <2>1, <2>3 DEF RenewalsMove
  <2> QED BY <2>2, <2>4
<1> QED BY <1>1, <1>8, <1>9, <1>10, RequestSettles

\* The webhook takes the hold over from the saga, and charges it.
LEMMA FulfilHolds ==
  ASSUME Reliable, IInv, TypeOK', StageInv, HoldsMatchOrders, NEW c \in Calls, Fulfil(c)
  PROVE  HoldsMatchOrders'
<1>0. PICK o \in Orders : o = call[c].order
  BY DEF IInv, TypeOK, Call
<1>1. TypeOK /\ terms' = terms /\ wallet' = wallet /\ pc' = pc
  BY DEF Fulfil, IInv
<1>2. /\ At(c, "fulfil", "read") /\ Move(c, "fulfilled")
      /\ orders[o].status = "processing" /\ pc[o] = "done"
  BY <1>0 DEF Fulfil, Save, Reliable, At, StageInv, CallStages, IInv, OpenBacked
<1>3. \A p \in Orders : p # o => orders'[p] = orders[p]
  BY <1>0 DEF Fulfil, Save, Reliable, IInv, TypeOK
<1>4. "fulfilled" \in CallStage \ {"idle"}
  BY DEF CallStage
<1>5. PricesStay /\ Renewing' = Renewing \ {c}
  BY <1>1, <1>2, <1>4, RequestMoves
<1>6. c \notin Renewing
  BY <1>2 DEF Renewing, At
<1>7. \A d \in Calls, p \in Orders :
        At(d, "fulfil", "fulfilled")' /\ call'[d].order = p
          <=> \/ At(d, "fulfil", "fulfilled") /\ call[d].order = p
              \/ d = c /\ p = o
  BY <1>0, <1>1, <1>2, <1>4, RequestMoves DEF At
<1>8. \A p \in Orders : Escrowed(p)' <=> Escrowed(p)
  <2>1. Escrowed(o) /\ Escrowed(o)'
    BY <1>1, <1>2, <1>7 DEF Escrowed
  <2>2. \A p \in Orders : p # o => (Escrowed(p)' <=> Escrowed(p))
    BY <1>1, <1>3, <1>7 DEF Escrowed
  <2> QED BY <2>1, <2>2
<1>9. OrdersMove(o, 0)
  BY <1>8 DEF OrdersMove, Escrows
<1>10. wallet'.hold = wallet.hold + 0
  BY <1>1 DEF TypeOK, Row
<1> QED BY <1>1, <1>5, <1>6, <1>9, <1>10, OrderHoldMoves

LEMMA FulfilledHolds ==
  ASSUME Reliable, IInv, TypeOK', OneDelivery, StageInv, HoldsMatchOrders, NEW c \in Calls,
         ConfirmFulfilled(c)
  PROVE  HoldsMatchOrders'
<1>0. PICK o \in Orders : o = call[c].order
  BY DEF IInv, TypeOK, Call
<1>1. /\ TypeOK /\ terms' = terms /\ orders' = orders /\ pc' = pc
      /\ wallet.hold \in Int /\ terms[o].price \in Int
  <2>1. TypeOK
    BY DEF IInv
  <2>2. wallet.hold \in Int /\ terms[o].price \in Int
    BY <2>1, HoldSums DEF TypeOK, Row
  <2> QED BY <2>1, <2>2 DEF ConfirmFulfilled
<1>2. /\ At(c, "fulfil", "fulfilled") /\ Charged(terms[o].price) /\ Leave(c)
      /\ orders[o].status # "processing" /\ pc[o] = "done"
  <2>1. At(c, "fulfil", "fulfilled")
    BY DEF ConfirmFulfilled
  <2>2. orders[o].creds /\ pc[o] = "done"
    BY <1>0, <2>1 DEF At, StageInv, CallStages, IInv, OpenBacked
  <2> QED BY <1>0, <1>1, <2>1, <2>2, RequestSettles DEF StageInv, OrderStages
<1>3. "paid" \in CallStage \ {"idle"} /\ "paid" \notin {"held", "unpaid", "fulfilled"}
  BY DEF CallStage
<1>4. PricesStay /\ Renewing' = Renewing \ {c}
  BY <1>1, <1>2, <1>3, RequestMoves
<1>5. c \notin Renewing
  BY <1>2 DEF Renewing, At
<1>6. \A d \in Calls, p \in Orders :
        At(d, "fulfil", "fulfilled")' /\ call'[d].order = p
          <=> At(d, "fulfil", "fulfilled") /\ call[d].order = p /\ d # c
  BY <1>1, <1>2, <1>3, RequestMoves
<1>7. \A d \in Calls : At(d, "fulfil", "fulfilled") /\ call[d].order = o => d = c
  BY <1>0, <1>2 DEF OneDelivery, At
<1>8. \A p \in Orders : Escrowed(p)' <=> Escrowed(p) /\ p # o
  <2>1. ~Escrowed(o)'
    BY <1>1, <1>2, <1>6, <1>7 DEF Escrowed
  <2>2. \A p \in Orders : p # o => (Escrowed(p)' <=> Escrowed(p))
    BY <1>0, <1>1, <1>6 DEF Escrowed
  <2> QED BY <2>1, <2>2
<1>9. Escrowed(o)
  BY <1>0, <1>2 DEF Escrowed
<1>10. OrdersMove(o, -terms[o].price)
  BY <1>1, <1>8, <1>9 DEF OrdersMove, Escrows
<1>11. wallet'.hold = wallet.hold + (-terms[o].price)
  BY <1>1, <1>2 DEF Charged
<1> QED BY <1>1, <1>4, <1>5, <1>10, <1>11, OrderHoldMoves

\* The other steps of a request hold nothing and charge nothing.
LEMMA ProceedHolds ==
  ASSUME Reliable, IInv, TypeOK', OneDelivery, StageInv, HoldsMatchOrders, NEW c \in Calls,
         Proceed(c)
  PROVE  HoldsMatchOrders'
<1> DEFINE o == call[c].order
<1>1. TypeOK /\ o \in Orders /\ orders[o] \in OrderRow
  BY DEF IInv, TypeOK, Call
<1>2. ~MarkCancelled(c) /\ ~Refund(c)
  BY DEF MarkCancelled, Refund, At, StageInv, CallStages, Reliable
<1>3. CASE \/ TellProvider(c) \/ MarkLocked(c) \/ MarkActive(c) \/ ResumeRenewed(c)
           \/ Extend(c) \/ ClearCustom(c)
  <2>1. terms' = terms /\ wallet' = wallet /\ pc' = pc
    BY <1>3 DEF TellProvider, MarkLocked, MarkActive, ResumeRenewed, Extend, ClearCustom
  <2>2. call[c].at \notin {"held", "unpaid", "fulfilled"}
    BY <1>3 DEF TellProvider, MarkLocked, MarkActive, ResumeRenewed, Extend, ClearCustom, At
  <2>3. PICK stage \in {"told", "resumed", "extended", "cleared"} : Move(c, stage) \/ Leave(c)
    BY <1>3 DEF TellProvider, MarkLocked, MarkActive, ResumeRenewed, Extend, ClearCustom,
       SetStatus, Save
  <2>4. stage \in CallStage \ {"idle"} /\ stage \notin {"held", "unpaid", "fulfilled"}
    BY <2>3 DEF CallStage
  <2>5. /\ Renewing' = Renewing \ {c} /\ PricesStay
        /\ \A d \in Calls, p \in Orders :
             At(d, "fulfil", "fulfilled")' /\ call'[d].order = p
               <=> At(d, "fulfil", "fulfilled") /\ call[d].order = p
    BY <1>1, <2>2, <2>3, <2>4, RequestMoves DEF At
  <2>6. Renewing' = Renewing
    BY <2>2, <2>5 DEF Renewing
  <2>7. \A p \in Orders : orders'[p].status = "processing" <=> orders[p].status = "processing"
    <3>1. CASE orders' = orders
      BY <3>1
    <3>2. CASE MarkLocked(c) \/ MarkActive(c) \/ Extend(c) \/ ClearCustom(c)
      <4>1. \A p \in Orders : p # o => orders'[p] = orders[p]
        BY <1>1, <3>2 DEF MarkLocked, MarkActive, Extend, ClearCustom, SetStatus, Save, Reliable,
           TypeOK
      <4>2. orders[o].creds
        BY <3>2 DEF MarkLocked, MarkActive, Extend, ClearCustom, At, IInv, OpenBacked
      <4>3. OrderStages' /\ OrdersWait
        <5>1. ~Fulfil(c)
          BY <3>2 DEF MarkLocked, MarkActive, Extend, ClearCustom, Fulfil, At
        <5>2. Proceed(c)
          OBVIOUS
        <5> QED BY <5>1, <5>2, ProceedStages
      <4> HIDE DEF o
      <4>4. orders[o].status # "processing" /\ orders'[o].status # "processing"
        BY <1>1, <4>2, <4>3 DEF StageInv, OrderStages, OrdersWait
      <4> QED BY <4>1, <4>4
    <3> QED BY <1>3, <3>1, <3>2 DEF TellProvider, ResumeRenewed
  <2> QED BY <2>1, <2>5, <2>6, <2>7, ElsewhereHolds
<1> QED
  BY <1>2, <1>3, RenewalHolds, FulfilHolds, FulfilledHolds DEF Proceed

\* Every step keeps the books of holds.
LEMMA HoldsInductive ==
  ASSUME Reliable
  PROVE  /\ IInv /\ TypeOK' /\ OneDelivery /\ StageInv /\ HoldsMatchOrders /\ [Next]_vars
         => HoldsMatchOrders'
<1> SUFFICES ASSUME IInv, TypeOK', OneDelivery, StageInv, HoldsMatchOrders, [Next]_vars
             PROVE  HoldsMatchOrders'
  OBVIOUS
<1>1. ASSUME call' = call
      PROVE  /\ PricesStay /\ Renewing' = Renewing
             /\ \A c \in Calls, o \in Orders :
                  At(c, "fulfil", "fulfilled")' /\ call'[c].order = o
                    <=> At(c, "fulfil", "fulfilled") /\ call[c].order = o
  BY <1>1 DEF PricesStay, Renewing, At
<1>2. ASSUME NEW o \in Orders, Create(o) PROVE HoldsMatchOrders'
  BY <1>2, CreateHolds
<1>3. ASSUME NEW o \in Orders, PatchOrder(o) PROVE HoldsMatchOrders'
  <2>1. call' = call /\ pc' = pc /\ terms' = terms /\ wallet' = wallet
    BY <1>3 DEF PatchOrder
  <2>2. PICK price, expiry : orders' = [orders EXCEPT ![o].price = price, ![o].custom = expiry]
    BY <1>3 DEF PatchOrder
  <2>3. \A p \in Orders : orders'[p].status = orders[p].status
    BY <2>2 DEF IInv, TypeOK, OrderRow
  <2> QED BY <1>1, <2>1, <2>3, ElsewhereHolds
<1>4. ASSUME NEW c \in Calls, Read(c) PROVE HoldsMatchOrders'
  <2>1. orders' = orders /\ pc' = pc /\ terms' = terms /\ wallet' = wallet
    BY <1>4 DEF Read
  <2>2. PICK op, o : call' = [call EXCEPT ![c] = [op |-> op, order |-> o, seen |-> orders[o],
                                                  at |-> "read"]]
    BY <1>4 DEF Read
  <2>3. /\ \A d \in Calls : d # c => call'[d] = call[d]
        /\ call'[c].at = "read" /\ call[c].at = "idle"
    BY <1>4, <2>2 DEF Read, IInv, TypeOK
  <2>4. /\ PricesStay
        /\ \A d \in Calls, p \in Orders :
             At(d, "fulfil", "fulfilled")' /\ call'[d].order = p
               <=> At(d, "fulfil", "fulfilled") /\ call[d].order = p
    BY <2>3 DEF PricesStay, At
  <2>5. \A d \in Calls : d \in Renewing' <=> d \in Renewing
    BY <2>3 DEF Renewing
  <2>6. Renewing' = Renewing
    BY <2>5 DEF Renewing
  <2> QED BY <2>1, <2>4, <2>6, ElsewhereHolds
<1>5. ASSUME NEW c \in Calls, Proceed(c) PROVE HoldsMatchOrders'
  BY <1>5, ProceedHolds
<1>6. ASSUME Sweep PROVE HoldsMatchOrders'
  <2>1. call' = call /\ pc' = pc /\ terms' = terms /\ wallet' = wallet
    BY <1>6 DEF Sweep, ListExpired, ListGrace, EndTick, SuspendExpired, MarkExpired, DeleteProxy,
       MarkDeleted
  <2>2. \A p \in Orders : orders'[p].status = "processing" <=> orders[p].status = "processing"
    <3>1. CASE orders' = orders
      BY <3>1
    <3>2. ASSUME NEW o \in Orders, MarkExpired(o) \/ MarkDeleted(o)
          PROVE  \A p \in Orders :
                   orders'[p].status = "processing" <=> orders[p].status = "processing"
      <4>1. o \in sweep.told
        BY <3>2 DEF MarkExpired, MarkDeleted
      <4>2. PICK s \in {"expired", "cancelled"} :
              orders' = [orders EXCEPT ![o] = [orders[o] EXCEPT !.status = s]]
        BY <3>2 DEF MarkExpired, MarkDeleted, SetStatus, Save, Reliable
      <4>3. orders[o].status # "processing"
        BY <4>1 DEF StageInv, SweepStages, OrderStages
      <4>4. [orders[o] EXCEPT !.status = s].status = s
        BY DEF IInv, TypeOK, OrderRow
      <4> QED BY <4>2, <4>3, <4>4 DEF IInv, TypeOK
    <3> QED
      BY <1>6, <3>1, <3>2 DEF Sweep, ListExpired, ListGrace, EndTick, SuspendExpired, DeleteProxy
  <2> QED BY <1>1, <2>1, <2>2, ElsewhereHolds
<1>7. CASE Tick \/ UNCHANGED vars
  <2>1. orders' = orders /\ call' = call /\ pc' = pc /\ terms' = terms /\ wallet' = wallet
    BY <1>7 DEF Tick, vars
  <2> QED BY <1>1, <2>1, ElsewhereHolds
<1> QED BY <1>2, <1>3, <1>4, <1>5, <1>6, <1>7 DEF Next

LEMMA HoldsInitially == Init => HoldsMatchOrders
<1> SUFFICES ASSUME Init PROVE HoldsMatchOrders
  OBVIOUS
<1>1. Idle.at = "idle" /\ NoOrder.status = "none"
  BY DEF Idle, NoOrder
<1> HIDE DEF Idle, NoOrder
<1>2. Escrows = {} /\ Renewing = {}
  BY <1>1 DEF Init, Escrows, Escrowed, Renewing, At
<1>3. TypeOK /\ wallet.hold = 0
  BY Initially DEF IInv, Init
<1>4. Escrow = 0 /\ RenewalEscrow = 0
  BY <1>2, <1>3, HoldSums, SumEmpty
<1> QED BY <1>3, <1>4 DEF HoldsMatchOrders

\* With a reliable database and billing-service, no cancellation and no two
\* deliveries of one webhook at a time, what is on hold is the price of the
\* orders and renewals under way, whatever the providers do and however many
\* sagas, renewals and locks overlap (order_usecase.go:162-242, 395-409).
THEOREM HoldsAreMatched ==
  ASSUME Reliable
  PROVE  Spec /\ []OneDelivery => []HoldsMatchOrders
<1> DEFINE Inv == StageInv /\ HoldsMatchOrders
<1>1. Init => Inv
  BY StagesInitially, HoldsInitially
<1>2. IInv /\ TypeOK' /\ OneDelivery /\ Inv /\ [Next]_vars => Inv'
  BY StagesInductive, HoldsInductive
<1>3. Inv => HoldsMatchOrders
  OBVIOUS
<1> HIDE DEF Inv
<1> QED BY <1>1, <1>2, <1>3, Invariant, TypeCorrect, PTL DEF Spec
-----------------------------------------------------------------------------
(***************************************************************************)
(* Periods served and paid, when moreover no price and no expiry is        *)
(* patched and requests on one order do not overlap.                       *)
(***************************************************************************)

NoOverlap ==
  \A c, d \in Calls :
    call[c].at # "idle" /\ call[d].at # "idle" /\ call[c].order = call[d].order => c = d

\* The stages of a renewal before it writes the new expiry.
Renewal == {"read", "held", "unpaid", "paid", "resumed"}

Unpatched == \A o \in Orders : orders[o].custom = NoTime /\ orders[o].price = NoPrice

\* The row that a renewal read still has the expiry of the order.
RenewalsCurrent ==
  \A c \in Calls : call[c].at # "idle" /\ call[c].op = "renew" =>
    /\ terms[call[c].order].days > 0
    /\ call[c].seen.custom = NoTime /\ call[c].seen.price = NoPrice
    /\ call[c].at \in Renewal => call[c].seen.expires = orders[call[c].order].expires

\* An order expires at its first expiry or later.
ExpiriesRun ==
  \A o \in Orders : orders[o].creds /\ terms[o].days > 0 =>
    /\ orders[o].granted \in Nat /\ orders[o].expires \in Nat
    /\ orders[o].granted <= orders[o].expires

Served == {o \in Orders : orders[o].creds}
PeriodPrices == [o \in Orders |-> terms[o].price * Periods(o)]
ServedValue == SumFunctionOnSet(PeriodPrices, Served)

\* Orders between their activation and their charge.
Granting ==
  {o \in Orders : \/ pc[o] = "activated"
                  \/ \E c \in Calls : At(c, "fulfil", "fulfilled") /\ call[c].order = o}
GrantedValue == SumFunctionOnSet(OrderPrices, Granting)

\* Renewals between their charge and the new expiry.
PayingPrices == [c \in Calls |-> terms[call[c].order].price]
PaidAhead == SumFunctionOnSet(PayingPrices, Paying)

\* What was charged is what was served, less what is served but not charged
\* yet, and what is charged but not served yet.
BooksBalance == wallet.bal = opening - ServedValue + GrantedValue - PaidAhead

PeriodInv == Unpatched /\ RenewalsCurrent /\ ExpiriesRun /\ BooksBalance

\* A first period, and one more.
LEMMA PeriodsOf ==
  ASSUME NEW d \in Nat \ {0}, NEW g \in Nat, NEW e \in Nat, g <= e
  PROVE  /\ (e - g) \div d \in Nat
         /\ (g - g) \div d = 0
         /\ ((e + d) - g) \div d = (e - g) \div d + 1
<1>1. PICK n \in Nat : n = e - g
  OBVIOUS
<1>2. n \div d \in Nat /\ (n + d) \div d = n \div d + 1 /\ 0 \div d = 0
  OBVIOUS
<1>3. (e + d) - g = n + d /\ g - g = 0
  BY <1>1
<1> QED BY <1>1, <1>2, <1>3

LEMMA Products ==
  ASSUME NEW a \in Nat, NEW b \in Nat
  PROVE  a * b \in Nat /\ a * 1 = a /\ a * (b + 1) = a * b + a
OBVIOUS

LEMMA BookSums ==
  ASSUME TypeOK, ExpiriesRun
  PROVE  /\ \A o \in Served : Periods(o) \in Nat
         /\ Naturals(PeriodPrices, Served) /\ ServedValue \in Nat
         /\ Naturals(OrderPrices, Granting) /\ GrantedValue \in Nat
         /\ Naturals(PayingPrices, Paying) /\ PaidAhead \in Nat
         /\ \A o \in Orders : terms[o].price \in Nat /\ terms[o].days \in Nat
<1>1. \A o \in Orders : terms[o].price \in Nat /\ terms[o].days \in Nat
  BY ProxyAssumption DEF TypeOK, Terms
<1>2. ASSUME NEW o \in Served PROVE Periods(o) \in Nat
  <2>1. CASE terms[o].days = 0
    BY <2>1 DEF Periods
  <2>2. CASE terms[o].days # 0
    <3>1. /\ terms[o].days \in Nat \ {0} /\ orders[o].granted \in Nat /\ orders[o].expires \in Nat
          /\ orders[o].granted <= orders[o].expires
      BY <1>1, <1>2, <2>2 DEF Served, ExpiriesRun
    <3>2. (orders[o].expires - orders[o].granted) \div terms[o].days \in Nat
      BY <3>1, PeriodsOf
    <3> QED BY <2>2, <3>2 DEF Periods
  <2> QED BY <2>1, <2>2
<1>3. Served \subseteq Orders /\ Granting \subseteq Orders /\ Paying \subseteq Calls
  BY DEF Served, Granting, Paying
<1>4. IsFiniteSet(Served) /\ IsFiniteSet(Granting) /\ IsFiniteSet(Paying)
  BY <1>3, FS_Subset, ProxyAssumption
<1>5. Naturals(PeriodPrices, Served)
  <2>1. ASSUME NEW o \in Served PROVE PeriodPrices[o] \in Nat
    <3>1. PeriodPrices[o] = terms[o].price * Periods(o)
      BY <1>3 DEF PeriodPrices
    <3> QED BY <1>1, <1>2, <1>3, <3>1, Products
  <2> QED BY <1>4, <2>1 DEF Naturals
<1>6. Naturals(OrderPrices, Granting)
  BY <1>1, <1>3, <1>4 DEF Naturals, OrderPrices
<1>7. Naturals(PayingPrices, Paying)
  BY <1>1, <1>3, <1>4 DEF Naturals, PayingPrices, TypeOK, Call
<1>8. ServedValue \in Nat /\ GrantedValue \in Nat /\ PaidAhead \in Nat
  BY <1>5, <1>6, <1>7, SumNat DEF Naturals, ServedValue, GrantedValue, PaidAhead
<1> QED BY <1>1, <1>2, <1>5, <1>6, <1>7, <1>8

\* The part of a row that its periods are read from stays.
SamePeriods(o) ==
  /\ orders'[o].creds <=> orders[o].creds
  /\ orders[o].creds => /\ orders'[o].expires = orders[o].expires
                        /\ orders'[o].granted = orders[o].granted

LEMMA ServedStays ==
  ASSUME TypeOK, ExpiriesRun, terms' = terms, \A p \in Orders : SamePeriods(p)
  PROVE  ServedValue' = ServedValue
<1>1. Served' = Served
  BY DEF Served, SamePeriods
<1>2. Agree(PeriodPrices, PeriodPrices', Served)
  BY DEF Agree, PeriodPrices, Periods, Served, SamePeriods
<1>3. ServedValue' = SumFunctionOnSet(PeriodPrices', Served')
  BY DEF ServedValue
<1> QED BY <1>1, <1>2, <1>3, BookSums, SumStays DEF ServedValue

\* The first period.
LEMMA ServedJoins ==
  ASSUME TypeOK, ExpiriesRun, terms' = terms, NEW o \in Orders,
         \A p \in Orders : p # o => SamePeriods(p), ~orders[o].creds,
         orders'[o].creds, orders'[o].expires = orders'[o].granted,
         terms[o].days > 0 => orders'[o].granted \in Nat
  PROVE  ServedValue' = ServedValue + terms[o].price
<1>1. o \notin Served /\ Served' = Served \cup {o}
  BY DEF Served, SamePeriods
<1>2. Agree(PeriodPrices, PeriodPrices', Served)
  BY <1>1 DEF Agree, PeriodPrices, Periods, Served, SamePeriods
<1>3. ServedValue' = SumFunctionOnSet(PeriodPrices', Served')
  BY DEF ServedValue
<1>4. terms[o].price \in Nat /\ terms[o].days \in Nat
  BY BookSums
<1>5. Periods(o)' = 1
  <2>1. Periods(o)' = IF terms[o].days = 0 THEN 1
                      ELSE 1 + (orders'[o].granted - orders'[o].granted) \div terms[o].days
    BY DEF Periods
  <2>2. CASE terms[o].days # 0
    <3>1. terms[o].days \in Nat \ {0} /\ orders'[o].granted \in Nat
      BY <1>4, <2>2
    <3>2. (orders'[o].granted - orders'[o].granted) \div terms[o].days = 0
      BY <3>1, PeriodsOf
    <3> QED BY <2>1, <2>2, <3>2
  <2> QED BY <2>1, <2>2
<1>6. PeriodPrices'[o] = terms[o].price
  <2>1. PeriodPrices'[o] = terms[o].price * Periods(o)'
    BY DEF PeriodPrices
  <2> QED BY <1>4, <1>5, <2>1, Products
<1>7. Naturals(PeriodPrices, Served)
  BY BookSums
<1>8. SumFunctionOnSet(PeriodPrices', Served')
        = SumFunctionOnSet(PeriodPrices, Served) + PeriodPrices'[o]
  BY <1>1, <1>2, <1>4, <1>6, <1>7, SumJoins
<1> QED BY <1>3, <1>6, <1>8 DEF ServedValue

\* One more period.
LEMMA ServedRenews ==
  ASSUME TypeOK, ExpiriesRun, terms' = terms, NEW o \in Orders,
         \A p \in Orders : p # o => SamePeriods(p),
         orders[o].creds, orders'[o].creds, terms[o].days > 0,
         orders'[o].granted = orders[o].granted,
         orders'[o].expires = orders[o].expires + terms[o].days
  PROVE  ServedValue' = ServedValue + terms[o].price
<1>1. o \in Served /\ Served' = Served
  BY DEF Served, SamePeriods
<1>2. Agree(PeriodPrices, PeriodPrices', Served \ {o})
  BY <1>1 DEF Agree, PeriodPrices, Periods, Served, SamePeriods
<1>3. ServedValue' = SumFunctionOnSet(PeriodPrices', Served')
  BY DEF ServedValue
<1>4. /\ terms[o].price \in Nat /\ terms[o].days \in Nat \ {0} /\ Periods(o) \in Nat
      /\ orders[o].granted \in Nat /\ orders[o].expires \in Nat
      /\ orders[o].granted <= orders[o].expires
  BY <1>1, BookSums DEF ExpiriesRun
<1>5. Periods(o)' = Periods(o) + 1
  <2>1. PICK d \in Nat \ {0}, e \in Nat, g \in Nat :
          d = terms[o].days /\ e = orders[o].expires /\ g = orders[o].granted /\ g <= e
    BY <1>4
  <2>2. Periods(o)' = 1 + ((e + d) - g) \div d /\ Periods(o) = 1 + (e - g) \div d
    BY <2>1 DEF Periods
  <2>3. PICK n \in Nat : n = (e - g) \div d /\ ((e + d) - g) \div d = n + 1
    <3>1. (e - g) \div d \in Nat /\ ((e + d) - g) \div d = (e - g) \div d + 1
      BY <2>1, PeriodsOf, Zenon
    <3> QED BY <3>1
  <2>4. Periods(o)' = 1 + (n + 1) /\ Periods(o) = 1 + n
    BY <2>2, <2>3
  <2> QED BY <2>4
<1>6. /\ PeriodPrices'[o] = PeriodPrices[o] + terms[o].price
      /\ PeriodPrices[o] \in Nat /\ PeriodPrices'[o] \in Nat
  <2>1. PeriodPrices'[o] = terms[o].price * Periods(o)'
        /\ PeriodPrices[o] = terms[o].price * Periods(o)
    BY DEF PeriodPrices
  <2>2. PeriodPrices'[o] = terms[o].price * (Periods(o) + 1)
    BY <1>5, <2>1
  <2> QED BY <1>4, <2>1, <2>2, Products
<1>7. Naturals(PeriodPrices, Served) /\ ServedValue \in Nat
  BY BookSums
<1>8. SumFunctionOnSet(PeriodPrices', Served)
        = SumFunctionOnSet(PeriodPrices, Served) - PeriodPrices[o] + PeriodPrices'[o]
  BY <1>1, <1>2, <1>6, <1>7, SumChanges
<1> QED BY <1>1, <1>3, <1>4, <1>6, <1>7, <1>8 DEF ServedValue

\* Orders wait for their charge, and are charged.
LEMMA GrantingMoves ==
  ASSUME TypeOK, ExpiriesRun, terms' = terms
  PROVE  /\ Granting' = Granting => GrantedValue' = GrantedValue
         /\ \A o \in Orders :
              /\ o \notin Granting /\ Granting' = Granting \cup {o}
                   => GrantedValue' = GrantedValue + terms[o].price
              /\ o \in Granting /\ Granting' = Granting \ {o}
                   => GrantedValue' = GrantedValue - terms[o].price
<1>1. GrantedValue' = SumFunctionOnSet(OrderPrices, Granting')
  <2>1. GrantedValue' = SumFunctionOnSet(OrderPrices', Granting') /\ OrderPrices' = OrderPrices
    BY DEF GrantedValue, OrderPrices
  <2> QED BY <2>1
<1>2. Agree(OrderPrices, OrderPrices, Granting) /\ Agree(OrderPrices, OrderPrices, Granting')
  BY DEF Agree
<1>3. Naturals(OrderPrices, Granting)
      /\ \A o \in Orders : OrderPrices[o] = terms[o].price /\ OrderPrices[o] \in Nat
  BY BookSums DEF OrderPrices
<1>4. ASSUME NEW o \in Orders, o \notin Granting, Granting' = Granting \cup {o}
      PROVE  GrantedValue' = GrantedValue + terms[o].price
  <2>1. SumFunctionOnSet(OrderPrices, Granting')
          = SumFunctionOnSet(OrderPrices, Granting) + OrderPrices[o]
    BY <1>2, <1>3, <1>4, SumJoins
  <2> QED BY <1>1, <1>3, <2>1 DEF GrantedValue
<1>5. ASSUME NEW o \in Orders, o \in Granting, Granting' = Granting \ {o}
      PROVE  GrantedValue' = GrantedValue - terms[o].price
  <2>1. Agree(OrderPrices, OrderPrices, Granting') /\ Naturals(OrderPrices, Granting)
    BY <1>2, <1>3
  <2>2. SumFunctionOnSet(OrderPrices, Granting')
          = SumFunctionOnSet(OrderPrices, Granting) - OrderPrices[o]
    BY <1>5, <2>1, SumLeaves
  <2> QED BY <1>1, <1>3, <2>2 DEF GrantedValue
<1> QED BY <1>1, <1>4, <1>5 DEF GrantedValue

\* Renewals are charged, and run.
LEMMA PayingMoves ==
  ASSUME TypeOK, ExpiriesRun, terms' = terms,
         \A d \in Calls : d \in Paying' => call'[d].order = call[d].order
  PROVE  /\ Paying' = Paying => PaidAhead' = PaidAhead
         /\ \A c \in Calls :
              /\ c \notin Paying /\ Paying' = Paying \cup {c}
                   => PaidAhead' = PaidAhead + terms[call[c].order].price
              /\ c \in Paying /\ Paying' = Paying \ {c}
                   => PaidAhead' = PaidAhead - terms[call[c].order].price
<1>1. PaidAhead' = SumFunctionOnSet(PayingPrices', Paying')
  BY DEF PaidAhead
<1>2. Agree(PayingPrices, PayingPrices', Paying')
  BY DEF Agree, PayingPrices, Paying
<1>3. Naturals(PayingPrices, Paying)
      /\ \A c \in Calls : PayingPrices[c] = terms[call[c].order].price /\ PayingPrices[c] \in Nat
  BY BookSums DEF PayingPrices, TypeOK, Call
<1>4. ASSUME Paying' = Paying PROVE PaidAhead' = PaidAhead
  BY <1>1, <1>2, <1>3, <1>4, SumStays DEF PaidAhead
<1>5. ASSUME NEW c \in Calls, c \notin Paying, Paying' = Paying \cup {c}
      PROVE  PaidAhead' = PaidAhead + terms[call[c].order].price
  <2>1. Agree(PayingPrices, PayingPrices', Paying) /\ PayingPrices'[c] = PayingPrices[c]
    BY <1>2, <1>5 DEF Agree
  <2>2. SumFunctionOnSet(PayingPrices', Paying')
          = SumFunctionOnSet(PayingPrices, Paying) + PayingPrices'[c]
    BY <1>3, <1>5, <2>1, SumJoins
  <2> QED BY <1>1, <1>3, <2>1, <2>2 DEF PaidAhead
<1>6. ASSUME NEW c \in Calls, c \in Paying, Paying' = Paying \ {c}
      PROVE  PaidAhead' = PaidAhead - terms[call[c].order].price
  <2>1. SumFunctionOnSet(PayingPrices', Paying')
          = SumFunctionOnSet(PayingPrices, Paying) - PayingPrices[c]
    BY <1>2, <1>3, <1>6, SumLeaves
  <2> QED BY <1>1, <1>3, <2>1 DEF PaidAhead
<1> QED BY <1>4, <1>5, <1>6

\* Most steps leave the periods of every order, and what was patched, alone.
RowsKeep ==
  \A o \in Orders : /\ SamePeriods(o)
                    /\ orders'[o].custom = NoTime /\ orders'[o].price = NoPrice

\* Most steps of a request keep what it read.
RenewalsGoOn ==
  \A c \in Calls : call'[c].at # "idle" =>
    /\ call[c].at # "idle"
    /\ call'[c].op = call[c].op /\ call'[c].order = call[c].order
    /\ call'[c].seen = call[c].seen
    /\ call'[c].at \in Renewal => call[c].at \in Renewal

\* Such steps keep everything but the books.
LEMMA RowsKeepPeriods ==
  ASSUME IInv, Unpatched, RenewalsCurrent, ExpiriesRun, terms' = terms, RowsKeep, RenewalsGoOn
  PROVE  Unpatched' /\ RenewalsCurrent' /\ ExpiriesRun' /\ ServedValue' = ServedValue
<1>1. TypeOK /\ \A c \in Calls : call[c].order \in Orders
  BY DEF IInv, TypeOK, Call
<1>2. Unpatched'
  BY DEF Unpatched, RowsKeep, NoTime, NoPrice
<1>3. ExpiriesRun'
  BY DEF ExpiriesRun, RowsKeep, SamePeriods
<1>4. RenewalsCurrent'
  <2> SUFFICES ASSUME NEW c \in Calls, call'[c].at # "idle", call'[c].op = "renew"
               PROVE  /\ terms'[call'[c].order].days > 0
                      /\ call'[c].seen.custom = NoTime /\ call'[c].seen.price = NoPrice
                      /\ call'[c].at \in Renewal =>
                           call'[c].seen.expires = orders'[call'[c].order].expires
    BY DEF RenewalsCurrent, Renewal, NoTime, NoPrice
  <2>1. /\ call[c].at # "idle" /\ call[c].op = "renew"
        /\ call'[c].order = call[c].order /\ call'[c].seen = call[c].seen
        /\ call'[c].at \in Renewal => call[c].at \in Renewal
    BY DEF RenewalsGoOn
  <2>2. orders[call[c].order].creds
    BY <2>1 DEF IInv, OpenBacked
  <2>3. orders'[call[c].order].expires = orders[call[c].order].expires
    BY <1>1, <2>2 DEF RowsKeep, SamePeriods
  <2> QED BY <2>1, <2>3 DEF RenewalsCurrent
<1>5. ServedValue' = ServedValue
  BY <1>1, ServedStays DEF RowsKeep
<1> QED BY <1>2, <1>3, <1>4, <1>5

\* UpdateStatus leaves the periods alone.
LEMMA StatusKeeps ==
  ASSUME TypeOK, Unpatched, NEW o \in Orders, NEW s,
         orders' \in {orders, [orders EXCEPT ![o] = [orders[o] EXCEPT !.status = s]]}
  PROVE  RowsKeep
<1> DEFINE new == [orders[o] EXCEPT !.status = s]
<1>1. /\ new.creds = orders[o].creds /\ new.expires = orders[o].expires
      /\ new.granted = orders[o].granted /\ new.custom = orders[o].custom
      /\ new.price = orders[o].price
  BY DEF TypeOK, OrderRow
<1>2. \A p \in Orders : orders'[p] = orders[p] \/ (p = o /\ orders'[p] = new)
  BY DEF TypeOK
<1> HIDE DEF new
<1> QED BY <1>1, <1>2 DEF RowsKeep, SamePeriods, Unpatched

\* An activation gives the first period (UpdateAfterPurchase).
LEMMA Activates ==
  ASSUME IInv, Unpatched, RenewalsCurrent, ExpiriesRun, terms' = terms, NEW o \in Orders,
         ~orders[o].creds, NEW expiry \in {FirstExpiry(o), now + 1},
         orders' = [orders EXCEPT ![o] = Activated(orders[o], expiry)],
         RenewalsGoOn
  PROVE  /\ Unpatched' /\ RenewalsCurrent' /\ ExpiriesRun'
         /\ ServedValue' = ServedValue + terms[o].price
<1> DEFINE new == Activated(orders[o], expiry)
<1>1. TypeOK /\ orders[o] \in OrderRow /\ \A c \in Calls : call[c].order \in Orders
  BY DEF IInv, TypeOK, Call
<1>2. /\ new.creds /\ new.expires = expiry /\ new.granted = expiry
      /\ new.custom = orders[o].custom /\ new.price = orders[o].price
  BY <1>1 DEF Activated, OrderRow
<1>3. \A p \in Orders : orders'[p] = IF p = o THEN new ELSE orders[p]
  BY <1>1 DEF TypeOK
<1>4. terms[o].days > 0 => expiry \in Nat
  <2>1. now \in Nat /\ terms[o].days \in Nat
    BY <1>1, ProxyAssumption DEF TypeOK, Terms
  <2> QED BY <2>1 DEF FirstExpiry
<1> HIDE DEF new
<1>5. Unpatched'
  BY <1>2, <1>3 DEF Unpatched, NoTime, NoPrice
<1>6. ExpiriesRun'
  <2> SUFFICES ASSUME NEW p \in Orders, orders'[p].creds, terms[p].days > 0
               PROVE  /\ orders'[p].granted \in Nat /\ orders'[p].expires \in Nat
                      /\ orders'[p].granted <= orders'[p].expires
    BY DEF ExpiriesRun
  <2>1. CASE p = o
    BY <1>2, <1>3, <1>4, <2>1
  <2>2. CASE p # o
    BY <1>3, <2>2 DEF ExpiriesRun
  <2> QED BY <2>1, <2>2
<1>7. RenewalsCurrent'
  <2> SUFFICES ASSUME NEW c \in Calls, call'[c].at # "idle", call'[c].op = "renew"
               PROVE  /\ terms'[call'[c].order].days > 0
                      /\ call'[c].seen.custom = NoTime /\ call'[c].seen.price = NoPrice
                      /\ call'[c].at \in Renewal =>
                           call'[c].seen.expires = orders'[call'[c].order].expires
    BY DEF RenewalsCurrent, Renewal, NoTime, NoPrice
  <2>1. /\ call[c].at # "idle" /\ call[c].op = "renew"
        /\ call'[c].order = call[c].order /\ call'[c].seen = call[c].seen
        /\ call'[c].at \in Renewal => call[c].at \in Renewal
    BY DEF RenewalsGoOn
  <2>2. orders[call[c].order].creds
    BY <2>1 DEF IInv, OpenBacked
  <2>3. orders'[call[c].order] = orders[call[c].order]
    BY <1>1, <1>3, <2>2
  <2> QED BY <2>1, <2>3 DEF RenewalsCurrent
<1>8. ServedValue' = ServedValue + terms[o].price
  <2>1. \A p \in Orders : p # o => SamePeriods(p)
    BY <1>3 DEF SamePeriods
  <2> QED BY <1>1, <1>2, <1>3, <1>4, <2>1, ServedJoins
<1> QED BY <1>5, <1>6, <1>7, <1>8

\* A renewal adds one period to the expiry that it read, and that is the
\* order's (RenewOrder, order_usecase.go:395-409).
LEMMA Extends ==
  ASSUME Reliable, IInv, Unpatched, RenewalsCurrent, ExpiriesRun, NoOverlap,
         NEW c \in Calls, Extend(c)
  PROVE  /\ Unpatched' /\ RenewalsCurrent' /\ ExpiriesRun'
         /\ ServedValue' = ServedValue + terms[call[c].order].price
<1>1. PICK o \in Orders : o = call[c].order
  BY DEF IInv, TypeOK, Call
<1> DEFINE w == call[c].seen
           new == [orders[o] EXCEPT !.ref = w.ref, !.creds = w.creds,
                                    !.expires = Renewed(o, w),
                                    !.status = IF w.creds THEN "active" ELSE @]
<1>2. /\ TypeOK /\ orders[o] \in OrderRow /\ w \in OrderRow /\ terms' = terms
      /\ \A d \in Calls : call[d].order \in Orders
  BY DEF Extend, IInv, TypeOK, Call
<1>3. At(c, "renew", "resumed") /\ orders' = [orders EXCEPT ![o] = new] /\ Move(c, "extended")
  BY <1>1 DEF Extend, Save, Reliable
<1>4. /\ w.creds /\ orders[o].creds /\ terms[o].days > 0 /\ w.custom = NoTime
      /\ w.expires = orders[o].expires
  BY <1>1, <1>3 DEF At, IInv, OpenBacked, RenewalsCurrent, Renewal
<1>5. /\ new.creds /\ new.expires = orders[o].expires + terms[o].days
      /\ new.granted = orders[o].granted /\ new.custom = orders[o].custom
      /\ new.price = orders[o].price
  <2>1. Renewed(o, w) = orders[o].expires + terms[o].days
    BY <1>4 DEF Renewed, Effective
  <2> QED BY <1>2, <1>4, <2>1 DEF OrderRow
<1>6. \A p \in Orders : orders'[p] = IF p = o THEN new ELSE orders[p]
  BY <1>2, <1>3 DEF TypeOK
<1>7. /\ orders[o].granted \in Nat /\ orders[o].expires \in Nat /\ terms[o].days \in Nat
      /\ orders[o].granted <= orders[o].expires
  BY <1>2, <1>4, BookSums DEF ExpiriesRun
<1> HIDE DEF new, w
<1>8. Unpatched'
  BY <1>5, <1>6 DEF Unpatched, NoTime, NoPrice
<1>9. ExpiriesRun'
  <2> SUFFICES ASSUME NEW p \in Orders, orders'[p].creds, terms[p].days > 0
               PROVE  /\ orders'[p].granted \in Nat /\ orders'[p].expires \in Nat
                      /\ orders'[p].granted <= orders'[p].expires
    BY <1>2 DEF ExpiriesRun
  <2>1. CASE p = o
    BY <1>5, <1>6, <1>7, <2>1
  <2>2. CASE p # o
    BY <1>6, <2>2 DEF ExpiriesRun
  <2> QED BY <2>1, <2>2
<1>10. RenewalsCurrent'
  <2> SUFFICES ASSUME NEW d \in Calls, call'[d].at # "idle", call'[d].op = "renew"
               PROVE  /\ terms[call'[d].order].days > 0
                      /\ call'[d].seen.custom = NoTime /\ call'[d].seen.price = NoPrice
                      /\ call'[d].at \in Renewal =>
                           call'[d].seen.expires = orders'[call'[d].order].expires
    BY <1>2 DEF RenewalsCurrent, Renewal, NoTime, NoPrice
  <2>1. CASE d = c
    <3>1. /\ call'[d].at = "extended" /\ call'[d].order = o
          /\ call'[d].seen = w /\ call[c].op = "renew"
      BY <1>1, <1>2, <1>3, <2>1 DEF Move, At, TypeOK, Call, w
    <3>2. w.price = NoPrice
      BY <1>3 DEF At, RenewalsCurrent, w
    <3> QED BY <1>4, <3>1, <3>2 DEF Renewal
  <2>2. CASE d # c
    <3>1. call'[d] = call[d]
      BY <1>2, <1>3, <2>2 DEF Move, TypeOK
    <3>2. call[d].order # o
      BY <1>1, <1>3, <2>2, <3>1 DEF NoOverlap, At
    <3> QED BY <1>2, <1>6, <3>1, <3>2 DEF RenewalsCurrent
  <2> QED BY <2>1, <2>2
<1>11. ServedValue' = ServedValue + terms[o].price
  <2>1. \A p \in Orders : p # o => SamePeriods(p)
    BY <1>6 DEF SamePeriods
  <2> QED BY <1>2, <1>4, <1>5, <1>6, <2>1, ServedRenews
<1> QED BY <1>1, <1>8, <1>9, <1>10, <1>11

\* A step of a saga that is not over: who waits for a charge.
LEMMA SagaGrants ==
  ASSUME IInv, NEW o \in Orders, pc[o] # "done", NEW s, Goto(o, s), call' = call
  PROVE  /\ o \in Granting <=> pc[o] = "activated"
         /\ IF s = "activated" THEN Granting' = Granting \cup {o} ELSE Granting' = Granting \ {o}
<1>1. o \in Granting <=> pc[o] = "activated"
  BY SagaAlone DEF Granting
<1>2. \A p \in Orders : pc'[p] = IF p = o THEN s ELSE pc[p]
  BY DEF Goto, IInv, TypeOK
<1>3. \A p \in Orders : p \in Granting' <=>
        \/ pc'[p] = "activated"
        \/ \E c \in Calls : At(c, "fulfil", "fulfilled") /\ call[c].order = p
  BY DEF Granting, At
<1>4. \A p \in Orders : p # o => (p \in Granting' <=> p \in Granting)
  BY <1>2, <1>3 DEF Granting
<1>5. o \in Granting' <=> s = "activated"
  BY <1>2, <1>3, SagaAlone
<1>6. Granting \subseteq Orders /\ Granting' \subseteq Orders
  BY DEF Granting
<1> QED BY <1>1, <1>4, <1>5, <1>6

\* A step of one request: who pays.
LEMMA RequestPays ==
  ASSUME TypeOK, NEW c \in Calls, NEW stage \in CallStage \ {"idle"},
         Move(c, stage) \/ Leave(c)
  PROVE  IF Move(c, stage) /\ call[c].op = "renew" /\ stage \in {"paid", "resumed"}
         THEN Paying' = Paying \cup {c} ELSE Paying' = Paying \ {c}
<1> DEFINE moved == [call[c] EXCEPT !.at = stage]
<1>1. call \in [Calls -> Call] /\ Idle.at = "idle"
  BY DEF TypeOK, Idle
<1>2. moved.at = stage /\ moved.op = call[c].op
  BY <1>1 DEF Call
<1> HIDE DEF Idle, moved
<1>3. \A d \in Calls : d # c => (d \in Paying' <=> d \in Paying)
  BY <1>1 DEF Move, Leave, Paying
<1>4. IF Move(c, stage) THEN call'[c] = moved ELSE call'[c] = Idle
  BY <1>1 DEF Move, Leave, moved
<1>5. c \in Paying' <=> Move(c, stage) /\ call[c].op = "renew" /\ stage \in {"paid", "resumed"}
  BY <1>1, <1>2, <1>4 DEF Paying
<1>6. Paying \subseteq Calls /\ Paying' \subseteq Calls
  BY DEF Paying
<1> QED BY <1>3, <1>5, <1>6

\* The books balance after a step that moves both sides alike.
LEMMA BooksMove ==
  ASSUME TypeOK, ExpiriesRun, BooksBalance, opening' = opening,
         NEW s \in Int, ServedValue' = ServedValue + s,
         NEW g \in Int, GrantedValue' = GrantedValue + g,
         NEW p \in Int, PaidAhead' = PaidAhead + p,
         wallet'.bal = wallet.bal - s + g - p
  PROVE  BooksBalance'
<1>1. /\ ServedValue \in Nat /\ GrantedValue \in Nat /\ PaidAhead \in Nat
      /\ opening \in Nat /\ wallet.bal \in Int
  BY BookSums DEF TypeOK, Row
<1> QED BY <1>1 DEF BooksBalance

\* The same when nothing of it moves.
LEMMA BooksStay ==
  ASSUME TypeOK, ExpiriesRun, BooksBalance, opening' = opening, terms' = terms,
         ServedValue' = ServedValue, Granting' = Granting, Paying' = Paying,
         \A d \in Calls : d \in Paying' => call'[d].order = call[d].order,
         wallet'.bal = wallet.bal
  PROVE  BooksBalance'
<1>1. GrantedValue' = GrantedValue /\ PaidAhead' = PaidAhead
  BY GrantingMoves, PayingMoves
<1> QED BY <1>1 DEF BooksBalance

\* The creation saga.
LEMMA CreatePeriods ==
  ASSUME Reliable, IInv, StageInv, HoldsMatchOrders, PeriodInv, NEW o \in Orders, Create(o)
  PROVE  PeriodInv'
<1>1. /\ call' = call /\ terms' = terms /\ opening' = opening
      /\ TypeOK /\ Unpatched /\ RenewalsCurrent /\ ExpiriesRun /\ BooksBalance
      /\ orders[o] \in OrderRow /\ orders \in [Orders -> OrderRow]
  BY DEF Create, Lookup, Insert, HoldFunds, Purchase, Activate, ConfirmFunds, SaveRef,
     MarkProcessing, ReleaseFunds, MarkFailed, IInv, TypeOK, PeriodInv
<1>2. /\ RenewalsGoOn /\ Paying' = Paying
      /\ \A d \in Calls : d \in Paying' => call'[d].order = call[d].order
  BY <1>1 DEF RenewalsGoOn, Paying
<1>3. pc[o] # "done"
  BY DEF Create, Lookup, Insert, HoldFunds, Purchase, Activate, ConfirmFunds, SaveRef,
     MarkProcessing, ReleaseFunds, MarkFailed
<1>4. wallet.bal \in Int /\ terms[o].price \in Nat
  BY <1>1, BookSums DEF TypeOK, Row
<1>5. PaidAhead' = PaidAhead + 0 /\ PaidAhead \in Nat
  BY <1>1, <1>2, PayingMoves, BookSums
<1>6. CASE Activate(o)
  <2>1. /\ pc[o] = "bought" /\ wallet' = wallet
        /\ orders' = [orders EXCEPT ![o] = Activated(orders[o], FirstExpiry(o))]
        /\ Goto(o, "activated")
    BY <1>6 DEF Activate, Save, Reliable
  <2>2. ~orders[o].creds
    BY <2>1 DEF StageInv, OrderStages
  <2>3. /\ Unpatched' /\ RenewalsCurrent' /\ ExpiriesRun'
        /\ ServedValue' = ServedValue + terms[o].price
    BY <1>1, <1>2, <2>1, <2>2, Activates
  <2>4. o \notin Granting /\ Granting' = Granting \cup {o}
    BY <1>1, <1>3, <2>1, SagaGrants
  <2>5. GrantedValue' = GrantedValue + terms[o].price
    BY <1>1, <2>4, GrantingMoves
  <2>6. wallet'.bal = wallet.bal - terms[o].price + terms[o].price - 0
    BY <1>4, <2>1
  <2>7. BooksBalance'
    BY <1>1, <1>4, <1>5, <2>3, <2>5, <2>6, BooksMove
  <2> QED BY <2>3, <2>7 DEF PeriodInv
<1>7. CASE ConfirmFunds(o)
  <2>1. pc[o] = "activated" /\ orders' = orders
    BY <1>7 DEF ConfirmFunds
  <2>2. Charged(terms[o].price) /\ Goto(o, "done")
    BY <1>1, <1>7, SagaSettles
  <2>3. RowsKeep
    BY <1>1, <2>1 DEF RowsKeep, SamePeriods, Unpatched
  <2>4. Unpatched' /\ RenewalsCurrent' /\ ExpiriesRun' /\ ServedValue' = ServedValue + 0
    BY <1>1, <1>2, <2>3, RowsKeepPeriods, BookSums
  <2>5. o \in Granting /\ Granting' = Granting \ {o}
    BY <1>1, <1>3, <2>1, <2>2, SagaGrants
  <2>6. GrantedValue' = GrantedValue + (-terms[o].price)
    BY <1>1, <1>4, <2>5, GrantingMoves, BookSums
  <2>7. wallet'.bal = wallet.bal - 0 + (-terms[o].price) - 0
    BY <1>4, <2>2 DEF Charged
  <2>8. BooksBalance'
    BY <1>1, <1>4, <1>5, <2>4, <2>6, <2>7, BooksMove
  <2> QED BY <2>4, <2>8 DEF PeriodInv
<1>8. ASSUME RowsKeep, pc[o] # "activated", NEW s, s # "activated", Goto(o, s),
             wallet'.bal = wallet.bal
      PROVE  PeriodInv'
  <2>1. Unpatched' /\ RenewalsCurrent' /\ ExpiriesRun' /\ ServedValue' = ServedValue
    BY <1>1, <1>2, <1>8, RowsKeepPeriods
  <2>2. Granting' = Granting
    BY <1>1, <1>3, <1>8, SagaGrants
  <2>3. BooksBalance'
    BY <1>1, <1>2, <1>8, <2>1, <2>2, BooksStay
  <2> QED BY <2>1, <2>3 DEF PeriodInv
<1>9. CASE Lookup(o) \/ HoldFunds(o) \/ Purchase(o) \/ ReleaseFunds(o)
  <2>1. pc[o] # "activated" /\ orders' = orders
    BY <1>9 DEF Lookup, HoldFunds, Purchase, ReleaseFunds
  <2>2. RowsKeep
    BY <1>1, <2>1 DEF RowsKeep, SamePeriods, Unpatched
  <2>3. PICK s : s # "activated" /\ Goto(o, s)
    BY <1>9 DEF Lookup, HoldFunds, Purchase, ReleaseFunds, Bill
  <2>4. wallet' = wallet \/ Held(terms[o].price) \/ Released(terms[o].price)
    BY <1>1, <1>9, SagaSettles DEF Lookup, Purchase
  <2>5. wallet'.bal = wallet.bal
    BY <2>4 DEF Held, Released
  <2> QED BY <1>8, <2>1, <2>2, <2>3, <2>5
<1>10. CASE Insert(o) \/ MarkProcessing(o) \/ MarkFailed(o)
  <2>1. pc[o] # "activated" /\ wallet' = wallet
    BY <1>10 DEF Insert, MarkProcessing, MarkFailed
  <2>2. PICK s : s # "activated" /\ Goto(o, s)
    BY <1>10 DEF Insert, MarkProcessing, MarkFailed, SetStatus, Save
  <2>3. \E t \in Status :
          orders' \in {orders, [orders EXCEPT ![o] = [orders[o] EXCEPT !.status = t]]}
    BY <1>10 DEF Insert, MarkProcessing, MarkFailed, SetStatus, Save, Status
  <2>4. RowsKeep
    BY <1>1, <2>3, StatusKeeps
  <2> QED BY <1>8, <2>1, <2>2, <2>4
<1>11. CASE SaveRef(o)
  <2> DEFINE new == [orders[o] EXCEPT !.ref = TRUE, !.creds = FALSE, !.expires = NoTime]
  <2>1. /\ pc[o] = "ordered" /\ wallet' = wallet /\ Goto(o, "saved")
        /\ orders' = [orders EXCEPT ![o] = new]
    BY <1>11 DEF SaveRef, Save, Reliable
  <2>2. ~new.creds /\ new.custom = orders[o].custom /\ new.price = orders[o].price
    BY <1>1 DEF OrderRow
  <2>3. ~orders[o].creds
    BY <2>1 DEF StageInv, OrderStages
  <2> HIDE DEF new
  <2>4. \A p \in Orders : orders'[p] = IF p = o THEN new ELSE orders[p]
    BY <1>1, <2>1
  <2>5. RowsKeep
    BY <1>1, <2>2, <2>3, <2>4 DEF RowsKeep, SamePeriods, Unpatched
  <2> QED BY <1>8, <2>1, <2>5
<1> QED BY <1>6, <1>7, <1>9, <1>10, <1>11 DEF Create

\* A step of one request: it goes on, or ends, and who waits for a charge.
LEMMA RequestGoes ==
  ASSUME IInv, NoOverlap, NEW c \in Calls, call[c].at # "idle",
         NEW stage \in CallStage \ {"idle", "read"}, Move(c, stage) \/ Leave(c),
         stage \in Renewal => call[c].at \in Renewal, pc' = pc
  PROVE  /\ RenewalsGoOn
         /\ \A d \in Calls : d \in Paying' => call'[d].order = call[d].order
         /\ ~At(c, "fulfil", "fulfilled") /\ stage # "fulfilled" => Granting' = Granting
<1> DEFINE moved == [call[c] EXCEPT !.at = stage]
<1>1. call \in [Calls -> Call] /\ Idle.at = "idle"
  BY DEF IInv, TypeOK, Idle
<1>2. /\ moved.at = stage /\ moved.op = call[c].op
      /\ moved.order = call[c].order /\ moved.seen = call[c].seen
  BY <1>1 DEF Call
<1> HIDE DEF Idle, moved
<1>3. /\ \A d \in Calls : d # c => call'[d] = call[d]
      /\ call'[c] = moved \/ call'[c] = Idle
  BY <1>1 DEF Move, Leave, moved
<1>4. RenewalsGoOn
  BY <1>1, <1>2, <1>3 DEF RenewalsGoOn
<1>5. \A d \in Calls : d \in Paying' => call'[d].order = call[d].order
  BY <1>4 DEF RenewalsGoOn, Paying
<1>6. ASSUME ~At(c, "fulfil", "fulfilled"), stage # "fulfilled"
      PROVE  Granting' = Granting
  <2>1. \A d \in Calls : /\ At(d, "fulfil", "fulfilled")' <=> At(d, "fulfil", "fulfilled")
                         /\ At(d, "fulfil", "fulfilled") => call'[d].order = call[d].order
    BY <1>1, <1>2, <1>3, <1>6 DEF At
  <2> QED BY <2>1 DEF Granting
<1> QED BY <1>4, <1>5, <1>6

\* The delivery of a webhook, and its charge.
LEMMA DeliveryGrants ==
  ASSUME IInv, NoOverlap, NEW c \in Calls, call[c].at # "idle", call[c].op = "fulfil", pc' = pc
  PROVE  /\ call[c].at # "fulfilled" /\ Move(c, "fulfilled")
              => call[c].order \notin Granting /\ Granting' = Granting \cup {call[c].order}
         /\ call[c].at = "fulfilled" /\ Leave(c)
              => call[c].order \in Granting /\ Granting' = Granting \ {call[c].order}
<1>1. PICK o \in Orders : o = call[c].order
  BY DEF IInv, TypeOK, Call
<1>2. pc[o] = "done" /\ \A d \in Calls : call[d].at # "idle" /\ call[d].order = o => d = c
  BY <1>1 DEF IInv, OpenBacked, NoOverlap
<1>3. call \in [Calls -> Call] /\ Idle.at = "idle"
  BY DEF IInv, TypeOK, Idle
<1>4. \A p \in Orders : p \in Granting <=>
        pc[p] = "activated" \/ \E d \in Calls : At(d, "fulfil", "fulfilled") /\ call[d].order = p
  BY DEF Granting
<1>5. \A p \in Orders : p \in Granting' <=>
        pc[p] = "activated" \/ \E d \in Calls : At(d, "fulfil", "fulfilled")' /\ call'[d].order = p
  BY DEF Granting
<1>6. Granting \subseteq Orders /\ Granting' \subseteq Orders
  BY DEF Granting
<1> HIDE DEF Idle
<1>7. ASSUME call[c].at # "fulfilled", Move(c, "fulfilled")
      PROVE  o \notin Granting /\ Granting' = Granting \cup {o}
  <2> DEFINE moved == [call[c] EXCEPT !.at = "fulfilled"]
  <2>1. moved.at = "fulfilled" /\ moved.op = "fulfil" /\ moved.order = o
    BY <1>1, <1>3 DEF Call
  <2>2. \A d \in Calls : call'[d] = IF d = c THEN moved ELSE call[d]
    BY <1>3, <1>7 DEF Move
  <2> HIDE DEF moved
  <2>3. o \notin Granting
    BY <1>2, <1>4, <1>7 DEF At
  <2>4. o \in Granting'
    BY <1>5, <2>1, <2>2 DEF At
  <2>5. \A p \in Orders : p # o => (p \in Granting' <=> p \in Granting)
    BY <1>1, <1>4, <1>5, <2>1, <2>2 DEF At
  <2> QED BY <1>6, <2>3, <2>4, <2>5
<1>8. ASSUME call[c].at = "fulfilled", Leave(c)
      PROVE  o \in Granting /\ Granting' = Granting \ {o}
  <2>1. \A d \in Calls : call'[d] = IF d = c THEN Idle ELSE call[d]
    BY <1>3, <1>8 DEF Leave
  <2>2. o \in Granting
    BY <1>1, <1>4, <1>8 DEF At
  <2>3. o \notin Granting'
    BY <1>2, <1>3, <1>5, <2>1 DEF At
  <2>4. \A p \in Orders : p # o => (p \in Granting' <=> p \in Granting)
    BY <1>1, <1>3, <1>4, <1>5, <2>1 DEF At
  <2> QED BY <1>6, <2>2, <2>3, <2>4
<1> QED BY <1>1, <1>7, <1>8

\* Steps of a request that neither give a period nor charge one.
LEMMA QuietPeriods ==
  ASSUME Reliable, IInv, NoOverlap, HoldsMatchOrders, PeriodInv, NEW c \in Calls,
         \/ TellProvider(c) \/ MarkLocked(c) \/ MarkActive(c) \/ ClearCustom(c)
         \/ HoldRenewal(c) \/ ReleaseRenewal(c) \/ ResumeRenewed(c)
  PROVE  PeriodInv'
<1>1. /\ pc' = pc /\ terms' = terms /\ opening' = opening /\ call[c].at # "idle"
      /\ TypeOK /\ Unpatched /\ RenewalsCurrent /\ ExpiriesRun /\ BooksBalance
      /\ orders \in [Orders -> OrderRow]
  BY DEF TellProvider, MarkLocked, MarkActive, HoldRenewal, ReleaseRenewal, ResumeRenewed,
     ClearCustom, At, IInv, TypeOK, PeriodInv
<1>2. PICK o \in Orders : o = call[c].order
  BY DEF IInv, TypeOK, Call
<1>3. PICK stage \in {"told", "held", "resumed", "cleared"} :
        /\ Move(c, stage) \/ Leave(c)
        /\ stage = "resumed" => ResumeRenewed(c)
        /\ stage = "held" => HoldRenewal(c) \/ ReleaseRenewal(c)
        /\ ResumeRenewed(c) => stage = "resumed" /\ Move(c, stage)
  <2>1. CASE TellProvider(c) \/ MarkLocked(c) \/ MarkActive(c) \/ ClearCustom(c)
    <3>1. \E s \in {"told", "cleared"} : Move(c, s) \/ Leave(c)
      BY <2>1 DEF TellProvider, MarkLocked, MarkActive, ClearCustom, SetStatus, Save
    <3>2. ~ResumeRenewed(c)
      BY <2>1 DEF TellProvider, MarkLocked, MarkActive, ClearCustom, ResumeRenewed, At
    <3> QED BY <3>1, <3>2
  <2>2. CASE HoldRenewal(c) \/ ReleaseRenewal(c)
    <3>1. Move(c, "held") \/ Leave(c)
      BY <1>1, <2>2, RequestSettles
    <3>2. ~ResumeRenewed(c)
      BY <2>2 DEF HoldRenewal, ReleaseRenewal, ResumeRenewed, At
    <3> QED BY <2>2, <3>1, <3>2
  <2>3. CASE ResumeRenewed(c)
    BY <2>3 DEF ResumeRenewed
  <2> QED BY <2>1, <2>2, <2>3
<1>4. /\ stage \in Renewal => call[c].at \in Renewal
      /\ ~At(c, "fulfil", "fulfilled") /\ stage # "fulfilled"
      /\ stage \in CallStage \ {"idle", "read"}
  <2>1. stage \in {"held", "resumed"} => call[c].at \in Renewal
    BY <1>3 DEF HoldRenewal, ReleaseRenewal, ResumeRenewed, At, Renewal
  <2>2. ~At(c, "fulfil", "fulfilled")
    BY DEF TellProvider, MarkLocked, MarkActive, HoldRenewal, ReleaseRenewal, ResumeRenewed,
       ClearCustom, At
  <2> QED BY <1>3, <2>1, <2>2 DEF CallStage, Renewal
<1>5. /\ RenewalsGoOn /\ Granting' = Granting
      /\ \A d \in Calls : d \in Paying' => call'[d].order = call[d].order
  BY <1>1, <1>3, <1>4, RequestGoes
<1>6. Paying' = Paying
  <2>1. stage \in CallStage \ {"idle"}
    BY <1>4
  <2>2. IF Move(c, stage) /\ call[c].op = "renew" /\ stage \in {"paid", "resumed"}
        THEN Paying' = Paying \cup {c} ELSE Paying' = Paying \ {c}
    BY <1>1, <1>3, <2>1, RequestPays
  <2>3. CASE ResumeRenewed(c)
    <3>1. c \in Paying /\ call[c].op = "renew" /\ stage = "resumed" /\ Move(c, stage)
      BY <1>3, <2>3 DEF ResumeRenewed, At, Paying
    <3> QED BY <2>2, <3>1
  <2>4. CASE ~ResumeRenewed(c)
    <3>1. c \notin Paying
      BY <2>4 DEF TellProvider, MarkLocked, MarkActive, HoldRenewal, ReleaseRenewal,
         ClearCustom, At, Paying
    <3>2. stage \notin {"paid", "resumed"}
      BY <1>3, <2>4
    <3> QED BY <2>2, <3>1, <3>2
  <2> QED BY <2>3, <2>4
<1>7. RowsKeep
  <2>1. CASE \/ TellProvider(c) \/ HoldRenewal(c) \/ ReleaseRenewal(c) \/ ResumeRenewed(c)
    <3>1. orders' = orders
      BY <2>1 DEF TellProvider, HoldRenewal, ReleaseRenewal, ResumeRenewed
    <3> QED BY <1>1, <3>1 DEF RowsKeep, SamePeriods, Unpatched
  <2>2. CASE MarkLocked(c) \/ MarkActive(c)
    <3>1. \E s \in Status :
            orders' \in {orders, [orders EXCEPT ![o] = [orders[o] EXCEPT !.status = s]]}
      BY <1>2, <2>2 DEF MarkLocked, MarkActive, SetStatus, Save, Status
    <3> QED BY <1>1, <3>1, StatusKeeps
  <2>3. CASE ClearCustom(c)
    <3> DEFINE new == [orders[o] EXCEPT !.custom = NoTime, !.price = NoPrice]
    <3>1. orders' = [orders EXCEPT ![o] = new]
      BY <1>2, <2>3 DEF ClearCustom, Save, Reliable
    <3>2. /\ new.creds = orders[o].creds /\ new.expires = orders[o].expires
          /\ new.granted = orders[o].granted /\ new.custom = NoTime /\ new.price = NoPrice
      BY <1>1 DEF OrderRow
    <3> HIDE DEF new
    <3>3. \A p \in Orders : orders'[p] = IF p = o THEN new ELSE orders[p]
      BY <1>1, <3>1
    <3> QED BY <1>1, <3>2, <3>3 DEF RowsKeep, SamePeriods, Unpatched
  <2> QED BY <2>1, <2>2, <2>3
<1>8. wallet'.bal = wallet.bal
  <2>1. \/ wallet' = wallet
        \/ Held(RenewPrice(call[c].order, call[c].seen))
        \/ Released(RenewPrice(call[c].order, call[c].seen))
    BY <1>1, RequestSettles DEF TellProvider, MarkLocked, MarkActive, ResumeRenewed, ClearCustom
  <2> QED BY <2>1 DEF Held, Released
<1>9. Unpatched' /\ RenewalsCurrent' /\ ExpiriesRun' /\ ServedValue' = ServedValue
  BY <1>1, <1>5, <1>7, RowsKeepPeriods
<1>10. BooksBalance'
  BY <1>1, <1>5, <1>6, <1>8, <1>9, BooksStay
<1> QED BY <1>9, <1>10 DEF PeriodInv

\* The charge of a renewal, and the period it pays.
LEMMA RenewalPeriods ==
  ASSUME Reliable, IInv, NoOverlap, HoldsMatchOrders, PeriodInv, NEW c \in Calls,
         ConfirmRenewal(c) \/ Extend(c)
  PROVE  PeriodInv'
<1>1. /\ pc' = pc /\ terms' = terms /\ opening' = opening
      /\ call[c].at # "idle" /\ call[c].op = "renew"
      /\ TypeOK /\ Unpatched /\ RenewalsCurrent /\ ExpiriesRun /\ BooksBalance
  BY DEF ConfirmRenewal, Extend, At, IInv, PeriodInv
<1>2. PICK o \in Orders : o = call[c].order
  BY DEF IInv, TypeOK, Call
<1>3. wallet.bal \in Int /\ terms[o].price \in Nat
  BY <1>1, BookSums DEF TypeOK, Row
<1>4. PICK stage \in {"paid", "extended"} :
        /\ Move(c, stage)
        /\ ConfirmRenewal(c) => /\ stage = "paid" /\ call[c].at = "held"
                                /\ Charged(RenewPrice(call[c].order, call[c].seen))
                                /\ orders' = orders
        /\ Extend(c) => stage = "extended" /\ call[c].at = "resumed" /\ wallet' = wallet
        /\ call[c].at \in Renewal
  <2>1. CASE ConfirmRenewal(c)
    <3>1. /\ Move(c, "paid") /\ Charged(RenewPrice(call[c].order, call[c].seen))
      BY <1>1, <2>1, RequestSettles
    <3>2. call[c].at = "held" /\ orders' = orders
      BY <2>1 DEF ConfirmRenewal, At
    <3>3. ~Extend(c)
      BY <3>2 DEF Extend, At
    <3> QED BY <3>1, <3>2, <3>3 DEF Renewal
  <2>2. CASE Extend(c)
    <3>1. Move(c, "extended") /\ call[c].at = "resumed" /\ wallet' = wallet
      BY <2>2 DEF Extend, At, Save, Reliable
    <3>2. ~ConfirmRenewal(c)
      BY <3>1 DEF ConfirmRenewal, At
    <3> QED BY <3>1, <3>2 DEF Renewal
  <2> QED BY <2>1, <2>2
<1>5. stage \in CallStage \ {"idle", "read"} /\ stage # "fulfilled"
  BY <1>4 DEF CallStage
<1>6. /\ RenewalsGoOn /\ Granting' = Granting
      /\ \A d \in Calls : d \in Paying' => call'[d].order = call[d].order
  BY <1>1, <1>4, <1>5, RequestGoes DEF At
<1>7. GrantedValue' = GrantedValue + 0 /\ GrantedValue \in Nat /\ ServedValue \in Nat
      /\ PaidAhead \in Nat
  BY <1>1, <1>6, GrantingMoves, BookSums
<1>8. IF stage = "paid" THEN Paying' = Paying \cup {c} ELSE Paying' = Paying \ {c}
  <2>1. stage \in CallStage \ {"idle"}
    BY <1>5
  <2> QED BY <1>1, <1>4, <2>1, RequestPays
<1>9. CASE ConfirmRenewal(c)
  <2>1. Charged(terms[o].price) /\ orders' = orders /\ stage = "paid" /\ c \notin Paying
    BY <1>1, <1>2, <1>4, <1>9 DEF RenewPrice, RenewalsCurrent, Paying
  <2>2. RowsKeep
    BY <1>1, <2>1 DEF RowsKeep, SamePeriods, Unpatched
  <2>3. Unpatched' /\ RenewalsCurrent' /\ ExpiriesRun' /\ ServedValue' = ServedValue + 0
    BY <1>1, <1>6, <1>7, <2>2, RowsKeepPeriods
  <2>4. PaidAhead' = PaidAhead + terms[o].price
    BY <1>1, <1>2, <1>6, <1>8, <2>1, PayingMoves
  <2>5. wallet'.bal = wallet.bal - 0 + 0 - terms[o].price
    BY <1>3, <2>1 DEF Charged
  <2>6. BooksBalance'
    BY <1>1, <1>3, <1>7, <2>3, <2>4, <2>5, BooksMove
  <2> QED BY <2>3, <2>6 DEF PeriodInv
<1>10. CASE Extend(c)
  <2>1. wallet' = wallet /\ stage = "extended" /\ c \in Paying
    BY <1>1, <1>4, <1>10 DEF Paying
  <2>2. /\ Unpatched' /\ RenewalsCurrent' /\ ExpiriesRun'
        /\ ServedValue' = ServedValue + terms[o].price
    BY <1>1, <1>2, <1>10, Extends
  <2>3. PaidAhead' = PaidAhead + (-terms[o].price)
    BY <1>1, <1>2, <1>3, <1>6, <1>7, <1>8, <2>1, PayingMoves
  <2>4. wallet'.bal = wallet.bal - terms[o].price + 0 - (-terms[o].price)
    BY <1>3, <2>1
  <2>5. BooksBalance'
    BY <1>1, <1>3, <1>7, <2>2, <2>3, <2>4, BooksMove
  <2> QED BY <2>2, <2>5 DEF PeriodInv
<1> QED BY <1>9, <1>10

\* The webhook gives the first period, and charges it.
LEMMA DeliveryPeriods ==
  ASSUME Reliable, IInv, NoOverlap, StageInv, HoldsMatchOrders, PeriodInv, NEW c \in Calls,
         Fulfil(c) \/ ConfirmFulfilled(c)
  PROVE  PeriodInv'
<1>1. /\ pc' = pc /\ terms' = terms /\ opening' = opening
      /\ call[c].at # "idle" /\ call[c].op = "fulfil"
      /\ TypeOK /\ Unpatched /\ RenewalsCurrent /\ ExpiriesRun /\ BooksBalance
  BY DEF Fulfil, ConfirmFulfilled, At, IInv, PeriodInv
<1>2. PICK o \in Orders : o = call[c].order
  BY DEF IInv, TypeOK, Call
<1>3. wallet.bal \in Int /\ terms[o].price \in Nat
  BY <1>1, BookSums DEF TypeOK, Row
<1>4. PICK stage \in {"fulfilled", "told"} :
        /\ Move(c, stage) \/ Leave(c)
        /\ Fulfil(c) => stage = "fulfilled" /\ Move(c, stage) /\ call[c].at = "read"
        /\ ConfirmFulfilled(c) => /\ call[c].at = "fulfilled" /\ Leave(c)
                                  /\ Charged(terms[call[c].order].price)
  <2>1. CASE Fulfil(c)
    <3>1. Move(c, "fulfilled") /\ call[c].at = "read"
      BY <2>1 DEF Fulfil, At, Save, Reliable
    <3>2. ~ConfirmFulfilled(c)
      BY <3>1 DEF ConfirmFulfilled, At
    <3> QED BY <3>1, <3>2
  <2>2. CASE ConfirmFulfilled(c)
    <3>1. Leave(c) /\ Charged(terms[call[c].order].price)
      BY <1>1, <2>2, RequestSettles
    <3>2. call[c].at = "fulfilled" /\ ~Fulfil(c)
      BY <2>2 DEF ConfirmFulfilled, Fulfil, At
    <3> QED BY <3>1, <3>2
  <2> QED BY <2>1, <2>2
<1>5. stage \in CallStage \ {"idle", "read"} /\ stage \notin Renewal
  BY <1>4 DEF CallStage, Renewal
<1>6. /\ RenewalsGoOn
      /\ \A d \in Calls : d \in Paying' => call'[d].order = call[d].order
  BY <1>1, <1>4, <1>5, RequestGoes
<1>7. Paying' = Paying
  <2>1. stage \in CallStage \ {"idle"}
    BY <1>5
  <2>2. Paying' = Paying \ {c} /\ c \notin Paying
    BY <1>1, <1>4, <2>1, RequestPays DEF Paying
  <2> QED BY <2>2
<1>8. PaidAhead' = PaidAhead + 0 /\ GrantedValue \in Nat /\ ServedValue \in Nat
      /\ PaidAhead \in Nat
  BY <1>1, <1>6, <1>7, PayingMoves, BookSums
<1>9. CASE Fulfil(c)
  <2>1. /\ wallet' = wallet /\ Move(c, "fulfilled") /\ call[c].at = "read"
        /\ o \notin Granting /\ Granting' = Granting \cup {o}
    BY <1>1, <1>2, <1>4, <1>9, DeliveryGrants DEF Fulfil
  <2>2. PICK expiry \in {FirstExpiry(o), now + 1} :
          orders' = [orders EXCEPT ![o] = Activated(orders[o], expiry)]
    BY <1>2, <1>9 DEF Fulfil, Save, Reliable
  <2>3. ~orders[o].creds
    BY <1>1, <1>2, <2>1 DEF At, StageInv, CallStages, OrderStages
  <2>4. /\ Unpatched' /\ RenewalsCurrent' /\ ExpiriesRun'
        /\ ServedValue' = ServedValue + terms[o].price
    BY <1>1, <1>6, <2>2, <2>3, Activates
  <2>5. GrantedValue' = GrantedValue + terms[o].price
    BY <1>1, <2>1, GrantingMoves
  <2>6. wallet'.bal = wallet.bal - terms[o].price + terms[o].price - 0
    BY <1>3, <2>1
  <2>7. BooksBalance'
    BY <1>1, <1>3, <1>8, <2>4, <2>5, <2>6, BooksMove
  <2> QED BY <2>4, <2>7 DEF PeriodInv
<1>10. CASE ConfirmFulfilled(c)
  <2>1. /\ orders' = orders /\ Charged(terms[o].price)
        /\ o \in Granting /\ Granting' = Granting \ {o}
    BY <1>1, <1>2, <1>4, <1>10, DeliveryGrants DEF ConfirmFulfilled
  <2>2. RowsKeep
    BY <1>1, <2>1 DEF RowsKeep, SamePeriods, Unpatched
  <2>3. Unpatched' /\ RenewalsCurrent' /\ ExpiriesRun' /\ ServedValue' = ServedValue + 0
    BY <1>1, <1>6, <1>8, <2>2, RowsKeepPeriods
  <2>4. GrantedValue' = GrantedValue + (-terms[o].price)
    BY <1>1, <1>3, <1>8, <2>1, GrantingMoves
  <2>5. wallet'.bal = wallet.bal - 0 + (-terms[o].price) - 0
    BY <1>3, <2>1 DEF Charged
  <2>6. BooksBalance'
    BY <1>1, <1>3, <1>8, <2>3, <2>4, <2>5, BooksMove
  <2> QED BY <2>3, <2>6 DEF PeriodInv
<1> QED BY <1>9, <1>10

\* Steps that leave the requests and the money alone, and no period ends.
LEMMA AsidePeriods ==
  ASSUME IInv, PeriodInv, call' = call, pc' = pc, terms' = terms, opening' = opening,
         wallet' = wallet, RowsKeep
  PROVE  PeriodInv'
<1>1. TypeOK /\ Unpatched /\ RenewalsCurrent /\ ExpiriesRun /\ BooksBalance
  BY DEF IInv, PeriodInv
<1>2. /\ RenewalsGoOn /\ Paying' = Paying /\ Granting' = Granting
      /\ \A d \in Calls : d \in Paying' => call'[d].order = call[d].order
  BY DEF RenewalsGoOn, Paying, Granting, At
<1>3. Unpatched' /\ RenewalsCurrent' /\ ExpiriesRun' /\ ServedValue' = ServedValue
  BY <1>1, <1>2, RowsKeepPeriods
<1>4. BooksBalance'
  BY <1>1, <1>2, <1>3, BooksStay
<1> QED BY <1>3, <1>4 DEF PeriodInv

\* A renewal begins with the expiry that the order has.
LEMMA ReadPeriods ==
  ASSUME IInv, PeriodInv, NEW c \in Calls, Read(c)
  PROVE  PeriodInv'
<1>1. /\ TypeOK /\ Unpatched /\ RenewalsCurrent /\ ExpiriesRun /\ BooksBalance
      /\ orders' = orders /\ pc' = pc /\ terms' = terms /\ opening' = opening
      /\ wallet' = wallet /\ call[c].at = "idle" /\ call \in [Calls -> Call]
  BY DEF IInv, TypeOK, PeriodInv, Read
<1>2. PICK op \in Ops, o \in Orders :
        /\ Admits(op, o)
        /\ call' = [call EXCEPT ![c] = [op |-> op, order |-> o, seen |-> orders[o],
                                        at |-> "read"]]
  BY DEF Read
<1> DEFINE new == [op |-> op, order |-> o, seen |-> orders[o], at |-> "read"]
<1>3. /\ \A d \in Calls : call'[d] = IF d = c THEN new ELSE call[d]
      /\ new.op = op /\ new.order = o /\ new.seen = orders[o] /\ new.at = "read"
  BY <1>1, <1>2
<1> HIDE DEF new
<1>4. Unpatched' /\ ExpiriesRun' /\ ServedValue' = ServedValue
  BY <1>1 DEF Unpatched, ExpiriesRun, ServedValue, PeriodPrices, Periods, Served
<1>5. RenewalsCurrent'
  <2> SUFFICES ASSUME NEW d \in Calls, call'[d].at # "idle", call'[d].op = "renew"
               PROVE  /\ terms[call'[d].order].days > 0
                      /\ call'[d].seen.custom = NoTime /\ call'[d].seen.price = NoPrice
                      /\ call'[d].at \in Renewal =>
                           call'[d].seen.expires = orders[call'[d].order].expires
    BY <1>1 DEF RenewalsCurrent, Renewal, NoTime, NoPrice
  <2>1. CASE d = c
    <3>1. op = "renew"
      BY <1>3, <2>1
    <3>2. terms[o].days > 0
      BY <1>2, <3>1 DEF Admits
    <3> QED BY <1>1, <1>3, <2>1, <3>2 DEF Unpatched
  <2>2. CASE d # c
    BY <1>1, <1>3, <2>2 DEF RenewalsCurrent
  <2> QED BY <2>1, <2>2
<1>6. /\ \A d \in Calls : d \in Paying' <=> d \in Paying
      /\ \A d \in Calls, p \in Orders :
           At(d, "fulfil", "fulfilled")' /\ call'[d].order = p
             <=> At(d, "fulfil", "fulfilled") /\ call[d].order = p
  BY <1>1, <1>3 DEF Paying, At
<1>7. Paying' = Paying /\ \A d \in Calls : d \in Paying' => call'[d].order = call[d].order
  BY <1>1, <1>3, <1>6 DEF Paying
<1>8. Granting' = Granting
  BY <1>1, <1>6 DEF Granting
<1>9. BooksBalance'
  BY <1>1, <1>4, <1>7, <1>8, BooksStay
<1> QED BY <1>4, <1>5, <1>9 DEF PeriodInv

\* Every step keeps the books of periods.
LEMMA PeriodsInductive ==
  ASSUME Reliable, "patch" \notin Ops
  PROVE  /\ IInv /\ NoOverlap /\ StageInv /\ HoldsMatchOrders /\ PeriodInv /\ [Next]_vars
         => PeriodInv'
<1> SUFFICES ASSUME IInv, NoOverlap, StageInv, HoldsMatchOrders, PeriodInv, [Next]_vars
             PROVE  PeriodInv'
  OBVIOUS
<1>1. TypeOK /\ Unpatched
  BY DEF IInv, PeriodInv
<1>2. ASSUME NEW o \in Orders, Create(o) PROVE PeriodInv'
  BY <1>2, CreatePeriods
<1>3. \A o \in Orders : ~PatchOrder(o)
  BY DEF PatchOrder
<1>4. ASSUME NEW c \in Calls, Read(c) PROVE PeriodInv'
  BY <1>4, ReadPeriods
<1>5. ASSUME NEW c \in Calls, Proceed(c) PROVE PeriodInv'
  <2>1. ~MarkCancelled(c) /\ ~Refund(c)
    BY DEF MarkCancelled, Refund, At, StageInv, CallStages, Reliable
  <2> QED BY <1>5, <2>1, QuietPeriods, RenewalPeriods, DeliveryPeriods DEF Proceed
<1>6. ASSUME Sweep PROVE PeriodInv'
  <2>1. /\ call' = call /\ pc' = pc /\ terms' = terms /\ opening' = opening
        /\ wallet' = wallet
    BY <1>6 DEF Sweep, ListExpired, ListGrace, EndTick, SuspendExpired, MarkExpired, DeleteProxy,
       MarkDeleted
  <2>2. CASE orders' = orders
    <3>1. RowsKeep
      BY <1>1, <2>2 DEF RowsKeep, SamePeriods, Unpatched
    <3> QED BY <2>1, <3>1, AsidePeriods
  <2>3. ASSUME NEW o \in Orders, MarkExpired(o) \/ MarkDeleted(o)
        PROVE  PeriodInv'
    <3>1. \E s \in Status :
            orders' \in {orders, [orders EXCEPT ![o] = [orders[o] EXCEPT !.status = s]]}
      BY <2>3 DEF MarkExpired, MarkDeleted, SetStatus, Save, Status
    <3>2. RowsKeep
      BY <1>1, <3>1, StatusKeeps
    <3> QED BY <2>1, <3>2, AsidePeriods
  <2> QED
    BY <1>6, <2>2, <2>3 DEF Sweep, ListExpired, ListGrace, EndTick, SuspendExpired, DeleteProxy
<1>7. CASE Tick \/ UNCHANGED vars
  <2>1. /\ call' = call /\ pc' = pc /\ terms' = terms /\ opening' = opening
        /\ wallet' = wallet /\ orders' = orders
    BY <1>7 DEF Tick, vars
  <2>2. RowsKeep
    BY <1>1, <2>1 DEF RowsKeep, SamePeriods, Unpatched
  <2> QED BY <2>1, <2>2, AsidePeriods
<1> QED BY <1>2, <1>3, <1>4, <1>5, <1>6, <1>7 DEF Next

LEMMA PeriodsInitially == Init => PeriodInv
<1> SUFFICES ASSUME Init PROVE PeriodInv
  OBVIOUS
<1>1. /\ Idle.at = "idle"
      /\ ~NoOrder.creds /\ NoOrder.custom = NoTime /\ NoOrder.price = NoPrice
  BY DEF Idle, NoOrder
<1> HIDE DEF Idle, NoOrder
<1>2. \A o \in Orders : orders[o] = NoOrder /\ pc[o] = "arrived"
  BY DEF Init
<1>3. \A c \in Calls : call[c] = Idle
  BY DEF Init
<1>4. Unpatched /\ RenewalsCurrent /\ ExpiriesRun
  BY <1>1, <1>2, <1>3 DEF Unpatched, RenewalsCurrent, ExpiriesRun
<1>5. Served = {} /\ Granting = {} /\ Paying = {}
  BY <1>1, <1>2, <1>3 DEF Served, Granting, Paying, At
<1>6. ServedValue = 0 /\ GrantedValue = 0 /\ PaidAhead = 0
  BY <1>5, SumEmpty DEF ServedValue, GrantedValue, PaidAhead
<1>7. wallet.bal = opening /\ wallet.bal \in Nat
  BY Initially DEF Init, IInv, TypeOK
<1> QED BY <1>4, <1>6, <1>7 DEF PeriodInv, BooksBalance

\* What a charge is behind of is nothing once no charge is under way.
LEMMA BooksSettle ==
  ASSUME IInv, PeriodInv
  PROVE  PeriodsPaid
<1> SUFFICES ASSUME Paying = {}, \A o \in Orders : pc[o] # "activated",
                    \A c \in Calls : call[c].at # "fulfilled"
             PROVE  wallet.bal = opening - ServedValue
  BY DEF PeriodsPaid, ServedValue, PeriodPrices, Served
<1>1. Granting = {}
  BY DEF Granting, At
<1>2. GrantedValue = 0 /\ PaidAhead = 0
  BY <1>1, SumEmpty DEF GrantedValue, PaidAhead
<1>3. ServedValue \in Nat /\ opening \in Nat
  BY BookSums DEF IInv, TypeOK, PeriodInv
<1> QED BY <1>2, <1>3 DEF PeriodInv, BooksBalance

\* Under the same hypotheses, when moreover nothing is patched and no two
\* requests on one order overlap, every period served is paid at its price,
\* and nothing else is (order_usecase.go:361-363, 395-409).
THEOREM PeriodsArePaid ==
  ASSUME Reliable, "patch" \notin Ops
  PROVE  Spec /\ []NoOverlap => []PeriodsPaid
<1> DEFINE Inv == StageInv /\ HoldsMatchOrders /\ PeriodInv
<1>1. Init => Inv
  BY StagesInitially, HoldsInitially, PeriodsInitially
<1>2. NoOverlap => OneDelivery
  BY DEF NoOverlap, OneDelivery
<1>3. IInv /\ TypeOK' /\ NoOverlap /\ Inv /\ [Next]_vars => Inv'
  BY <1>2, StagesInductive, HoldsInductive, PeriodsInductive
<1>4. IInv /\ Inv => PeriodsPaid
  BY BooksSettle
<1> HIDE DEF Inv
<1> QED BY <1>1, <1>3, <1>4, Invariant, TypeCorrect, PTL DEF Spec
=============================================================================
