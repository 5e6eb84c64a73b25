----------------------------- MODULE Resellers -----------------------------
(***************************************************************************)
(* reseller-service: reseller accounts, price overrides, sub-accounts, API *)
(* keys and webhooks.  usecase/reseller_usecase.go and                     *)
(* usecase/webhook_usecase.go over repository/postgres/reseller_repo.go,   *)
(* behind handler/http.                                                    *)
(*                                                                         *)
(* As in user-service no usecase opens a transaction: a request that reads *)
(* before it writes is a call of two steps.  Which members hold a token    *)
(* for these routes is a matter of Accounts: here anyone may.              *)
(***************************************************************************)
EXTENDS Platform

CONSTANTS
  Products,  \* the products that get a price override
  Limits,    \* bound: the credit limits that requests carry
  Prices     \* bound: the prices that requests carry

ASSUME ResellersAssumption == Prices \subseteq Nat /\ Limits \subseteq Nat

VARIABLES
  reseller,  \* resellers.accounts: the status, one row per user (UNIQUE user_id)
  pricing,   \* resellers.pricing_overrides, UNIQUE (reseller_id, product_id)
  subs,      \* resellers.sub_accounts, UNIQUE user_id
  apiKeys,   \* resellers.api_keys
  hooks,     \* resellers.webhooks
  work,      \* the requests in flight
  touched    \* history: who changed whose sub-account, key or webhook

resellersVars == <<reseller, pricing, subs, apiKeys, hooks, work, touched>>

ResellerStatuses == {"pending", "approved", "suspended"}
WorkOps == {"none", "create", "approve", "suspend", "create_sub", "credit",
            "revoke_reseller_key", "delete_webhook"}

\* A request past its first statement.  user: the reseller it is about; arg:
\* the sub-account, key or webhook; amount: a credit limit.  moved: the
\* reseller's status was written since the request read it.
Work == [op: WorkOps, user: Members, sub: Members, arg: Nat, amount: Nat,
         moved: BOOLEAN]

NoWork == [op |-> "none", user |-> CHOOSE u \in Members : TRUE,
           sub |-> CHOOSE u \in Members : TRUE, arg |-> 0, amount |-> 0,
           moved |-> FALSE]
-----------------------------------------------------------------------------
(* Requests. *)

\* A request passes its first statement and the checks on its answer.  One
\* that is refused there changes nothing and is no step.
Accept(q, op, u, sub, arg, amount) ==
  /\ work[q].op = "none"
  /\ Asked(op)
  /\ Cardinality({p \in Calls : work[p].op # "none"}) < workload.inFlight
  /\ work' = [work EXCEPT ![q] = [op |-> op, user |-> u, sub |-> sub,
                arg |-> arg, amount |-> amount, moved |-> FALSE]]
  /\ UNCHANGED <<reseller, pricing, subs, apiKeys, hooks, touched>>

Doing(q, op) == work[q].op = op
Finish(q) == work' = [work EXCEPT ![q] = NoWork]

\* The second statement has written the status of u.
FinishMoving(q, u) ==
  work' = [p \in Calls |->
    IF p = q THEN NoWork ELSE [work[p] EXCEPT !.moved = @ \/ work[p].user = u]]

\* The reseller that a request acts for, and the one whose object it changes.
Touch(actor, owner) == touched' = touched \cup {<<actor, owner>>}
-----------------------------------------------------------------------------
(* Statements of reseller_repo.go. *)

GetByUserID(u) == reseller[u] # "absent"

\* Create fails when the user has a row (UNIQUE user_id).
ResellerCreate(u) ==
  reseller' = [reseller EXCEPT ![u] = IF @ = "absent" THEN "pending" ELSE @]

ResellerUpdateStatus(u, status) == reseller' = [reseller EXCEPT ![u] = status]

NewPrice(cost, floor, sell) ==
  [on |-> TRUE, cost |-> cost, floor |-> floor, sell |-> sell, recosted |-> FALSE]

\* ON CONFLICT updates sell_price and floor_price: cost_price stays what the
\* first request made it.  recosted is history: a later one named another.
Repriced(old, cost, floor, sell) ==
  [on |-> TRUE, cost |-> old.cost, floor |-> floor, sell |-> sell,
   recosted |-> old.recosted \/ cost # old.cost]

Upsert(u, p, cost, floor, sell) ==
  pricing' = [pricing EXCEPT ![<<u, p>>] =
    IF @.on THEN Repriced(@, cost, floor, sell) ELSE NewPrice(cost, floor, sell)]

\* Create fails when the user is a sub-account already (UNIQUE user_id).
\* approved and moved are history: how the reseller stood at the INSERT, and
\* whether that changed since it was checked.
SubAccountCreate(owner, user, limit, moved) ==
  subs' = IF \E s \in subs : s.user = user THEN subs
          ELSE subs \cup {[user |-> user, owner |-> owner, credit |-> limit,
                           approved |-> reseller[owner] = "approved",
                           moved |-> moved]}

SubUpdateCreditLimit(user, limit) ==
  subs' = {IF s.user = user THEN [s EXCEPT !.credit = limit] ELSE s : s \in subs}

APIKeyCreate(u) == apiKeys' = Append(apiKeys, [owner |-> u, revoked |-> FALSE])

\* ListByReseller lists the revoked keys too.
ListByReseller(u) == {k \in DOMAIN apiKeys : apiKeys[k].owner = u}

APIKeyRevoke(k) == apiKeys' = [apiKeys EXCEPT ![k].revoked = TRUE]

WebhookCreate(u) == hooks' = Append(hooks, [owner |-> u, active |-> TRUE])
WebhookGetByID(w) == w \in DOMAIN hooks
WebhookDelete(w) == hooks' = [hooks EXCEPT ![w].active = FALSE]
-----------------------------------------------------------------------------
(* Reseller accounts. *)

CreateResellerRead(q, u) ==
  ~GetByUserID(u) /\ Accept(q, "create", u, u, 0, 0)

CreateResellerInsert(q) ==
  /\ Doing(q, "create")
  /\ ResellerCreate(work[q].user)
  /\ Finish(q)
  /\ UNCHANGED <<pricing, subs, apiKeys, hooks, touched>>

ApproveResellerRead(q, u) ==
  /\ GetByUserID(u) /\ reseller[u] # "approved"
  /\ Accept(q, "approve", u, u, 0, 0)

ApproveResellerUpdate(q) ==
  LET u == work[q].user IN
  /\ Doing(q, "approve")
  /\ ResellerUpdateStatus(u, "approved")
  /\ FinishMoving(q, u)
  /\ UNCHANGED <<pricing, subs, apiKeys, hooks, touched>>

SuspendResellerRead(q, u) ==
  /\ GetByUserID(u) /\ reseller[u] # "suspended"
  /\ Accept(q, "suspend", u, u, 0, 0)

SuspendResellerUpdate(q) ==
  LET u == work[q].user IN
  /\ Doing(q, "suspend")
  /\ ResellerUpdateStatus(u, "suspended")
  /\ FinishMoving(q, u)
  /\ UNCHANGED <<pricing, subs, apiKeys, hooks, touched>>
-----------------------------------------------------------------------------
(* Pricing. *)

MarkupCap == 100

\* The checks of SetPricing, on what the request itself says.
Priceable(cost, floor, sell) ==
  /\ sell >= cost
  /\ floor > 0 => sell >= floor
  /\ sell <= cost * MarkupCap

SetPricing(u, p, cost, floor, sell) ==
  /\ Priceable(cost, floor, sell)
  /\ Upsert(u, p, cost, floor, sell)
  /\ UNCHANGED <<reseller, subs, apiKeys, hooks, work, touched>>
-----------------------------------------------------------------------------
(* Sub-accounts. *)

\* Mutant: the reseller only has to exist.
MayHaveSubAccountsKnown(u) == GetByUserID(u)

MayHaveSubAccounts(u) == reseller[u] = "approved"

CreateSubAccountRead(q, u, user, limit) ==
  /\ MayHaveSubAccounts(u)
  /\ Accept(q, "create_sub", u, user, 0, limit)

CreateSubAccountInsert(q) ==
  LET w == work[q] IN
  /\ Doing(q, "create_sub")
  /\ SubAccountCreate(w.user, w.sub, w.amount, w.moved)
  /\ Finish(q)
  /\ UNCHANGED <<reseller, pricing, apiKeys, hooks, touched>>

SetCreditLimitRead(q, u, user, limit) ==
  /\ \E s \in subs : s.user = user /\ s.owner = u
  /\ Accept(q, "credit", u, user, 0, limit)

SetCreditLimitUpdate(q) ==
  LET w == work[q] IN
  /\ Doing(q, "credit")
  /\ SubUpdateCreditLimit(w.sub, w.amount)
  /\ \E s \in subs : s.user = w.sub /\ Touch(w.user, s.owner)
  /\ Finish(q)
  /\ UNCHANGED <<reseller, pricing, apiKeys, hooks>>
-----------------------------------------------------------------------------
(* API keys and webhooks. *)

CreateResellerKey(u) ==
  /\ Len(apiKeys) < MaxKeys
  /\ APIKeyCreate(u)
  /\ UNCHANGED <<reseller, pricing, subs, hooks, work, touched>>

RevokeResellerKeyList(q, u, k) ==
  k \in ListByReseller(u) /\ Accept(q, "revoke_reseller_key", u, u, k, 0)

RevokeResellerKeyUpdate(q) ==
  LET k == work[q].arg IN
  /\ Doing(q, "revoke_reseller_key")
  /\ APIKeyRevoke(k)
  /\ Touch(work[q].user, apiKeys[k].owner)
  /\ Finish(q)
  /\ UNCHANGED <<reseller, pricing, subs, hooks>>

CreateWebhook(u) ==
  /\ Len(hooks) < MaxKeys
  /\ WebhookCreate(u)
  /\ UNCHANGED <<reseller, pricing, subs, apiKeys, work, touched>>

DeleteWebhookRead(q, u, w) ==
  /\ WebhookGetByID(w) /\ hooks[w].owner = u
  /\ Accept(q, "delete_webhook", u, u, w, 0)

DeleteWebhookUpdate(q) ==
  LET w == work[q].arg IN
  /\ Doing(q, "delete_webhook")
  /\ WebhookDelete(w)
  /\ Touch(work[q].user, hooks[w].owner)
  /\ Finish(q)
  /\ UNCHANGED <<reseller, pricing, subs, apiKeys>>
-----------------------------------------------------------------------------
(* Handlers.  mustResellerID turns the user of the token into a reseller   *)
(* account of any status; such a row never goes away.                      *)

mustResellerID(u) == GetByUserID(u)

HandleAdminCreateReseller(q) ==
  (\E u \in Members : CreateResellerRead(q, u)) \/ CreateResellerInsert(q)

HandleAdminApprove(q) ==
  (\E u \in Members : ApproveResellerRead(q, u)) \/ ApproveResellerUpdate(q)

HandleAdminSuspend(q) ==
  (\E u \in Members : SuspendResellerRead(q, u)) \/ SuspendResellerUpdate(q)

\* The foreign key refuses an unknown reseller.
HandleAdminSetPricing ==
  \E u \in Members, p \in Products, cost, floor, sell \in Prices :
    Asked("admin_pricing") /\ GetByUserID(u) /\ SetPricing(u, p, cost, floor, sell)

\* cost_price and floor_price come from the reseller's request.
HandleSetPricing ==
  \E u \in Members, p \in Products, cost, floor, sell \in Prices :
    Asked("pricing") /\ mustResellerID(u) /\ SetPricing(u, p, cost, floor, sell)

HandleCreateSubAccount(q) ==
  \/ \E u, user \in Members, limit \in Limits :
       mustResellerID(u) /\ CreateSubAccountRead(q, u, user, limit)
  \/ CreateSubAccountInsert(q)

HandleSetUserCredit(q) ==
  \/ \E u, user \in Members, limit \in Limits :
       mustResellerID(u) /\ SetCreditLimitRead(q, u, user, limit)
  \/ SetCreditLimitUpdate(q)

HandleCreateResellerKey ==
  \E u \in Members :
    Asked("create_reseller_key") /\ mustResellerID(u) /\ CreateResellerKey(u)

HandleRevokeResellerKey(q) ==
  \/ \E u \in Members, k \in DOMAIN apiKeys :
       mustResellerID(u) /\ RevokeResellerKeyList(q, u, k)
  \/ RevokeResellerKeyUpdate(q)

HandleCreateWebhook ==
  \E u \in Members : Asked("create_webhook") /\ mustResellerID(u) /\ CreateWebhook(u)

HandleDeleteWebhook(q) ==
  \/ \E u \in Members, w \in DOMAIN hooks :
       mustResellerID(u) /\ DeleteWebhookRead(q, u, w)
  \/ DeleteWebhookUpdate(q)
-----------------------------------------------------------------------------
NoPrice == [on |-> FALSE, cost |-> 0, floor |-> 0, sell |-> 0, recosted |-> FALSE]

ResellersInit ==
  /\ reseller = [u \in Members |-> "absent"]
  /\ pricing = [up \in Members \X Products |-> NoPrice]
  /\ subs = {} /\ apiKeys = <<>> /\ hooks = <<>> /\ touched = {}
  /\ work = [q \in Calls |-> NoWork]

\* A statement fails or the client leaves: nothing more is written.
GiveUp(q) ==
  /\ work[q].op # "none"
  /\ Finish(q)
  /\ UNCHANGED <<reseller, pricing, subs, apiKeys, hooks, touched>>

ResellersNext ==
  \/ \E q \in Calls :
       \/ HandleAdminCreateReseller(q) \/ HandleAdminApprove(q)
       \/ HandleAdminSuspend(q) \/ HandleCreateSubAccount(q)
       \/ HandleSetUserCredit(q) \/ HandleRevokeResellerKey(q)
       \/ HandleDeleteWebhook(q) \/ GiveUp(q)
  \/ HandleAdminSetPricing \/ HandleSetPricing
  \/ HandleCreateResellerKey \/ HandleCreateWebhook

ResellersSpec ==
  /\ WorkloadInit /\ ResellersInit
  /\ [][ResellersNext /\ UNCHANGED workload]_<<resellersVars, workload>>
-----------------------------------------------------------------------------
Price == [on: BOOLEAN, cost: Nat, floor: Nat, sell: Nat, recosted: BOOLEAN]
SubAccount == [user: Members, owner: Members, credit: Nat, approved: BOOLEAN,
               moved: BOOLEAN]

ResellersTypeOK ==
  /\ reseller \in [Members -> ResellerStatuses \cup {"absent"}]
  /\ pricing \in [Members \X Products -> Price]
  /\ subs \subseteq SubAccount
  /\ apiKeys \in Seq([owner: Members, revoked: BOOLEAN])
  /\ hooks \in Seq([owner: Members, active: BOOLEAN])
  /\ work \in [Calls -> Work]
  /\ touched \subseteq Members \X Members

\* A stored price keeps its stored floor, and the cost and the cap as long as
\* every request named the same cost ("sell_price >= floor_price >= cost_price",
\* reseller_usecase.go:171): the row mixes the columns of several requests.
PriceSound ==
  \A up \in Members \X Products :
    LET p == pricing[up] IN
    /\ p.floor > 0 => p.sell >= p.floor
    /\ ~p.recosted => p.cost <= p.sell /\ p.sell <= p.cost * MarkupCap

\* Sub-accounts are for approved resellers: one that was not approved at the
\* INSERT lost the approval while the request was under way
\* (reseller_usecase.go:227-243 checks in one statement, inserts in another).
SubAccountsOfApproved == \A s \in subs : s.approved \/ s.moved

\* A request changes the sub-accounts, keys and webhooks of the reseller it
\* acts for and no other's, although the statement that writes names a bare id
\* (reseller_usecase.go:261, 352, webhook_usecase.go:60).
OwnersOnly == \A t \in touched : t[1] = t[2]
=============================================================================
