# Cloudmini Reseller: formal models and proofs

TLA+ modules that model the services under `src/`, the TLC runs that check them on
small instances, and proofs that TLAPS checks for every value of the constants.
`PROJECT.json` lists the components, runs, theorems, hazards, findings and, under
`map`, the source lines that every definition stands for.

## 1. Inventory

Go services behind an API gateway, one PostgreSQL schema each, HTTP between
proxy-service and billing-service, NATS JetStream for events.

| Part | State it keeps | Operations | What is hard | What makes it correct |
|---|---|---|---|---|
| Wallet, billing-service (`usecase/wallet_usecase.go`) | `billing.wallets` (balance, hold_amount), `billing.transactions` | Deduct, Hold, ConfirmHold, ReleaseHold, Credit | Overlapping requests on one row, statements outside the transaction, disconnecting callers, two pool connections per request | Never overdrawn; no update lost; the ledger explains the balance; events tell the truth |
| Deposits, billing-service (`usecase/pricing_usecase.go`) | `billing.payments` | CreateDeposit, HandleWebhook | A gateway webhook delivered twice, a failure between "completed" and Credit | A payment is credited exactly once |
| Prices, billing-service (same file) | `billing.pricing_rules` | CalculatePrice | Four reads of rules that change, errors taken for "no rule" | The most specific rule decides |
| Proxy orders, proxy-service (`usecase/*.go`) | `proxy.orders`, proxies at providers | CreateOrder, FulfillFromProxyCheap, CancelOrder, RenewOrder, LockOrder, UnlockOrder, PatchOrder, the expiry scheduler | A saga over three systems without locks, compensation, retries with an idempotency key, a scheduler on lists that grow stale | What is on hold and what is charged match the orders; a key buys once; nobody is served without credentials; orders settle and expire |
| Proxy providers (`internal/providers`) | the vendor's proxies | Purchase, Cancel, Suspend, Resume | Retries without an idempotency key, answers that are lost or come late, polls that end | A purchase leaves one proxy; what is reported is so |
| VPS, vps-service | `vps.instances`, `vps.nodes` (reserved cpu, ram, disk), jobs on NATS | CreateVPS, the provisioning worker, Start, Stop, Suspend, Resume, Terminate, hourly metering, wallet-empty handling | Capacity checked and reserved in two steps, jobs delivered again, a meter that races the lifecycle | No node oversold, resources come back, one job makes one VM |
| Proxmox pool and client (`infrastructure/proxmox`) | a map of nodes; tasks at Proxmox | StartVM ... DeleteVM, WaitForTask | A wait that ends before its task | A command reported as done is done |
| Accounts and sessions, user-service | `users.accounts`, `users.sessions`, `users.api_keys` | Register, Login, RefreshToken, Logout, profile, password, 2FA, API keys, status, role, delete | Count-then-create, concurrent refreshes, whole-row writes, tokens that outlive what they say | Session limit, one successor per token, demotion and deletion take effect, 2FA only with a proved secret |
| Authentication (`pkg/middleware`) | none: the JWT | Auth, RequireRole | Claims that grow stale | as above |
| Resellers, reseller-service | `resellers.accounts`, `pricing_overrides`, `sub_accounts`, `api_keys`, `webhooks` | Create, Approve, Suspend, SetPricing, CreateSubAccount, SetCreditLimit, keys, webhooks | Status checks apart from the INSERT, upserts that mix requests, UPDATEs that name a bare id | Only approved resellers get sub-accounts; prices keep their floors; nobody changes another's objects |
| log-service | `logs.entries`, the hub's clients | the consumer, the list, WebSocket clients | At-least-once delivery, a restart between INSERT and Ack, full channels | An acknowledged event is stored; nobody sees what is not theirs |
| `pkg/circuitbreaker`, `pkg/retry`, `pkg/ratelimit` | counters, open/half-open state, a Redis set | Execute, Do, Middleware | Calls that end in a state other than the one they began in, two clock readings | The half-open state lets a bounded number of probes through and does not wedge; a window lets Limit through |
| `pkg/nats` | streams | publish, consume | At-least-once delivery | modelled with the VPS worker and log-service |
| notification-service, api-gateway, frontend | none | | | left out: no state another part depends on |

Interaction: proxy-service calls billing-service over HTTP
(`/internal/billing/hold`, `confirm-hold`, `release-hold`, `calculate-price`)
with a 10 s timeout; it calls vendor APIs through `providers.Registry`; vendors
call its webhook; vps-service has its own billing adapter and a worker on NATS;
every service publishes events that notification-service and log-service consume;
every service checks the tokens that user-service issued.

The repository's tests cover two provider adapters (`proxy_cheap`, `vpm`); nothing
else is tested, so every hazard in `PROJECT.json` is one no test reaches.

## 2. Plan

1. `WalletOps`, `Wallet`, `AtomicWallet` with proofs - every purchase depends on it. **Done.**
2. `ProxyOrders`, `OrderLifecycle` with proofs, on top of `WalletOps`. **Done.**
3. `Deposits` on top of `Wallet`, and `Pricing`, with proofs. **Done.**
4. `Vps`: node reservations, the worker with redelivery, instance lifecycle, metering,
   with proofs. **Done**, except an abstract capacity specification and snapshots.
5. `Accounts` over `Platform`, and `Resellers`, with proofs. **Done.**
6. `CircuitBreaker`, `RateLimiter`, `Retry` with proofs. **Done.**
7. `Providers`, `Proxmox`, `Logs`, and `Services` that composes all of 3, 5, 6 and 7 with
   `Wallet`. **Done.**
8. Proofs of every safety property that a passing run checks, and of what the violated promises
   need in order to hold. **Done** (section 5). What remains are lemmas that would weaken the
   premises on overlapping requests in `HoldsAreMatched` and `PeriodsArePaid`.
9. Models that remain: the outgoing webhooks of resellers once something calls them,
   snapshots, notification-service.

No module declares a RECURSIVE operator; sums are `SumFunctionOnSet` of the community
modules, about which `Sums` proves what the proofs need.

## 3. The models

### Wallet (`WalletOps`, `Wallet`)

`WalletOps` holds what the five operations compute from a row: the checks
(`InvalidAmount`, `Insufficient`), and the two columns that `UpdateBalance` is called
with (`NewBalance`, `NewHold`, with ReleaseHold's floor at zero).

`Wallet` runs requests through `RunInTx`, one step per SQL statement:
`Refuse`, `Begin` (takes a connection), `Read` (SELECT ... FOR UPDATE and the checks),
`CreateWallet` (Credit's auto-create), `Write` (UPDATE), `Insert` (ledger row and the
alert goroutine), `Commit` (and the receipt), and `Abort` (a disconnect or an error at
any point).

What the model takes from the code, and a reader of the comments would not expect: the
wallet repository runs on `r.db` (billing_repo.go:42, 53) while only
`TransactionRepository.Create` uses the transaction from the context
(`txOrDB`, billing_repo.go:110). So `SELECT ... FOR UPDATE` locks nothing past its own
return, `UPDATE` commits by itself and survives a rollback, and each request needs two
connections. The foreign key of the ledger row (FOR KEY SHARE) is the one lock that
does last, and only another request's SELECT FOR UPDATE waits for it.

`row, opened` are `billing.wallets`, `ledger` the committed transactions, `published`
the events, `snap` the Go local `w`, `pc` the progress of each request. `wrote`,
`opening`, `credits`, `debits`, `posted` are history variables that the properties
read and no action does.

`AtomicWallet` is what the comments promise: one atomic application per request;
an error leaves the caller not knowing.

### Proxy orders (`ProxyOrders`)

One step per statement on `proxy.orders`, per call to billing-service and per call
to a provider. Three helpers give every step its outcomes:

- `Save`: a statement; with "db" in `Faults` it may report an error, and may have run
  all the same.
- `Bill`: a request to billing-service; with "billing" in `Faults` its answer may be
  lost, applied or not.
- `Tell`: Suspend, Resume or Cancel at the provider, best effort as in the code.

| Variable | Code |
|---|---|
| `orders` | `proxy.orders`: status, provider_order_id (set or not), credentials (set or not), expires_at, custom_expires_at, custom_price; `granted` is history |
| `terms` | request and product: price, duration_days, adapter kind, idempotency key |
| `wallet` | the row of the one user of the run |
| `resource` | each order's proxy at the vendor |
| `pc` | the goroutine of each CreateOrder |
| `call` | open requests on existing orders, with the row they read |
| `sweep` | the scheduler: list, and order being worked on |
| `now` | days |

CreateOrder is `Lookup`, `Insert`, `HoldFunds`, `Purchase`, then `Activate` and
`ConfirmFunds` (synchronous vendor) or `SaveRef` and `MarkProcessing` (asynchronous),
with `ReleaseFunds` and `MarkFailed` as the compensation. Cancel, renew, lock, unlock
and the webhook are `Read` followed by their steps; the guard of `Read` (`Admits`) is
the code's status checks, and what follows uses `call[c].seen`, the row as it was read.
The scheduler is `ListExpired` ... `EndTick`.

Choices worth knowing:

- A crash, or a request context cancelled in the middle, is every later call failing;
  `Faults` covers it and no action of its own is needed.
- A call that its checks refuse changes nothing and is left out.
- One billing call is one step on the wallet. That is `AtomicWallet`; `Wallet` shows
  that it implements it only while requests do not overlap. The two models are kept
  apart on purpose: what the saga does wrong on a perfect wallet is the saga's.
- The asynchronous path is modelled from `CreateOrder` and `FulfillFromProxyCheap`. As
  wired it is not reached: `main.go` registers `proxy_cheap` under its name and
  `CreateOrder` looks up a provider UUID (the "none" adapter of the model); and the
  webhook passes the proxy's id (proxy_cheap/webhook.go:141) where the adapter stored the
  order's.
- The queries name `custom_price`, `custom_expires_at` and `admin_note`, which no file
  under `src/migrations` adds; the model takes the columns as they are queried.
- RenewOrder's last UpdateOrder clears the custom price too, though its comment speaks
  of the expiry only (order_usecase.go:428-433).

`OrderLifecycle` is the abstract specification: status and stored credentials, one
change per operation, cancelled and failed terminal.

### VPS (`Vps`)

| Variable | Code |
|---|---|
| `reserved` | `reserved_ram_mb` of `vps.nodes`; disk is treated alike and left out, and no check looks at cpu |
| `inst` | `vps.instances`: status, node, billing_started_at, last_billed_at, terminated_at |
| `vm` | the machines that exist in Proxmox |
| `key`, `pc` | each CreateVPS: its idempotency key, how far it is |
| `job` | its message on the stream: queued, fetched, acked or dropped, and its deliveries |
| `worker` | the one goroutine of `StartConsumer`, inside `RunProvisionWorker` |
| `call` | open requests on instances, and the suspensions of `HandleWalletEmpty` |
| `round` | `RunHourlyMeter`: its time, the rows it listed with their last_billed_at |
| `reported`, `restarts`, `lost` | history that only properties read, and the bound on restarts |

CreateVPS is `Lookup`, `SelectNode`, `ReserveNode`, `Insert`, `Hold`, `Publish`, with
`MarkRefused` and `ReleaseNode` as its compensation. The worker is `Fetch`, `Load`,
`MarkProvisioning`, `CreateVM`, `StartVM`, `Boot`, `Activate`, `Ack`; a failing step leads
to `MarkFailed` and `ReleaseFailed` (which releases `Refund`, zero in the code) and a
Nak, and the job comes back until `MaxDeliver`. `Restart` ends every goroutine and brings
fetched jobs back. Start, Stop, Suspend and Terminate are `Read`, `Command`,
`WriteStatus`, and `SoftDelete`; none looks at the row again after its command.
`Try` gives a statement its outcomes, as `Save` does for the orders.

What the code is wired to: `CreateVM` is a placeholder (main.go:193-198) and billing a stub
that never refuses (main.go:246-258), so the model follows the interfaces the usecases
call and lets billing refuse. With the migrations of the repository
`SELECT * FROM vps.nodes` returns columns that `domain.Node` has no field for
(migrations/000005:5-23, entity.go:44-60), which sqlx reports as an error; the model takes
the query by its intent. `Resume` has no caller, `Reboot` changes nothing that is kept,
and a plan that is missing or inactive ends CreateVPS before it changes anything.

### Deposits and prices (`Deposits`, `Pricing`)

`Deposits` extends `Wallet`: a delivery of a gateway's webhook is one of Wallet's
requests, which waits until `HandleWebhook` calls Credit. `HandleWebhookFind` is the lookup
and the check of the status, `HandleWebhookComplete` the unconditional `UpdateStatus`, and
then Credit runs through Wallet's own steps (`WalletStep`), where it may be cut off
(`WalletAbort`, which is where money is lost: the payment is marked). `hook[r].overtaken` is
history: another delivery marked the payment between this one's lookup and its update.

What the code is wired to: nothing writes `gateway_txn_id` before the webhook looks a
payment up by it, so as it stands every webhook is answered "not found";
`RecordGatewayTxnID` stands for whatever will store it. The amount of the webhook is
ignored by `HandleWebhook`, and so by the model. Failures of Credit that are not due to a
disconnect or the database do not exist: the amount of a payment is positive.

`Pricing` is `CalculatePrice`: up to four reads from the most specific scope down
(`FindRule`, `MissRule`, and `FailRule`, which the code cannot tell from a miss). Rules
change between the reads (`ChangeRules`; `UpsertRule` has no caller, so an operator does it).
Several active rules of one scope, which no constraint excludes, make the choice of
`LIMIT 1` arbitrary. Markups are assumed not to be negative; money is in units of
0.0001, to which the code rounds.

### Accounts and resellers (`Platform`, `Accounts`, `Resellers`)

`Platform` holds the JWT middleware: `Auth` accepts a token until it expires and
`RequireRole` believes the role in it. It also holds the workload of a behaviour (below).

`Accounts` has one step per SQL statement: no usecase of user-service opens a
transaction, so a request is a `call` that carries what it read, and `Lose` ends it
anywhere. Login is `LoginFind`, `LoginCount`, `LoginEvict`, `LoginSession`; refresh is
`RefreshGet`, `RefreshAccount`, `RefreshRevoke`, `RefreshSession`. A session row keeps the
access token handed out with it, so `LiveTokens` are the tokens clients hold, and each
handler's guard is that its caller holds one (`AsUser`, `AsAdmin`). `losses`, `confirmed`,
`chosen`, `raced` and the fields `alone` are history.

Worth knowing: 2FA is never asked for at login; a suspended user's refresh tokens go on
working (RefreshToken looks at deleted_at only); an e-mail can never be verified, since
the VerifyEmail of the file's comment does not exist, so a registered account logs in once
an administrator has set its status; a deleted e-mail cannot register again (UNIQUE);
the TOTP columns that the queries name are in no migration.

`Resellers` has the same shape: `Accept` is a request's first statement with its checks,
the second step writes. `pricing_overrides` rows mix the cost of the first request with the
floor and price of the last (`Repriced`), because ON CONFLICT leaves `cost_price` alone.
`touched` records whose object a request changed.

### Vendors, machines and logs (`Providers`, `Proxmox`, `Logs`)

`Providers` is the vpm adapter with its HTTP client (cpm is the same program for another
URL). `wire` holds requests that the proxy manager has not served; `Unanswered` sends a
request again up to `MaxTries` and leaves the old one on the wire, where it may be served
late. A purchase is a POST and then polls (`CreateAnswered`, `PollAnswered`,
`NoCredentials`, `PollFails`). `settled` is what the adapter's answers entitle a caller
to believe.

`Proxmox` is the pool's routing and the client: a command makes a task, the machine obeys
when the task ends (`Ends`), `WaitForTask` polls it (`TaskOver`) or gives up (`TimedOut`).
vps-service's `poolAdapter` answers CreateVM and CreateSnapshot with made-up task ids
(main.go:193-198); the model follows the client.

`Logs` is log-service: JetStream with `MaxDeliver`, the handler (`Fetched`, `PersistLog` or
`PersistFails`, `Broadcast`, `Ack`), restarts, the end of the loop when Fetch fails, the hub
and the clients with their pumps. User and role of a WebSocket client are what its query
string says (`Connect`). A client that goes away leaves its write pump waiting on a channel
that is never closed.

### Components of pkg (`CircuitBreaker`, `RateLimiter`, `Retry`)

`CircuitBreaker` takes the mutex before and after `fn`; a call may end in another state than
the one that admitted it, so `flight` tells the probes of the present half-open state
(`probe`), those of an earlier one (`late`) and those whose `fn` panicked and that stay
counted. `RateLimiter` reads the clock twice (`ReadClock`, `ReadClockAgain`), then runs the
script (`RunScript`); its unit of time is what Lua's `tostring` of a nanosecond stamp can
tell apart, 0.1 ms. When Redis fails the request goes on and nothing is stored, which
is no step. `Retry` is the loop of `Do` with its pauses.

### The services together (`Services`)

`Services` has the variables of all modules above but ProxyOrders and Vps, and a step of it is
a step of one of them. They share the members and no table, so what could be seen only
in the composition is small; what it adds is that each is run with the requests its
clients send. A behaviour has a workload (`MCWorkloads`): the operations its
clients use, how many requests they keep in flight and how many logins, purchases or
events they make. A service takes steps when a client uses it (`Used`), and what no
client uses starts in one state. A workload with deposits runs deliveries of `Deposits`, which
contain the wallet steps of their Credits; one with plain requests runs `Wallet` and leaves the
payments alone. `ServicesSpec` restricts the behaviours of each module's own specification
(`AccountsSpec` and so on) in no other way, and `ServicesSideBySide` proves that it implements
each of them.

## 4. The runs

| Run | Bounds | Shows |
|---|---|---|
| `wallet_concurrent` | 1 user, 3 requests of any kind, amounts 0 (deductions only) and 1, opening 0..2, 2 in flight, faults | what holds without locks: solvency, snapshots that pay, the balance between its bounds, events backed, requests end |
| `wallet_serial` | 3 wallet requests, amounts 1..2 and deductions of 0, one at a time, faults; and the services of `MCWorkloads`, 2 members, 3 requests in flight at most | `ImplementsAtomicWallet`; the 17 invariants of the table below |
| `wallet_lost_update` | 2 overlapping requests, no faults | **violation** of `NoLostUpdate` |
| `wallet_partial_commit` | 2 requests, one at a time, faults | **violation** of `LedgerExplainsBalance` |
| `proxy_saga` | 2 orders, keys "" and "k", sync and async vendors that may refuse or sell and report an error, renewals, webhook, scheduler, 4 overlapping, 3 days, opening 1 or 3 | holds match orders, charges match periods, one purchase per key; orders settle and overdue ones leave |
| `proxy_lifecycle` | 1 order, every operation, one at a time, no faults, 4 days, custom prices and dates, duration 0 (none) and 1 | the lifecycle is implemented; the provider agrees |
| `proxy_chaos` | 1 order, 2 open requests, every operation, every fault, 2 overlapping | credentials and solvency survive everything |
| `proxy_terminal` | 1 saga, 1 cancellation, no faults | **violation** of `TerminalStays` |
| `proxy_cancel_hold` | 2 orders, cancellation, no faults | **violation** of `RefundsOwnHold` |
| `vps_chaos` | 1 instance, 2 open requests (Start, Suspend, Terminate), 2 deliveries, 1 restart, 2 hours, every fault | machines are covered by reservations, what is metered has a machine, no hour is lost, nothing is reported after termination |
| `vps_orders` | 2 orders, keys "" and "k", 2 nodes with room for one each, 3 deliveries, Proxmox fails | refused orders give back what they reserved; every job settles |
| `vps_overcommit` | 2 orders, 1 node with room for one, no faults | **violation** of `NodesNotOvercommitted` |

`wallet_serial` checks `Services`. Its workloads, by the properties they are for:

| Properties | Workloads | Bounds |
|---|---|---|
| `ImplementsAtomicWallet` | wallet | amounts 1..2 and deductions of 0, opening 0..2, one at a time |
| `CreditedOnce`, `CompletedIsCredited` | deposit | 1 payment, 3 deliveries, in any overlap up to Credit, whose transactions are one at a time |
| `PriceByRule` | price | a rule of each scope or none, 1 request |
| `SessionsBounded`, `RotatedOnce` | login, refresh, logout, wait; login, refresh, wait; login, refresh | limit 1 session, TTL 1; 2 sessions ever and 2 in flight, with time; 3 sessions ever, with time one at a time, without time 2 in flight |
| `StaleClaimsBounded`, `DeletedLosesAccess` | login, refresh, role, wait, one at a time; login, refresh, delete, wait, 2 in flight | access TTL 1, refresh TTL 1, or 2 for administrators, clock 0..2 |
| `EnabledSecretConfirmed` | login, setup, enable, disable, admin_disable | 2 secrets, 2 in flight |
| `PasswordKept` | login, profile, password | 2 passwords, 2 in flight |
| `SubAccountsOfApproved` | create, approve, suspend, create_sub | 2 members, 2 in flight |
| `BoughtOnce`, `AnswersTrue` | Purchase, Cancel; Purchase, Suspend, Resume; Purchase | 2 tries (3 in the code), 1 purchase with 2 in flight, or 2 purchases one at a time |
| `TasksTrue` | the eight commands | 1 node, in the pool or not, 2 or 3 tasks, 2 in flight |
| `EntriesFaithful` | event, watch | 2 events without clients or 1 with a client, 2 deliveries, channel of 1 |
| `ProbesBounded`, `WindowLimit` | execute; limited; retry | 3 callers, 2 failures open, 2 probes; 2 per window of 3 units, clock to 4 |

Two tries are enough for a late answer to meet its repetition, and two deliveries for an
event to come back after its INSERT; a session limit of 1 is exceeded by the second login;
a horizon of 2 with a TTL of 1 covers the instant of expiry, where `After` is strict and
`expires_at > NOW()` is not the same; a client with a channel of 1 misses an entry when its
pump is slow. The clock of `Accounts` moves where clients wait. Every workload includes the
failures of its module. TLC counts `ServicesNext` as one action; its expression coverage
shows no part of the added modules' actions unevaluated.

Why the other bounds are enough to be interesting: a lost update needs two requests and a
third shows what happens after it; 1 in `Openings` makes the second hold of a run fail,
3 lets two orders and a renewal through; the horizon covers activation, expiry, a
renewal and the end of the grace period (1 day, where the code has 72 h, and 0 in the
chaos run); two hours let a round of the meter end after the next began to be due, and
two hours reported of an instance let a lost update report one of them twice; two
deliveries make a second attempt on what the first left, and two requests let a
Terminate and a Start meet over one machine. Equal keys and distinct orders are both among the initial states.
`CHECK_DEADLOCK FALSE` is in every cfg: a run ends when its requests are served and
the clock has reached `Horizon`.

Symmetry is used where only safety is checked (`RequestSymmetry` of `wallet_serial`,
whose requests are the calls of every service and whose refinement has no liveness part, and `CallSymmetry` of `proxy_chaos` and `vps_chaos`).

### Fairness

`Wallet`: weak fairness of each request's next statement - a goroutine that can run
does. `Abort` is not fair: nobody owes the service a disconnect.
`ProxyOrders`: weak fairness of each saga, of each open request and of the scheduler,
which is a ticker in a goroutine of its own (main.go:228). Arrivals of requests, PATCH and
`Tick` are not fair. The liveness properties are checked without "db" faults: the code
ignores a failing `UpdateStatus`, and an order then does stay pending.
`Vps`: weak fairness of each CreateVPS and of the consumer loop (main.go:99), which is
checked without "nats" faults: a Fetch that fails ends the loop (nats.go:128). Requests on
instances, the meter, `Tick` and `Restart` are not fair.

`ServicesSpec` has no fairness and no liveness property: the services it adds promise none that
their code keeps. The consumer of log-service ends for good when Fetch fails, and nothing
makes the code deliver a lost credit; a breaker recovers only if somebody calls it.

### What the violations show

- `wallet_lost_update`: "Uses SELECT FOR UPDATE to prevent race conditions"
  (wallet_usecase.go:84) - both requests read before either writes.
- `wallet_partial_commit`: "All mutations run inside DB transactions"
  (wallet_usecase.go:20) - the balance is committed, the ledger row rolled back.
- `proxy_terminal`: "cancelled/failed/refunded are terminal" (order_usecase.go:311) - an
  order cancelled while its purchase is under way becomes active.
- `proxy_cancel_hold`: "Refund only if order is still active (billing hold not yet
  confirmed ...)" (order_usecase.go:333) - CancelOrder releases the price of an active
  order, whose hold CreateOrder already confirmed (:242). ReleaseHold takes it from what
  is on hold for another order, whose own ConfirmHold is then refused, and ignored.
- `vps_overcommit`: "Resource reservation để tránh overcommit" (docs/06-VPS-SERVICE.md:18),
  "Reserve resources (atomic)" (provision_usecase.go:141) - both orders select the node
  before either reserves it, and the UPDATE has no condition (vps_repo.go:103-108).

## 5. The proofs

Every invariant and action property that a passing run checks is a theorem. "Always" in the last
column means: for every value of the constants that the module's assumption allows, any number of
users, orders, requests, nodes or events, every overlap and every fault of the model.

| Module | Theorem | Property, and when it holds |
|---|---|---|
| `BillingProofs` | `TypeCorrect`, `WalletStaysSolvent`, `UpdatesAccepted`, `BalanceStaysBetween`, `EventsAlwaysBacked` | `TypeOK`, `Solvent`, `SnapshotsPay`, `BalanceBetween`, `EventsBacked`, always |
| | `SerialRefinement`, `NothingLostInTurn` | `Spec` implements `AtomicWallet`, and `NoLostUpdate`, for `MaxInFlight = 1`, all faults included |
| | `LedgerExplainsInTurn` | `LedgerExplainsBalance` for `MaxInFlight = 1` and no fault |
| | `DepositsTypeCorrect`, `AlwaysCreditedOnce`, `CompletedAlwaysCredited`, `PriceAlwaysByRule` | `CreditedOnce`, `CompletedIsCredited`, `PriceByRule`, always |
| `ProxyOrdersProofs` | `TypeCorrect`, `WalletStaysSolvent`, `DeliveredWithCredentials`, `OneKeyOnePurchase` | `TypeOK`, `WalletSolvent`, `ServedHasCredentials`, `OnePurchasePerKey`, always |
| | `FollowsLifecycle`, `TerminalWhenAlone` | `Spec` implements `OrderLifecycle`, and `TerminalStays`, for `MaxInFlight = 1` and a database that answers; billing and vendors may fail |
| | `ProviderAlwaysAgrees` | `ProviderAgrees` for `MaxInFlight = 1`, a database and vendors that answer; billing may fail |
| `ProxyMoneyProofs` | `HoldsAreMatched` | `HoldsMatchOrders`, with premises (below) |
| | `PeriodsArePaid` | `PeriodsPaid`, with premises (below) |
| `VpsProofs` | `TypeCorrect`, `MeteredBacked`, `MachinesAreCovered`, `UsageAlwaysCovered`, `NeverUsageAfterTermination` | `TypeOK`, `MeteredHasMachine` (which excepts behaviours with a lost write or a restart itself), `ReservationsCoverMachines`, `UsageCovered`, `NoUsageAfterTermination`, always |
| | `RefusedAlwaysGiveBack` | `RefusedGiveBack` while the database and NATS answer and vps-service is not restarted; Proxmox and billing may fail |
| | `NeverOvercommittedInTurn` | `NodesNotOvercommitted` while no request selects a node that another one has selected and not reserved yet; every fault |
| `MembersProofs` | `AccountsTypeCorrect`, `TotpAlwaysConfirmed`, `PasswordAlwaysKept`, `AlwaysRotatedOnce`, `ClaimsAlwaysBounded`, `DeletedAlwaysOut`, `SessionsAlwaysBounded` | `EnabledSecretConfirmed`, `PasswordKept`, `RotatedOnce`, `StaleClaimsBounded`, `DeletedLosesAccess`, `SessionsBounded`, always |
| | `ResellersTypeCorrect`, `PricesAlwaysSound`, `SubAccountsAlwaysOfApproved`, `OwnersAlwaysOnly` | `SubAccountsOfApproved`, and `PriceSound` and `OwnersOnly`, which no run needs to check any more, always |
| `ServicesProofs` | `BreakerInvariant`, `ProbesAlwaysBounded`, `ClosedAlwaysBelow`, `LimiterInvariant`, `WindowAlwaysLimited`, `RetryInvariant` | `ProbesBounded`, `WindowLimit`, always |
| | `TasksAlwaysTrue`, `BoughtAlwaysOnce`, `AnswersAlwaysTrue`, `EntriesAlwaysFaithful` | `TasksTrue`, `BoughtOnce`, `AnswersTrue`, `EntriesFaithful`, always |
| | `ServicesSideBySide`, `ServicesTypeCorrect`, `ServicesKeepTheirPromises` | the composition implements the specification of each component, so all of the above holds in it, with `ServicesTypeOK` |
| | `ServicesRefineWallet` | it implements `AtomicWallet` for `MaxInFlight = 1` |

`Sums` and `WalletOpsProofs` hold the lemmas that several of these rest on.

**Premises.** Some promises hold only under a condition, and the theorem names it.

- A condition on constants is an ASSUME: `MaxInFlight = 1`, `"db" \notin Faults`,
  `Restarts = 0`. `Reliable` of `ProxyMoneyProofs` is: the database and billing-service answer,
  and no order is cancelled (`proxy_cancel_hold` shows what a cancellation does to the holds).
  They are the constants of the runs that check the property, or weaker.
- A condition on which requests meet cannot be a constant; it is a temporal premise,
  `Spec /\ []P => []Q`, so the theorem speaks of the behaviours in which P stays true.
  `OneDelivery`: no two deliveries of one order's webhook overlap (two both confirm the hold).
  `NoOverlap`: no two requests on one existing order overlap (two renewals compute the same
  expiry and both charge); sagas, the scheduler and requests on different orders overlap freely.
  `OneSelection`: no two orders are between SelectNode and ReserveResources on one node.
  Each premise excludes a thing the code really does; the initial states satisfy all of them,
  and the runs `proxy_saga` (one open request) and `vps_orders` contain such behaviours.

`NothingLostInTurn`, `LedgerExplainsInTurn`, `TerminalWhenAlone` and `NeverOvercommittedInTurn` are
the other half of four violation runs: the run shows that the code breaks the promise, the theorem
which condition is enough to keep it, and so what a fix has to provide.

Assumptions: `BoundsAssumption` (Wallet), `ProxyAssumption` (ProxyOrders) and
`VpsAssumption` (Vps), and one of each of the other modules (`PlatformAssumption`,
`AccountsAssumption`, `ResellersAssumption`, `PricingAssumption`, `BreakerAssumption`,
`LimiterAssumption`, `RetryAssumption`, `ProvidersAssumption`, `ProxmoxAssumption`,
`LogsAssumption`), which TLC evaluates in the runs.

**Sums.** What is on hold is a sum over orders and renewals, what a node has reserved one over the
orders on it, and steps change the set summed over. `Sums` proves what happens to a sum when an
element enters, leaves or changes its value. The library's induction theorems cannot be used
(they take an operator), so the induction over a finite set is by a minimal counterexample: a
family of finite sets that is not empty has a smallest member by cardinality (`MinimalSubset`).

**Wallet.** `Solvent` is not inductive by itself: a request that has read keeps a snapshot
and later writes what it computed from it. The invariant adds that every such snapshot is
solvent and covers its request (`SnapshotsPay`); then the UPDATE is solvent by
`WalletOpsProofs!UpdatedSolvent`, whatever has happened to the row meanwhile - that both
columns come from one snapshot is the reason lost updates cannot break the CHECK
constraints. The bounds on the balance need the same for the snapshot's balance. Events need
`WroteByStage`: a request has written exactly when it is past its UPDATE, so a receipt, which
follows the COMMIT, finds its ledger row, and an alert the write that made the balance zero.
For the refinement, the invariant says that with one transaction at a time the snapshot
is the current row. The ledger then explains the balance up to the one request that has
written and not committed (`Owing`, `Explained`).

**Proxy orders.** `ServedHasCredentials` needs to know why an operation that sets a
delivered status, without looking at the row again, finds credentials there. The
invariant `IInv` adds: a saga in an early stage has stored none (`EarlyWithout`, which
is why `SaveRef` may clear them); an order waits for the webhook only when its saga is
over (`ProcessingDone`); a request that was admitted by a delivered row still has
credentials under it (`OpenBacked`), and so has everything on the scheduler's list
(`SweptBacked`). Steps are split into those that carry what was read along (`Carries`,
one lemma per actor) and the two that take a fresh reading (`ReadKeeps`,
`ListExpiredKeeps`). The wallet part is `WalletStep`, from the same `UpdatedSolvent`.

*Keys.* The lookup of an idempotency key and the INSERT are two statements; what makes a key buy
once is the UNIQUE constraint, and that only a placed order is bought. `KeysDistinct`: placed
orders have different keys. `Backed`: whatever is past its INSERT - a saga, an open request, an
entry of the scheduler - belongs to a placed order, so no step brings an unplaced one to life.

*Money.* `StageInv` ties stages to rows: credentials are stored only at the end of a saga or after
it, and an order that waits for the webhook has none (`OrderStages`); a delivery of the webhook
finds its order waiting and leaves it with credentials (`CallStages`, where `OneDelivery` is
needed); the scheduler lists delivered orders (`SweepStages`). With it each
step moves an order or a renewal into or out of the sum of what is on hold by the amount the
wallet moves (`Held`, `Charged`, `Released`); in particular a release never meets the floor
at zero. `PeriodsPaid` speaks of the moments when no order is between a period and its charge;
`BooksBalance` says the same of every moment, up to the periods granted and not confirmed
and the renewals confirmed and not extended. `RenewalsCurrent` says that until a renewal extends,
the order has the expiry that the renewal read, and `ExpiriesRun` that an order expires at its first
expiry or later, so that periods can be counted from the two. `Unpatched` is why "patch" is
excluded: a custom price or date changes what a period is.

*Lifecycle and provider.* With one thing under way (`Alone`) the row is what the one that works on
it last read or wrote: `SagaFits`, `CallFits` and `SweepFits` give the status for each stage, from
which each step is one of the abstract lifecycle's or a stutter. `AgreeInv` says that row and
vendor disagree only between a command and the statement that follows it (`Touched`).

**VPS.** `TypeOK` is not inductive: that no job is delivered more often than `MaxDeliver`
needs `JobsDue` (a queued job has a delivery left, the worker's job is fetched, a CreateVPS
under way has published nothing). `MeteredHasMachine` speaks of rows that are running;
the invariant `RunningBacked` adds whoever is about to write "running": the worker after
it saw the machine boot, and a request after its command was accepted. All are
`Backed`: the machine is there, or a Terminate that deleted it will set terminated_at,
or has. `BackedStays` shows that no step takes this away; it is where the property would
break if Terminate stopped after its status.

*Reservations.* A machine belongs to an order that was handed to the worker (`MachinesHanded`), and
a node has reserved at least what all orders past their reservation ask for (`ReservedCovers`);
nothing after the handover releases, so the first is part of the second's sum. `RefusedGiveBack`
is the equation that holds when no statement is lost, proved step by step as the sum moves
(`Reserved`, `Released`). Not to be oversold needs one more thing: while an order is between
selection and reservation, its node still has room for it (`RoomLeft`), and this is where a
second selection would break it.

*Metering.* `UsageInv` follows an hour from the list to the row: stored times are not in the future
(`TimesPast`); what a round is about to report reaches back to what was reported before, or the
instance was activated after the round began (`RoundReports`); what it has reported covers
the time it is about to store (`RoundReported`); and it lists only rows that are there, not
terminated before it began (`RoundPlaced`, `RoundLive`).

**Deposits.** `DepositsInv` says where each delivery can be: one that is still waiting has not
touched the wallet (`DeliveriesWait`), what one looked up is there (`LookedUp`) and has an owner
with a wallet and an amount (`PaymentsOpen`), so nothing but a cut can fail its Credit
(`CreditsGoOn`); a mark means a completed payment (`MarkedCompleted`) and the other way
round (`CompletedMarked`). The core is `MarkedOnce`: of two deliveries of one payment of which one
has marked it without having been overtaken, the other has been overtaken if it got past the lookup.
It breaks where `Unprocessed` stops looking at the status. For prices, `RulesAhead`: an
undisturbed call has asked for every rule in force but those from its level on.

**Accounts.** `Overlaps` makes the history field `alone` mean what it says. `Totp` adds that an
`EnableTOTP` on its way to the UPDATE carries a confirmed secret, which is why any overlap
of setups and enables is harmless. `Claims` bounds not only tokens but what every request will
claim: it read the role at most a tick before it issues (`LateBy`), which is the second
chance a demoted user has and the reason the bound is AccessTTL after the loss and not
AccessTTL after the request. `Rotation` adds that a session with a successor is revoked
and that a refresh still under way overlapped the one that made the successor. The session limit is
a bound on a cardinality: `LoginFits` says that a login no other request overlapped, once it has
counted or evicted, leaves room for its own session, and `RefreshFits` that such a refresh takes
the place of the one it revoked.

**Resellers.** `WorkApproved`: a request for a sub-account saw an approved reseller, or the status
was written since. `WorkOnOwn` and `SubAccountsUnique`: owners never change, so the check at the
read still counts when a bare id is written.

**Vendors.** `BuyInv` keeps purchases apart: whatever is on the wire, asked or bought names a known
purchase, and two callers never ask for the same one (`AsksApart`, `WireKnown`,
`PurchasesKnown`). `CountInv` is the reason for `BoughtOnce`: POSTs on the wire and proxies of a
purchase together are at most one more than the tries nobody answered, because serving one
turns a POST into a proxy and only an unanswered one is sent again. `TruthInv`: a proxy that a
purchase has found and not returned is nobody else's (`Fresh`); while a command that met no
other is under way, what the wire holds for its proxy are its own tries, and its effect
shows from the time it was done (`Met`); what callers were told of a proxy is so, and no
request left on the wire can undo it (`Told`).

**Proxmox.** A task has an exit code exactly when it is over (`ExitsAtEnd`), and until then nothing
is known of its machine (`UnknownAtWork`). A task that met no other has none beside it that
runs (`AloneAtWork`), and once it ended well its effect still shows (`AloneShows`). Callers
poll tasks that there are (`WaitersPoll`), so a poll that reports success saw one that ended well.

**Logs.** `DueLeft` and `ConsumerAt` relate deliveries and rows: an event the consumer has not stored
has one delivery more than rows, and one it has just stored has the last row. `RowsOf` then
gives an acknowledged event a row and bounds the rows of each. `Sees` says that what is in a
client's channel or was sent to it is in the log and not kept from its user and role.

**Components of pkg.** The breaker's invariant ties the counter to the calls: in the half-open state
the probes under way are counted at least once each, and in the other states fewer than the
limit are still counted, so that `EnterHalfOpen` cannot exceed it. It shows why the counter
that `toOpen` does not reset is harmless: the end of a probe takes its own count away before
it opens the breaker. The limiter's says that every admitted stamp that can share a window
with the newest is in the sorted set, whose size therefore bounds the window.

**Services.** A step of the composition is a step of one component and leaves the variables of the
others unchanged, which is a stutter of theirs (`ServicesStepOthers`). Only billing-service is not
that plain: its wallet and its deposits run as one (`ServicesStepBilling`, `ServicesRunBilling`). A
step of `Deposits` is a step of `Wallet` or leaves it alone; and without deposits every
request is a plain one (`PlainRequests`), so that a step of `Wallet` is one of `Deposits`.

Only model-checked: the liveness properties `EveryRequestEnds`, `EveryOrderSettles`,
`OverdueOrdersLeave` and `EveryJobSettles`, since weak fairness speaks of ENABLED, which these
provers do not handle. `RefundsOwnHold` of `proxy_cancel_hold` is false in the code, and true only without
the operation it is about, so there is no theorem on it.

## 6. Not covered

- notification-service, api-gateway and the frontend: they forward, and keep no state.
- Outgoing webhooks of resellers: `DeliverToReseller` and `deliverWithRetry` have no caller, and
  the repository never loads the events a webhook subscribed to. `ValidateAPIKey` and the
  account's `UpdateCreditLimit` have no caller either.
- `resellers.accounts` has columns the Go struct does not have, which sqlx reports as an error on
  SELECT *; as for vps.nodes the model takes the query by its intent.
- `mapError` of reseller-service asserts the type of an error that is always wrapped; which
  status code a refusal has is not modelled.
- The breaker, the limiter and `Do` are checked as components; no service imports them.
- The HTTP client of proxy_cheap, pages and filters of lists, wording of entries.
- Clock skew between services: `Accounts` and the middleware share one clock.
- Pool exhaustion: with as many open transactions as connections every request waits for
  a second one until its caller gives up. `EveryRequestEnds` is checked with a pool one
  larger than the number of open requests.
- Two renewals of one order at the same time: both compute the same expiry and both charge.
  The saga run has one open request on existing orders.
- Two deliveries of one webhook at the same time: both confirm the hold.
- Reservations are never given back after provisioning: fail() releases zero and Terminate
  releases nothing, so nodes fill up for good. `RefusedGiveBack` counts these reservations
  as kept; no text of the repository that a run could quote promises more.
- A success whose Ack is lost is delivered again, CreateVM fails on the existing machine,
  and the running instance becomes failed, and is no longer metered.
- `HandleWalletEmpty` sees only the first 100 instances of a user, and Start puts an
  instance on the meter before its provisioning is over. Random vmids may collide.
- Snapshots, the console and the handlers' authorisation of vps-service.
- Collisions of the 16-bit suffix of order numbers, and wording of events and logs.
- Rounding of decimal amounts: amounts are integers of the smallest unit.
