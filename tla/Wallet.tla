------------------------------- MODULE Wallet -------------------------------
(***************************************************************************)
(* The wallet of billing-service: usecase/wallet_usecase.go over           *)
(* repository/postgres/billing_repo.go.  A request is one HTTP call that   *)
(* ends in Deduct, Hold, ConfirmHold, ReleaseHold or Credit; each runs as  *)
(* RunInTx(read row; update row; insert ledger row), and every SQL         *)
(* statement is one step.                                                  *)
(*                                                                         *)
(* The wallet statements use the pool (r.db), not the transaction that     *)
(* RunInTx opened: SELECT ... FOR UPDATE gives its lock back as it         *)
(* returns, and UPDATE commits on its own.  Only the ledger INSERT goes    *)
(* through the transaction.                                                *)
(***************************************************************************)
EXTENDS WalletOps, FiniteSets

CONSTANTS
  Users,        \* wallet owners
  Requests,     \* the HTTP requests of the run, each served once
  Amounts,      \* bound: the amounts that requests carry
  MaxOpening,   \* bound: the largest balance a wallet starts the run with
  LowThreshold, \* lowBalanceThreshold
  PoolSize,     \* MaxOpenConns of the connection pool
  MaxInFlight,  \* how many requests the callers keep open at a time
  Faults        \* TRUE when callers may disconnect and statements may fail

ASSUME BoundsAssumption ==
  /\ Amounts \subseteq Nat /\ MaxOpening \in Nat /\ LowThreshold \in Nat
  /\ PoolSize \in Nat \ {0} /\ MaxInFlight \in Nat \ {0}
  /\ Faults \in BOOLEAN
  /\ IsFiniteSet(Requests)

VARIABLES
  row,       \* billing.wallets: balance and hold_amount of each user
  opened,    \* the users who have a row in billing.wallets
  req,       \* what each request asks for
  pc,        \* how far each request is
  snap,      \* the row a request read (the local w of the Go code)
  ledger,    \* the requests whose row is committed to billing.transactions
  published, \* events handed to NATS
  wrote,     \* history: the requests whose UPDATE took effect
  opening,   \* history: the balances the run started with
  credits,   \* history: the amounts of the Credits whose UPDATE ran
  debits,    \* history: those of the Deducts and ConfirmHolds
  posted     \* history: the net amount of each user's committed ledger rows

walletVars == <<row, opened, wrote, opening, credits, debits>>
ledgerVars == <<ledger, posted, published>>
vars == <<row, opened, req, pc, snap, ledger, published, wrote, opening,
          credits, debits, posted>>

\* Every caller in the repository passes an order total, an adjustment's
\* absolute value, or 0 (fail() of the provisioning worker releases 0).
Request == [kind: Kinds, user: Users, amt: Amounts]

Final == {"done", "failed"}
InTx == {"begun", "creating", "read", "written", "inserted"}
Stages == {"arrived"} \cup InTx \cup Final
Topics == {"charged", "deposited", "wallet_low", "wallet_empty"}
-----------------------------------------------------------------------------
\* Events sent once RunInTx has returned.
Receipts(r) ==
  IF req[r].kind = "deduct" THEN {<<"charged", r>>}
  ELSE IF req[r].kind = "credit" THEN {<<"deposited", r>>}
  ELSE {}

\* Mutant: the receipt goes out with the alerts.
AlertsWithReceipt(r) == Receipts(r)

\* A deduction that leaves little alerts before its transaction commits.
Alerts(r) ==
  LET left == NewBalance(req[r], snap[r])
  IN  IF req[r].kind # "deduct" \/ left > LowThreshold THEN {}
      ELSE IF left = 0 THEN {<<"wallet_empty", r>>} ELSE {<<"wallet_low", r>>}
-----------------------------------------------------------------------------
(***************************************************************************)
(* Connections and row locks.  An open transaction holds one connection;   *)
(* a statement on r.db needs another for as long as it runs.               *)
(***************************************************************************)

\* Mutant: an error path that does not roll back.
HoldingLeaked == {r \in Requests : pc[r] \in InTx \cup {"failed"}}

Holding == {r \in Requests : pc[r] \in InTx}
ConnFree == Cardinality(Holding) < PoolSize

\* INSERT INTO transactions takes FOR KEY SHARE on the referenced wallet until
\* its transaction ends; SELECT ... FOR UPDATE waits for it, UPDATE of the
\* amounts does not.
KeyShared(u) == \E r \in Requests : pc[r] = "inserted" /\ req[r].user = u

Goto(r, stage) == pc' = [pc EXCEPT ![r] = stage]
-----------------------------------------------------------------------------
TypeOK ==
  /\ row \in [Users -> Row]
  /\ opened \in SUBSET Users
  /\ req \in [Requests -> Request]
  /\ pc \in [Requests -> Stages]
  /\ snap \in [Requests -> Row]
  /\ ledger \in SUBSET Requests
  /\ published \in SUBSET (Topics \X Requests)
  /\ wrote \in SUBSET Requests
  /\ opening \in [Users -> Int]
  /\ credits \in [Users -> Int]
  /\ debits \in [Users -> Int]
  /\ posted \in [Users -> Int]

\* A wallet starts the run with what its past deposits left in it.
Init ==
  /\ row \in [Users -> {w \in [bal: 0 .. MaxOpening, hold: 0 .. MaxOpening] :
                          SolventRow(w)}]
  /\ opened \in SUBSET Users
  /\ \A u \in Users \ opened : row[u] = EmptyRow
  /\ req \in [Requests -> Request]
  /\ pc = [r \in Requests |-> "arrived"]
  /\ snap = [r \in Requests |-> EmptyRow]
  /\ ledger = {}
  /\ published = {}
  /\ wrote = {}
  /\ opening = [u \in Users |-> row[u].bal]
  /\ credits = [u \in Users |-> 0]
  /\ debits = [u \in Users |-> 0]
  /\ posted = [u \in Users |-> 0]

\* ErrInvalidAmount, before any transaction is opened.
Refuse(r) ==
  /\ pc[r] = "arrived" /\ InvalidAmount(req[r])
  /\ Goto(r, "failed")
  /\ UNCHANGED <<req, snap, walletVars, ledgerVars>>

\* RunInTx: BeginTxx takes a connection and keeps it.
Begin(r) ==
  /\ pc[r] = "arrived" /\ ~InvalidAmount(req[r])
  /\ ConnFree
  /\ Cardinality(Holding) < MaxInFlight
  /\ Goto(r, "begun")
  /\ UNCHANGED <<req, snap, walletVars, ledgerVars>>

\* Mutant: the balance is compared, the holds on it are forgotten.
AffordsFromBalance(r) == row[req[r].user].bal >= req[r].amt

\* The check that an operation makes on the row it has just read.
Affords(r) == ~Insufficient(req[r], row[req[r].user])

\* GetByUserIDForUpdate on a second connection, and the checks made on the
\* row it returns; an error rolls the transaction back.
Read(r) ==
  LET u == req[r].user
  IN  /\ pc[r] = "begun" /\ ConnFree /\ ~KeyShared(u)
      /\ IF u \in opened
         THEN IF Affords(r)
              THEN Goto(r, "read") /\ snap' = [snap EXCEPT ![r] = row[u]]
              ELSE Goto(r, "failed") /\ snap' = snap
         ELSE /\ Goto(r, IF req[r].kind = "credit" THEN "creating" ELSE "failed")
              /\ snap' = snap
      /\ UNCHANGED <<req, walletVars, ledgerVars>>

\* Credit opens a wallet for a user without one.  user_id is UNIQUE: when a
\* concurrent Credit got there first the INSERT fails.
CreateWallet(r) ==
  LET u == req[r].user
  IN  /\ pc[r] = "creating" /\ ConnFree
      /\ IF u \in opened
         THEN Goto(r, "failed") /\ UNCHANGED <<row, opened, snap>>
         ELSE /\ opened' = opened \cup {u}
              /\ row' = [row EXCEPT ![u] = EmptyRow]
              /\ snap' = [snap EXCEPT ![r] = EmptyRow]
              /\ Goto(r, "read")
      /\ UNCHANGED <<req, wrote, opening, credits, debits, ledgerVars>>

\* UpdateBalance, committed as it runs.  The CHECK constraints of
\* billing.wallets never reject it (Solvent).
Write(r) ==
  LET u == req[r].user
  IN  /\ pc[r] = "read" /\ ConnFree
      /\ row' = [row EXCEPT ![u] = Updated(req[r], snap[r])]
      /\ wrote' = wrote \cup {r}
      /\ credits' = [credits EXCEPT ![u] = @ + CreditOf(req[r])]
      /\ debits' = [debits EXCEPT ![u] = @ + DebitOf(req[r])]
      /\ Goto(r, "written")
      /\ UNCHANGED <<opened, opening, req, snap, ledgerVars>>

\* txnRepo.Create, on the transaction's own connection, and the goroutine
\* that Deduct starts before it commits.
Insert(r) ==
  /\ pc[r] = "written"
  /\ published' = published \cup Alerts(r)
  /\ Goto(r, "inserted")
  /\ UNCHANGED <<req, snap, walletVars, ledger, posted>>

\* tx.Commit, and the receipt that follows it.
Commit(r) ==
  /\ pc[r] = "inserted"
  /\ ledger' = ledger \cup {r}
  /\ posted' = [posted EXCEPT ![req[r].user] = @ + Delta(req[r], snap[r])]
  /\ published' = published \cup Receipts(r)
  /\ Goto(r, "done")
  /\ UNCHANGED <<req, snap, walletVars>>

\* The caller goes away (the HTTP client of proxy-service gives up after 10s)
\* or a statement fails: the context or the error rolls the transaction
\* back, which undoes the INSERT and nothing else.
Abort(r) ==
  /\ Faults
  /\ pc[r] \in {"arrived"} \cup InTx
  /\ Goto(r, "failed")
  /\ UNCHANGED <<req, snap, walletVars, ledgerVars>>

Serve(r) == \/ Refuse(r) \/ Begin(r) \/ Read(r) \/ CreateWallet(r)
            \/ Write(r) \/ Insert(r) \/ Commit(r)

Next == \E r \in Requests : Serve(r) \/ Abort(r)

\* A goroutine that can run does; nobody owes the system a disconnect.
Fairness == \A r \in Requests : WF_vars(Serve(r))

Spec == Init /\ [][Next]_vars
FairSpec == Spec /\ Fairness
-----------------------------------------------------------------------------
(***************************************************************************)
(* Properties that hold whatever the interleaving.                         *)
(***************************************************************************)

\* Every wallet satisfies the CHECK constraints of billing.wallets and never
\* holds more than it has.  It survives lost updates because UpdateBalance
\* always writes both columns of one snapshot (wallet_usecase.go:104, 180,
\* 219, 259, 316).
Solvent == \A u \in Users : SolventRow(row[u])

\* A row a request is about to update was solvent and still pays for it, so
\* the UPDATE it issues cannot break a CHECK constraint.
SnapshotsPay ==
  \A r \in Requests : pc[r] = "read" =>
    SolventRow(snap[r]) /\ ~Insufficient(req[r], snap[r])

\* However requests overwrite each other, a wallet never shows more money
\* than was ever written into it, nor less than what the deductions and
\* confirmations leave of its start (UpdateBalance, billing_repo.go:51).
BalanceBetween ==
  \A u \in Users : /\ row[u].bal <= opening[u] + credits[u]
                   /\ row[u].bal >= opening[u] - debits[u]

\* A receipt is sent for a committed ledger row only; an alert about an empty
\* wallet only once some UPDATE has set that balance to zero
\* (wallet_usecase.go:126-142, 340).
EventsBacked ==
  \A r \in Requests :
    /\ <<"charged", r>> \in published \/ <<"deposited", r>> \in published => r \in ledger
    /\ <<"wallet_empty", r>> \in published => r \in wrote /\ NewBalance(req[r], snap[r]) = 0

\* No request waits for ever: every transaction that takes a connection gives
\* it back, and the pool is larger than the number of open requests.
EveryRequestEnds == \A r \in Requests : <>(pc[r] \in Final)
-----------------------------------------------------------------------------
(***************************************************************************)
(* Properties of a wallet whose requests do not overlap.                   *)
(***************************************************************************)

\* "Uses SELECT FOR UPDATE to prevent race conditions"
\* (wallet_usecase.go:84): no UPDATE loses another, so a balance is what was
\* written into the wallet less what was written out of it.
NoLostUpdate == \A u \in Users : row[u].bal = opening[u] + credits[u] - debits[u]

\* "All mutations run inside DB transactions" (wallet_usecase.go:20): with no
\* transaction open, the committed ledger rows add up to the balance.
LedgerExplainsBalance ==
  Holding = {} => \A u \in Users : row[u].bal = opening[u] + posted[u]

\* Requests that do not overlap take effect atomically: an implementation of
\* AtomicWallet, in which a request is applied by its UPDATE.
Outcome == [r \in Requests |->
  IF pc[r] = "done" THEN "ok"
  ELSE IF pc[r] = "failed" THEN "error"
  ELSE IF r \in wrote THEN "applied" ELSE "pending"]

Atomic == INSTANCE AtomicWallet WITH outcome <- Outcome
ImplementsAtomicWallet == Atomic!Spec
=============================================================================
