--------------------------- MODULE BillingProofs ----------------------------
(***************************************************************************)
(* Proofs about billing-service: the wallets, for any users, requests and  *)
(* amounts, and the deposits and the prices, for any payments, deliveries  *)
(* and rules; under any interleaving.                                      *)
(***************************************************************************)
EXTENDS Deposits, Pricing, WalletOpsProofs, FiniteSetTheorems

-----------------------------------------------------------------------------
(* Wallets. *)

\* A request past its read works for a user who has a row.
ReadersOpened ==
  \A r \in Requests : pc[r] = "read" => req[r].user \in opened

\* Only Credit opens a wallet.
CreatorsCredit ==
  \A r \in Requests : pc[r] = "creating" => req[r].kind = "credit"

UnopenedEmpty == \A u \in Users \ opened : row[u] = EmptyRow

\* What a request read lies between the bounds of BalanceBetween, and stays
\* there while others write: the bounds only move apart.
SnapshotsBetween ==
  \A r \in Requests : pc[r] = "read" =>
    /\ snap[r].bal <= opening[req[r].user] + credits[req[r].user]
    /\ snap[r].bal >= opening[req[r].user] - debits[req[r].user]

IInv ==
  /\ TypeOK
  /\ Solvent
  /\ SnapshotsPay
  /\ ReadersOpened
  /\ CreatorsCredit
  /\ UnopenedEmpty
  /\ BalanceBetween
  /\ SnapshotsBetween
-----------------------------------------------------------------------------
\* The wallet starts well typed: the rows are those of billing.wallets.
LEMMA TypeInit == Init => TypeOK
BY BoundsAssumption DEF Init, TypeOK, Row, EmptyRow, Request, Stages, Kinds

\* Every statement of the five operations keeps the types.
LEMMA TypeStep == TypeOK /\ [Next]_vars => TypeOK'
<1> SUFFICES ASSUME TypeOK, [Next]_vars PROVE TypeOK'
  OBVIOUS
<1> USE DEF TypeOK
<1>1. CASE UNCHANGED vars
  BY <1>1 DEF vars
<1>2. ASSUME NEW r \in Requests, Refuse(r) PROVE TypeOK'
  BY <1>2 DEF Refuse, Goto, walletVars, ledgerVars, Stages, Final
<1>3. ASSUME NEW r \in Requests, Begin(r) PROVE TypeOK'
  BY <1>3 DEF Begin, Goto, walletVars, ledgerVars, Stages, InTx
<1>4. ASSUME NEW r \in Requests, Read(r) PROVE TypeOK'
  <2>1. /\ UNCHANGED <<row, opened, req, wrote, opening, credits, debits,
                       ledger, posted, published>>
        /\ req[r].user \in Users
        /\ row[req[r].user] \in Row
    BY <1>4 DEF Read, walletVars, ledgerVars, Request
  <2>2. pc' \in [Requests -> Stages]
    BY <1>4 DEF Read, Goto, Stages, InTx, Final
  <2>3. snap' \in [Requests -> Row]
    BY <1>4, <2>1 DEF Read
  <2> QED BY <2>1, <2>2, <2>3
<1>5. ASSUME NEW r \in Requests, CreateWallet(r) PROVE TypeOK'
  <2>1. UNCHANGED <<req, wrote, opening, credits, debits, ledger, posted, published>>
    BY <1>5 DEF CreateWallet, ledgerVars
  <2>2. req[r].user \in Users /\ EmptyRow \in Row
    BY DEF Request, EmptyRow, Row
  <2>3. pc' \in [Requests -> Stages]
    BY <1>5 DEF CreateWallet, Goto, Stages, InTx, Final
  <2>4. snap' \in [Requests -> Row] /\ row' \in [Users -> Row] /\ opened' \in SUBSET Users
    BY <1>5, <2>2 DEF CreateWallet
  <2> QED BY <2>1, <2>3, <2>4
<1>6. ASSUME NEW r \in Requests, Write(r) PROVE TypeOK'
  <2>1. /\ req[r].kind \in Kinds /\ req[r].amt \in Nat
        /\ req[r].user \in Users /\ snap[r] \in Row
    BY BoundsAssumption DEF Request
  <2>2. Delta(req[r], snap[r]) \in Int /\ Updated(req[r], snap[r]) \in Row
    <3>0. /\ snap[r].bal \in Int /\ snap[r].hold \in Int /\ req[r].amt \in Nat
      BY <2>1, BoundsAssumption DEF Request, Row
    <3>1. NewBalance(req[r], snap[r]) \in Int /\ NewHold(req[r], snap[r]) \in Int
      BY <3>0 DEF NewBalance, NewHold
    <3> QED BY <2>1, <3>1, DeltaInt DEF Updated, Row
  <2>3. /\ UNCHANGED <<opened, opening, req, snap, ledger, posted, published>>
        /\ pc' \in [Requests -> Stages]
        /\ wrote' \in SUBSET Requests
        /\ row' \in [Users -> Row]
    BY <1>6, <2>1, <2>2 DEF Write, Goto, ledgerVars, Stages, InTx
  <2>4. credits' \in [Users -> Int] /\ debits' \in [Users -> Int]
    BY <1>6, <2>1, BalanceMoves DEF Write
  <2> QED BY <2>3, <2>4
<1>7. ASSUME NEW r \in Requests, Insert(r) PROVE TypeOK'
  <2>1. Alerts(r) \subseteq Topics \X Requests
    BY DEF Alerts, Topics
  <2> QED BY <1>7, <2>1 DEF Insert, Goto, walletVars, Stages, InTx
<1>8. ASSUME NEW r \in Requests, Commit(r) PROVE TypeOK'
  <2>1. Receipts(r) \subseteq Topics \X Requests
    BY DEF Receipts, Topics
  <2>2. Delta(req[r], snap[r]) \in Int
    <3>1. req[r].kind \in Kinds /\ req[r].amt \in Nat /\ snap[r] \in Row
      BY BoundsAssumption DEF Request
    <3> QED BY <3>1, DeltaInt
  <2>3. req[r].user \in Users
    BY DEF Request
  <2>4. posted' \in [Users -> Int]
    BY <1>8, <2>2, <2>3 DEF Commit
  <2> QED BY <1>8, <2>1, <2>4 DEF Commit, Goto, walletVars, Stages, Final
<1>9. ASSUME NEW r \in Requests, Abort(r) PROVE TypeOK'
  BY <1>9 DEF Abort, Goto, walletVars, ledgerVars, Stages, Final
<1> QED
  BY <1>1, <1>2, <1>3, <1>4, <1>5, <1>6, <1>7, <1>8, <1>9 DEF Next, Serve

\* Every variable of the wallet keeps its type.
THEOREM TypeCorrect == Spec => []TypeOK
BY TypeInit, TypeStep, PTL DEF Spec
-----------------------------------------------------------------------------
\* No request has read a row yet, so only the rows themselves matter.
LEMMA InvInit == Init => IInv
<1> SUFFICES ASSUME Init PROVE IInv
  OBVIOUS
<1>1. TypeOK
  BY TypeInit
<1>2. \A u \in Users : SolventRow(row[u]) /\ row[u].bal \in Int
  BY BoundsAssumption DEF Init
<1>3. \A r \in Requests : pc[r] # "read" /\ pc[r] # "creating"
  BY DEF Init
<1>4. BalanceBetween
  BY <1>2 DEF Init, BalanceBetween
<1> QED
  BY <1>1, <1>2, <1>3, <1>4 DEF IInv, Init, Solvent, SnapshotsPay, ReadersOpened,
     CreatorsCredit, UnopenedEmpty, SnapshotsBetween

\* A step that leaves the money alone and brings no request to "creating" or
\* "read".
LEMMA InvQuiet ==
  ASSUME IInv, TypeOK', UNCHANGED <<row, opened, req, snap, opening, credits, debits>>,
         \A r \in Requests : pc'[r] \in {"creating", "read"} => pc[r] = pc'[r]
  PROVE  IInv'
BY DEF IInv, Solvent, SnapshotsPay, ReadersOpened, CreatorsCredit, UnopenedEmpty, BalanceBetween,
       SnapshotsBetween

\* GetByUserIDForUpdate: the snapshot is the solvent row of that moment.
LEMMA InvRead == ASSUME IInv, TypeOK', NEW r \in Requests, Read(r) PROVE IInv'
<1>1. TypeOK
  BY DEF IInv
<1>2. UNCHANGED <<row, opened, req, opening, credits, debits>>
  BY DEF Read, walletVars
<1>3. /\ \A s \in Requests \ {r} : pc'[s] = pc[s] /\ snap'[s] = snap[s]
      /\ pc'[r] = "read" => /\ req[r].user \in opened
                            /\ snap'[r] = row[req[r].user]
                            /\ ~Insufficient(req[r], row[req[r].user])
      /\ pc'[r] = "creating" => req[r].kind = "credit"
  BY <1>1 DEF Read, Affords, Goto, TypeOK
<1>4. req[r].user \in Users
  BY <1>1 DEF TypeOK, Request
<1>5. Solvent' /\ UnopenedEmpty' /\ BalanceBetween'
  BY <1>2 DEF IInv, Solvent, UnopenedEmpty, BalanceBetween
<1>6. SnapshotsPay'
  BY <1>2, <1>3, <1>4 DEF IInv, SnapshotsPay, Solvent
<1>7. ReadersOpened' /\ CreatorsCredit'
  BY <1>2, <1>3 DEF IInv, ReadersOpened, CreatorsCredit
<1>8. SnapshotsBetween'
  BY <1>2, <1>3, <1>4 DEF IInv, SnapshotsBetween, BalanceBetween
<1> QED BY <1>5, <1>6, <1>7, <1>8 DEF IInv

\* Opening a wallet writes an empty row where there was none.
LEMMA InvCreateWallet ==
  ASSUME IInv, TypeOK', NEW r \in Requests, CreateWallet(r)
  PROVE  IInv'
<1>1. TypeOK /\ req[r].user \in Users /\ req[r].kind = "credit"
  BY DEF IInv, TypeOK, Request, CreatorsCredit, CreateWallet
<1>2. UNCHANGED <<req, opening, credits, debits>>
  BY DEF CreateWallet, ledgerVars
<1>3. row' = row /\ opened \subseteq opened'
  BY <1>1 DEF CreateWallet, IInv, UnopenedEmpty, TypeOK
<1>4. /\ \A s \in Requests \ {r} : pc'[s] = pc[s] /\ snap'[s] = snap[s]
      /\ pc'[r] = "read" => /\ req[r].user \in opened'
                            /\ req[r].user \in Users \ opened
                            /\ snap'[r] = EmptyRow
      /\ pc'[r] # "creating"
  BY <1>1 DEF CreateWallet, Goto, TypeOK
<1>5. Solvent' /\ UnopenedEmpty' /\ BalanceBetween'
  BY <1>2, <1>3 DEF IInv, Solvent, UnopenedEmpty, BalanceBetween
<1>6. SnapshotsPay'
  <2>1. SolventRow(EmptyRow) /\ ~Insufficient(req[r], EmptyRow)
    BY <1>1 DEF SolventRow, EmptyRow, Insufficient
  <2> QED BY <1>2, <1>4, <2>1 DEF IInv, SnapshotsPay
<1>7. ReadersOpened' /\ CreatorsCredit'
  BY <1>2, <1>3, <1>4 DEF IInv, ReadersOpened, CreatorsCredit
<1>8. SnapshotsBetween'
  <2>1. req[r].user \in Users \ opened => row[req[r].user] = EmptyRow
    BY DEF IInv, UnopenedEmpty
  <2> QED BY <1>1, <1>2, <1>4, <2>1 DEF IInv, SnapshotsBetween, BalanceBetween
<1> QED BY <1>5, <1>6, <1>7, <1>8 DEF IInv

\* UpdateBalance: the row it writes is computed from a snapshot that may be
\* stale, and is solvent and within the bounds all the same.
LEMMA InvWrite == ASSUME IInv, TypeOK', NEW r \in Requests, Write(r) PROVE IInv'
<1> DEFINE u == req[r].user
           c == CreditOf(req[r])
           d == DebitOf(req[r])
<1>1. /\ TypeOK
      /\ u \in Users /\ req[r].kind \in Kinds /\ req[r].amt \in Nat /\ snap[r] \in Row
      /\ opening[u] \in Int /\ credits[u] \in Int /\ debits[u] \in Int
      /\ snap[r].bal \in Int
  BY BoundsAssumption DEF IInv, TypeOK, Request, Row
<1>2. c \in Nat /\ d \in Nat /\ NewBalance(req[r], snap[r]) = snap[r].bal + c - d
  BY <1>1, BalanceMoves
<1>3. /\ UNCHANGED <<opened, opening, req, snap>>
      /\ row' = [row EXCEPT ![u] = Updated(req[r], snap[r])]
      /\ credits' = [credits EXCEPT ![u] = @ + c]
      /\ debits' = [debits EXCEPT ![u] = @ + d]
      /\ pc[r] = "read"
      /\ \A s \in Requests : pc'[s] \in {"creating", "read"} => pc[s] = pc'[s] /\ s # r
  BY <1>1 DEF Write, Goto, TypeOK
<1>4. SolventRow(Updated(req[r], snap[r]))
  BY <1>1, <1>3, UpdatedSolvent DEF IInv, SnapshotsPay
<1>5. Solvent'
  BY <1>1, <1>3, <1>4 DEF IInv, Solvent, TypeOK
<1>6. SnapshotsPay' /\ ReadersOpened' /\ CreatorsCredit'
  BY <1>3 DEF IInv, SnapshotsPay, ReadersOpened, CreatorsCredit
<1>7. UnopenedEmpty'
  <2>1. u \in opened
    BY <1>3 DEF IInv, ReadersOpened
  <2> QED BY <1>1, <1>3, <2>1 DEF IInv, UnopenedEmpty, TypeOK
<1>8. \A v \in Users : credits'[v] >= credits[v] /\ debits'[v] >= debits[v]
  BY <1>1, <1>2, <1>3 DEF TypeOK
<1>9. BalanceBetween'
  <2>1. /\ snap[r].bal <= opening[u] + credits[u]
        /\ snap[r].bal >= opening[u] - debits[u]
    BY <1>3 DEF IInv, SnapshotsBetween
  <2>2. /\ credits'[u] = credits[u] + c
        /\ debits'[u] = debits[u] + d
        /\ row'[u].bal = snap[r].bal + c - d
    BY <1>1, <1>2, <1>3 DEF TypeOK, Updated
  <2>3. /\ row'[u].bal <= opening[u] + credits'[u]
        /\ row'[u].bal >= opening[u] - debits'[u]
    BY <1>1, <1>2, <2>1, <2>2
  <2>4. ASSUME NEW v \in Users, v # u
        PROVE  /\ row'[v].bal <= opening[v] + credits'[v]
               /\ row'[v].bal >= opening[v] - debits'[v]
    BY <1>1, <1>3, <2>4 DEF IInv, BalanceBetween, TypeOK
  <2> QED BY <1>3, <2>3, <2>4 DEF BalanceBetween
<1>10. SnapshotsBetween'
  <2> SUFFICES ASSUME NEW s \in Requests, pc'[s] = "read"
               PROVE  /\ snap[s].bal <= opening[req[s].user] + credits'[req[s].user]
                      /\ snap[s].bal >= opening[req[s].user] - debits'[req[s].user]
    BY <1>3 DEF SnapshotsBetween
  <2> DEFINE v == req[s].user
  <2>1. /\ v \in Users /\ snap[s].bal \in Int /\ opening[v] \in Int
        /\ credits[v] \in Int /\ debits[v] \in Int
        /\ credits'[v] \in Int /\ debits'[v] \in Int
    BY <1>1 DEF TypeOK, Request, Row
  <2>2. snap[s].bal <= opening[v] + credits[v] /\ snap[s].bal >= opening[v] - debits[v]
    BY <1>3 DEF IInv, SnapshotsBetween
  <2>3. credits'[v] >= credits[v] /\ debits'[v] >= debits[v]
    BY <1>8, <2>1
  <2> QED BY <2>1, <2>2, <2>3
<1> QED BY <1>5, <1>6, <1>7, <1>9, <1>10 DEF IInv

\* Begin, Refuse, Insert, Commit and Abort neither read nor write the money.
LEMMA InvStep == IInv /\ [Next]_vars => IInv'
<1> SUFFICES ASSUME IInv, [Next]_vars PROVE IInv'
  OBVIOUS
<1>1. TypeOK /\ TypeOK'
  BY TypeStep DEF IInv
<1>2. CASE UNCHANGED vars
  BY <1>1, <1>2, InvQuiet DEF vars
<1>3. ASSUME NEW r \in Requests,
             Refuse(r) \/ Begin(r) \/ Insert(r) \/ Commit(r) \/ Abort(r)
      PROVE  IInv'
  <2>1. UNCHANGED <<row, opened, req, snap, opening, credits, debits>>
    BY <1>3 DEF Refuse, Begin, Insert, Commit, Abort, walletVars, ledgerVars
  <2>2. \A s \in Requests : pc'[s] \in {"creating", "read"} => pc[s] = pc'[s]
    BY <1>1, <1>3 DEF Refuse, Begin, Insert, Commit, Abort, Goto, TypeOK
  <2> QED BY <1>1, <2>1, <2>2, InvQuiet
<1> QED
  BY <1>1, <1>2, <1>3, InvRead, InvCreateWallet, InvWrite DEF Next, Serve

\* The inductive invariant holds of every run of the wallet.
LEMMA Invariance == Spec => []IInv
BY InvInit, InvStep, PTL DEF Spec

\* No interleaving of requests, disconnects and failures leaves a wallet that
\* breaks a CHECK constraint or holds more than it has.
THEOREM WalletStaysSolvent == Spec => []Solvent
BY Invariance, PTL DEF IInv

\* The UPDATE a request is about to issue is one the database accepts.
THEOREM UpdatesAccepted == Spec => []SnapshotsPay
BY Invariance, PTL DEF IInv

\* Lost updates never mint money, and never burn more than was spent.
THEOREM BalanceStaysBetween == Spec => []BalanceBetween
BY Invariance, PTL DEF IInv
-----------------------------------------------------------------------------
(* Events of the wallet. *)

\* A request has written exactly when it is past its UPDATE, unless it failed.
WroteByStage ==
  \A r \in Requests :
    /\ r \in wrote => pc[r] \in {"written", "inserted"} \cup Final
    /\ pc[r] \in {"written", "inserted"} => r \in wrote

EventsInv == TypeOK /\ WroteByStage /\ EventsBacked

LEMMA EventsInvInit == Init => EventsInv
BY TypeInit DEF Init, EventsInv, WroteByStage, EventsBacked

\* A step that sends nothing and leaves what was written alone.
LEMMA EventsQuiet ==
  ASSUME EventsInv, published' = published, ledger \subseteq ledger', wrote \subseteq wrote',
         req' = req, \A s \in wrote : snap'[s] = snap[s]
  PROVE  EventsBacked'
BY DEF EventsInv, EventsBacked

LEMMA EventsInvStep == EventsInv /\ [Next]_vars => EventsInv'
<1> SUFFICES ASSUME EventsInv, [Next]_vars PROVE EventsInv'
  OBVIOUS
<1>0. TypeOK /\ TypeOK'
  BY TypeStep DEF EventsInv
<1>1. CASE UNCHANGED vars
  BY <1>0, <1>1 DEF vars, EventsInv, WroteByStage, EventsBacked
<1>2. ASSUME NEW r \in Requests,
             Refuse(r) \/ Begin(r) \/ Read(r) \/ CreateWallet(r) \/ Write(r) \/ Abort(r)
      PROVE  EventsInv'
  <2>1. /\ published' = published /\ ledger' = ledger /\ req' = req
        /\ wrote' = IF Write(r) THEN wrote \cup {r} ELSE wrote
    BY <1>2 DEF Refuse, Begin, Read, CreateWallet, Write, Abort, walletVars, ledgerVars
  <2>2. \A s \in Requests \ {r} : pc'[s] = pc[s] /\ snap'[s] = snap[s]
    BY <1>0, <1>2 DEF Refuse, Begin, Read, CreateWallet, Write, Abort, Goto, TypeOK
  <2>3. \/ /\ r \notin wrote /\ ~Write(r)
           /\ pc[r] \notin {"written", "inserted"} /\ pc'[r] \notin {"written", "inserted"}
        \/ Write(r) /\ pc'[r] = "written" /\ snap' = snap
        \/ ~Write(r) /\ pc'[r] = "failed" /\ snap' = snap
    BY <1>0, <1>2 DEF EventsInv, WroteByStage, Refuse, Begin, Read, CreateWallet, Write,
         Abort, Goto, TypeOK, Final
  <2>4. WroteByStage'
    BY <2>1, <2>2, <2>3 DEF EventsInv, WroteByStage, Final
  <2>5. EventsBacked'
    <3>1. wrote \subseteq wrote' /\ \A s \in wrote : snap'[s] = snap[s]
      BY <1>0, <2>1, <2>2, <2>3 DEF TypeOK
    <3> QED BY <2>1, <3>1, EventsQuiet
  <2> QED BY <1>0, <2>4, <2>5 DEF EventsInv
<1>3. ASSUME NEW r \in Requests, Insert(r) \/ Commit(r) PROVE EventsInv'
  <2>1. /\ req' = req /\ snap' = snap /\ wrote' = wrote /\ r \in wrote
    BY <1>3 DEF Insert, Commit, walletVars, EventsInv, WroteByStage
  <2>2. /\ \A s \in Requests \ {r} : pc'[s] = pc[s]
        /\ pc'[r] \in {"inserted", "done"}
    BY <1>0, <1>3 DEF Insert, Commit, Goto, TypeOK
  <2>3. WroteByStage'
    BY <2>1, <2>2 DEF EventsInv, WroteByStage, Final
  <2>4. /\ ledger' = IF Commit(r) THEN ledger \cup {r} ELSE ledger
        /\ \/ Insert(r) /\ published' = published \cup Alerts(r)
           \/ Commit(r) /\ published' = published \cup Receipts(r)
    BY <1>3 DEF Insert, Commit
  <2>5. ASSUME NEW s \in Requests PROVE
          /\ <<"wallet_empty", s>> \in Alerts(r) =>
               s = r /\ NewBalance(req[r], snap[r]) = 0
          /\ <<"charged", s>> \notin Alerts(r) /\ <<"deposited", s>> \notin Alerts(r)
          /\ <<"wallet_empty", s>> \notin Receipts(r)
          /\ <<"charged", s>> \in Receipts(r) => s = r
          /\ <<"deposited", s>> \in Receipts(r) => s = r
    BY DEF Alerts, Receipts
  <2>6. EventsBacked'
    BY <2>1, <2>4, <2>5 DEF EventsInv, EventsBacked
  <2> QED BY <1>0, <2>3, <2>6 DEF EventsInv
<1> QED BY <1>1, <1>2, <1>3 DEF Next, Serve

\* A receipt has its ledger row, and an alert about an empty wallet an UPDATE
\* that emptied it.
THEOREM EventsAlwaysBacked == Spec => []EventsBacked
BY EventsInvInit, EventsInvStep, PTL DEF Spec, EventsInv
-----------------------------------------------------------------------------
(***************************************************************************)
(* Requests that do not overlap: the refinement.                           *)
(***************************************************************************)

\* At most one request is inside its transaction, and what it read is still
\* what the wallet shows; a request has written exactly when its stage says
\* so, and a request past the first check asked for a valid amount.
SerialInv ==
  /\ \A r, s \in Holding : r = s
  /\ \A r \in Requests : pc[r] = "read" => snap[r] = row[req[r].user]
  /\ \A r \in Requests : /\ pc[r] \in {"written", "inserted", "done"} => r \in wrote
                         /\ pc[r] \in {"arrived", "begun", "creating", "read"} => r \notin wrote
                         /\ pc[r] \in InTx => ~InvalidAmount(req[r])

\* A request that begins while at most one may be open finds none open.
LEMMA NobodyElse ==
  ASSUME MaxInFlight = 1, Cardinality(Holding) < MaxInFlight
  PROVE  Holding = {}
<1>1. IsFiniteSet(Holding)
  BY FS_Subset, BoundsAssumption DEF Holding
<1>2. Cardinality(Holding) \in Nat /\ (Cardinality(Holding) = 0 <=> Holding = {})
  BY <1>1, FS_CardinalityType, FS_EmptySet
<1> QED BY <1>2

\* Before the first request nothing is read or written.
LEMMA SerialInit == Init => SerialInv
BY DEF Init, SerialInv, Holding, InTx

\* Without overlap a snapshot stays current until it is used.
LEMMA SerialStep ==
  ASSUME MaxInFlight = 1, IInv, SerialInv, [Next]_vars
  PROVE  SerialInv'
<1>1. TypeOK /\ TypeOK'
  BY TypeStep DEF IInv
<1>2. CASE UNCHANGED vars
  BY <1>2 DEF vars, SerialInv, Holding
<1>3. ASSUME NEW r \in Requests, Refuse(r) \/ Insert(r) \/ Commit(r) \/ Abort(r)
      PROVE  SerialInv'
  <2>1. UNCHANGED <<row, req, snap, wrote>>
    BY <1>3 DEF Refuse, Insert, Commit, Abort, walletVars, ledgerVars
  <2>2. /\ \A s \in Requests \ {r} : pc'[s] = pc[s]
        /\ \/ pc[r] = "written" /\ pc'[r] = "inserted"
           \/ pc[r] = "inserted" /\ pc'[r] = "done"
           \/ pc'[r] = "failed"
    BY <1>1, <1>3 DEF Refuse, Insert, Commit, Abort, Goto, TypeOK
  <2>3. Holding' \subseteq Holding
    BY <2>2 DEF Holding, InTx
  <2>4. \A s \in Requests : pc'[s] = "read" => pc[s] = "read"
    BY <2>2
  <2> QED BY <2>1, <2>2, <2>3, <2>4 DEF SerialInv, InTx
<1>4. ASSUME NEW r \in Requests, Begin(r) PROVE SerialInv'
  <2>1. Holding = {} /\ ~InvalidAmount(req[r]) /\ pc[r] = "arrived"
    BY <1>4, NobodyElse DEF Begin
  <2>2. UNCHANGED <<row, req, snap, wrote>>
    BY <1>4 DEF Begin, walletVars
  <2>3. pc'[r] = "begun" /\ \A s \in Requests \ {r} : pc'[s] = pc[s]
    BY <1>1, <1>4 DEF Begin, Goto, TypeOK
  <2>4. Holding' = {r}
    BY <2>1, <2>3 DEF Holding, InTx
  <2> QED BY <2>1, <2>2, <2>3, <2>4 DEF SerialInv, InTx
<1>5. ASSUME NEW r \in Requests, Read(r) PROVE SerialInv'
  <2>1. UNCHANGED <<row, req, wrote>> /\ pc[r] = "begun"
    BY <1>5 DEF Read, walletVars
  <2>2. /\ \A s \in Requests \ {r} : pc'[s] = pc[s] /\ snap'[s] = snap[s]
        /\ pc'[r] \in {"read", "creating", "failed"}
        /\ pc'[r] = "read" => snap'[r] = row[req[r].user]
    BY <1>1, <1>5 DEF Read, Goto, TypeOK
  <2>3. Holding' \subseteq Holding
    BY <2>1, <2>2 DEF Holding, InTx
  <2> QED BY <2>1, <2>2, <2>3 DEF SerialInv, InTx
<1>6. ASSUME NEW r \in Requests, CreateWallet(r) PROVE SerialInv'
  <2>1. row' = row /\ UNCHANGED <<req, wrote>> /\ pc[r] = "creating"
    BY <1>1, <1>6 DEF CreateWallet, IInv, UnopenedEmpty, TypeOK, Request
  <2>2. /\ \A s \in Requests \ {r} : pc'[s] = pc[s] /\ snap'[s] = snap[s]
        /\ pc'[r] \in {"read", "failed"}
        /\ pc'[r] = "read" => req[r].user \in Users \ opened /\ snap'[r] = EmptyRow
    BY <1>1, <1>6 DEF CreateWallet, Goto, TypeOK, Request
  <2>3. Holding' \subseteq Holding
    BY <2>1, <2>2 DEF Holding, InTx
  <2>4. pc'[r] = "read" => snap'[r] = row[req[r].user]
    BY <2>2 DEF IInv, UnopenedEmpty
  <2> QED BY <2>1, <2>2, <2>3, <2>4 DEF SerialInv, InTx
<1>7. ASSUME NEW r \in Requests, Write(r) PROVE SerialInv'
  <2>1. UNCHANGED <<req, snap>> /\ pc[r] = "read" /\ wrote' = wrote \cup {r}
    BY <1>7 DEF Write
  <2>2. pc'[r] = "written" /\ \A s \in Requests \ {r} : pc'[s] = pc[s]
    BY <1>1, <1>7 DEF Write, Goto, TypeOK
  <2>3. Holding' = Holding /\ r \in Holding
    BY <2>1, <2>2 DEF Holding, InTx
  <2>4. \A s \in Requests : pc'[s] # "read"
    BY <2>2, <2>3 DEF SerialInv, Holding, InTx
  <2> QED BY <2>1, <2>2, <2>3, <2>4 DEF SerialInv, InTx
<1> QED
  BY <1>2, <1>3, <1>4, <1>5, <1>6, <1>7 DEF Next, Serve

\* The two modules share WalletOps.
LEMMA SameOps ==
  /\ Atomic!Kinds = Kinds
  /\ \A q : Atomic!InvalidAmount(q) <=> InvalidAmount(q)
  /\ \A q, w : /\ Atomic!Insufficient(q, w) <=> Insufficient(q, w)
              /\ Atomic!Updated(q, w) = Updated(q, w)
  /\ \A w : Atomic!SolventRow(w) <=> SolventRow(w)
BY DEF Atomic!Kinds, Kinds, Atomic!InvalidAmount, InvalidAmount, Atomic!Insufficient,
       Insufficient, Atomic!Available, Available, Atomic!Updated, Updated,
       Atomic!NewBalance, NewBalance, Atomic!NewHold, NewHold, Atomic!SolventRow,
       SolventRow

\* Every step of the wallet is a step of AtomicWallet or changes nothing there.
LEMMA SerialMaps ==
  ASSUME MaxInFlight = 1, IInv, SerialInv, [Next]_vars
  PROVE  [Atomic!Next]_(Atomic!vars)
<1> USE DEF Atomic!Next, Atomic!vars, Atomic!Apply, Atomic!Succeed, Atomic!Fail,
            Atomic!Settle
<1>1. TypeOK /\ TypeOK'
  BY TypeStep DEF IInv
<1>2. CASE UNCHANGED vars
  BY <1>2 DEF vars, Outcome
<1>3. ASSUME NEW r \in Requests, Refuse(r) \/ Abort(r)
      PROVE  [Atomic!Next]_(Atomic!vars)
  <2>1. UNCHANGED <<row, req, wrote>> /\ pc[r] \notin Final
    BY <1>3 DEF Refuse, Abort, walletVars, Final, InTx
  <2>2. pc' = [pc EXCEPT ![r] = "failed"]
    BY <1>3 DEF Refuse, Abort, Goto
  <2>3. Outcome[r] \in {"pending", "applied"} /\ Outcome' = [Outcome EXCEPT ![r] = "error"]
    BY <1>1, <2>1, <2>2 DEF Outcome, Final, TypeOK
  <2> QED BY <2>1, <2>3
<1>4. ASSUME NEW r \in Requests, Begin(r) \/ Insert(r)
      PROVE  [Atomic!Next]_(Atomic!vars)
  <2>1. UNCHANGED <<row, req, wrote>>
    BY <1>4 DEF Begin, Insert, walletVars
  <2>2. Outcome' = Outcome
    BY <1>1, <1>4, <2>1 DEF Begin, Insert, Goto, Outcome, TypeOK
  <2> QED BY <2>1, <2>2
<1>5. ASSUME NEW r \in Requests, Read(r) \/ CreateWallet(r)
      PROVE  [Atomic!Next]_(Atomic!vars)
  <2>1. UNCHANGED <<row, req, wrote>>
    BY <1>1, <1>5 DEF Read, CreateWallet, walletVars, IInv, UnopenedEmpty, TypeOK, Request
  <2>2. /\ pc[r] \in {"begun", "creating"}
        /\ \/ pc' = [pc EXCEPT ![r] = "failed"]
           \/ pc' = [pc EXCEPT ![r] = "read"]
           \/ pc' = [pc EXCEPT ![r] = "creating"]
    BY <1>5 DEF Read, CreateWallet, Goto
  <2>3. CASE pc' = [pc EXCEPT ![r] = "failed"]
    <3>1. Outcome[r] = "pending" /\ Outcome' = [Outcome EXCEPT ![r] = "error"]
      BY <1>1, <2>1, <2>2, <2>3 DEF Outcome, TypeOK, SerialInv
    <3> QED BY <2>1, <3>1
  <2>4. CASE pc' = [pc EXCEPT ![r] = "read"] \/ pc' = [pc EXCEPT ![r] = "creating"]
    <3>1. Outcome' = Outcome
      BY <1>1, <2>1, <2>2, <2>4 DEF Outcome, TypeOK
    <3> QED BY <2>1, <3>1
  <2> QED BY <2>2, <2>3, <2>4
<1>6. ASSUME NEW r \in Requests, Write(r) PROVE [Atomic!Next]_(Atomic!vars)
  <2>1. /\ pc[r] = "read" /\ req' = req
        /\ wrote' = wrote \cup {r} /\ pc' = [pc EXCEPT ![r] = "written"]
        /\ row' = [row EXCEPT ![req[r].user] = Updated(req[r], snap[r])]
    BY <1>6 DEF Write, Goto
  <2>2. snap[r] = row[req[r].user] /\ ~InvalidAmount(req[r]) /\ r \notin wrote
    BY <2>1 DEF SerialInv, InTx
  <2>3. ~Insufficient(req[r], row[req[r].user])
    BY <2>1, <2>2 DEF IInv, SnapshotsPay
  <2>4. Outcome[r] = "pending" /\ Outcome' = [Outcome EXCEPT ![r] = "applied"]
    BY <1>1, <2>1, <2>2 DEF Outcome, TypeOK
  <2>5. Atomic!Apply(r)
    BY <2>1, <2>2, <2>3, <2>4, SameOps
  <2> QED BY <2>5
<1>7. ASSUME NEW r \in Requests, Commit(r) PROVE [Atomic!Next]_(Atomic!vars)
  <2>1. /\ UNCHANGED <<row, req, wrote>> /\ pc[r] = "inserted"
        /\ pc' = [pc EXCEPT ![r] = "done"] /\ r \in wrote
    BY <1>7 DEF Commit, Goto, walletVars, SerialInv
  <2>2. Outcome[r] = "applied" /\ Outcome' = [Outcome EXCEPT ![r] = "ok"]
    BY <1>1, <2>1 DEF Outcome, TypeOK
  <2> QED BY <2>1, <2>2
<1> QED
  BY <1>2, <1>3, <1>4, <1>5, <1>6, <1>7 DEF Next, Serve

\* The wallets a run starts with are ones AtomicWallet starts with.
LEMMA SerialMapsInit == Init => Atomic!Init
<1> SUFFICES ASSUME Init PROVE Atomic!Init
  OBVIOUS
<1>1. \A u \in Users : row[u] \in {w \in [bal: Nat, hold: Nat] : SolventRow(w)}
  BY BoundsAssumption DEF Init
<1>2. row \in [Users -> {w \in [bal: Nat, hold: Nat] : Atomic!SolventRow(w)}]
  BY <1>1, SameOps DEF Init
<1>3. req \in [Requests -> [kind: Atomic!Kinds, user: Users, amt: Nat]]
  BY BoundsAssumption, SameOps DEF Init, Request
<1>4. Outcome = [r \in Requests |-> "pending"]
  BY DEF Init, Outcome
<1> QED BY <1>2, <1>3, <1>4 DEF Atomic!Init

\* While at most one request is open at a time, the wallet implements
\* AtomicWallet: disconnects and failed statements included, every request is
\* applied at most once, to the current row, and never after it was refused.
THEOREM SerialRefinement == ASSUME MaxInFlight = 1 PROVE Spec => ImplementsAtomicWallet
<1>1. IInv /\ SerialInv /\ [Next]_vars => SerialInv' /\ [Atomic!Next]_(Atomic!vars)
  BY SerialStep, SerialMaps
<1> QED
  BY <1>1, SerialInit, SerialMapsInit, Invariance, PTL
  DEF Spec, ImplementsAtomicWallet, Atomic!Spec
-----------------------------------------------------------------------------
(* What the comments promise of a wallet, under the condition it needs. *)

\* One at a time, every UPDATE is computed from the row it overwrites.
LEMMA NothingLost ==
  ASSUME MaxInFlight = 1, IInv, SerialInv, NoLostUpdate, [Next]_vars
  PROVE  NoLostUpdate'
<1>1. TypeOK
  BY DEF IInv
<1>2. ASSUME UNCHANGED <<row, opening, credits, debits>> PROVE NoLostUpdate'
  BY <1>2 DEF NoLostUpdate
<1>3. ASSUME NEW r \in Requests, CreateWallet(r) PROVE NoLostUpdate'
  <2>1. UNCHANGED <<row, opening, credits, debits>>
    BY <1>1, <1>3 DEF CreateWallet, IInv, UnopenedEmpty, TypeOK, Request
  <2> QED BY <1>2, <2>1
<1>4. ASSUME NEW r \in Requests, Write(r) PROVE NoLostUpdate'
  <2> DEFINE u == req[r].user
             c == CreditOf(req[r])
             d == DebitOf(req[r])
  <2>1. /\ u \in Users /\ req[r].kind \in Kinds /\ req[r].amt \in Nat /\ row[u] \in Row
        /\ opening[u] \in Int /\ credits[u] \in Int /\ debits[u] \in Int
        /\ row[u].bal \in Int
    BY <1>1, BoundsAssumption DEF TypeOK, Request, Row
  <2>2. snap[r] = row[u]
    BY <1>4 DEF Write, SerialInv
  <2>3. c \in Nat /\ d \in Nat /\ NewBalance(req[r], row[u]) = row[u].bal + c - d
    BY <2>1, BalanceMoves
  <2>4. /\ row'[u].bal = row[u].bal + c - d
        /\ credits'[u] = credits[u] + c
        /\ debits'[u] = debits[u] + d
        /\ opening' = opening
        /\ \A v \in Users \ {u} : /\ row'[v] = row[v] /\ credits'[v] = credits[v]
                                  /\ debits'[v] = debits[v]
    BY <1>1, <1>4, <2>1, <2>2, <2>3 DEF Write, TypeOK, Updated
  <2>5. row'[u].bal = opening'[u] + credits'[u] - debits'[u]
    BY <2>1, <2>3, <2>4 DEF NoLostUpdate
  <2> QED BY <2>4, <2>5 DEF NoLostUpdate
<1>5. ASSUME NEW r \in Requests, Refuse(r) \/ Begin(r) \/ Read(r) \/ Insert(r) \/ Commit(r)
                                 \/ Abort(r)
      PROVE  NoLostUpdate'
  <2>1. UNCHANGED <<row, opening, credits, debits>>
    BY <1>5 DEF Refuse, Begin, Read, Insert, Commit, Abort, walletVars, ledgerVars
  <2> QED BY <1>2, <2>1
<1> QED BY <1>2, <1>3, <1>4, <1>5 DEF Next, Serve, vars

\* "Uses SELECT FOR UPDATE to prevent race conditions"
\* (wallet_usecase.go:84) is true of callers that do not overlap, disconnects
\* and failed statements included.
THEOREM NothingLostInTurn == ASSUME MaxInFlight = 1 PROVE Spec => []NoLostUpdate
<1>1. Init => NoLostUpdate
  <2>1. ASSUME Init, NEW u \in Users PROVE row[u].bal = opening[u] + credits[u] - debits[u]
    BY <2>1, BoundsAssumption DEF Init
  <2> QED BY <2>1 DEF NoLostUpdate
<1>2. IInv /\ SerialInv /\ NoLostUpdate /\ [Next]_vars => SerialInv' /\ NoLostUpdate'
  BY SerialStep, NothingLost
<1> QED BY <1>1, <1>2, SerialInit, Invariance, PTL DEF Spec

\* The request whose UPDATE ran and whose ledger row is not committed yet.
Owing(u) == {r \in Requests : pc[r] \in {"written", "inserted"} /\ req[r].user = u}

\* A balance is explained by the committed ledger rows and the one to come.
Explained ==
  \A u \in Users :
    /\ Owing(u) = {} => row[u].bal = opening[u] + posted[u]
    /\ \A r \in Owing(u) : row[u].bal = opening[u] + posted[u] + Delta(req[r], snap[r])

LEMMA ExplainedStep ==
  ASSUME MaxInFlight = 1, ~Faults, IInv, SerialInv, Explained, [Next]_vars
  PROVE  Explained'
<1>1. TypeOK
  BY DEF IInv
<1>2. \A r, s \in Requests : pc[r] \in InTx /\ pc[s] \in InTx => r = s
  BY DEF SerialInv, Holding
<1>3. ASSUME UNCHANGED <<row, opening, posted, req>>,
             \A u \in Users : Owing(u)' = Owing(u),
             \A u \in Users : \A r \in Owing(u) : snap'[r] = snap[r]
      PROVE  Explained'
  BY <1>3 DEF Explained
<1>4. CASE UNCHANGED vars
  BY <1>3, <1>4 DEF vars, Owing
<1>5. ASSUME NEW r \in Requests,
             Refuse(r) \/ Begin(r) \/ Read(r) \/ CreateWallet(r) \/ Insert(r)
      PROVE  Explained'
  <2>1. UNCHANGED <<row, opening, posted, req>>
    BY <1>1, <1>5 DEF Refuse, Begin, Read, CreateWallet, Insert, walletVars, ledgerVars,
       IInv, UnopenedEmpty, TypeOK, Request
  <2>2. /\ \A s \in Requests \ {r} : pc'[s] = pc[s] /\ snap'[s] = snap[s]
        /\ pc[r] \in {"written", "inserted"} <=> pc'[r] \in {"written", "inserted"}
        /\ pc[r] \in {"written", "inserted"} => snap'[r] = snap[r]
    BY <1>1, <1>5 DEF Refuse, Begin, Read, CreateWallet, Insert, Goto, TypeOK
  <2> QED BY <1>3, <2>1, <2>2 DEF Owing
<1>6. ASSUME NEW r \in Requests, Write(r) PROVE Explained'
  <2> DEFINE u == req[r].user
             delta == Delta(req[r], row[u])
  <2>1. /\ u \in Users /\ req[r].kind \in Kinds /\ req[r].amt \in Nat /\ row[u] \in Row
        /\ opening[u] \in Int /\ posted[u] \in Int /\ row[u].bal \in Int
    BY <1>1, BoundsAssumption DEF TypeOK, Request, Row
  <2>2. snap[r] = row[u] /\ pc[r] = "read"
    BY <1>6 DEF Write, SerialInv
  <2>3. delta \in Int /\ NewBalance(req[r], row[u]) = row[u].bal + delta
    BY <2>1, DeltaInt
  <2>4. \A v \in Users : Owing(v) = {}
    BY <1>2, <2>2 DEF Owing, InTx
  <2>5. UNCHANGED <<opening, posted, req, snap>>
    BY <1>6 DEF Write, ledgerVars
  <2>6. pc'[r] = "written" /\ \A s \in Requests \ {r} : pc'[s] = pc[s]
    BY <1>1, <1>6 DEF Write, Goto, TypeOK
  <2>7. \A v \in Users : Owing(v)' = IF v = u THEN {r} ELSE {}
    BY <2>4, <2>5, <2>6 DEF Owing
  <2>8. /\ row'[u].bal = row[u].bal + delta
        /\ \A v \in Users \ {u} : row'[v] = row[v]
    BY <1>1, <1>6, <2>1, <2>2, <2>3 DEF Write, TypeOK, Updated
  <2>9. \A v \in Users : row[v].bal = opening[v] + posted[v]
    BY <2>4 DEF Explained
  <2>10. row'[u].bal = opening[u] + posted[u] + delta
    BY <2>1, <2>3, <2>8, <2>9
  <2>11. ASSUME NEW v \in Users
         PROVE  /\ Owing(v)' = {} => row'[v].bal = opening'[v] + posted'[v]
                /\ \A s \in Owing(v)' :
                     row'[v].bal = opening'[v] + posted'[v] + Delta(req'[s], snap'[s])
    <3>1. CASE v = u
      BY <2>2, <2>5, <2>7, <2>10, <3>1
    <3>2. CASE v # u
      BY <2>5, <2>7, <2>8, <2>9, <3>2
    <3> QED BY <3>1, <3>2
  <2> HIDE DEF u, delta
  <2> QED BY <2>11 DEF Explained
<1>7. ASSUME NEW r \in Requests, Commit(r) PROVE Explained'
  <2> DEFINE u == req[r].user
             delta == Delta(req[r], snap[r])
  <2>1. /\ u \in Users /\ req[r].kind \in Kinds /\ req[r].amt \in Nat /\ snap[r] \in Row
        /\ opening[u] \in Int /\ posted[u] \in Int
    BY <1>1, BoundsAssumption DEF TypeOK, Request
  <2>2. delta \in Int
    BY <2>1, DeltaInt
  <2>3. pc[r] = "inserted" /\ UNCHANGED <<row, opening, req, snap>>
    BY <1>7 DEF Commit, walletVars
  <2>4. Owing(u) = {r} /\ \A v \in Users \ {u} : Owing(v) = {}
    BY <1>2, <2>3 DEF Owing, InTx
  <2>5. pc'[r] = "done" /\ \A s \in Requests \ {r} : pc'[s] = pc[s]
    BY <1>1, <1>7 DEF Commit, Goto, TypeOK
  <2>6. \A v \in Users : Owing(v)' = {}
    BY <2>3, <2>4, <2>5 DEF Owing
  <2>7. /\ posted'[u] = posted[u] + delta
        /\ \A v \in Users \ {u} : posted'[v] = posted[v]
    BY <1>1, <1>7, <2>1 DEF Commit, TypeOK
  <2>8. row[u].bal = opening[u] + posted[u] + delta
    BY <2>1, <2>4 DEF Explained
  <2>9. row'[u].bal = opening'[u] + posted'[u]
    BY <2>1, <2>2, <2>3, <2>7, <2>8
  <2>10. \A v \in Users \ {u} : row'[v].bal = opening'[v] + posted'[v]
    BY <2>3, <2>4, <2>7 DEF Explained
  <2> HIDE DEF u, delta
  <2> QED BY <2>6, <2>9, <2>10 DEF Explained
<1>8. \A r \in Requests : ~Abort(r)
  BY DEF Abort
<1> QED BY <1>4, <1>5, <1>6, <1>7, <1>8 DEF Next, Serve

\* "All mutations run inside DB transactions" (wallet_usecase.go:20): the
\* ledger explains the balances while requests neither overlap nor fail.
THEOREM LedgerExplainsInTurn ==
  ASSUME MaxInFlight = 1, ~Faults
  PROVE  Spec => []LedgerExplainsBalance
<1>1. Init => Explained
  <2>1. ASSUME Init, NEW u \in Users
        PROVE  Owing(u) = {} /\ row[u].bal = opening[u] + posted[u]
    BY <2>1, BoundsAssumption DEF Init, Owing
  <2> QED BY <2>1 DEF Explained
<1>2. IInv /\ SerialInv /\ Explained /\ [Next]_vars => SerialInv' /\ Explained'
  BY SerialStep, ExplainedStep
<1>3. Explained => LedgerExplainsBalance
  BY DEF Explained, LedgerExplainsBalance, Owing, Holding, InTx
<1> QED BY <1>1, <1>2, <1>3, SerialInit, Invariance, PTL DEF Spec
-----------------------------------------------------------------------------
(* Deposits. *)

\* A payment that exists is owned by somebody with a wallet and has an amount.
PaymentsOpen ==
  \A p \in Payments : payment[p].state # "absent" =>
    payment[p].owner \in opened /\ payment[p].amount >= MinDeposit

\* What a delivery looked up is there.
LookedUp ==
  \A r \in Requests : hook[r].step = "looked" =>
    payment[hook[r].payment].state # "absent"

\* A delivery does not touch the wallet before HandleWebhook calls Credit.
DeliveriesWait ==
  \A r \in Requests : hook[r].step \in {"waiting", "looked", "ended"} =>
    pc[r] = "arrived" /\ r \notin wrote

\* A Credit that nothing cuts off cannot fail.
CreditsGoOn ==
  \A r \in Requests : hook[r].step = "credit" => pc[r] \notin {"creating", "failed"}

\* An operation past its UPDATE has written.
PastWrite ==
  \A r \in Requests : pc[r] \in {"written", "inserted", "done"} => r \in wrote

\* The delivery that marked a payment completed.
Marked(r) == hook[r].step \in {"credit", "lost"}

MarkedCompleted ==
  \A r \in Requests : Marked(r) => payment[hook[r].payment].state = "completed"

CompletedMarked ==
  \A p \in Payments : payment[p].state = "completed" =>
    \E r \in Requests : hook[r].payment = p /\ Marked(r)

\* Once a delivery that was not overtaken has marked the payment, every other
\* one that may still mark it was overtaken.
MarkedOnce ==
  \A r, s \in Requests :
    (/\ r # s /\ hook[r].payment = hook[s].payment
     /\ Marked(r) /\ ~hook[r].overtaken
     /\ hook[s].step \in {"looked", "credit", "lost"}) => hook[s].overtaken

DepositsInv ==
  /\ TypeOK /\ DepositsTypeOK /\ DeliveriesMatch
  /\ PaymentsOpen /\ LookedUp /\ DeliveriesWait /\ CreditsGoOn /\ PastWrite
  /\ MarkedCompleted /\ CompletedMarked /\ MarkedOnce

\* No payment exists and nothing was delivered yet.
LEMMA DepositsInvInit == Init /\ DepositsInit /\ DeliveriesMatch => DepositsInv
<1> SUFFICES ASSUME Init, DepositsInit, DeliveriesMatch PROVE DepositsInv
  OBVIOUS
<1>1. TypeOK
  BY TypeInit
<1>2. /\ DepositsTypeOK
      /\ \A p \in Payments : payment[p].state = "absent"
      /\ \A r \in Requests : hook[r].step \in {"plain", "waiting"} /\ ~hook[r].overtaken
  BY DEF DepositsInit, DepositsTypeOK
<1>3. \A r \in Requests : pc[r] = "arrived" /\ r \notin wrote
  BY DEF Init
<1> QED
  BY <1>1, <1>2, <1>3
     DEF DepositsInv, PaymentsOpen, LookedUp, DeliveriesWait, CreditsGoOn, PastWrite, Marked,
         MarkedCompleted, CompletedMarked, MarkedOnce

\* The statements of the wallet: those of a delivery are a Credit's.
LEMMA StepWallet ==
  ASSUME DepositsInv, NEW r \in Requests, WalletStep(r) PROVE DepositsInv'
<1> USE DEF DepositsInv
<1>1. TypeOK'
  BY TypeStep DEF WalletStep, Next
<1>2. UNCHANGED <<payment, hook, req>>
  BY DEF WalletStep, depositVars, Serve, Refuse, Begin, Read, CreateWallet, Write,
         Insert, Commit, walletVars, ledgerVars
<1>3. DepositsTypeOK' /\ DeliveriesMatch' /\ MarkedCompleted' /\ CompletedMarked'
      /\ MarkedOnce' /\ LookedUp'
  BY <1>2 DEF DepositsTypeOK, LookedUp, DeliveriesMatch, CreditRequest, Marked, MarkedCompleted,
              CompletedMarked, MarkedOnce
<1>4. PaymentsOpen'
  <2>1. opened \subseteq opened'
    BY DEF WalletStep, Serve, Refuse, Begin, Read, CreateWallet, Write, Insert, Commit,
           walletVars, ledgerVars
  <2> QED BY <1>2, <2>1 DEF PaymentsOpen, DepositsTypeOK
<1>5. /\ \A s \in Requests \ {r} : pc'[s] = pc[s] /\ (s \in wrote' <=> s \in wrote)
      /\ wrote \subseteq wrote'
      /\ hook[r].step \notin {"waiting", "looked", "ended"}
  BY DEF WalletStep, Serve, Refuse, Begin, Read, CreateWallet, Write, Insert, Commit,
         walletVars, ledgerVars, Goto, TypeOK
<1>6. DeliveriesWait'
  BY <1>2, <1>5 DEF DeliveriesWait
<1>7. pc'[r] \in {"written", "inserted", "done"} => r \in wrote'
  BY DEF WalletStep, Serve, Refuse, Begin, Read, CreateWallet, Write, Insert, Commit,
         walletVars, ledgerVars, Goto, TypeOK, PastWrite
<1>8. PastWrite'
  BY <1>5, <1>7 DEF PastWrite
<1>9. ASSUME hook[r].step = "credit" PROVE pc'[r] \notin {"creating", "failed"}
  <2> DEFINE p == hook[r].payment
  <2>1. p \in Payments /\ payment[p].state = "completed" /\ req[r] = CreditRequest(p)
    BY <1>9 DEF DepositsTypeOK, Hook, MarkedCompleted, Marked, DeliveriesMatch
  <2>2. payment[p].owner \in opened /\ payment[p].amount >= MinDeposit
        /\ payment[p].amount \in Nat
    BY <2>1, BoundsAssumption DEF PaymentsOpen, DepositsTypeOK, Payment
  <2>3. req[r].kind = "credit" /\ req[r].user \in opened
        /\ req[r].amt >= 1 /\ req[r].amt \in Nat
    BY <2>1, <2>2 DEF CreditRequest, MinDeposit
  <2>4. ~InvalidAmount(req[r]) /\ Affords(r)
    BY <2>3 DEF InvalidAmount, Affords, Insufficient
  <2>5. pc[r] \notin {"creating", "failed"}
    BY <1>9 DEF CreditsGoOn
  <2> HIDE DEF p
  <2> QED
    BY <2>3, <2>4, <2>5
       DEF WalletStep, Serve, Refuse, Begin, Read, CreateWallet, Write, Insert, Commit,
           Goto, TypeOK
<1>10. CreditsGoOn'
  BY <1>2, <1>5, <1>9 DEF CreditsGoOn
<1> QED BY <1>1, <1>3, <1>4, <1>6, <1>8, <1>10

\* A Credit that is cut off is lost; nothing else depends on it.
LEMMA StepAbort ==
  ASSUME DepositsInv, NEW r \in Requests, WalletAbort(r) PROVE DepositsInv'
<1> USE DEF DepositsInv
<1>1. TypeOK'
  BY TypeStep DEF WalletAbort, Next
<1>2. /\ UNCHANGED <<payment, req, opened, wrote>>
      /\ pc' = [pc EXCEPT ![r] = "failed"]
      /\ hook[r].step \in {"plain", "credit"}
  BY DEF WalletAbort, Abort, Goto, walletVars, ledgerVars
<1>3. /\ DepositsTypeOK'
      /\ \A s \in Requests : /\ hook'[s].payment = hook[s].payment
                             /\ hook'[s].overtaken = hook[s].overtaken
                             /\ Marked(s)' <=> Marked(s)
                             /\ hook'[s].step = "plain" <=> hook[s].step = "plain"
                             /\ hook'[s].step = "looked" <=> hook[s].step = "looked"
                             /\ s # r => hook'[s] = hook[s]
      /\ hook'[r].step \notin {"waiting", "looked", "ended", "credit"}
  BY <1>2 DEF WalletAbort, DepositsTypeOK, Hook, Marked
<1>4. DeliveriesMatch' /\ PaymentsOpen' /\ MarkedCompleted' /\ CompletedMarked'
      /\ LookedUp'
  BY <1>2, <1>3 DEF LookedUp, DeliveriesMatch, CreditRequest, PaymentsOpen, MarkedCompleted,
                    CompletedMarked, DepositsTypeOK
<1>5. MarkedOnce'
  BY <1>2, <1>3 DEF MarkedOnce, Marked
<1>6. DeliveriesWait' /\ CreditsGoOn' /\ PastWrite'
  BY <1>2, <1>3 DEF DeliveriesWait, CreditsGoOn, PastWrite, TypeOK
<1> QED BY <1>1, <1>3, <1>4, <1>5, <1>6

\* A new payment, and its gateway's id.
LEMMA StepPayment ==
  ASSUME DepositsInv, NEW p \in Payments,
         RecordGatewayTxnID(p) \/ \E supported \in BOOLEAN : CreateDeposit(p, supported)
  PROVE  DepositsInv'
<1> USE DEF DepositsInv
<1>1. UNCHANGED <<hook, vars>>
  BY DEF RecordGatewayTxnID, CreateDeposit
<1>2. /\ DepositsTypeOK'
      /\ \A o \in Payments : /\ payment'[o].owner = payment[o].owner
                             /\ payment'[o].amount = payment[o].amount
                             /\ payment'[o].state = "completed"
                                  <=> payment[o].state = "completed"
                             /\ payment[o].state # "absent"
                                  => payment'[o].state # "absent"
                             /\ o # p => payment'[o] = payment[o]
      /\ payment[p].owner \in opened /\ payment[p].amount >= MinDeposit
  <2>1. CASE RecordGatewayTxnID(p)
    <3>1. /\ payment' = [payment EXCEPT ![p].known = TRUE]
          /\ payment[p].state = "pending"
      BY <2>1 DEF RecordGatewayTxnID
    <3>2. payment' \in [Payments -> Payment]
      BY <3>1 DEF DepositsTypeOK, Payment
    <3> QED BY <1>1, <3>1, <3>2 DEF DepositsTypeOK, Payment, PaymentsOpen
  <2>2. ASSUME NEW supported \in BOOLEAN, CreateDeposit(p, supported)
        PROVE  /\ payment' \in [Payments -> Payment]
               /\ \A o \in Payments : o # p => payment'[o] = payment[o]
               /\ payment[p].state = "absent" /\ payment'[p].state = "pending"
               /\ payment'[p].owner = payment[p].owner
               /\ payment'[p].amount = payment[p].amount
               /\ payment[p].owner \in opened /\ payment[p].amount >= MinDeposit
    <3> DEFINE pending == [payment EXCEPT ![p].state = "pending"]
    <3>1. /\ payment' = [pending EXCEPT ![p].checkout = supported]
          /\ payment[p].state = "absent"
          /\ payment[p].owner \in opened /\ payment[p].amount >= MinDeposit
      BY <2>2 DEF CreateDeposit
    <3>2. /\ pending \in [Payments -> Payment] /\ pending[p].state = "pending"
          /\ \A o \in Payments : /\ pending[o].owner = payment[o].owner
                                 /\ pending[o].amount = payment[o].amount
                                 /\ o # p => pending[o] = payment[o]
      BY DEF DepositsTypeOK, Payment
    <3> HIDE DEF pending
    <3>3. /\ payment' \in [Payments -> Payment] /\ payment'[p].state = pending[p].state
          /\ \A o \in Payments : /\ payment'[o].owner = pending[o].owner
                                 /\ payment'[o].amount = pending[o].amount
                                 /\ o # p => payment'[o] = pending[o]
      BY <3>1, <3>2 DEF Payment
    <3> QED BY <3>1, <3>2, <3>3
  <2>3. CASE \E supported \in BOOLEAN : CreateDeposit(p, supported)
    <3>1. PICK supported \in BOOLEAN : CreateDeposit(p, supported)
      BY <2>3
    <3>2. /\ payment' \in [Payments -> Payment]
          /\ \A o \in Payments : o # p => payment'[o] = payment[o]
          /\ payment[p].state = "absent" /\ payment'[p].state = "pending"
          /\ payment'[p].owner = payment[p].owner
          /\ payment'[p].amount = payment[p].amount
          /\ payment[p].owner \in opened /\ payment[p].amount >= MinDeposit
      BY <3>1, <2>2
    <3> QED BY <1>1, <3>2 DEF DepositsTypeOK
  <2> QED BY <2>1, <2>3
<1>3. TypeOK' /\ DeliveriesWait' /\ CreditsGoOn' /\ PastWrite' /\ MarkedOnce'
  BY <1>1 DEF vars, walletVars, ledgerVars, TypeOK, DeliveriesWait, CreditsGoOn,
              PastWrite, MarkedOnce, Marked
<1>4. UNCHANGED <<hook, req, opened>>
  BY <1>1 DEF vars, walletVars
<1>5. \A r \in Requests : hook[r].payment \in Payments
  BY DEF DepositsTypeOK, Hook
<1>6. DeliveriesMatch' /\ PaymentsOpen' /\ MarkedCompleted' /\ CompletedMarked'
      /\ LookedUp'
  BY <1>2, <1>4, <1>5 DEF LookedUp, DeliveriesMatch, CreditRequest, PaymentsOpen, MarkedCompleted,
                          CompletedMarked, Marked
<1> QED BY <1>2, <1>3, <1>6

\* Looking the payment up, or failing after that.
LEMMA StepLook ==
  ASSUME DepositsInv, NEW r \in Requests, HandleWebhookFind(r) \/ HandleWebhookFail(r)
  PROVE  DepositsInv'
<1> USE DEF DepositsInv
<1>1. UNCHANGED <<payment, vars>>
  BY DEF HandleWebhookFind, HandleWebhookFail
<1>2. /\ DepositsTypeOK'
      /\ \A s \in Requests : s # r => hook'[s] = hook[s]
      /\ hook'[r].payment = hook[r].payment /\ hook'[r].overtaken = hook[r].overtaken
      /\ hook[r].step \in {"waiting", "looked"} /\ hook'[r].step \in {"looked", "ended"}
      /\ hook'[r].step = "looked" =>
           payment[hook[r].payment].state \notin {"absent", "completed"}
  BY DEF HandleWebhookFind, HandleWebhookFail, DepositsTypeOK, Hook, Unprocessed,
         FindPayment
<1>3. UNCHANGED <<payment, req, opened, pc, wrote>>
  BY <1>1 DEF vars, walletVars, ledgerVars
<1>4. TypeOK' /\ PaymentsOpen'
  BY <1>1 DEF vars, walletVars, ledgerVars, TypeOK, PaymentsOpen
<1>5. DeliveriesMatch' /\ DeliveriesWait' /\ CreditsGoOn' /\ PastWrite'
  BY <1>2, <1>3 DEF DeliveriesMatch, CreditRequest, DeliveriesWait, CreditsGoOn, PastWrite
<1>6. ~Marked(r) /\ ~Marked(r)' /\ \A s \in Requests : s # r => (Marked(s)' <=> Marked(s))
  BY <1>2 DEF Marked
<1>7. MarkedCompleted' /\ CompletedMarked' /\ LookedUp'
  BY <1>2, <1>3, <1>6 DEF LookedUp, MarkedCompleted, CompletedMarked
<1>8. MarkedOnce'
  BY <1>2, <1>3, <1>6 DEF MarkedOnce, MarkedCompleted, Marked
<1> QED BY <1>2, <1>4, <1>5, <1>7, <1>8

\* Marking the payment overtakes the others that looked it up.
LEMMA StepComplete ==
  ASSUME DepositsInv, NEW r \in Requests, HandleWebhookComplete(r) PROVE DepositsInv'
<1> USE DEF DepositsInv
<1> DEFINE p == hook[r].payment
<1>1. p \in Payments /\ hook[r].step = "looked"
  BY DEF HandleWebhookComplete, DepositsTypeOK, Hook
<1>2. UNCHANGED <<req, opened, pc, wrote>> /\ TypeOK'
  BY DEF HandleWebhookComplete, vars, walletVars, ledgerVars, TypeOK
<1>3. /\ \A o \in Payments : /\ payment'[o].owner = payment[o].owner
                             /\ payment'[o].amount = payment[o].amount
                             /\ o # p => payment'[o] = payment[o]
      /\ payment' \in [Payments -> Payment] /\ payment'[p].state = "completed"
  BY <1>1 DEF HandleWebhookComplete, DepositsTypeOK, Payment
<1>4. /\ hook' \in [Requests -> Hook]
      /\ \A s \in Requests :
           /\ hook'[s].payment = hook[s].payment
           /\ s # r => hook'[s].step = hook[s].step
           /\ s # r => hook'[s].overtaken =
                (hook[s].overtaken \/ (hook[s].step = "looked" /\ hook[s].payment = p))
      /\ hook'[r].step = "credit" /\ hook'[r].overtaken = hook[r].overtaken
  BY DEF HandleWebhookComplete, DepositsTypeOK, Hook
<1>5. payment[p].owner \in opened /\ payment[p].amount >= MinDeposit
  BY <1>1 DEF PaymentsOpen, LookedUp
<1>6. DepositsTypeOK'
  BY <1>3, <1>4 DEF DepositsTypeOK
<1>7. \A s \in Requests : hook[s].payment \in Payments
  BY DEF DepositsTypeOK, Hook
<1>8. pc[r] = "arrived"
  BY <1>1 DEF DeliveriesWait
<1> HIDE DEF p
<1>9. DeliveriesMatch'
  <2> SUFFICES ASSUME NEW s \in Requests, hook'[s].step # "plain"
               PROVE  req'[s] = [kind |-> "credit",
                                 user |-> payment'[hook'[s].payment].owner,
                                 amt |-> payment'[hook'[s].payment].amount]
    BY DEF DeliveriesMatch, CreditRequest
  <2>1. hook[s].step # "plain" /\ hook'[s].payment = hook[s].payment
        /\ hook[s].payment \in Payments
    BY <1>1, <1>4, <1>7
  <2>2. req[s] = CreditRequest(hook[s].payment)
    BY <2>1 DEF DeliveriesMatch
  <2> QED BY <1>2, <1>3, <2>1, <2>2 DEF CreditRequest
<1>14. PaymentsOpen'
  <2> SUFFICES ASSUME NEW o \in Payments, payment'[o].state # "absent"
               PROVE  payment'[o].owner \in opened' /\ payment'[o].amount >= MinDeposit
    BY DEF PaymentsOpen
  <2>1. payment[o].owner \in opened /\ payment[o].amount >= MinDeposit
    BY <1>3, <1>5 DEF PaymentsOpen
  <2> QED BY <1>2, <1>3, <2>1
<1>15. LookedUp'
  <2> SUFFICES ASSUME NEW s \in Requests, hook'[s].step = "looked"
               PROVE  payment'[hook'[s].payment].state # "absent"
    BY DEF LookedUp
  <2>1. hook[s].step = "looked" /\ hook'[s].payment = hook[s].payment
        /\ hook[s].payment \in Payments
    BY <1>4, <1>7
  <2>2. payment[hook[s].payment].state # "absent"
    BY <2>1 DEF LookedUp
  <2>3. CASE hook[s].payment = p
    BY <1>3, <2>1, <2>3
  <2>4. CASE hook[s].payment # p
    BY <1>3, <2>1, <2>2, <2>4
  <2> QED BY <2>3, <2>4
<1>10. DeliveriesWait' /\ CreditsGoOn' /\ PastWrite'
  BY <1>2, <1>4, <1>8 DEF DeliveriesWait, CreditsGoOn, PastWrite
<1>11. /\ Marked(r)' /\ ~Marked(r)
       /\ \A s \in Requests : s # r => (Marked(s)' <=> Marked(s))
  BY <1>1, <1>4 DEF Marked
<1>12. MarkedCompleted' /\ CompletedMarked'
  BY <1>1, <1>3, <1>4, <1>7, <1>11 DEF p, MarkedCompleted, CompletedMarked
<1>13. MarkedOnce'
  <2> SUFFICES ASSUME NEW s \in Requests, NEW o \in Requests, s # o,
                      hook'[s].payment = hook'[o].payment,
                      Marked(s)', ~hook'[s].overtaken,
                      hook'[o].step \in {"looked", "credit", "lost"}
               PROVE  hook'[o].overtaken
    BY DEF MarkedOnce
  <2>1. CASE s = r
    <3>1. hook[o].payment = p /\ hook'[o].step = hook[o].step
      BY <1>4, <2>1 DEF p
    <3>2. CASE hook[o].step = "looked"
      BY <1>4, <2>1, <3>1, <3>2
    <3>3. CASE Marked(o)
      <4>1. hook[r].step = "looked" /\ ~hook[r].overtaken
        BY <1>1, <1>4, <2>1
      <4>2. hook[o].overtaken
        BY <2>1, <3>1, <3>3, <4>1 DEF p, MarkedOnce
      <4> QED BY <1>4, <2>1, <4>2
    <3> QED BY <3>1, <3>2, <3>3 DEF Marked
  <2>2. CASE s # r
    <3>1. Marked(s) /\ ~hook[s].overtaken /\ hook[s].payment = hook[o].payment
      BY <1>4, <1>11, <2>2
    <3>2. hook[o].step \in {"looked", "credit", "lost"}
      BY <1>1, <1>4
    <3>3. hook[o].overtaken
      BY <3>1, <3>2 DEF MarkedOnce
    <3> QED BY <1>4, <3>3
  <2> QED BY <2>1, <2>2
<1> QED BY <1>2, <1>6, <1>9, <1>10, <1>12, <1>13, <1>14, <1>15

\* However deliveries, retries and the wallet's requests overlap, it holds.
THEOREM DepositsInvariant == DepositsSpec => []DepositsInv
<1>1. DepositsInv /\ [DepositsNext]_<<vars, depositVars>> => DepositsInv'
  <2> SUFFICES ASSUME DepositsInv, [DepositsNext]_<<vars, depositVars>>
               PROVE  DepositsInv'
    OBVIOUS
  <2>1. CASE UNCHANGED <<vars, depositVars>>
    BY <2>1 DEF vars, walletVars, ledgerVars, depositVars, DepositsInv, TypeOK,
                DepositsTypeOK, DeliveriesMatch, CreditRequest, PaymentsOpen, LookedUp,
                DeliveriesWait, CreditsGoOn, PastWrite, Marked, MarkedCompleted,
                CompletedMarked, MarkedOnce
  <2>2. CASE DepositsNext
    BY <2>2, StepPayment, StepLook, StepComplete, StepWallet, StepAbort DEF DepositsNext
  <2> QED BY <2>1, <2>2
<1> QED BY <1>1, DepositsInvInit, PTL DEF DepositsSpec

\* Payments and deliveries keep their types.
THEOREM DepositsTypeCorrect == DepositsSpec => []DepositsTypeOK
<1>1. DepositsInv => DepositsTypeOK
  BY DEF DepositsInv
<1> QED BY <1>1, DepositsInvariant, PTL

\* Deliveries that were not overtaken credit a payment once.
THEOREM AlwaysCreditedOnce == DepositsSpec => []CreditedOnce
<1>1. DepositsInv => CreditedOnce
  <2> SUFFICES ASSUME DepositsInv, NEW p \in Payments
               PROVE  Cardinality({r \in CreditsOf(p) : ~hook[r].overtaken}) <= 1
    BY DEF CreditedOnce
  <2> DEFINE S == {r \in CreditsOf(p) : ~hook[r].overtaken}
  <2>1. \A r \in S : r \in Requests /\ hook[r].payment = p /\ Marked(r)
    BY DEF CreditsOf, DepositsInv, DeliveriesWait, Marked, DepositsTypeOK, Hook, TypeOK
  <2>2. \A r, s \in S : r = s
    BY <2>1 DEF DepositsInv, MarkedOnce, Marked
  <2>3. CASE S = {}
    BY <2>3, FS_EmptySet
  <2>4. CASE S # {}
    <3>1. PICK r : r \in S
      BY <2>4
    <3>2. S = {r}
      BY <2>2, <3>1
    <3> HIDE DEF S
    <3>3. Cardinality(S) = 1
      BY <3>2, FS_Singleton
    <3> QED BY <3>3 DEF S
  <2> QED BY <2>3, <2>4
<1> QED BY <1>1, DepositsInvariant, PTL

\* A completed payment is credited, about to be, or its Credit was cut off.
THEOREM CompletedAlwaysCredited == DepositsSpec => []CompletedIsCredited
<1>1. DepositsInv => CompletedIsCredited
  <2> SUFFICES ASSUME DepositsInv, NEW p \in Payments, payment[p].state = "completed"
               PROVE  \E r \in Requests :
                        /\ hook[r].payment = p
                        /\ \/ r \in CreditsOf(p)
                           \/ hook[r].step = "credit" /\ pc[r] \notin Final
                           \/ hook[r].step = "lost"
    BY DEF CompletedIsCredited
  <2>1. PICK r \in Requests : hook[r].payment = p /\ Marked(r)
    BY DEF DepositsInv, CompletedMarked
  <2>2. CASE hook[r].step = "credit" /\ pc[r] \in Final
    <3>1. pc[r] = "done" /\ r \in wrote
      BY <2>2 DEF DepositsInv, CreditsGoOn, PastWrite, Final
    <3> QED BY <2>1, <2>2, <3>1 DEF CreditsOf
  <2> QED BY <2>1, <2>2 DEF Marked
<1> QED BY <1>1, DepositsInvariant, PTL
-----------------------------------------------------------------------------
(* Prices. *)

\* A call that went undisturbed so far has asked for every rule in force but
\* those from its level on.
RulesAhead ==
  \A q \in Calls : (quotes[q].level \in Levels /\ quotes[q].clean) =>
    inForce[q] = {rule \in rules : rule.level >= quotes[q].level}

PricingInv == PricingTypeOK /\ RulesAhead /\ PriceByRule

LEMMA FourLevels == Levels = 1 .. 4 /\ Len(Scopes) = 4 /\ Priced = 5
BY DEF Levels, Scopes, Priced

\* A rule turns a cost into a price of at least its minimum.
LEMMA RulePrices ==
  ASSUME NEW base \in Nat, NEW rule \in Rule
  PROVE  applyRule(base, rule) \in Nat /\ applyRule(base, rule) >= rule.min
<1>1. rule.markup \in Nat /\ rule.min \in Nat
  BY DEF Rule
<1>2. base * (100 + rule.markup) + 50 \in Nat
  BY <1>1
<1>3. \A n \in Nat : n \div 100 \in Nat
  OBVIOUS
<1>4. (base * (100 + rule.markup) + 50) \div 100 \in Nat
  BY <1>2, <1>3
<1>5. base + rule.markup \in Nat
  BY <1>1
<1>6. MarkedUp(base, rule) \in Nat
  BY <1>4, <1>5 DEF MarkedUp
<1> QED BY <1>1, <1>6 DEF applyRule, AtLeastMin

\* A call that nobody answered yet, or that went on to the next rule.
LEMMA QuoteStep ==
  ASSUME PricingInv, NEW q \in Calls, UNCHANGED <<rules, inForce>>,
         quotes' \in [Calls -> Ask], \A p \in Calls \ {q} : quotes'[p] = quotes[p],
         quotes'[q].base = quotes[q].base,
         quotes'[q].clean =>
           /\ quotes'[q].level \in Levels =>
                inForce[q] = {rule \in rules : rule.level >= quotes'[q].level}
           /\ quotes'[q].level = Priced =>
                IF inForce[q] = {} THEN quotes'[q].price = quotes[q].base
                ELSE \E rule \in MostSpecific(inForce[q]) :
                       /\ quotes'[q].price = applyRule(quotes[q].base, rule)
                       /\ quotes'[q].price >= rule.min
  PROVE  PricingInv'
<1>1. PricingTypeOK'
  BY DEF PricingInv, PricingTypeOK
<1>2. RulesAhead'
  BY DEF PricingInv, RulesAhead
<1>3. PriceByRule'
  BY DEF PricingInv, PriceByRule, MostSpecific
<1> QED BY <1>1, <1>2, <1>3 DEF PricingInv

\* Whatever rules change and reads fail, undisturbed calls follow the order.
THEOREM PricingInvariant == PricingSpec => []PricingInv
<1> USE FourLevels
<1>1. PricingInit => PricingInv
  BY PricingAssumption
     DEF PricingInit, PricingInv, PricingTypeOK, RulesAhead, PriceByRule, NoAsk, Ask
<1>2. PricingInv /\ [PricingNext /\ UNCHANGED workload]_<<pricingVars, workload>>
        => PricingInv'
  <2> SUFFICES ASSUME PricingInv,
                      [PricingNext /\ UNCHANGED workload]_<<pricingVars, workload>>
               PROVE  PricingInv'
    OBVIOUS
  <2> USE DEF PricingInv
  <2>1. CASE UNCHANGED <<pricingVars, workload>>
    BY <2>1 DEF pricingVars, PricingTypeOK, RulesAhead, PriceByRule, MostSpecific
  <2>2. ASSUME NEW q \in Calls, NEW base \in BaseCosts, NEW level \in Levels,
               AskPrice(q, base, level)
        PROVE  PricingInv'
    <3>1. base \in Nat /\ rules \subseteq Rule
      BY PricingAssumption DEF PricingTypeOK
    <3>2. /\ \A p \in Calls \ {q} : quotes'[p] = quotes[p] /\ inForce'[p] = inForce[p]
          /\ quotes'[q] = [level |-> level, base |-> base, price |-> 0, clean |-> TRUE]
          /\ inForce'[q] = {r \in rules : r.level >= level}
          /\ rules' = rules
      BY <2>2 DEF AskPrice, PricingTypeOK
    <3>3. quotes' \in [Calls -> Ask] /\ inForce' \in [Calls -> SUBSET Rule]
      BY <2>2, <3>1 DEF AskPrice, PricingTypeOK, Ask
    <3>4. PricingTypeOK' /\ RulesAhead' /\ PriceByRule'
      BY <3>2, <3>3 DEF PricingTypeOK, RulesAhead, PriceByRule, MostSpecific
    <3> QED BY <3>4
  <2>3. ASSUME NEW q \in Calls, FindRule(q) PROVE PricingInv'
    <3>1. PICK rule \in GetRule(quotes[q].level) :
                 Answer(q, applyRule(quotes[q].base, rule))
      BY <2>3 DEF FindRule
    <3>2. quotes[q].base \in Nat /\ rule \in Rule /\ rule \in rules
          /\ rule.level = quotes[q].level /\ quotes[q].clean \in BOOLEAN
          /\ quotes[q].level \in Levels
      BY <2>3, <3>1 DEF PricingTypeOK, Ask, GetRule, FindRule
    <3>3. /\ applyRule(quotes[q].base, rule) \in Nat
          /\ applyRule(quotes[q].base, rule) >= rule.min
      BY <3>2, RulePrices
    <3>4. quotes[q].clean => rule \in MostSpecific(inForce[q])
      BY <3>2 DEF RulesAhead, MostSpecific
    <3> DEFINE price == applyRule(quotes[q].base, rule)
    <3>5. quotes' = [quotes EXCEPT ![q] =
                       [level |-> Priced, base |-> quotes[q].base, price |-> price,
                        clean |-> quotes[q].clean]]
      BY <3>1 DEF Answer
    <3> HIDE DEF price
    <3>6. /\ quotes[q] \in Ask /\ price \in Nat
          /\ quotes'[q] = [level |-> Priced, base |-> quotes[q].base, price |-> price,
                           clean |-> quotes[q].clean]
          /\ \A p \in Calls \ {q} : quotes'[p] = quotes[p]
      BY <3>3, <3>5 DEF PricingTypeOK, price
    <3>7. /\ quotes'[q] \in Ask /\ quotes'[q].base = quotes[q].base
          /\ quotes'[q].level = Priced /\ quotes'[q].price = price
          /\ quotes'[q].clean = quotes[q].clean
      BY <3>2, <3>6 DEF Ask
    <3>8. quotes' \in [Calls -> Ask]
      BY <3>5, <3>6, <3>7 DEF PricingTypeOK
    <3>9. quotes'[q].clean =>
            IF inForce[q] = {} THEN quotes'[q].price = quotes[q].base
            ELSE \E o \in MostSpecific(inForce[q]) :
                   /\ quotes'[q].price = applyRule(quotes[q].base, o)
                   /\ quotes'[q].price >= o.min
      BY <3>3, <3>4, <3>7 DEF MostSpecific, price
    <3>10. UNCHANGED <<rules, inForce>> /\ quotes'[q].level \notin Levels
      BY <2>3, <3>7 DEF FindRule
    <3> QED BY <3>6, <3>7, <3>8, <3>9, <3>10, QuoteStep
  <2>4. ASSUME NEW q \in Calls, NEW clean \in BOOLEAN, quotes[q].level \in Levels,
               clean => GetRule(quotes[q].level) = {},
               NextRule(q, clean), UNCHANGED <<rules, inForce>>
        PROVE  PricingInv'
    <3> DEFINE level == quotes[q].level + 1
               kept == quotes[q].clean /\ clean
               price == IF level = Priced THEN quotes[q].base ELSE 0
    <3>1. quotes[q] \in Ask /\ level \in 0 .. 5 /\ price \in Nat /\ kept \in BOOLEAN
      BY <2>4 DEF PricingTypeOK, Ask
    <3>2. quotes' = [quotes EXCEPT ![q] =
                       [level |-> level, base |-> quotes[q].base, clean |-> kept,
                        price |-> price]]
      BY <2>4 DEF NextRule
    <3>3. \A rule \in rules : rule.level \in 1 .. 4
      BY DEF PricingTypeOK, Rule
    <3>4. kept => inForce[q] = {rule \in rules : rule.level >= level}
      BY <2>4, <3>1, <3>3 DEF RulesAhead, GetRule
    <3>5. kept /\ level = Priced => inForce[q] = {} /\ price = quotes[q].base
      BY <3>3, <3>4
    <3> HIDE DEF level, kept, price
    <3>6. /\ quotes'[q] = [level |-> level, base |-> quotes[q].base, clean |-> kept,
                           price |-> price]
          /\ \A p \in Calls \ {q} : quotes'[p] = quotes[p]
      BY <3>2 DEF PricingTypeOK
    <3>7. /\ quotes'[q] \in Ask /\ quotes'[q].base = quotes[q].base
          /\ quotes'[q].level = level /\ quotes'[q].price = price /\ quotes'[q].clean = kept
      BY <3>1, <3>6 DEF Ask
    <3>8. quotes' \in [Calls -> Ask]
      BY <3>2, <3>6, <3>7 DEF PricingTypeOK
    <3> QED BY <2>4, <3>4, <3>5, <3>6, <3>7, <3>8, QuoteStep
  <2>5. ASSUME NEW q \in Calls, MissRule(q) \/ FailRule(q) PROVE PricingInv'
    BY <2>4, <2>5 DEF MissRule, FailRule
  <2>6. ASSUME NEW q \in Calls, TakeAnswer(q) PROVE PricingInv'
    BY <2>6 DEF TakeAnswer, PricingTypeOK, RulesAhead, PriceByRule, MostSpecific, NoAsk, Ask
  <2>7. ASSUME NEW new \in SUBSET RuleBook, ChangeRules(new) PROVE PricingInv'
    <3>1. /\ rules' = new /\ new \subseteq Rule /\ UNCHANGED inForce
          /\ quotes' = [q \in Calls |-> IF quotes[q].level \in Levels
                           THEN [quotes[q] EXCEPT !.clean = FALSE] ELSE quotes[q]]
      BY <2>7, PricingAssumption DEF ChangeRules
    <3>2. /\ quotes' \in [Calls -> Ask]
          /\ \A q \in Calls : quotes'[q].level \in Levels => ~quotes'[q].clean
          /\ \A q \in Calls : quotes'[q].level \notin Levels => quotes'[q] = quotes[q]
      BY <3>1 DEF PricingTypeOK, Ask
    <3> QED BY <3>1, <3>2 DEF PricingTypeOK, RulesAhead, PriceByRule, MostSpecific
  <2> QED BY <2>1, <2>2, <2>3, <2>5, <2>6, <2>7 DEF PricingNext
<1> QED BY <1>1, <1>2, PTL DEF PricingSpec

\* The price is the most specific rule's.
THEOREM PriceAlwaysByRule == PricingSpec => []PriceByRule
<1>1. PricingInv => PriceByRule
  BY DEF PricingInv
<1> QED BY <1>1, PricingInvariant, PTL
=============================================================================
