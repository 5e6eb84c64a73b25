------------------------------ MODULE Accounts ------------------------------
(***************************************************************************)
(* user-service: accounts, refresh-token sessions, TOTP and API keys.      *)
(* usecase/auth_usecase.go and usecase/user_usecase.go over                *)
(* repository/postgres/user_repo.go, behind handler/http.                  *)
(*                                                                         *)
(* No usecase opens a transaction: each SQL statement commits alone, so a  *)
(* request with several statements is a call with one step per statement,  *)
(* and what it read stays in the call (the Go local acc) while others      *)
(* write.  A request with one statement is one action.                     *)
(***************************************************************************)
EXTENDS Platform

CONSTANTS
  Seeds,            \* those whose super_admin row the deployment put there
  Passwords,        \* passwords that pass validatePassword
  MaxSessions,      \* maxSessions
  AccessTTL, RefreshTTL, AdminRefreshTTL,
  MaxSecrets, Horizon  \* bounds: TOTP secrets, clock

ASSUME AccountsAssumption ==
  /\ Seeds \subseteq Members /\ Passwords \subseteq Nat /\ Passwords # {}
  /\ MaxSessions \in Nat \ {0} /\ AccessTTL \in Nat \ {0}
  /\ RefreshTTL \in Nat /\ AdminRefreshTTL \in Nat
  /\ MaxSecrets \in Nat /\ Horizon \in Nat

VARIABLES
  account,    \* users.accounts, one row per e-mail address (UNIQUE email)
  sessions,   \* users.sessions in the order of creation; each entry also keeps
              \* the access token that was handed out with it
  keys,       \* users.api_keys
  secrets,    \* the TOTP secrets generated so far: 1 .. secrets
  call,       \* the requests in flight
  now,        \* the clock
  confirmed,  \* history: the secrets EnableTOTP accepted a code for
  losses,     \* history: the roles an account lost within AccessTTL, and when
  chosen,     \* history: the password its owner last set
  raced       \* history: accounts with two row updates that overlapped

accountsVars == <<account, sessions, keys, secrets, call, now,
                  confirmed, losses, chosen, raced>>
historyVars == <<confirmed, losses, chosen, raced>>

Statuses == {"active", "suspended", "banned", "pending_verification"}

\* An account row; state is absent before the INSERT, deleted once deleted_at
\* is set.  Secret 0 is NULL.  Names, phones and logins are left out.
Account == [state: {"absent", "live", "deleted"}, deletedAt: Nat, role: Roles,
            status: Statuses, verified: BOOLEAN, password: Nat,
            enabled: BOOLEAN, secret: Nat]

NewAccount(role, status, verified, password) ==
  [state |-> "live", deletedAt |-> 0, role |-> role, status |-> status,
   verified |-> verified, password |-> password, enabled |-> FALSE, secret |-> 0]

Absent == [NewAccount("user", "pending_verification", FALSE, 0)
             EXCEPT !.state = "absent"]

Steps == {"idle", "insert", "count", "evict", "session", "account", "revoke",
          "write", "drop"}
CallOps == {"none", "register", "login", "refresh", "profile", "password",
            "setup", "enable", "disable", "revoke_key"}

\* row: the account as the call read it.  arg: a password, a session, a TOTP
\* secret or a key.  alone: nothing of its family was in flight for the same
\* account since it began.  late: the clock moved since it began.
Call == [op: CallOps, step: Steps, user: Members, row: Account, arg: Nat,
         alone: BOOLEAN, late: BOOLEAN]

Idle == [op |-> "none", step |-> "idle", user |-> CHOOSE u \in Members : TRUE,
         row |-> Absent, arg |-> 0, alone |-> TRUE, late |-> FALSE]
-----------------------------------------------------------------------------
(* Requests: how they begin, move on and end. *)

SessionOps == {"login", "refresh"}
RowOps == {"profile", "password"}

\* Two calls that meet work on the same rows of one account.
Meets(c, d) ==
  /\ c.step # "idle" /\ c.user = d.user
  /\ \/ c.op \in SessionOps /\ d.op \in SessionOps
     \/ c.op \in RowOps /\ d.op \in RowOps

\* A request begins with its first statement, whose answer it keeps.  One that
\* is refused there changes nothing and is no step.
Open(q, op, step, u, row, arg) ==
  LET c == [op |-> op, step |-> step, user |-> u, row |-> row, arg |-> arg,
            alone |-> TRUE, late |-> FALSE]
  IN  /\ call[q].step = "idle"
      /\ Asked(op)
      /\ Cardinality({p \in Calls : call[p].step # "idle"}) < workload.inFlight
      /\ call' = [p \in Calls |->
            IF p = q
            THEN [c EXCEPT !.alone = \A o \in Calls : ~Meets(call[o], c)]
            ELSE [call[p] EXCEPT !.alone = @ /\ ~Meets(call[p], c)]]

At(q, op, step) == call[q].op = op /\ call[q].step = step
Advance(q, step) == call' = [call EXCEPT ![q].step = step]
AdvanceWith(q, step, row) == call' = [call EXCEPT ![q].step = step, ![q].row = row]
Return(q) == call' = [call EXCEPT ![q] = Idle]

-----------------------------------------------------------------------------
(* Statements of user_repo.go. *)

\* GetByID and GetByEmail find a row only while deleted_at IS NULL.
GetByIDWithDeleted(u) == account[u].state # "absent"
GetByID(u) == account[u].state = "live"
GetByEmail(u) == account[u].state = "live"

\* Create fails when the e-mail has a row, deleted or not (UNIQUE email).
AccountCreate(u, row) ==
  account' = [account EXCEPT ![u] = IF @.state = "absent" THEN row ELSE @]

\* Mutant: the statement forgets the password_hash column.
AccountUpdateNames(u, row) ==
  account' = [account EXCEPT ![u].verified = row.verified]

\* Update writes the whole profile part of the row the caller read.
AccountUpdate(u, row) ==
  account' = [account EXCEPT ![u].password = row.password,
                             ![u].verified = row.verified]

UpdateStatus(u, status) == account' = [account EXCEPT ![u].status = status]
UpdateRole(u, role) == account' = [account EXCEPT ![u].role = role]

SoftDelete(u) ==
  account' = [account EXCEPT ![u].state = "deleted", ![u].deletedAt = now]

\* Mutant: enabling writes the flag and leaves the secret column alone.
UpdateTOTPFlag(u, enabled, secret) ==
  account' = [account EXCEPT ![u].enabled = enabled,
                             ![u].secret = IF enabled THEN @ ELSE secret]

UpdateTOTP(u, enabled, secret) ==
  account' = [account EXCEPT ![u].enabled = enabled, ![u].secret = secret]

GetByToken(i) == i \in DOMAIN sessions

\* SessionRepository.Create; the access token goes to the client with it.
SessionCreate(u, parent, expires, access, alone) ==
  sessions' = Append(sessions, [user |-> u, parent |-> parent, revoked |-> FALSE,
                                expires |-> expires, access |-> access,
                                alone |-> alone])

Active(i) == ~sessions[i].revoked /\ now < sessions[i].expires
ActiveOf(u) == {i \in DOMAIN sessions : sessions[i].user = u /\ Active(i)}

CountActiveByUser(u) == Cardinality(ActiveOf(u))

\* Mutant: the rotation forgets the old session.
RevokeNothing(i) == UNCHANGED sessions

RevokeByToken(i) == sessions' = [sessions EXCEPT ![i].revoked = TRUE]

RevokeOldestByUser(u) ==
  sessions' = [i \in DOMAIN sessions |->
    IF i \in ActiveOf(u) /\ \A j \in ActiveOf(u) : i <= j
    THEN [sessions[i] EXCEPT !.revoked = TRUE] ELSE sessions[i]]

KeyCreate(u) == keys' = Append(keys, [user |-> u, revoked |-> FALSE])
KeysOf(u) == {k \in DOMAIN keys : keys[k].user = u /\ ~keys[k].revoked}
KeyRevoke(k) == keys' = [keys EXCEPT ![k].revoked = TRUE]
-----------------------------------------------------------------------------
(* Tokens. *)

refreshTTL(row) == IF row.role \in AdminRoles THEN AdminRefreshTTL ELSE RefreshTTL

\* Mutant: the access token lives as long as the refresh token.
IssueLongToken(u, row) ==
  [user |-> u, role |-> row.role, exp |-> now + refreshTTL(row)]

issueAccessToken(u, row) ==
  [user |-> u, role |-> row.role, exp |-> now + AccessTTL]

\* The access tokens that clients hold and Auth accepts.
LiveTokens == {sessions[i].access : i \in
                 {j \in DOMAIN sessions : Auth(sessions[j].access, now)}}

\* The routes of NewRouter under RequireRole("admin", "super_admin"), and
\* those for which any token will do.
AsAdmin == \E t \in LiveTokens : RequireRole(t, AdminRoles)
AsUser(u) == \E t \in LiveTokens : t.user = u
-----------------------------------------------------------------------------
(* Register. *)

\* Register: the e-mail must be free; the refused passwords never get here.
RegisterLookup(q, u, password) ==
  /\ ~GetByEmail(u)
  /\ Open(q, "register", "insert", u, Absent, password)
  /\ UNCHANGED <<account, sessions, keys, secrets, now, historyVars>>

RegisterInsert(q) ==
  LET u == call[q].user IN
  /\ At(q, "register", "insert")
  /\ AccountCreate(u, NewAccount("user", "pending_verification", FALSE, call[q].arg))
  /\ chosen' = [chosen EXCEPT ![u] = IF account[u].state = "absent"
                                     THEN call[q].arg ELSE @]
  /\ Return(q)
  /\ UNCHANGED <<sessions, keys, secrets, now, confirmed, losses, raced>>

HandleRegister(q) ==
  \/ \E u \in Members, p \in Passwords : RegisterLookup(q, u, p)
  \/ RegisterInsert(q)
-----------------------------------------------------------------------------
(* Login. *)

\* The account's status, its e-mail verification and the password.
MayLogin(row, password) ==
  /\ row.status \notin {"suspended", "banned"}
  /\ row.verified \/ row.status # "pending_verification"
  /\ row.password = password

LoginFind(q, u, password) ==
  /\ GetByEmail(u) /\ MayLogin(account[u], password)
  /\ Open(q, "login", "count", u, account[u], 0)
  /\ UNCHANGED <<account, sessions, keys, secrets, now, historyVars>>

LoginCount(q) ==
  /\ At(q, "login", "count")
  /\ Advance(q, IF CountActiveByUser(call[q].user) >= MaxSessions
             THEN "evict" ELSE "session")
  /\ UNCHANGED <<account, sessions, keys, secrets, now, historyVars>>

LoginEvict(q) ==
  /\ At(q, "login", "evict")
  /\ RevokeOldestByUser(call[q].user)
  /\ Advance(q, "session")
  /\ UNCHANGED <<account, keys, secrets, now, historyVars>>

\* Login and RefreshToken end alike: new tokens, one new session row.
NewSession(q, parent) ==
  LET c == call[q] IN
  /\ Len(sessions) < workload.starts
  /\ SessionCreate(c.user, parent, now + refreshTTL(c.row),
                   issueAccessToken(c.user, c.row), c.alone)
  /\ Return(q)
  /\ UNCHANGED <<account, keys, secrets, now, historyVars>>

LoginSession(q) == At(q, "login", "session") /\ NewSession(q, 0)

HandleLogin(q) ==
  \/ \E u \in Members, p \in Passwords : LoginFind(q, u, p)
  \/ LoginCount(q) \/ LoginEvict(q) \/ LoginSession(q)
-----------------------------------------------------------------------------
(* RefreshToken and Logout. *)

RefreshGet(q, i) ==
  /\ GetByToken(i) /\ ~sessions[i].revoked /\ now <= sessions[i].expires
  /\ Open(q, "refresh", "account", sessions[i].user, Absent, i)
  /\ UNCHANGED <<account, sessions, keys, secrets, now, historyVars>>

RefreshAccount(q) ==
  LET u == call[q].user IN
  /\ At(q, "refresh", "account")
  /\ IF GetByID(u) THEN AdvanceWith(q, "revoke", account[u]) ELSE Return(q)
  /\ UNCHANGED <<account, sessions, keys, secrets, now, historyVars>>

RefreshRevoke(q) ==
  /\ At(q, "refresh", "revoke")
  /\ RevokeByToken(call[q].arg)
  /\ Advance(q, "session")
  /\ UNCHANGED <<account, keys, secrets, now, historyVars>>

RefreshSession(q) == At(q, "refresh", "session") /\ NewSession(q, call[q].arg)

\* Whoever holds a refresh token of any age may present it, here or to Logout.
HandleRefreshToken(q) ==
  \/ \E i \in DOMAIN sessions : RefreshGet(q, i)
  \/ RefreshAccount(q) \/ RefreshRevoke(q) \/ RefreshSession(q)

Logout(i) ==
  /\ RevokeByToken(i)
  /\ UNCHANGED <<account, keys, secrets, call, now, historyVars>>

HandleLogout == Asked("logout") /\ \E i \in DOMAIN sessions : Logout(i)
-----------------------------------------------------------------------------
(* The profile part of the row: UpdateMe, AdminUpdateProfile, ChangePassword. *)

UpdateProfileRead(q, u) ==
  /\ GetByID(u)
  /\ Open(q, "profile", "write", u, account[u], 0)
  /\ UNCHANGED <<account, sessions, keys, secrets, now, historyVars>>

\* A row update that met another one may have undone it.
MarkRaced(q) ==
  raced' = IF call[q].alone THEN raced ELSE raced \cup {call[q].user}

UpdateProfileWrite(q) ==
  /\ At(q, "profile", "write")
  /\ AccountUpdate(call[q].user, call[q].row)
  /\ MarkRaced(q)
  /\ Return(q)
  /\ UNCHANGED <<sessions, keys, secrets, now, confirmed, losses, chosen>>

HandleUpdateMe(q) ==
  \/ \E u \in Members : AsUser(u) /\ UpdateProfileRead(q, u)
  \/ UpdateProfileWrite(q)

HandleAdminUpdateProfile(q) == \E u \in Members : AsAdmin /\ UpdateProfileRead(q, u)

\* The request carries the old password; the new one passes validatePassword.
ChangePasswordRead(q, u, old, new) ==
  /\ GetByID(u) /\ account[u].password = old
  /\ Open(q, "password", "write", u, [account[u] EXCEPT !.password = new], 0)
  /\ UNCHANGED <<account, sessions, keys, secrets, now, historyVars>>

ChangePasswordWrite(q) ==
  LET u == call[q].user IN
  /\ At(q, "password", "write")
  /\ AccountUpdate(u, call[q].row)
  /\ chosen' = [chosen EXCEPT ![u] = call[q].row.password]
  /\ MarkRaced(q)
  /\ Return(q)
  /\ UNCHANGED <<sessions, keys, secrets, now, confirmed, losses>>

HandleChangePassword(q) ==
  \/ \E u \in Members, old, new \in Passwords :
       AsUser(u) /\ ChangePasswordRead(q, u, old, new)
  \/ ChangePasswordWrite(q)
-----------------------------------------------------------------------------
(* TOTP.  A code proves the knowledge of one secret: totp.Validate. *)

\* SetupTOTP reads the account for its e-mail and generates a new secret.
SetupTOTPRead(q, u) ==
  /\ GetByID(u) /\ secrets < MaxSecrets
  /\ Open(q, "setup", "write", u, Absent, secrets + 1)
  /\ secrets' = secrets + 1
  /\ UNCHANGED <<account, sessions, keys, now, historyVars>>

SetupTOTPWrite(q) ==
  /\ At(q, "setup", "write")
  /\ UpdateTOTP(call[q].user, FALSE, call[q].arg)
  /\ Return(q)
  /\ UNCHANGED <<sessions, keys, secrets, now, historyVars>>

HandleSetup2FA(q) ==
  \/ \E u \in Members : AsUser(u) /\ SetupTOTPRead(q, u)
  \/ SetupTOTPWrite(q)

EnableTOTPRead(q, u, code) ==
  /\ GetByID(u) /\ account[u].secret # 0 /\ code = account[u].secret
  /\ Open(q, "enable", "write", u, Absent, account[u].secret)
  /\ confirmed' = [confirmed EXCEPT ![u] = @ \cup {account[u].secret}]
  /\ UNCHANGED <<account, sessions, keys, secrets, now, losses, chosen, raced>>

EnableTOTPWrite(q) ==
  /\ At(q, "enable", "write")
  /\ UpdateTOTP(call[q].user, TRUE, call[q].arg)
  /\ Return(q)
  /\ UNCHANGED <<sessions, keys, secrets, now, historyVars>>

HandleEnable2FA(q) ==
  \/ \E u \in Members, code \in 1..MaxSecrets : AsUser(u) /\ EnableTOTPRead(q, u, code)
  \/ EnableTOTPWrite(q)

DisableTOTPRead(q, u, code) ==
  /\ GetByID(u) /\ account[u].enabled /\ code = account[u].secret
  /\ Open(q, "disable", "write", u, Absent, 0)
  /\ UNCHANGED <<account, sessions, keys, secrets, now, historyVars>>

DisableTOTPWrite(q) ==
  /\ At(q, "disable", "write")
  /\ UpdateTOTP(call[q].user, FALSE, 0)
  /\ Return(q)
  /\ UNCHANGED <<sessions, keys, secrets, now, historyVars>>

HandleDisable2FA(q) ==
  \/ \E u \in Members, code \in 1..MaxSecrets : AsUser(u) /\ DisableTOTPRead(q, u, code)
  \/ DisableTOTPWrite(q)
-----------------------------------------------------------------------------
(* API keys. *)

CreateAPIKey(u) ==
  /\ Len(keys) < MaxKeys
  /\ KeyCreate(u)
  /\ UNCHANGED <<account, sessions, secrets, call, now, historyVars>>

HandleCreateAPIKey ==
  Asked("create_key") /\ \E u \in Members : AsUser(u) /\ CreateAPIKey(u)

RevokeAPIKeyList(q, u, k) ==
  /\ k \in KeysOf(u)
  /\ Open(q, "revoke_key", "drop", u, Absent, k)
  /\ UNCHANGED <<account, sessions, keys, secrets, now, historyVars>>

RevokeAPIKeyDrop(q) ==
  /\ At(q, "revoke_key", "drop")
  /\ KeyRevoke(call[q].arg)
  /\ Return(q)
  /\ UNCHANGED <<account, sessions, secrets, now, historyVars>>

HandleRevokeAPIKey(q) ==
  \/ \E u \in Members, k \in DOMAIN keys : AsUser(u) /\ RevokeAPIKeyList(q, u, k)
  \/ RevokeAPIKeyDrop(q)
-----------------------------------------------------------------------------
(* The administrator's requests: one statement each. *)

AdminUpdateStatus(u, status) ==
  /\ UpdateStatus(u, status)
  /\ UNCHANGED <<sessions, keys, secrets, call, now, historyVars>>

\* UpdateRole refuses super_admin.
AdminUpdateRole(u, role) ==
  /\ UpdateRole(u, role)
  /\ losses' = [losses EXCEPT ![u] =
                  @ \cup {[role |-> account[u].role, at |-> now]}]
  /\ UNCHANGED <<sessions, keys, secrets, call, now, confirmed, chosen, raced>>

AdminDeleteUser(u) ==
  /\ SoftDelete(u)
  /\ UNCHANGED <<sessions, keys, secrets, call, now, historyVars>>

AdminDisable2FA(u) ==
  /\ UpdateTOTP(u, FALSE, 0)
  /\ UNCHANGED <<sessions, keys, secrets, call, now, historyVars>>

HandleAdmin(u) ==
  /\ AsAdmin /\ account[u].state # "absent"
  /\ \/ /\ Asked("status")
        /\ \E s \in {"active", "suspended", "banned"} : AdminUpdateStatus(u, s)
     \/ /\ Asked("role")
        /\ \E r \in {"user", "reseller", "admin"} : AdminUpdateRole(u, r)
     \/ Asked("delete") /\ AdminDeleteUser(u)
     \/ Asked("admin_disable") /\ AdminDisable2FA(u)
-----------------------------------------------------------------------------
(* The clock, failures, and the specification. *)

\* Bounds: a request lives across at most one tick of the clock, which moves
\* in the behaviours whose clients wait.
Tick ==
  /\ Asked("wait") /\ now < Horizon
  /\ \A q \in Calls : ~call[q].late
  /\ now' = now + 1
  /\ call' = [q \in Calls |->
                [call[q] EXCEPT !.late = call[q].step # "idle"]]
  /\ losses' = [u \in Members |-> {l \in losses[u] : now < l.at + AccessTTL}]
  /\ UNCHANGED <<account, sessions, keys, secrets, confirmed, chosen, raced>>

\* A statement fails, the client leaves or the service restarts: the call
\* ends where it is, and what its earlier statements wrote stays.
Lose(q) ==
  /\ call[q].step # "idle"
  /\ Return(q)
  /\ UNCHANGED <<account, sessions, keys, secrets, now, historyVars>>

AccountsInit ==
  /\ account = [u \in Members |-> IF u \in Seeds
       THEN NewAccount("super_admin", "active", TRUE, CHOOSE p \in Passwords : TRUE)
       ELSE Absent]
  /\ sessions = <<>> /\ keys = <<>> /\ secrets = 0 /\ now = 0
  /\ call = [q \in Calls |-> Idle]
  /\ confirmed = [u \in Members |-> {}] /\ losses = [u \in Members |-> {}]
  /\ chosen = [u \in Members |-> account[u].password] /\ raced = {}

AccountsNext ==
  \/ \E q \in Calls :
       \/ HandleRegister(q) \/ HandleLogin(q) \/ HandleRefreshToken(q)
       \/ HandleUpdateMe(q) \/ HandleAdminUpdateProfile(q)
       \/ HandleChangePassword(q)
       \/ HandleSetup2FA(q) \/ HandleEnable2FA(q) \/ HandleDisable2FA(q)
       \/ HandleRevokeAPIKey(q) \/ Lose(q)
  \/ HandleLogout \/ HandleCreateAPIKey
  \/ \E u \in Members : HandleAdmin(u)
  \/ Tick

AccountsSpec == /\ WorkloadInit /\ AccountsInit
                /\ [][AccountsNext /\ UNCHANGED workload]_<<accountsVars, workload>>
-----------------------------------------------------------------------------
(* Properties. *)

Session == [user: Members, parent: Nat, revoked: BOOLEAN, expires: Nat,
            access: [user: Members, role: Roles, exp: Nat], alone: BOOLEAN]

AccountsTypeOK ==
  /\ account \in [Members -> Account]
  /\ sessions \in Seq(Session)
  /\ keys \in Seq([user: Members, revoked: BOOLEAN])
  /\ secrets \in Nat /\ now \in Nat
  /\ call \in [Calls -> Call]
  /\ confirmed \in [Members -> SUBSET Nat]
  /\ losses \in [Members -> SUBSET [role: Roles, at: Nat]]
  /\ chosen \in [Members -> Nat] /\ raced \subseteq Members

\* A session whose predecessor had expired by the time it was created.
\* RefreshToken accepts a token in the instant that it expires (After is
\* strict), when CountActiveByUser no longer counts it.
OutlivesParent(i) ==
  /\ sessions[i].parent # 0
  /\ sessions[sessions[i].parent].expires + AccessTTL <= sessions[i].access.exp

\* MaxSessions is a limit on sessions in use: an account has more only by as
\* many as logins and refreshes that overlapped one another created
\* (auth_usecase.go:176-187 counts, evicts and creates in three statements)
\* or refreshes in the instant of expiry (auth_usecase.go:252).
SessionsBounded ==
  \A u \in Members : CountActiveByUser(u) <=
    MaxSessions + Cardinality({i \in DOMAIN sessions :
                     sessions[i].user = u /\ (~sessions[i].alone \/ OutlivesParent(i))})

\* A refresh token buys one successor: when it has two, both came from
\* refreshes that overlapped (auth_usecase.go:247-264 reads, then revokes).
RotatedOnce ==
  \A i, j \in DOMAIN sessions :
    (i # j /\ sessions[i].parent = sessions[j].parent /\ sessions[i].parent # 0)
      => ~sessions[i].alone

\* A demotion works within AccessTTL: an access token that Auth accepts names
\* a role its user has or had at most AccessTTL ago, however often it is
\* refreshed and even when its request began before the demotion.
StaleClaimsBounded ==
  \A t \in LiveTokens :
    \/ account[t.user].role = t.role
    \/ \E l \in losses[t.user] : l.role = t.role /\ now <= l.at + AccessTTL

\* A deleted account is out within AccessTTL: no refresh keeps it in.
DeletedLosesAccess ==
  \A t \in LiveTokens :
    account[t.user].state = "deleted" =>
      now <= account[t.user].deletedAt + AccessTTL

\* 2FA is never on with a secret whose owner did not prove to have it:
\* setups, enables and disables of one account may overlap in any way
\* (user_usecase.go:160-225).  A NULL secret would be one, and DisableTOTP
\* dereferences it.
EnabledSecretConfirmed ==
  \A u \in Members : account[u].enabled =>
    account[u].secret # 0 /\ account[u].secret \in confirmed[u]

\* The password is the one its owner set last, unless a profile update or
\* another password change overlapped (whole rows are written back).
PasswordKept ==
  \A u \in Members : account[u].password = chosen[u] \/ u \in raced
=============================================================================
