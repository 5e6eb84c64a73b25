--------------------------- MODULE MembersProofs ----------------------------
(***************************************************************************)
(* Proofs about user-service and reseller-service, for any members,        *)
(* requests, times to live, prices and limits and any interleaving.        *)
(***************************************************************************)
EXTENDS Accounts, Resellers, FiniteSetTheorems, WellFoundedInduction, TLAPS

-----------------------------------------------------------------------------
(* Accounts.  The invariant has five parts besides the types; for each a   *)
(* lemma (..Kept) says which changes cannot hurt it, and a step is only    *)
(* argued about where it makes another change.                             *)

\* Requests that overlap know it; a request that is known has a step to do.
Overlaps ==
  /\ \A q \in Calls : call[q].op # "none" => call[q].step # "idle"
  /\ \A p, q \in Calls :
       /\ p # q /\ call[p].user = call[q].user
       /\ \/ call[p].op \in SessionOps /\ call[q].op \in SessionOps
          \/ call[p].op \in RowOps /\ call[q].op \in RowOps
       => ~call[p].alone

\* EnableTOTP on its way to the UPDATE carries a confirmed secret.
Totp ==
  /\ EnabledSecretConfirmed
  /\ \A q \in Calls : call[q].op = "enable" =>
       call[q].arg # 0 /\ call[q].arg \in confirmed[call[q].user]

\* A request that has read the account and will issue a token for it.
Issuing(q) ==
  \/ call[q].op = "login"
  \/ call[q].op = "refresh" /\ call[q].step \in {"revoke", "session"}

LateBy(q) == IF call[q].late THEN 1 ELSE 0

\* What a request is about to claim was true when it began, at most a tick ago.
CallClaim(q) ==
  LET c == call[q]
      a == account[c.user]
  IN  Issuing(q) =>
        /\ a.state # "absent"
        /\ a.state = "deleted" => now <= a.deletedAt + LateBy(q)
        /\ \/ a.role = c.row.role
           \/ \E l \in losses[c.user] : l.role = c.row.role /\ now <= l.at + LateBy(q)

\* What an access token claims was true at most AccessTTL and a tick before
\* it expires.
TokenClaim(i) ==
  LET t == sessions[i].access
      a == account[t.user]
  IN  /\ a.state # "absent"
      /\ t.exp <= now + AccessTTL
      /\ a.state = "deleted" => t.exp <= a.deletedAt + AccessTTL + 1
      /\ \/ a.role = t.role
         \/ t.exp <= now
         \/ \E l \in losses[t.user] : l.role = t.role /\ t.exp <= l.at + AccessTTL + 1

Claims ==
  /\ \A q \in Calls : CallClaim(q)
  /\ \A i \in DOMAIN sessions : TokenClaim(i)

\* A profile update that met no other row update writes the present password.
Rows ==
  /\ PasswordKept
  /\ \A q \in Calls : call[q].op \in RowOps =>
       /\ account[call[q].user].state # "absent"
       /\ call[q].op = "profile" /\ call[q].alone =>
            \/ call[q].row.password = account[call[q].user].password
            \/ call[q].user \in raced

\* A session with a successor is revoked; a refresh of it that is still under
\* way overlapped the one that made the successor.
Rotation ==
  /\ RotatedOnce
  /\ \A i \in DOMAIN sessions : sessions[i].parent # 0 =>
       sessions[i].parent \in DOMAIN sessions /\ sessions[sessions[i].parent].revoked
  /\ \A q \in Calls : call[q].op = "refresh" =>
       LET k == call[q].arg IN
       /\ k \in DOMAIN sessions /\ k # 0 /\ sessions[k].user = call[q].user
       /\ call[q].step = "session" => sessions[k].revoked
       /\ \A i \in DOMAIN sessions : sessions[i].parent = k =>
            ~sessions[i].alone /\ ~call[q].alone

AccountsInv ==
  AccountsTypeOK /\ Overlaps /\ Totp /\ Claims /\ Rows /\ Rotation
-----------------------------------------------------------------------------
(* What the steps do to the requests. *)

\* p goes on as it was, except that it may have met another request.
Stays(p) ==
  /\ call'[p].op = call[p].op /\ call'[p].step = call[p].step
  /\ call'[p].user = call[p].user /\ call'[p].row = call[p].row
  /\ call'[p].arg = call[p].arg /\ call'[p].late = call[p].late
  /\ call'[p].alone => call[p].alone

\* Of the sessions, at most some revoked_at are set.
OnlyRevoked ==
  /\ sessions' \in Seq(Session) /\ DOMAIN sessions' = DOMAIN sessions
  /\ \A i \in DOMAIN sessions :
       /\ sessions'[i].parent = sessions[i].parent
       /\ sessions'[i].user = sessions[i].user
       /\ sessions'[i].alone = sessions[i].alone
       /\ sessions'[i].access = sessions[i].access
       /\ sessions'[i].expires = sessions[i].expires
       /\ sessions[i].revoked => sessions'[i].revoked

LEMMA RowTypes ==
  /\ Absent \in Account /\ Absent.state = "absent"
  /\ \A role \in Roles, status \in Statuses, verified \in BOOLEAN, password \in Nat :
       LET r == NewAccount(role, status, verified, password) IN
       /\ r \in Account
       /\ r.state = "live" /\ r.role = role /\ r.password = password
       /\ ~r.enabled /\ r.secret = 0 /\ r.deletedAt = 0
<1>1. ASSUME NEW role \in Roles, NEW status \in Statuses, NEW verified \in BOOLEAN,
             NEW password \in Nat
      PROVE  LET r == NewAccount(role, status, verified, password) IN
             /\ r \in Account
             /\ r.state = "live" /\ r.role = role /\ r.password = password
             /\ ~r.enabled /\ r.secret = 0 /\ r.deletedAt = 0
  BY DEF NewAccount, Account
<1>2. NewAccount("user", "pending_verification", FALSE, 0) \in Account
  BY DEF NewAccount, Account, Roles, Statuses
<1>3. Absent \in Account /\ Absent.state = "absent"
  BY <1>2 DEF Absent, Account
<1> QED BY <1>1, <1>3

LEMMA IdleType == Idle \in Call /\ Idle.op = "none"
BY RowTypes, PlatformAssumption DEF Idle, Call, CallOps, Steps

\* A request begins: the others notice that it meets them, and it meets them.
LEMMA Opened ==
  ASSUME AccountsTypeOK, Overlaps, NEW q \in Calls, NEW op \in CallOps,
         NEW step \in Steps, NEW u \in Members, NEW r \in Account, NEW arg \in Nat,
         Open(q, op, step, u, r, arg), step # "idle"
  PROVE  /\ call' \in [Calls -> Call]
         /\ call'[q].op = op /\ call'[q].step = step /\ call'[q].user = u
         /\ call'[q].row = r /\ call'[q].arg = arg /\ ~call'[q].late
         /\ \A p \in Calls \ {q} : Stays(p)
         /\ Overlaps'
<1> DEFINE c == [op |-> op, step |-> step, user |-> u, row |-> r, arg |-> arg,
                 alone |-> TRUE, late |-> FALSE]
           d == [c EXCEPT !.alone = \A o \in Calls : ~Meets(call[o], c)]
           e(p) == [call[p] EXCEPT !.alone = @ /\ ~Meets(call[p], c)]
<1>1. call' = [p \in Calls |-> IF p = q THEN d ELSE e(p)]
  BY DEF Open
<1>2. /\ d \in Call /\ d.op = op /\ d.step = step /\ d.user = u /\ d.row = r
      /\ d.arg = arg /\ ~d.late
      /\ d.alone = \A o \in Calls : ~Meets(call[o], c)
  <2>1. c \in Call
    BY DEF Call
  <2> QED BY <2>1 DEF Call
<1>3. ASSUME NEW p \in Calls
      PROVE  /\ e(p) \in Call
             /\ e(p).op = call[p].op /\ e(p).step = call[p].step
             /\ e(p).user = call[p].user /\ e(p).row = call[p].row
             /\ e(p).arg = call[p].arg /\ e(p).late = call[p].late
             /\ e(p).alone = (call[p].alone /\ ~Meets(call[p], c))
  BY DEF AccountsTypeOK, Call
<1>4. c.op = op /\ c.user = u
  OBVIOUS
<1> HIDE DEF c, d, e
<1>5. \A p \in Calls : call'[p] = IF p = q THEN d ELSE e(p)
  BY <1>1
<1>6. \A p \in Calls \ {q} : Stays(p)
  BY <1>3, <1>5 DEF Stays
<1>7. call' \in [Calls -> Call]
  BY <1>1, <1>2, <1>3
<1>8. Overlaps'
  <2>1. ASSUME NEW p \in Calls, call'[p].op # "none" PROVE call'[p].step # "idle"
    BY <1>2, <1>5, <1>6, <2>1 DEF Stays, Overlaps
  <2>2. ASSUME NEW p \in Calls, NEW s \in Calls, p # s,
               call'[p].user = call'[s].user,
               \/ call'[p].op \in SessionOps /\ call'[s].op \in SessionOps
               \/ call'[p].op \in RowOps /\ call'[s].op \in RowOps
        PROVE  ~call'[p].alone
    <3>1. CASE p = q
      <4>1. call[s].user = u /\ call[s].step # "idle"
            /\ \/ call[s].op \in SessionOps /\ op \in SessionOps
               \/ call[s].op \in RowOps /\ op \in RowOps
        BY <1>2, <1>5, <1>6, <2>2, <3>1 DEF Stays, Overlaps, SessionOps, RowOps
      <4>2. Meets(call[s], c)
        BY <1>4, <4>1 DEF Meets
      <4> QED BY <1>2, <1>5, <3>1, <4>2
    <3>2. CASE s = q
      <4>1. call[p].user = u /\ call[p].step # "idle"
            /\ \/ call[p].op \in SessionOps /\ op \in SessionOps
               \/ call[p].op \in RowOps /\ op \in RowOps
        BY <1>2, <1>5, <1>6, <2>2, <3>2 DEF Stays, Overlaps, SessionOps, RowOps
      <4>2. Meets(call[p], c)
        BY <1>4, <4>1 DEF Meets
      <4> QED BY <1>3, <1>5, <2>2, <3>2, <4>2
    <3>3. CASE p # q /\ s # q
      BY <1>6, <2>2, <3>3 DEF Stays, Overlaps
    <3> QED BY <3>1, <3>2, <3>3
  <2> QED BY <2>1, <2>2 DEF Overlaps
<1> QED BY <1>2, <1>5, <1>6, <1>7, <1>8

\* A request ends.
LEMMA CallReturned ==
  ASSUME AccountsTypeOK, NEW q \in Calls, Return(q)
  PROVE  /\ call' \in [Calls -> Call] /\ call'[q].op = "none"
         /\ \A p \in Calls \ {q} : Stays(p)
BY IdleType DEF AccountsTypeOK, Return, Stays

\* A request goes on to its next statement.
LEMMA Advanced ==
  ASSUME AccountsTypeOK, NEW q \in Calls, NEW step \in Steps, Advance(q, step)
  PROVE  /\ call' \in [Calls -> Call]
         /\ call'[q].op = call[q].op /\ call'[q].step = step
         /\ call'[q].user = call[q].user /\ call'[q].row = call[q].row
         /\ call'[q].arg = call[q].arg /\ call'[q].late = call[q].late
         /\ call'[q].alone = call[q].alone
         /\ \A p \in Calls \ {q} : Stays(p)
<1>1. LET d == [call[q] EXCEPT !.step = step] IN
      /\ d \in Call /\ d.op = call[q].op /\ d.step = step
      /\ d.user = call[q].user /\ d.row = call[q].row
      /\ d.arg = call[q].arg /\ d.late = call[q].late /\ d.alone = call[q].alone
  BY DEF AccountsTypeOK, Call
<1>2. call' = [call EXCEPT ![q] = [call[q] EXCEPT !.step = step]]
  BY DEF Advance, AccountsTypeOK
<1> QED BY <1>1, <1>2 DEF AccountsTypeOK, Stays

LEMMA AdvancedWith ==
  ASSUME AccountsTypeOK, NEW q \in Calls, NEW step \in Steps, NEW r \in Account,
         AdvanceWith(q, step, r)
  PROVE  /\ call' \in [Calls -> Call]
         /\ call'[q].op = call[q].op /\ call'[q].step = step
         /\ call'[q].user = call[q].user /\ call'[q].row = r
         /\ call'[q].arg = call[q].arg /\ call'[q].late = call[q].late
         /\ call'[q].alone = call[q].alone
         /\ \A p \in Calls \ {q} : Stays(p)
<1> DEFINE s == [call EXCEPT ![q].step = step]
<1>1. /\ s \in [Calls -> Call]
      /\ s[q].op = call[q].op /\ s[q].step = step
      /\ s[q].user = call[q].user /\ s[q].arg = call[q].arg
      /\ s[q].late = call[q].late /\ s[q].alone = call[q].alone
      /\ \A p \in Calls \ {q} : s[p] = call[p]
  BY DEF AccountsTypeOK, Call
<1>2. call' = [s EXCEPT ![q].row = r]
  BY DEF AdvanceWith
<1> HIDE DEF s
<1> QED BY <1>1, <1>2 DEF Call, Stays

\* No request passes from one side of the overlaps to the other.
LEMMA OverlapsKept ==
  ASSUME Overlaps,
         \A p \in Calls : \/ call'[p].op = "none"
                          \/ /\ call'[p].op = call[p].op /\ call'[p].user = call[p].user
                             /\ call'[p].alone => call[p].alone
                             /\ call'[p].step # "idle"
  PROVE  Overlaps'
BY DEF Overlaps, SessionOps, RowOps
-----------------------------------------------------------------------------
(* What cannot hurt a part of the invariant. *)

LEMMA TotpKept ==
  ASSUME Totp,
         \A u \in Members : confirmed[u] \subseteq confirmed'[u],
         \A u \in Members :
            \/ ~account'[u].enabled
            \/ account'[u].enabled = account[u].enabled /\ account'[u].secret = account[u].secret,
         \A q \in Calls : call[q].user \in Members /\
            \/ call'[q].op # "enable"
            \/ Stays(q)
  PROVE  Totp'
BY DEF Totp, EnabledSecretConfirmed, Stays

LEMMA CallClaimKept ==
  ASSUME AccountsTypeOK, NEW q \in Calls, CallClaim(q), now' = now,
         Issuing(q)' =>
           /\ Issuing(q)
           /\ call'[q].user = call[q].user /\ call'[q].row = call[q].row
           /\ call'[q].late = call[q].late,
         \A u \in Members :
           \/ account[u].state = "absent"
           \/ /\ account'[u].state = account[u].state
              /\ account'[u].deletedAt = account[u].deletedAt
              /\ account'[u].role = account[u].role,
         UNCHANGED losses
  PROVE  CallClaim(q)'
<1>1. call[q].user \in Members
  BY DEF AccountsTypeOK, Call
<1> QED BY <1>1 DEF CallClaim, LateBy

LEMMA TokenClaimKept ==
  ASSUME AccountsTypeOK, NEW i \in DOMAIN sessions, TokenClaim(i), now' = now,
         sessions'[i].access = sessions[i].access,
         \A u \in Members :
           \/ account[u].state = "absent"
           \/ /\ account'[u].state = account[u].state
              /\ account'[u].deletedAt = account[u].deletedAt
              /\ account'[u].role = account[u].role,
         UNCHANGED losses
  PROVE  TokenClaim(i)'
<1>1. sessions[i].access.user \in Members
  <2>1. sessions \in Seq(Session)
    BY DEF AccountsTypeOK
  <2>2. sessions[i] \in Session
    BY <2>1
  <2> QED BY <2>2 DEF Session
<1> QED BY <1>1 DEF TokenClaim

LEMMA ClaimsKept ==
  ASSUME AccountsTypeOK, Claims, now' = now, UNCHANGED losses,
         \A u \in Members :
           \/ account[u].state = "absent"
           \/ /\ account'[u].state = account[u].state
              /\ account'[u].deletedAt = account[u].deletedAt
              /\ account'[u].role = account[u].role,
         DOMAIN sessions' = DOMAIN sessions,
         \A i \in DOMAIN sessions : sessions'[i].access = sessions[i].access,
         \A q \in Calls : Issuing(q)' =>
           /\ Issuing(q)
           /\ call'[q].user = call[q].user /\ call'[q].row = call[q].row
           /\ call'[q].late = call[q].late
  PROVE  Claims'
<1>1. \A q \in Calls : CallClaim(q)'
  BY CallClaimKept DEF Claims
<1>2. \A i \in DOMAIN sessions : TokenClaim(i)'
  BY TokenClaimKept DEF Claims
<1> QED BY <1>1, <1>2 DEF Claims

LEMMA RowsKept ==
  ASSUME AccountsTypeOK, Rows, raced \subseteq raced',
         \A u \in Members :
           /\ account'[u].password = account[u].password
           /\ account'[u].state = "absent" => account[u].state = "absent",
         UNCHANGED chosen,
         \A q \in Calls : call'[q].op \in RowOps => Stays(q)
  PROVE  Rows'
<1>1. \A q \in Calls : call[q].user \in Members
  BY DEF AccountsTypeOK, Call
<1> QED BY <1>1 DEF Rows, PasswordKept, RowOps, Stays

LEMMA RotationKept ==
  ASSUME AccountsTypeOK, Rotation, DOMAIN sessions' = DOMAIN sessions,
         \A i \in DOMAIN sessions :
           /\ sessions'[i].parent = sessions[i].parent
           /\ sessions'[i].user = sessions[i].user
           /\ sessions'[i].alone = sessions[i].alone
           /\ sessions[i].revoked => sessions'[i].revoked,
         \A q \in Calls : call'[q].op = "refresh" =>
           /\ call[q].op = "refresh" /\ call'[q].user = call[q].user
           /\ call'[q].arg = call[q].arg
           /\ call'[q].alone => call[q].alone
           /\ \/ call'[q].step # "session"
              \/ call[q].step = "session"
              \/ sessions'[call[q].arg].revoked
  PROVE  Rotation'
<1>1. RotatedOnce'
  BY DEF Rotation, RotatedOnce
<1>2. ASSUME NEW i \in DOMAIN sessions, sessions'[i].parent # 0
      PROVE  sessions'[i].parent \in DOMAIN sessions /\ sessions'[sessions'[i].parent].revoked
  BY <1>2 DEF Rotation
<1>3. ASSUME NEW q \in Calls, call'[q].op = "refresh"
      PROVE  LET k == call'[q].arg IN
             /\ k \in DOMAIN sessions' /\ k # 0 /\ sessions'[k].user = call'[q].user
             /\ call'[q].step = "session" => sessions'[k].revoked
             /\ \A i \in DOMAIN sessions' : sessions'[i].parent = k =>
                  ~sessions'[i].alone /\ ~call'[q].alone
  <2> DEFINE k == call[q].arg
  <2>1. /\ call[q].op = "refresh" /\ call'[q].arg = k /\ call'[q].user = call[q].user
        /\ call'[q].alone => call[q].alone
    BY <1>3
  <2>2. /\ k \in DOMAIN sessions /\ k # 0 /\ sessions[k].user = call[q].user
        /\ call[q].step = "session" => sessions[k].revoked
        /\ \A i \in DOMAIN sessions : sessions[i].parent = k =>
             ~sessions[i].alone /\ ~call[q].alone
    BY <2>1 DEF Rotation
  <2>3. call'[q].step = "session" => sessions'[k].revoked
    BY <1>3, <2>2
  <2> QED BY <2>1, <2>2, <2>3
<1> QED BY <1>1, <1>2, <1>3 DEF Rotation
-----------------------------------------------------------------------------
(* Steps. *)

\* A request begins: what its first statement read is what the row says.
LEMMA StepOpen ==
  ASSUME AccountsInv, NEW q \in Calls, NEW op \in CallOps, NEW step \in Steps \ {"idle"},
         NEW u \in Members, NEW r \in Account, NEW arg \in Nat,
         Open(q, op, step, u, r, arg),
         UNCHANGED <<account, sessions, keys, now, losses, chosen, raced>>,
         secrets' \in Nat,
         confirmed' \in [Members -> SUBSET Nat],
         \A v \in Members : confirmed[v] \subseteq confirmed'[v],
         op = "enable" => arg # 0 /\ arg \in confirmed'[u],
         op \in {"login"} \cup RowOps => account[u].state = "live",
         op = "login" => r.role = account[u].role,
         op = "profile" => r.password = account[u].password,
         op = "refresh" => /\ step = "account" /\ arg \in DOMAIN sessions
                           /\ ~sessions[arg].revoked /\ sessions[arg].user = u
  PROVE  AccountsInv'
<1> USE DEF AccountsInv
<1>1. /\ call' \in [Calls -> Call]
      /\ call'[q].op = op /\ call'[q].step = step /\ call'[q].user = u
      /\ call'[q].row = r /\ call'[q].arg = arg /\ ~call'[q].late
      /\ \A p \in Calls \ {q} : Stays(p)
      /\ Overlaps'
  BY Opened
<1>2. AccountsTypeOK'
  BY <1>1 DEF AccountsTypeOK
<1>3. Totp'
  BY <1>1 DEF Totp, EnabledSecretConfirmed, Stays, AccountsTypeOK, Call
<1>4. Claims'
  <2>1. CallClaim(q)'
    BY <1>1 DEF CallClaim, Issuing
  <2>2. ASSUME NEW p \in Calls \ {q} PROVE CallClaim(p)'
    BY <1>1 DEF CallClaim, Issuing, LateBy, Stays, Claims
  <2>3. \A i \in DOMAIN sessions : TokenClaim(i)'
    BY DEF TokenClaim, Claims
  <2> QED BY <2>1, <2>2, <2>3 DEF Claims
<1>5. Rows'
  BY <1>1 DEF Rows, PasswordKept, Stays, RowOps
<1>6. Rotation'
  <2>1. ASSUME op = "refresh"
        PROVE  arg # 0 /\ \A i \in DOMAIN sessions : sessions[i].parent # arg
    <3>1. sessions \in Seq(Session)
      BY DEF AccountsTypeOK
    <3> QED BY <2>1, <3>1 DEF Rotation
  <2> QED BY <1>1, <2>1 DEF Rotation, RotatedOnce, Stays
<1> QED BY <1>1, <1>2, <1>3, <1>4, <1>5, <1>6

\* A request ends and leaves the tables alone, but for API keys.
LEMMA StepReturn ==
  ASSUME AccountsInv, NEW q \in Calls, Return(q),
         UNCHANGED <<account, sessions, secrets, now, historyVars>>,
         keys' \in Seq([user: Members, revoked: BOOLEAN])
  PROVE  AccountsInv'
<1> USE DEF AccountsInv, historyVars
<1>1. /\ call' \in [Calls -> Call] /\ call'[q].op = "none"
      /\ \A p \in Calls \ {q} : Stays(p)
  BY CallReturned
<1>2. AccountsTypeOK'
  BY <1>1 DEF AccountsTypeOK
<1>3. Overlaps'
  BY <1>1, OverlapsKept DEF Stays, Overlaps
<1>4. Totp'
  BY <1>1, TotpKept DEF AccountsTypeOK, Call
<1>5. Claims'
  BY <1>1, ClaimsKept DEF Issuing, Stays
<1>6. Rows'
  BY <1>1, RowsKept DEF RowOps
<1>7. Rotation'
  BY <1>1, RotationKept DEF Stays
<1> QED BY <1>2, <1>3, <1>4, <1>5, <1>6, <1>7

\* Requests that are one statement and change the keys only.
LEMMA StepKeys ==
  ASSUME AccountsInv, UNCHANGED <<account, sessions, secrets, now, historyVars, call>>,
         keys' \in Seq([user: Members, revoked: BOOLEAN])
  PROVE  AccountsInv'
<1> USE DEF AccountsInv, historyVars
<1>1. AccountsTypeOK'
  BY DEF AccountsTypeOK
<1>2. \A p \in Calls : Stays(p)
  BY DEF Stays
<1>3. Overlaps' /\ Totp'
  BY DEF Overlaps, Totp, EnabledSecretConfirmed
<1>4. Claims'
  BY DEF Claims, CallClaim, TokenClaim, Issuing, LateBy
<1>5. Rows' /\ Rotation'
  BY DEF Rows, Rotation, PasswordKept, RotatedOnce
<1> QED BY <1>1, <1>3, <1>4, <1>5

LEMMA UnchangedOnly ==
  ASSUME AccountsTypeOK, UNCHANGED sessions PROVE OnlyRevoked
BY DEF AccountsTypeOK, OnlyRevoked

\* The eviction.
LEMMA EvictedOnly ==
  ASSUME AccountsTypeOK, NEW u \in Members, RevokeOldestByUser(u) PROVE OnlyRevoked
<1> DEFINE ev(i) == i \in ActiveOf(u) /\ \A j \in ActiveOf(u) : i <= j
           new(i) == IF ev(i) THEN [sessions[i] EXCEPT !.revoked = TRUE] ELSE sessions[i]
<1>1. sessions' = [i \in DOMAIN sessions |-> new(i)]
  BY DEF RevokeOldestByUser
<1> HIDE DEF ev
<1>2. sessions \in Seq(Session)
  BY DEF AccountsTypeOK
<1>3. ASSUME NEW i \in DOMAIN sessions
      PROVE  /\ new(i) \in Session
             /\ new(i).parent = sessions[i].parent /\ new(i).user = sessions[i].user
             /\ new(i).alone = sessions[i].alone /\ new(i).access = sessions[i].access
             /\ new(i).expires = sessions[i].expires
             /\ sessions[i].revoked => new(i).revoked
  <2>1. sessions[i] \in Session
    BY <1>2
  <2> QED BY <2>1 DEF Session
<1> HIDE DEF new
<1> QED BY <1>1, <1>2, <1>3 DEF OnlyRevoked

\* RevokeByToken sets one revoked_at and touches nothing else of a session.
LEMMA Revoked ==
  ASSUME AccountsTypeOK, NEW k \in DOMAIN sessions, RevokeByToken(k)
  PROVE  OnlyRevoked /\ sessions'[k].revoked
<1> DEFINE new == [sessions[k] EXCEPT !.revoked = TRUE]
<1>1. sessions \in Seq(Session) /\ sessions[k] \in Session
  <2>1. sessions \in Seq(Session)
    BY DEF AccountsTypeOK
  <2> QED BY <2>1
<1>2. /\ new \in Session /\ new.revoked
      /\ new.parent = sessions[k].parent /\ new.user = sessions[k].user
      /\ new.alone = sessions[k].alone /\ new.access = sessions[k].access
      /\ new.expires = sessions[k].expires
  BY <1>1 DEF Session
<1>3. sessions' = [sessions EXCEPT ![k] = new]
  BY DEF RevokeByToken
<1> HIDE DEF new
<1> QED BY <1>1, <1>2, <1>3 DEF OnlyRevoked

\* CountActiveByUser and the eviction, which revokes some sessions.
LEMMA StepLogin ==
  ASSUME AccountsInv, NEW q \in Calls, LoginCount(q) \/ LoginEvict(q)
  PROVE  AccountsInv'
<1> USE DEF AccountsInv, historyVars
<1>1. PICK step \in {"evict", "session"} : Advance(q, step)
  BY DEF LoginCount, LoginEvict
<1>2. /\ call[q].op = "login"
      /\ UNCHANGED <<account, keys, secrets, now, historyVars>>
  BY DEF LoginCount, LoginEvict, At
<1>3. /\ call' \in [Calls -> Call]
      /\ call'[q].op = "login" /\ call'[q].step # "idle"
      /\ call'[q].user = call[q].user /\ call'[q].row = call[q].row
      /\ call'[q].late = call[q].late /\ call'[q].alone = call[q].alone
      /\ \A p \in Calls \ {q} : Stays(p)
  BY <1>1, <1>2, Advanced DEF Steps
<1>4. OnlyRevoked
  BY EvictedOnly, UnchangedOnly DEF LoginCount, LoginEvict, AccountsTypeOK, Call
<1>5. AccountsTypeOK'
  BY <1>2, <1>3, <1>4 DEF AccountsTypeOK, OnlyRevoked
<1>6. Overlaps'
  BY <1>3, <1>2, OverlapsKept DEF Stays, Overlaps
<1>7. Totp'
  BY <1>2, <1>3, TotpKept DEF AccountsTypeOK, Call
<1>8. Claims'
  BY <1>2, <1>3, <1>4, ClaimsKept DEF Issuing, Stays, OnlyRevoked
<1>9. Rows'
  BY <1>2, <1>3, RowsKept DEF RowOps
<1>10. Rotation'
  BY <1>2, <1>3, <1>4, RotationKept DEF Stays, OnlyRevoked
<1> QED BY <1>5, <1>6, <1>7, <1>8, <1>9, <1>10

\* The rotation's first half: the old session of a refresh.
LEMMA StepRefreshRevoke ==
  ASSUME AccountsInv, NEW q \in Calls, RefreshRevoke(q) PROVE AccountsInv'
<1> USE DEF AccountsInv, historyVars
<1>1. /\ call[q].op = "refresh" /\ call[q].step = "revoke"
      /\ UNCHANGED <<account, keys, secrets, now, historyVars>>
  BY DEF RefreshRevoke, At
<1>2. /\ call' \in [Calls -> Call]
      /\ call'[q].op = "refresh" /\ call'[q].step = "session"
      /\ call'[q].user = call[q].user /\ call'[q].row = call[q].row
      /\ call'[q].arg = call[q].arg /\ call'[q].late = call[q].late
      /\ call'[q].alone = call[q].alone
      /\ \A p \in Calls \ {q} : Stays(p)
  BY <1>1, Advanced DEF RefreshRevoke, Steps
<1>3. call[q].arg \in DOMAIN sessions
  BY <1>1 DEF Rotation
<1>4. OnlyRevoked /\ sessions'[call[q].arg].revoked
  BY <1>3, Revoked DEF RefreshRevoke
<1>5. AccountsTypeOK'
  BY <1>1, <1>2, <1>4 DEF AccountsTypeOK, OnlyRevoked
<1>6. Overlaps'
  BY <1>1, <1>2, OverlapsKept DEF Stays, Overlaps
<1>7. Totp'
  BY <1>1, <1>2, TotpKept DEF AccountsTypeOK, Call
<1>8. Claims'
  BY <1>1, <1>2, <1>4, ClaimsKept DEF Issuing, Stays, OnlyRevoked
<1>9. Rows'
  BY <1>1, <1>2, RowsKept DEF RowOps
<1>10. Rotation'
  BY <1>1, <1>2, <1>4, RotationKept DEF Stays, OnlyRevoked
<1> QED BY <1>5, <1>6, <1>7, <1>8, <1>9, <1>10

LEMMA StepLogout ==
  ASSUME AccountsInv, NEW k \in DOMAIN sessions, Logout(k) PROVE AccountsInv'
<1> USE DEF AccountsInv, historyVars
<1>1. UNCHANGED <<account, keys, secrets, call, now, historyVars>>
  BY DEF Logout
<1>2. OnlyRevoked
  BY Revoked DEF Logout
<1>3. \A p \in Calls : Stays(p)
  BY <1>1 DEF Stays
<1>4. AccountsTypeOK'
  BY <1>1, <1>2 DEF AccountsTypeOK, OnlyRevoked
<1>5. Overlaps' /\ Totp' /\ Rows'
  BY <1>1 DEF Overlaps, Totp, EnabledSecretConfirmed, Rows, PasswordKept
<1>6. Claims'
  BY <1>1, <1>2, ClaimsKept DEF Issuing, OnlyRevoked
<1>7. Rotation'
  BY <1>1, <1>2, <1>3, RotationKept DEF Stays, OnlyRevoked
<1> QED BY <1>4, <1>5, <1>6, <1>7

\* A refresh reads its account: what it will claim is true now.
LEMMA StepRefreshAccount ==
  ASSUME AccountsInv, NEW q \in Calls, RefreshAccount(q) PROVE AccountsInv'
<1> USE DEF AccountsInv, historyVars
<1> DEFINE u == call[q].user
<1>1. /\ call[q].op = "refresh" /\ call[q].step = "account"
      /\ UNCHANGED <<account, sessions, keys, secrets, now, historyVars>>
      /\ u \in Members /\ account[u] \in Account
  BY DEF RefreshAccount, At, AccountsTypeOK, Call
<1>2. CASE ~GetByID(u)
  <2>1. Return(q)
    BY <1>2 DEF RefreshAccount
  <2> QED BY <1>1, <2>1, StepReturn DEF AccountsTypeOK
<1>3. CASE GetByID(u)
  <2>1. AdvanceWith(q, "revoke", account[u])
    BY <1>3 DEF RefreshAccount
  <2>2. /\ call' \in [Calls -> Call]
        /\ call'[q].op = "refresh" /\ call'[q].step = "revoke"
        /\ call'[q].user = u /\ call'[q].row = account[u]
        /\ call'[q].arg = call[q].arg /\ call'[q].late = call[q].late
        /\ call'[q].alone = call[q].alone
        /\ \A p \in Calls \ {q} : Stays(p)
    BY <1>1, <2>1, AdvancedWith DEF Steps
  <2>3. AccountsTypeOK'
    BY <1>1, <2>2 DEF AccountsTypeOK
  <2>4. Overlaps'
    BY <1>1, <2>2, OverlapsKept DEF Stays, Overlaps
  <2>5. Totp'
    BY <1>1, <2>2, TotpKept DEF AccountsTypeOK, Call
  <2>6. Claims'
    <3>1. CallClaim(q)'
      BY <1>1, <1>3, <2>2 DEF CallClaim, GetByID
    <3>2. ASSUME NEW p \in Calls \ {q} PROVE CallClaim(p)'
      BY <1>1, <2>2, CallClaimKept DEF Claims, Issuing, Stays
    <3>3. \A i \in DOMAIN sessions : TokenClaim(i)'
      BY <1>1, TokenClaimKept DEF Claims
    <3> QED BY <1>1, <3>1, <3>2, <3>3 DEF Claims
  <2>7. Rows'
    BY <1>1, <2>2, RowsKept DEF RowOps
  <2>8. Rotation'
    BY <1>1, <2>2, RotationKept DEF Stays
  <2> QED BY <2>3, <2>4, <2>5, <2>6, <2>7, <2>8
<1> QED BY <1>2, <1>3

\* A login or a refresh creates its session.  The token claims what the
\* request read; a second successor of a token overlapped the first.
LEMMA StepSession ==
  ASSUME AccountsInv, NEW q \in Calls, NEW parent \in Nat, NewSession(q, parent),
         \/ call[q].op = "login" /\ parent = 0
         \/ call[q].op = "refresh" /\ call[q].step = "session" /\ parent = call[q].arg
  PROVE  AccountsInv'
<1> USE DEF AccountsInv, historyVars
<1> DEFINE c == call[q]
           t == [user |-> c.user, role |-> c.row.role, exp |-> now + AccessTTL]
           s == [user |-> c.user, parent |-> parent, revoked |-> FALSE,
                 expires |-> now + refreshTTL(c.row), access |-> t, alone |-> c.alone]
           n == Len(sessions) + 1
<1>1. /\ sessions' = Append(sessions, s)
      /\ UNCHANGED <<account, keys, secrets, now, historyVars>>
      /\ Return(q)
  BY DEF NewSession, SessionCreate, issueAccessToken
<1>2. /\ call' \in [Calls -> Call] /\ call'[q].op = "none"
      /\ \A p \in Calls \ {q} : Stays(p)
  BY <1>1, CallReturned
<1>3. /\ c \in Call /\ c.user \in Members /\ c.row.role \in Roles
      /\ c.alone \in BOOLEAN /\ now \in Nat
  BY DEF AccountsTypeOK, Call, Account
<1>4. s \in Session /\ t.user = c.user /\ t.role = c.row.role /\ t.exp = now + AccessTTL
      /\ s.access = t /\ s.parent = parent /\ s.user = c.user /\ s.alone = c.alone
  <2>1. refreshTTL(c.row) \in Nat
    BY AccountsAssumption DEF refreshTTL
  <2> QED BY <1>3, <2>1, AccountsAssumption DEF Session
<1> HIDE DEF s, t
<1>5. /\ sessions \in Seq(Session) /\ sessions' \in Seq(Session)
      /\ DOMAIN sessions' = DOMAIN sessions \cup {n} /\ n \notin DOMAIN sessions
      /\ sessions'[n] = s
      /\ \A i \in DOMAIN sessions : sessions'[i] = sessions[i]
  <2>1. sessions \in Seq(Session)
    BY DEF AccountsTypeOK
  <2> QED BY <1>1, <1>4, <2>1
<1>6. AccountsTypeOK'
  BY <1>1, <1>2, <1>5 DEF AccountsTypeOK
<1>7. Overlaps'
  BY <1>1, <1>2, OverlapsKept DEF Stays, Overlaps
<1>8. Totp'
  BY <1>1, <1>2, TotpKept DEF AccountsTypeOK, Call
<1>9. Claims'
  <2>1. \A p \in Calls : CallClaim(p)'
    BY <1>1, <1>2, CallClaimKept DEF Claims, Issuing, Stays
  <2>2. ASSUME NEW i \in DOMAIN sessions PROVE TokenClaim(i)'
    BY <1>1, <1>5, TokenClaimKept DEF Claims
  <2>3. ASSUME NEW i \in DOMAIN sessions', i = n PROVE TokenClaim(i)'
    <3> DEFINE a == account[c.user]
    <3>1. /\ a.state # "absent"
          /\ a.state = "deleted" => now <= a.deletedAt + LateBy(q)
          /\ \/ a.role = c.row.role
             \/ \E l \in losses[c.user] : l.role = c.row.role /\ now <= l.at + LateBy(q)
      BY DEF Claims, CallClaim, Issuing
    <3>2. a.deletedAt \in Nat /\ \A l \in losses[c.user] : l.at \in Nat
      BY <1>3 DEF AccountsTypeOK, Account
    <3>3. LateBy(q) \in {0, 1}
      BY DEF LateBy
    <3>4. a.state = "deleted" => t.exp <= a.deletedAt + AccessTTL + 1
      BY <1>3, <1>4, <3>1, <3>2, <3>3, AccountsAssumption
    <3>5. ASSUME NEW l \in losses[c.user], now <= l.at + LateBy(q)
          PROVE  t.exp <= l.at + AccessTTL + 1
      BY <1>3, <1>4, <3>2, <3>3, <3>5, AccountsAssumption
    <3>6. t.exp <= now + AccessTTL
      BY <1>3, <1>4, AccountsAssumption
    <3>7. sessions'[i].access = t /\ account' = account /\ losses' = losses /\ now' = now
      BY <1>1, <1>4, <1>5, <2>3
    <3> QED BY <1>4, <3>1, <3>4, <3>5, <3>6, <3>7 DEF TokenClaim
  <2> QED BY <1>5, <2>1, <2>2, <2>3 DEF Claims
<1>10. Rows'
  BY <1>1, <1>2, RowsKept DEF RowOps
<1>11. Rotation'
  <2>1. \/ parent = 0
        \/ /\ parent \in DOMAIN sessions /\ sessions[parent].revoked
           /\ sessions[parent].user = c.user /\ c.op = "refresh"
           /\ \A i \in DOMAIN sessions : sessions[i].parent = parent =>
                ~sessions[i].alone /\ ~c.alone
    BY DEF Rotation
  <2>2. \A i \in DOMAIN sessions : sessions[i].parent # 0 =>
          sessions[i].parent \in DOMAIN sessions /\ sessions[sessions[i].parent].revoked
    BY DEF Rotation
  <2>3. \A i, j \in DOMAIN sessions :
          (i # j /\ sessions[i].parent = sessions[j].parent /\ sessions[i].parent # 0)
            => ~sessions[i].alone
    BY DEF Rotation, RotatedOnce
  <2>4. RotatedOnce'
    <3> SUFFICES ASSUME NEW i \in DOMAIN sessions', NEW j \in DOMAIN sessions', i # j,
                        sessions'[i].parent = sessions'[j].parent, sessions'[i].parent # 0
                 PROVE  ~sessions'[i].alone
      BY DEF RotatedOnce
    <3>1. CASE i \in DOMAIN sessions /\ j \in DOMAIN sessions
      BY <1>5, <2>3, <3>1
    <3>2. CASE i = n
      BY <1>4, <1>5, <2>1, <3>2
    <3>3. CASE j = n
      BY <1>4, <1>5, <2>1, <3>3
    <3> QED BY <1>5, <3>1, <3>2, <3>3
  <2>5. \A i \in DOMAIN sessions' : sessions'[i].parent # 0 =>
          /\ sessions'[i].parent \in DOMAIN sessions'
          /\ sessions'[sessions'[i].parent].revoked
    BY <1>4, <1>5, <2>1, <2>2
  <2>6. ASSUME NEW p \in Calls, call'[p].op = "refresh"
        PROVE  LET k == call'[p].arg IN
               /\ k \in DOMAIN sessions' /\ k # 0 /\ sessions'[k].user = call'[p].user
               /\ call'[p].step = "session" => sessions'[k].revoked
               /\ \A i \in DOMAIN sessions' : sessions'[i].parent = k =>
                    ~sessions'[i].alone /\ ~call'[p].alone
    <3> DEFINE k == call[p].arg
    <3>1. /\ p # q /\ call[p].op = "refresh" /\ call'[p].arg = k
          /\ call'[p].user = call[p].user /\ call'[p].step = call[p].step
          /\ call'[p].alone => call[p].alone
      BY <1>2, <2>6 DEF Stays
    <3>2. /\ k \in DOMAIN sessions /\ k # 0 /\ sessions[k].user = call[p].user
          /\ call[p].step = "session" => sessions[k].revoked
          /\ \A i \in DOMAIN sessions : sessions[i].parent = k =>
               ~sessions[i].alone /\ ~call[p].alone
      BY <3>1 DEF Rotation
    <3>3. ASSUME parent = k PROVE ~c.alone /\ ~call[p].alone
      <4>1. call[p].user = c.user /\ c.op = "refresh"
        BY <2>1, <3>2, <3>3
      <4> QED BY <3>1, <4>1 DEF Overlaps, SessionOps
    <3> QED BY <1>4, <1>5, <3>1, <3>2, <3>3
  <2> QED BY <2>4, <2>5, <2>6 DEF Rotation
<1> QED BY <1>6, <1>7, <1>8, <1>9, <1>10, <1>11

\* The INSERT of a new account, which no request or token knew.
LEMMA StepRegister ==
  ASSUME AccountsInv, NEW q \in Calls, RegisterInsert(q) PROVE AccountsInv'
<1> USE DEF AccountsInv
<1> DEFINE u == call[q].user
           w == call[q].arg
           r == NewAccount("user", "pending_verification", FALSE, w)
<1>1. /\ UNCHANGED <<sessions, keys, secrets, now, confirmed, losses, raced>>
      /\ Return(q) /\ call[q].op = "register"
      /\ u \in Members /\ w \in Nat /\ account[u] \in Account
  BY DEF RegisterInsert, At, AccountsTypeOK, Call
<1>2. /\ call' \in [Calls -> Call] /\ call'[q].op = "none"
      /\ \A p \in Calls \ {q} : Stays(p)
  BY <1>1, CallReturned
<1>3. r \in Account /\ r.state = "live" /\ r.password = w /\ ~r.enabled
  BY <1>1 DEF NewAccount, Account, Roles, Statuses
<1> HIDE DEF r
<1>4. /\ account' \in [Members -> Account] /\ chosen' \in [Members -> Nat]
      /\ \A v \in Members \ {u} : account'[v] = account[v] /\ chosen'[v] = chosen[v]
      /\ account[u].state = "absent" => account'[u] = r /\ chosen'[u] = w
      /\ account[u].state # "absent" =>
           account'[u] = account[u] /\ chosen'[u] = chosen[u]
  BY <1>1, <1>3 DEF RegisterInsert, AccountCreate, AccountsTypeOK, r
<1>5. AccountsTypeOK'
  BY <1>1, <1>2, <1>4 DEF AccountsTypeOK
<1>6. Overlaps'
  BY <1>1, <1>2, OverlapsKept DEF Stays, Overlaps
<1>7. Totp'
  <2>1. ASSUME NEW v \in Members
        PROVE  \/ ~account'[v].enabled
               \/ /\ account'[v].enabled = account[v].enabled
                  /\ account'[v].secret = account[v].secret
    BY <1>3, <1>4
  <2> QED BY <1>1, <1>2, <2>1, TotpKept DEF AccountsTypeOK, Call
<1>8. Claims'
  <2>1. ASSUME NEW v \in Members
        PROVE  \/ account[v].state = "absent"
               \/ /\ account'[v].state = account[v].state
                  /\ account'[v].deletedAt = account[v].deletedAt
                  /\ account'[v].role = account[v].role
    BY <1>4
  <2> QED BY <1>1, <1>2, <2>1, ClaimsKept DEF Issuing, Stays
<1>9. Rows'
  <2>1. PasswordKept'
    BY <1>1, <1>3, <1>4 DEF Rows, PasswordKept
  <2>2. ASSUME NEW p \in Calls, call'[p].op \in RowOps
        PROVE  /\ account'[call'[p].user].state # "absent"
               /\ call'[p].op = "profile" /\ call'[p].alone =>
                    \/ call'[p].row.password = account'[call'[p].user].password
                    \/ call'[p].user \in raced'
    <3>1. Stays(p) /\ call[p].user \in Members
      BY <1>2, <2>2 DEF RowOps, AccountsTypeOK, Call
    <3>2. account[call[p].user].state # "absent"
      BY <2>2, <3>1 DEF Rows, Stays
    <3>3. account'[call[p].user] = account[call[p].user]
      BY <1>4, <3>1, <3>2
    <3> QED BY <1>1, <2>2, <3>1, <3>2, <3>3 DEF Rows, Stays
  <2> QED BY <2>1, <2>2 DEF Rows
<1>10. Rotation'
  BY <1>1, <1>2, RotationKept DEF Stays
<1> QED BY <1>5, <1>6, <1>7, <1>8, <1>9, <1>10

\* What a row update writes, and what it leaves alone.
LEMMA RowUpdated ==
  ASSUME AccountsTypeOK, NEW u \in Members, NEW r \in Account, AccountUpdate(u, r)
  PROVE  /\ account' \in [Members -> Account]
         /\ \A v \in Members \ {u} : account'[v] = account[v]
         /\ account'[u].password = r.password
         /\ account'[u].state = account[u].state
         /\ account'[u].deletedAt = account[u].deletedAt
         /\ account'[u].role = account[u].role
         /\ account'[u].enabled = account[u].enabled
         /\ account'[u].secret = account[u].secret
<1> DEFINE m == [account EXCEPT ![u].password = r.password]
<1>1. /\ m \in [Members -> Account]
      /\ \A v \in Members \ {u} : m[v] = account[v]
      /\ m[u].password = r.password
      /\ m[u].state = account[u].state /\ m[u].deletedAt = account[u].deletedAt
      /\ m[u].role = account[u].role /\ m[u].enabled = account[u].enabled
      /\ m[u].secret = account[u].secret
  BY DEF AccountsTypeOK, Account
<1>2. account' = [m EXCEPT ![u].verified = r.verified]
  BY DEF AccountUpdate
<1> HIDE DEF m
<1> QED BY <1>1, <1>2 DEF Account

\* A row update that overlapped none writes the password its owner chose; one
\* that overlapped is in raced from then on.
LEMMA StepRowWrite ==
  ASSUME AccountsInv, NEW q \in Calls, UpdateProfileWrite(q) \/ ChangePasswordWrite(q)
  PROVE  AccountsInv'
<1> USE DEF AccountsInv
<1> DEFINE u == call[q].user
           r == call[q].row
<1>1. /\ UNCHANGED <<sessions, keys, secrets, now, confirmed, losses>>
      /\ Return(q) /\ call[q].op \in RowOps /\ AccountUpdate(u, r)
      /\ raced' = IF call[q].alone THEN raced ELSE raced \cup {u}
  BY DEF UpdateProfileWrite, ChangePasswordWrite, At, RowOps, MarkRaced
<1>2. /\ u \in Members /\ r \in Account /\ r.password \in Nat
  BY DEF AccountsTypeOK, Call, Account
<1>3. /\ call' \in [Calls -> Call] /\ call'[q].op = "none"
      /\ \A p \in Calls \ {q} : Stays(p)
  BY <1>1, CallReturned
<1>4. /\ account' \in [Members -> Account]
      /\ \A v \in Members \ {u} : account'[v] = account[v]
      /\ account'[u].password = r.password
      /\ account'[u].state = account[u].state
      /\ account'[u].deletedAt = account[u].deletedAt
      /\ account'[u].role = account[u].role
      /\ account'[u].enabled = account[u].enabled
      /\ account'[u].secret = account[u].secret
  BY <1>1, <1>2, RowUpdated
<1>5. /\ chosen' \in [Members -> Nat]
      /\ \A v \in Members \ {u} : chosen'[v] = chosen[v]
      /\ \/ call[q].op = "profile" /\ chosen'[u] = chosen[u]
         \/ chosen'[u] = r.password
  BY <1>2 DEF UpdateProfileWrite, ChangePasswordWrite, At, AccountsTypeOK
<1>6. AccountsTypeOK'
  BY <1>1, <1>2, <1>3, <1>4, <1>5 DEF AccountsTypeOK
<1>7. Overlaps'
  BY <1>1, <1>3, OverlapsKept DEF Stays, Overlaps
<1>8. Totp'
  <2>1. ASSUME NEW v \in Members
        PROVE  /\ account'[v].enabled = account[v].enabled
               /\ account'[v].secret = account[v].secret
    BY <1>4
  <2> QED BY <1>1, <1>3, <2>1, TotpKept DEF AccountsTypeOK, Call
<1>9. Claims'
  <2>1. ASSUME NEW v \in Members
        PROVE  /\ account'[v].state = account[v].state
               /\ account'[v].deletedAt = account[v].deletedAt
               /\ account'[v].role = account[v].role
    BY <1>4
  <2> QED BY <1>1, <1>3, <2>1, ClaimsKept DEF Issuing, Stays
<1>10. Rows'
  <2>1. account'[u].password = chosen'[u] \/ u \in raced'
    <3>1. CASE call[q].alone /\ chosen'[u] = chosen[u] /\ call[q].op = "profile"
      BY <1>1, <1>2, <1>4, <3>1 DEF Rows, PasswordKept
    <3>2. CASE ~call[q].alone
      BY <1>1, <3>2
    <3> QED BY <1>4, <1>5, <3>1, <3>2
  <2>2. PasswordKept'
    BY <1>1, <1>4, <1>5, <2>1 DEF Rows, PasswordKept
  <2>3. ASSUME NEW p \in Calls, call'[p].op \in RowOps
        PROVE  /\ account'[call'[p].user].state # "absent"
               /\ call'[p].op = "profile" /\ call'[p].alone =>
                    \/ call'[p].row.password = account'[call'[p].user].password
                    \/ call'[p].user \in raced'
    <3>1. Stays(p) /\ p # q /\ call[p].user \in Members
      BY <1>3, <2>3 DEF RowOps, AccountsTypeOK, Call
    <3>2. account'[call[p].user].state # "absent"
      BY <1>4, <2>3, <3>1 DEF Rows, Stays
    <3>3. CASE call[p].user = u
      BY <1>1, <2>3, <3>1, <3>2, <3>3 DEF Overlaps, Stays
    <3>4. CASE call[p].user # u
      <4>1. account'[call[p].user] = account[call[p].user]
        BY <1>4, <3>1, <3>4
      <4> QED BY <1>1, <2>3, <3>1, <3>2, <4>1 DEF Rows, Stays
    <3> QED BY <3>3, <3>4
  <2> QED BY <2>2, <2>3 DEF Rows
<1>11. Rotation'
  BY <1>1, <1>3, RotationKept DEF Stays
<1> QED BY <1>6, <1>7, <1>8, <1>9, <1>10, <1>11

\* UpdateTOTP writes its two columns.
LEMMA TotpUpdated ==
  ASSUME AccountsTypeOK, NEW u \in Members, NEW e \in BOOLEAN, NEW s \in Nat,
         UpdateTOTP(u, e, s)
  PROVE  /\ account' \in [Members -> Account]
         /\ \A v \in Members \ {u} : account'[v] = account[v]
         /\ account'[u].enabled = e /\ account'[u].secret = s
         /\ account'[u].password = account[u].password
         /\ account'[u].state = account[u].state
         /\ account'[u].deletedAt = account[u].deletedAt
         /\ account'[u].role = account[u].role
<1> DEFINE m == [account EXCEPT ![u].enabled = e]
<1>1. /\ m \in [Members -> Account]
      /\ \A v \in Members \ {u} : m[v] = account[v]
      /\ m[u].enabled = e /\ m[u].password = account[u].password
      /\ m[u].state = account[u].state /\ m[u].deletedAt = account[u].deletedAt
      /\ m[u].role = account[u].role
  BY DEF AccountsTypeOK, Account
<1>2. account' = [m EXCEPT ![u].secret = s]
  BY DEF UpdateTOTP
<1> HIDE DEF m
<1> QED BY <1>1, <1>2 DEF Account

\* Only EnableTOTP turns 2FA on, with a secret that was confirmed.
LEMMA StepTotpWrite ==
  ASSUME AccountsInv, NEW u \in Members, NEW e \in BOOLEAN, NEW s \in Nat,
         UpdateTOTP(u, e, s), e => s # 0 /\ s \in confirmed[u],
         UNCHANGED <<sessions, keys, secrets, now, historyVars>>,
         \/ UNCHANGED call
         \/ \E q \in Calls : Return(q)
  PROVE  AccountsInv'
<1> USE DEF AccountsInv, historyVars
<1>1. call' \in [Calls -> Call] /\ \A p \in Calls : call'[p].op = "none" \/ Stays(p)
  <2>1. CASE UNCHANGED call
    BY <2>1 DEF AccountsTypeOK, Stays
  <2>2. CASE \E q \in Calls : Return(q)
    BY <2>2, CallReturned
  <2> QED BY <2>1, <2>2
<1>2. /\ account' \in [Members -> Account]
      /\ \A v \in Members \ {u} : account'[v] = account[v]
      /\ account'[u].enabled = e /\ account'[u].secret = s
      /\ account'[u].password = account[u].password
      /\ account'[u].state = account[u].state
      /\ account'[u].deletedAt = account[u].deletedAt
      /\ account'[u].role = account[u].role
  BY TotpUpdated
<1>3. AccountsTypeOK'
  BY <1>1, <1>2 DEF AccountsTypeOK
<1>4. Overlaps'
  BY <1>1, OverlapsKept DEF Stays, Overlaps
<1>5. Totp'
  <2>1. EnabledSecretConfirmed'
    BY <1>2 DEF Totp, EnabledSecretConfirmed
  <2> QED BY <1>1, <2>1 DEF Totp, Stays
<1>6. Claims'
  <2>1. ASSUME NEW v \in Members
        PROVE  /\ account'[v].state = account[v].state
               /\ account'[v].deletedAt = account[v].deletedAt
               /\ account'[v].role = account[v].role
    BY <1>2
  <2> QED BY <1>1, <2>1, ClaimsKept DEF Issuing, Stays
<1>7. Rows'
  <2>1. ASSUME NEW v \in Members
        PROVE  /\ account'[v].password = account[v].password
               /\ account'[v].state = account[v].state
    BY <1>2
  <2> QED BY <1>1, <2>1, RowsKept DEF RowOps
<1>8. Rotation'
  BY <1>1, RotationKept DEF Stays
<1> QED BY <1>3, <1>4, <1>5, <1>6, <1>7, <1>8

\* UpdateStatus writes a column that none of this is about.
LEMMA StepStatus ==
  ASSUME AccountsInv, NEW u \in Members, NEW status \in Statuses,
         AdminUpdateStatus(u, status)
  PROVE  AccountsInv'
<1> USE DEF AccountsInv, historyVars
<1>1. UNCHANGED <<sessions, keys, secrets, call, now, historyVars>>
  BY DEF AdminUpdateStatus
<1>2. /\ account' \in [Members -> Account]
      /\ \A v \in Members :
           /\ account'[v].enabled = account[v].enabled
           /\ account'[v].secret = account[v].secret
           /\ account'[v].password = account[v].password
           /\ account'[v].state = account[v].state
           /\ account'[v].deletedAt = account[v].deletedAt
           /\ account'[v].role = account[v].role
  BY DEF AdminUpdateStatus, UpdateStatus, AccountsTypeOK, Account
<1>3. \A p \in Calls : Stays(p)
  BY <1>1 DEF Stays
<1>4. AccountsTypeOK' /\ Overlaps'
  BY <1>1, <1>2 DEF AccountsTypeOK, Overlaps
<1>5. Totp'
  BY <1>1, <1>2, <1>3, TotpKept DEF AccountsTypeOK, Call
<1>6. Claims'
  BY <1>1, <1>2, ClaimsKept DEF Issuing
<1>7. Rows'
  BY <1>1, <1>2, <1>3, RowsKept
<1>8. Rotation'
  BY <1>1, RotationKept
<1> QED BY <1>4, <1>5, <1>6, <1>7, <1>8

\* A role that is taken away is remembered with the time of the loss: every
\* claim of it was true until now.
LEMMA StepRole ==
  ASSUME AccountsInv, NEW u \in Members, NEW role \in Roles, AdminUpdateRole(u, role)
  PROVE  AccountsInv'
<1> USE DEF AccountsInv, historyVars
<1> DEFINE lost == [role |-> account[u].role, at |-> now]
<1>1. UNCHANGED <<sessions, keys, secrets, call, now, confirmed, chosen, raced>>
  BY DEF AdminUpdateRole
<1>2. /\ account' \in [Members -> Account]
      /\ \A v \in Members :
           /\ account'[v].enabled = account[v].enabled
           /\ account'[v].secret = account[v].secret
           /\ account'[v].password = account[v].password
           /\ account'[v].state = account[v].state
           /\ account'[v].deletedAt = account[v].deletedAt
           /\ v # u => account'[v].role = account[v].role
  BY DEF AdminUpdateRole, UpdateRole, AccountsTypeOK, Account
<1>3. /\ lost \in [role: Roles, at: Nat]
      /\ lost.role = account[u].role /\ lost.at = now /\ now \in Nat
  BY DEF AccountsTypeOK, Account
<1>4. losses' = [losses EXCEPT ![u] = @ \cup {lost}]
  BY DEF AdminUpdateRole
<1> HIDE DEF lost
<1>5. /\ losses' \in [Members -> SUBSET [role: Roles, at: Nat]]
      /\ lost \in losses'[u]
      /\ \A v \in Members : losses[v] \subseteq losses'[v]
  BY <1>3, <1>4 DEF AccountsTypeOK
<1>6. \A p \in Calls : Stays(p)
  BY <1>1 DEF Stays
<1>7. AccountsTypeOK' /\ Overlaps'
  BY <1>1, <1>2, <1>5 DEF AccountsTypeOK, Overlaps
<1>8. Totp'
  BY <1>1, <1>2, <1>6, TotpKept DEF AccountsTypeOK, Call
<1>9. Claims'
  <2>1. ASSUME NEW q \in Calls PROVE CallClaim(q)'
    <3>1. call[q].user \in Members /\ LateBy(q) \in {0, 1} /\ CallClaim(q)
      BY DEF AccountsTypeOK, Call, LateBy, Claims
    <3>2. Issuing(q)' = Issuing(q) /\ LateBy(q)' = LateBy(q)
      BY <1>1 DEF Issuing, LateBy
    <3>3. now <= lost.at + LateBy(q)
      BY <1>3, <3>1
    <3> QED BY <1>1, <1>2, <1>3, <1>5, <3>1, <3>2, <3>3 DEF CallClaim
  <2>2. ASSUME NEW i \in DOMAIN sessions PROVE TokenClaim(i)'
    <3> DEFINE t == sessions[i].access
    <3>1. TokenClaim(i) /\ t.user \in Members /\ t.exp \in Nat
      <4>1. sessions \in Seq(Session)
        BY DEF AccountsTypeOK
      <4>2. sessions[i] \in Session
        BY <4>1
      <4> QED BY <4>2 DEF Session, Claims
    <3>2. t.exp <= lost.at + AccessTTL + 1
      BY <1>3, <3>1, AccountsAssumption DEF TokenClaim
    <3> QED BY <1>1, <1>2, <1>3, <1>5, <3>1, <3>2 DEF TokenClaim
  <2> QED BY <1>1, <2>1, <2>2 DEF Claims
<1>10. Rows'
  BY <1>1, <1>2, <1>6, RowsKept
<1>11. Rotation'
  BY <1>1, RotationKept
<1> QED BY <1>7, <1>8, <1>9, <1>10, <1>11

\* Every token of a deleted account was issued by now, or will be by a request
\* that is already under way.
LEMMA StepDelete ==
  ASSUME AccountsInv, NEW u \in Members, account[u].state # "absent", AdminDeleteUser(u)
  PROVE  AccountsInv'
<1> USE DEF AccountsInv, historyVars
<1> DEFINE m == [account EXCEPT ![u].state = "deleted"]
<1>1. UNCHANGED <<sessions, keys, secrets, call, now, historyVars>>
  BY DEF AdminDeleteUser
<1>2. /\ account' \in [Members -> Account]
      /\ \A v \in Members \ {u} : account'[v] = account[v]
      /\ account'[u].state = "deleted" /\ account'[u].deletedAt = now
      /\ \A v \in Members :
           /\ account'[v].enabled = account[v].enabled
           /\ account'[v].secret = account[v].secret
           /\ account'[v].password = account[v].password
           /\ account'[v].role = account[v].role
           /\ account'[v].state = "absent" => account[v].state = "absent"
  <2>1. /\ m \in [Members -> Account]
        /\ \A v \in Members \ {u} : m[v] = account[v]
        /\ m[u].state = "deleted"
        /\ m[u].enabled = account[u].enabled /\ m[u].secret = account[u].secret
        /\ m[u].password = account[u].password /\ m[u].role = account[u].role
    BY DEF AccountsTypeOK, Account
  <2>2. account' = [m EXCEPT ![u].deletedAt = now] /\ now \in Nat
    BY DEF AdminDeleteUser, SoftDelete, AccountsTypeOK
  <2> HIDE DEF m
  <2>3. /\ account' \in [Members -> Account]
        /\ \A v \in Members \ {u} : account'[v] = account[v]
        /\ account'[u].state = "deleted" /\ account'[u].deletedAt = now
        /\ account'[u].enabled = account[u].enabled /\ account'[u].secret = account[u].secret
        /\ account'[u].password = account[u].password /\ account'[u].role = account[u].role
    BY <2>1, <2>2 DEF Account
  <2> QED BY <2>3
<1>3. \A p \in Calls : Stays(p)
  BY <1>1 DEF Stays
<1>4. AccountsTypeOK' /\ Overlaps'
  BY <1>1, <1>2 DEF AccountsTypeOK, Overlaps
<1>5. Totp'
  BY <1>1, <1>2, <1>3, TotpKept DEF AccountsTypeOK, Call
<1>6. Claims'
  <2>1. ASSUME NEW q \in Calls PROVE CallClaim(q)'
    <3>1. call[q].user \in Members /\ LateBy(q) \in {0, 1} /\ CallClaim(q) /\ now \in Nat
      BY DEF AccountsTypeOK, Call, LateBy, Claims
    <3>2. Issuing(q)' = Issuing(q) /\ LateBy(q)' = LateBy(q) /\ now <= now + LateBy(q)
      BY <1>1, <3>1 DEF Issuing, LateBy
    <3>3. CASE call[q].user = u
      BY <1>1, <1>2, <3>1, <3>2, <3>3 DEF CallClaim
    <3>4. CASE call[q].user # u
      BY <1>1, <1>2, <3>1, <3>2, <3>4 DEF CallClaim
    <3> QED BY <3>3, <3>4
  <2>2. ASSUME NEW i \in DOMAIN sessions PROVE TokenClaim(i)'
    <3> DEFINE t == sessions[i].access
    <3>1. TokenClaim(i) /\ t.user \in Members /\ t.exp \in Nat /\ now \in Nat
      <4>1. sessions \in Seq(Session)
        BY DEF AccountsTypeOK
      <4>2. sessions[i] \in Session
        BY <4>1
      <4> QED BY <4>2 DEF Session, Claims, AccountsTypeOK
    <3>2. t.exp <= now + AccessTTL + 1
      BY <3>1, AccountsAssumption DEF TokenClaim
    <3>3. CASE t.user = u
      BY <1>1, <1>2, <3>1, <3>2, <3>3 DEF TokenClaim
    <3>4. CASE t.user # u
      BY <1>1, <1>2, <3>1, <3>4 DEF TokenClaim
    <3> QED BY <3>3, <3>4
  <2> QED BY <1>1, <2>1, <2>2 DEF Claims
<1>7. Rows'
  BY <1>1, <1>2, <1>3, RowsKept
<1>8. Rotation'
  BY <1>1, RotationKept
<1> QED BY <1>4, <1>5, <1>6, <1>7, <1>8

\* A tick makes the requests in flight late, and drops the losses that no
\* token in force can be about.
LEMMA StepTick ==
  ASSUME AccountsInv, Tick PROVE AccountsInv'
<1> USE DEF AccountsInv
<1>1. /\ now' = now + 1 /\ now \in Nat /\ \A q \in Calls : ~call[q].late
      /\ UNCHANGED <<account, sessions, keys, secrets, confirmed, chosen, raced>>
  BY DEF Tick, AccountsTypeOK
<1>2. /\ call' \in [Calls -> Call]
      /\ \A q \in Calls :
           /\ call'[q].op = call[q].op /\ call'[q].step = call[q].step
           /\ call'[q].user = call[q].user /\ call'[q].row = call[q].row
           /\ call'[q].arg = call[q].arg /\ call'[q].alone = call[q].alone
           /\ call'[q].late = (call[q].step # "idle")
  <2>1. ASSUME NEW q \in Calls
        PROVE  LET d == [call[q] EXCEPT !.late = call[q].step # "idle"] IN
               /\ d \in Call
               /\ d.op = call[q].op /\ d.step = call[q].step
               /\ d.user = call[q].user /\ d.row = call[q].row
               /\ d.arg = call[q].arg /\ d.alone = call[q].alone
               /\ d.late = (call[q].step # "idle")
    BY DEF AccountsTypeOK, Call
  <2>2. call' = [q \in Calls |-> [call[q] EXCEPT !.late = call[q].step # "idle"]]
    BY DEF Tick
  <2> QED BY <2>1, <2>2
<1>3. /\ losses' \in [Members -> SUBSET [role: Roles, at: Nat]]
      /\ \A v \in Members : \A l \in losses[v] :
           l.at \in Nat /\ (now < l.at + AccessTTL => l \in losses'[v])
  BY DEF Tick, AccountsTypeOK
<1>4. AccountsTypeOK'
  BY <1>1, <1>2, <1>3 DEF AccountsTypeOK
<1>5. Overlaps' /\ Totp' /\ Rows' /\ Rotation'
  BY <1>1, <1>2
     DEF Overlaps, Totp, EnabledSecretConfirmed, Rows, PasswordKept, Rotation, RotatedOnce
<1>6. Claims'
  <2>1. ASSUME NEW q \in Calls, Issuing(q) PROVE CallClaim(q)'
    <3> DEFINE c == call[q]
               a == account[c.user]
    <3>1. /\ c.user \in Members /\ LateBy(q) = 0 /\ c.step # "idle"
          /\ a.deletedAt \in Nat /\ CallClaim(q)
      BY <1>1, <2>1 DEF AccountsTypeOK, Call, Account, LateBy, Claims, Issuing, Overlaps
    <3>2. LateBy(q)' = 1
      BY <1>2, <3>1 DEF LateBy
    <3>3. /\ a.state # "absent"
          /\ a.state = "deleted" => now <= a.deletedAt
          /\ \/ a.role = c.row.role
             \/ \E l \in losses[c.user] : l.role = c.row.role /\ now <= l.at
      <4>1. \A l \in losses[c.user] : l.at \in Nat
        BY <1>3, <3>1
      <4> QED BY <2>1, <3>1, <4>1 DEF CallClaim
    <3>4. a.state = "deleted" => now' <= a.deletedAt + 1
      BY <1>1, <3>1, <3>3
    <3>5. ASSUME NEW l \in losses[c.user], now <= l.at
          PROVE  l \in losses'[c.user] /\ now' <= l.at + 1
      BY <1>1, <1>3, <3>1, <3>5, AccountsAssumption
    <3> QED BY <1>1, <1>2, <3>2, <3>3, <3>4, <3>5 DEF CallClaim
  <2>2. ASSUME NEW i \in DOMAIN sessions PROVE TokenClaim(i)'
    <3> DEFINE t == sessions[i].access
    <3>1. TokenClaim(i) /\ t.user \in Members /\ t.exp \in Nat
      <4>1. sessions \in Seq(Session)
        BY DEF AccountsTypeOK
      <4>2. sessions[i] \in Session
        BY <4>1
      <4> QED BY <4>2 DEF Session, Claims
    <3>2. t.exp <= now' + AccessTTL /\ (t.exp <= now => t.exp <= now')
      BY <1>1, <3>1, AccountsAssumption DEF TokenClaim
    <3>3. ASSUME NEW l \in losses[t.user], t.exp <= l.at + AccessTTL + 1
          PROVE  t.exp <= now' \/ l \in losses'[t.user]
      BY <1>1, <1>3, <3>1, <3>3, AccountsAssumption
    <3> QED BY <1>1, <3>1, <3>2, <3>3 DEF TokenClaim
  <2>3. \A q \in Calls : Issuing(q)' => Issuing(q)
    BY <1>2 DEF Issuing
  <2>4. \A q \in Calls : CallClaim(q)'
    BY <2>1, <2>3 DEF CallClaim
  <2> QED BY <1>1, <2>2, <2>4 DEF Claims
<1> QED BY <1>4, <1>5, <1>6
-----------------------------------------------------------------------------
\* At the start there are the seeded rows and nothing is under way.
LEMMA AccountsInvInit == AccountsInit => AccountsInv
<1> SUFFICES ASSUME AccountsInit PROVE AccountsInv
  OBVIOUS
<1> DEFINE seed == NewAccount("super_admin", "active", TRUE, CHOOSE p \in Passwords : TRUE)
<1>1. seed \in Account /\ ~seed.enabled
  <2>1. (CHOOSE p \in Passwords : TRUE) \in Nat
    BY AccountsAssumption
  <2> QED BY <2>1 DEF NewAccount, Account, Roles, Statuses
<1>2. Absent \in Account /\ ~Absent.enabled
  BY RowTypes DEF Absent, NewAccount
<1> HIDE DEF seed
<1>3. account \in [Members -> Account] /\ \A u \in Members : ~account[u].enabled
  BY <1>1, <1>2 DEF AccountsInit, seed
<1>4. \A q \in Calls : call[q].op = "none"
  BY IdleType DEF AccountsInit
<1>0. /\ sessions = <<>> /\ keys = <<>> /\ secrets = 0 /\ now = 0 /\ raced = {}
      /\ call = [q \in Calls |-> Idle]
      /\ confirmed = [u \in Members |-> {}] /\ losses = [u \in Members |-> {}]
      /\ chosen = [u \in Members |-> account[u].password]
  BY DEF AccountsInit
<1>5. AccountsTypeOK
  <2>1. chosen \in [Members -> Nat]
    BY <1>0, <1>3 DEF Account
  <2>2. call \in [Calls -> Call]
    BY <1>0, IdleType
  <2>3. sessions \in Seq(Session) /\ keys \in Seq([user: Members, revoked: BOOLEAN])
    BY <1>0
  <2> QED BY <1>0, <1>3, <2>1, <2>2, <2>3 DEF AccountsTypeOK
<1>6. Overlaps
  BY <1>4 DEF Overlaps, SessionOps, RowOps
<1>7. Totp
  BY <1>3, <1>4 DEF Totp, EnabledSecretConfirmed
<1>8. Claims
  BY <1>0, <1>4 DEF Claims, CallClaim, Issuing
<1>9. Rows
  BY <1>0, <1>4 DEF Rows, PasswordKept, RowOps
<1>10. Rotation
  BY <1>0, <1>4 DEF Rotation, RotatedOnce
<1> QED BY <1>5, <1>6, <1>7, <1>8, <1>9, <1>10 DEF AccountsInv

\* The nine requests whose first statement reads.
LEMMA StepBegin ==
  ASSUME AccountsInv, NEW q \in Calls
  PROVE  /\ \A u \in Members, p \in Passwords :
              RegisterLookup(q, u, p) \/ LoginFind(q, u, p) => AccountsInv'
         /\ \A i \in DOMAIN sessions : RefreshGet(q, i) => AccountsInv'
         /\ \A u \in Members : UpdateProfileRead(q, u) => AccountsInv'
         /\ \A u \in Members, old, new \in Passwords :
              ChangePasswordRead(q, u, old, new) => AccountsInv'
         /\ \A u \in Members : SetupTOTPRead(q, u) => AccountsInv'
         /\ \A u \in Members, code \in 1 .. MaxSecrets :
              EnableTOTPRead(q, u, code) \/ DisableTOTPRead(q, u, code) => AccountsInv'
         /\ \A u \in Members, k \in DOMAIN keys :
              RevokeAPIKeyList(q, u, k) => AccountsInv'
<1> USE DEF historyVars, CallOps, Steps, RowOps
<1>1. /\ secrets \in Nat /\ confirmed \in [Members -> SUBSET Nat]
      /\ Passwords \subseteq Nat /\ Absent \in Account
      /\ account \in [Members -> Account]
      /\ \A u \in Members : account[u] \in Account /\ account[u].secret \in Nat
  BY AccountsAssumption, RowTypes DEF AccountsInv, AccountsTypeOK, Account
<1>2. ASSUME NEW u \in Members, NEW p \in Passwords, RegisterLookup(q, u, p)
      PROVE  AccountsInv'
  BY <1>1, <1>2, StepOpen DEF RegisterLookup
<1>3. ASSUME NEW u \in Members, NEW p \in Passwords, LoginFind(q, u, p)
      PROVE  AccountsInv'
  BY <1>1, <1>3, StepOpen DEF LoginFind, GetByEmail
<1>4. ASSUME NEW i \in DOMAIN sessions, RefreshGet(q, i) PROVE AccountsInv'
  <2>1. i \in Nat /\ sessions[i].user \in Members
    <3>1. sessions \in Seq(Session)
      BY DEF AccountsInv, AccountsTypeOK
    <3>2. sessions[i] \in Session /\ i \in Nat
      BY <3>1
    <3> QED BY <3>2 DEF Session
  <2> QED BY <1>1, <1>4, <2>1, StepOpen DEF RefreshGet
<1>5. ASSUME NEW u \in Members, UpdateProfileRead(q, u) PROVE AccountsInv'
  BY <1>1, <1>5, StepOpen DEF UpdateProfileRead, GetByID
<1>6. ASSUME NEW u \in Members, NEW old \in Passwords, NEW new \in Passwords,
             ChangePasswordRead(q, u, old, new)
      PROVE  AccountsInv'
  <2>1. [account[u] EXCEPT !.password = new] \in Account
    BY <1>1 DEF Account
  <2> QED BY <1>1, <1>6, <2>1, StepOpen DEF ChangePasswordRead, GetByID
<1>7. ASSUME NEW u \in Members, SetupTOTPRead(q, u) PROVE AccountsInv'
  <2>1. secrets + 1 \in Nat
    BY <1>1
  <2> QED BY <1>1, <1>7, <2>1, StepOpen DEF SetupTOTPRead
<1>8. ASSUME NEW u \in Members, NEW code \in 1 .. MaxSecrets, EnableTOTPRead(q, u, code)
      PROVE  AccountsInv'
  <2>1. /\ confirmed' \in [Members -> SUBSET Nat]
        /\ \A v \in Members : confirmed[v] \subseteq confirmed'[v]
        /\ account[u].secret # 0 /\ account[u].secret \in confirmed'[u]
    BY <1>1, <1>8 DEF EnableTOTPRead
  <2> QED BY <1>1, <1>8, <2>1, StepOpen DEF EnableTOTPRead
<1>9. ASSUME NEW u \in Members, NEW code \in 1 .. MaxSecrets, DisableTOTPRead(q, u, code)
      PROVE  AccountsInv'
  BY <1>1, <1>9, StepOpen DEF DisableTOTPRead
<1>10. ASSUME NEW u \in Members, NEW k \in DOMAIN keys, RevokeAPIKeyList(q, u, k)
       PROVE  AccountsInv'
  <2>1. k \in Nat
    BY DEF AccountsInv, AccountsTypeOK
  <2> QED BY <1>1, <1>10, <2>1, StepOpen DEF RevokeAPIKeyList
<1> QED BY <1>2, <1>3, <1>4, <1>5, <1>6, <1>7, <1>8, <1>9, <1>10

\* The second statements of the TOTP requests, and the administrator's.
LEMMA StepTotp ==
  ASSUME AccountsInv, NEW q \in Calls
  PROVE  /\ SetupTOTPWrite(q) \/ DisableTOTPWrite(q) \/ EnableTOTPWrite(q) => AccountsInv'
         /\ \A u \in Members : AdminDisable2FA(u) => AccountsInv'
<1>1. call[q].user \in Members /\ call[q].arg \in Nat
  BY DEF AccountsInv, AccountsTypeOK, Call
<1>2. CASE SetupTOTPWrite(q)
  BY <1>1, <1>2, StepTotpWrite DEF SetupTOTPWrite
<1>3. CASE DisableTOTPWrite(q)
  BY <1>1, <1>3, StepTotpWrite DEF DisableTOTPWrite
<1>4. CASE EnableTOTPWrite(q)
  <2>1. call[q].arg # 0 /\ call[q].arg \in confirmed[call[q].user]
    BY <1>4 DEF EnableTOTPWrite, At, AccountsInv, Totp
  <2> QED BY <1>1, <1>4, <2>1, StepTotpWrite DEF EnableTOTPWrite
<1>5. ASSUME NEW u \in Members, AdminDisable2FA(u) PROVE AccountsInv'
  BY <1>5, StepTotpWrite DEF AdminDisable2FA
<1> QED BY <1>2, <1>3, <1>4, <1>5

\* Keys are added at the end and revoked in place.
LEMMA StepKey ==
  ASSUME AccountsInv
  PROVE  /\ \A u \in Members : CreateAPIKey(u) => AccountsInv'
         /\ \A q \in Calls : RevokeAPIKeyDrop(q) \/ Lose(q) => AccountsInv'
<1> DEFINE Key == [user: Members, revoked: BOOLEAN]
<1>1. keys \in Seq(Key)
  BY DEF AccountsInv, AccountsTypeOK
<1>2. ASSUME NEW u \in Members, CreateAPIKey(u) PROVE AccountsInv'
  <2> DEFINE k == [user |-> u, revoked |-> FALSE]
  <2>1. keys' = Append(keys, k) /\ k \in Key
    BY <1>2 DEF CreateAPIKey, KeyCreate
  <2> HIDE DEF k, Key
  <2>2. keys' \in Seq(Key)
    BY <1>1, <2>1
  <2> QED BY <1>2, <2>2, StepKeys DEF CreateAPIKey, Key
<1>3. ASSUME NEW q \in Calls, RevokeAPIKeyDrop(q) PROVE AccountsInv'
  <2> DEFINE i == call[q].arg
             new == [keys[i] EXCEPT !.revoked = TRUE]
  <2>1. keys' = [keys EXCEPT ![i] = new]
    BY <1>3 DEF RevokeAPIKeyDrop, KeyRevoke
  <2>2. keys' \in Seq(Key)
    <3>1. CASE i \in DOMAIN keys
      <4>1. keys[i] \in Key
        <5> HIDE DEF Key
        <5> QED BY <1>1, <3>1
      <4>2. new \in Key
        BY <4>1
      <4> HIDE DEF new, Key
      <4> QED BY <1>1, <2>1, <3>1, <4>2
    <3>2. CASE i \notin DOMAIN keys
      <4>1. keys' = keys
        <5> HIDE DEF new, Key
        <5> QED BY <1>1, <2>1, <3>2
      <4> QED BY <1>1, <4>1
    <3> QED BY <3>1, <3>2
  <2> QED BY <1>3, <2>2, StepReturn DEF RevokeAPIKeyDrop
<1>4. ASSUME NEW q \in Calls, Lose(q) PROVE AccountsInv'
  BY <1>1, <1>4, StepReturn DEF Lose
<1> QED BY <1>2, <1>3, <1>4

\* Every statement of every request keeps the invariant.
LEMMA AccountsInvStep == AccountsInv /\ AccountsNext => AccountsInv'
<1> SUFFICES ASSUME AccountsInv, AccountsNext PROVE AccountsInv'
  OBVIOUS
<1>1. ASSUME NEW q \in Calls, HandleRegister(q) \/ HandleLogin(q) PROVE AccountsInv'
  <2>1. ASSUME LoginSession(q) PROVE AccountsInv'
    BY <2>1, StepSession DEF LoginSession, At
  <2> QED BY <1>1, <2>1, StepBegin, StepRegister, StepLogin DEF HandleRegister, HandleLogin
<1>2. ASSUME NEW q \in Calls, HandleRefreshToken(q) PROVE AccountsInv'
  <2>1. ASSUME RefreshSession(q) PROVE AccountsInv'
    <3>1. call[q].arg \in Nat
      BY DEF AccountsInv, AccountsTypeOK, Call
    <3> QED BY <2>1, <3>1, StepSession DEF RefreshSession, At
  <2> QED BY <1>2, <2>1, StepBegin, StepRefreshAccount, StepRefreshRevoke
       DEF HandleRefreshToken
<1>3. ASSUME NEW q \in Calls,
             HandleUpdateMe(q) \/ HandleAdminUpdateProfile(q) \/ HandleChangePassword(q)
      PROVE  AccountsInv'
  BY <1>3, StepBegin, StepRowWrite
     DEF HandleUpdateMe, HandleAdminUpdateProfile, HandleChangePassword
<1>4. ASSUME NEW q \in Calls,
             HandleSetup2FA(q) \/ HandleEnable2FA(q) \/ HandleDisable2FA(q)
      PROVE  AccountsInv'
  BY <1>4, StepBegin, StepTotp DEF HandleSetup2FA, HandleEnable2FA, HandleDisable2FA
<1>5. ASSUME NEW q \in Calls, HandleRevokeAPIKey(q) \/ Lose(q) PROVE AccountsInv'
  BY <1>5, StepBegin, StepKey DEF HandleRevokeAPIKey
<1>6. ASSUME HandleLogout \/ HandleCreateAPIKey PROVE AccountsInv'
  BY <1>6, StepLogout, StepKey DEF HandleLogout, HandleCreateAPIKey
<1>7. ASSUME NEW u \in Members, HandleAdmin(u) PROVE AccountsInv'
  <2>1. ASSUME AdminDisable2FA(u) PROVE AccountsInv'
    BY <2>1, StepTotpWrite DEF AdminDisable2FA
  <2> QED BY <1>7, <2>1, StepStatus, StepRole, StepDelete
       DEF HandleAdmin, Statuses, Roles
<1> QED BY <1>1, <1>2, <1>3, <1>4, <1>5, <1>6, <1>7, StepTick DEF AccountsNext

\* The invariant of user-service.
THEOREM AccountsInvariant == AccountsSpec => []AccountsInv
<1>1. AccountsInv /\ UNCHANGED <<accountsVars, workload>> => AccountsInv'
  BY DEF accountsVars, AccountsInv, AccountsTypeOK, Overlaps, Totp, EnabledSecretConfirmed,
         Claims, CallClaim, TokenClaim, Issuing, LateBy, Rows, PasswordKept, Rotation,
         RotatedOnce
<1> QED BY <1>1, AccountsInvInit, AccountsInvStep, PTL DEF AccountsSpec

\* Every variable of user-service keeps its type.
THEOREM AccountsTypeCorrect == AccountsSpec => []AccountsTypeOK
<1>1. AccountsInv => AccountsTypeOK
  BY DEF AccountsInv
<1> QED BY <1>1, AccountsInvariant, PTL

\* However setups, enables and disables overlap, 2FA is on only with a secret
\* whose owner proved to have it.
THEOREM TotpAlwaysConfirmed == AccountsSpec => []EnabledSecretConfirmed
<1>1. AccountsInv => EnabledSecretConfirmed
  BY DEF AccountsInv, Totp
<1> QED BY <1>1, AccountsInvariant, PTL

\* A password change is undone only by a row update that overlapped it.
THEOREM PasswordAlwaysKept == AccountsSpec => []PasswordKept
<1>1. AccountsInv => PasswordKept
  BY DEF AccountsInv, Rows
<1> QED BY <1>1, AccountsInvariant, PTL

\* A refresh token has one successor, or its refreshes overlapped.
THEOREM AlwaysRotatedOnce == AccountsSpec => []RotatedOnce
<1>1. AccountsInv => RotatedOnce
  BY DEF AccountsInv, Rotation
<1> QED BY <1>1, AccountsInvariant, PTL

\* The claims of a token in force.
LEMMA LiveTokenClaims ==
  ASSUME AccountsInv, NEW t \in LiveTokens
  PROVE  /\ account[t.user].state = "deleted" => now <= account[t.user].deletedAt + AccessTTL
         /\ \/ account[t.user].role = t.role
            \/ \E l \in losses[t.user] : l.role = t.role /\ now <= l.at + AccessTTL
<1>1. PICK i \in DOMAIN sessions : t = sessions[i].access /\ now < t.exp
  BY DEF LiveTokens, Auth
<1>2. TokenClaim(i)
  BY DEF AccountsInv, Claims
<1>3. /\ t.user \in Members /\ t.exp \in Nat /\ now \in Nat
      /\ account[t.user].deletedAt \in Nat
      /\ \A l \in losses[t.user] : l.at \in Nat
  <2>1. sessions \in Seq(Session) /\ now \in Nat
    BY DEF AccountsInv, AccountsTypeOK
  <2>2. sessions[i] \in Session
    BY <2>1
  <2>3. t.user \in Members /\ t.exp \in Nat
    BY <1>1, <2>2 DEF Session
  <2> QED BY <2>1, <2>3 DEF AccountsInv, AccountsTypeOK, Account
<1> QED BY <1>1, <1>2, <1>3, AccountsAssumption DEF TokenClaim

\* A role that was taken away is gone from every valid token after AccessTTL.
THEOREM ClaimsAlwaysBounded == AccountsSpec => []StaleClaimsBounded
<1>1. AccountsInv => StaleClaimsBounded
  BY LiveTokenClaims DEF StaleClaimsBounded
<1> QED BY <1>1, AccountsInvariant, PTL

\* A deleted account has no valid token after AccessTTL.
THEOREM DeletedAlwaysOut == AccountsSpec => []DeletedLosesAccess
<1>1. AccountsInv => DeletedLosesAccess
  BY LiveTokenClaims DEF DeletedLosesAccess
<1> QED BY <1>1, AccountsInvariant, PTL
-----------------------------------------------------------------------------
(* The limit on sessions.  A session that is not counted against its       *)
(* account was created by a request that overlapped, or in the instant of  *)
(* expiry.  A login or a refresh that met no other keeps the place that it *)
(* found or made until it creates its session.                             *)

Excused(u) ==
  {i \in DOMAIN sessions :
     sessions[i].user = u /\ (~sessions[i].alone \/ OutlivesParent(i))}

\* A login that counted, and evicted if it had to, has room for its session.
LoginFits(q) ==
  call[q].op = "login" /\ call[q].step = "session" /\ call[q].alone =>
    CountActiveByUser(call[q].user) + 1
      <= MaxSessions + Cardinality(Excused(call[q].user))

\* A refresh has the place of the session that it replaces.
RefreshFits(q) ==
  call[q].op = "refresh" /\ call[q].alone /\ now < sessions[call[q].arg].expires =>
    Cardinality(ActiveOf(call[q].user) \cup {call[q].arg})
      <= MaxSessions + Cardinality(Excused(call[q].user))

SessionsInv ==
  SessionsBounded /\ \A q \in Calls : LoginFits(q) /\ RefreshFits(q)

\* A set of numbers has a smallest one.
LEMMA Smallest ==
  ASSUME NEW S \in SUBSET Nat, S # {}
  PROVE  \E i \in S : \A j \in S : i <= j
<1>1. PICK i \in S : \A j \in S : ~(<<j, i>> \in OpToRel(<, Nat))
  BY NatLessThanWellFounded, WFMin, Zenon
<1>2. \A j \in S : ~(j < i)
  BY <1>1 DEF OpToRel
<1> QED BY <1>2

LEMMA SessionTypes ==
  ASSUME AccountsTypeOK
  PROVE  /\ sessions \in Seq(Session) /\ Len(sessions) \in Nat
         /\ DOMAIN sessions = 1 .. Len(sessions)
         /\ \A i \in DOMAIN sessions :
              /\ sessions[i] \in Session /\ sessions[i].user \in Members
              /\ sessions[i].expires \in Nat /\ sessions[i].access.exp \in Nat
<1>1. sessions \in Seq(Session)
  BY DEF AccountsTypeOK
<1>2. \A i \in DOMAIN sessions : sessions[i] \in Session
  BY <1>1
<1> QED BY <1>1, <1>2 DEF Session

\* The sets that are counted are finite.
LEMMA SessionSets ==
  ASSUME AccountsTypeOK, NEW u
  PROVE  /\ IsFiniteSet(ActiveOf(u)) /\ IsFiniteSet(Excused(u))
         /\ Cardinality(ActiveOf(u)) \in Nat /\ Cardinality(Excused(u)) \in Nat
         /\ ActiveOf(u) \subseteq DOMAIN sessions /\ Excused(u) \subseteq DOMAIN sessions
<1>1. IsFiniteSet(DOMAIN sessions)
  BY SessionTypes, FS_Interval
<1>2. ActiveOf(u) \subseteq DOMAIN sessions /\ Excused(u) \subseteq DOMAIN sessions
  BY DEF ActiveOf, Excused
<1>3. IsFiniteSet(ActiveOf(u)) /\ IsFiniteSet(Excused(u))
  BY <1>1, <1>2, FS_Subset
<1> QED BY <1>2, <1>3, FS_CardinalityType

\* Time and revocations leave fewer sessions active and excuse the same.
LEMMA ActiveShrinks ==
  ASSUME AccountsInv, OnlyRevoked, now' \in Nat, now <= now', NEW u
  PROVE  /\ ActiveOf(u)' \subseteq ActiveOf(u) /\ Excused(u)' = Excused(u)
         /\ CountActiveByUser(u)' <= CountActiveByUser(u)
         /\ CountActiveByUser(u)' \in Nat /\ CountActiveByUser(u) \in Nat
         /\ Cardinality(Excused(u)) \in Nat
<1>1. /\ DOMAIN sessions' = DOMAIN sessions /\ now \in Nat
      /\ \A i \in DOMAIN sessions :
           /\ sessions'[i].parent = sessions[i].parent
           /\ sessions'[i].user = sessions[i].user
           /\ sessions'[i].alone = sessions[i].alone
           /\ sessions'[i].access = sessions[i].access
           /\ sessions'[i].expires = sessions[i].expires
           /\ sessions[i].expires \in Nat
           /\ sessions[i].revoked => sessions'[i].revoked
           /\ sessions[i].parent # 0 => sessions[i].parent \in DOMAIN sessions
  BY SessionTypes DEF OnlyRevoked, AccountsInv, AccountsTypeOK, Rotation
<1>2. ActiveOf(u)' \subseteq ActiveOf(u)
  BY <1>1 DEF ActiveOf, Active
<1>3. \A i \in DOMAIN sessions : OutlivesParent(i)' = OutlivesParent(i)
  BY <1>1 DEF OutlivesParent
<1>4. Excused(u)' = Excused(u)
  BY <1>1, <1>3 DEF Excused
<1>5. /\ IsFiniteSet(ActiveOf(u)) /\ Cardinality(ActiveOf(u)) \in Nat
      /\ Cardinality(Excused(u)) \in Nat
  BY SessionSets DEF AccountsInv
<1>6. PICK A : A = ActiveOf(u)'
  OBVIOUS
<1>7. IsFiniteSet(A) /\ Cardinality(A) <= Cardinality(ActiveOf(u)) /\ Cardinality(A) \in Nat
  BY <1>2, <1>5, <1>6, FS_Subset, FS_CardinalityType
<1> QED BY <1>2, <1>4, <1>5, <1>6, <1>7 DEF CountActiveByUser

\* A step that creates no session: each login and each refresh that met no
\* other was so before, or has its place now.
LEMMA PlacesKept ==
  ASSUME AccountsInv, SessionsInv, OnlyRevoked, now' \in Nat, now <= now',
         \A p \in Calls :
           \/ call'[p].op \notin SessionOps
           \/ /\ call'[p].op = call[p].op /\ call'[p].user = call[p].user
              /\ call'[p].arg = call[p].arg
              /\ call'[p].alone => call[p].alone
              /\ \/ call'[p].step = call[p].step \/ call'[p].op = "refresh"
                 \/ LoginFits(p)'
           \/ LoginFits(p)' /\ RefreshFits(p)'
  PROVE  SessionsInv'
<1>1. SessionsBounded'
  <2> SUFFICES ASSUME NEW u \in Members
               PROVE  CountActiveByUser(u)' <= MaxSessions + Cardinality(Excused(u)')
    BY DEF SessionsBounded, Excused
  <2>1. CountActiveByUser(u) <= MaxSessions + Cardinality(Excused(u))
    BY DEF SessionsInv, SessionsBounded, Excused
  <2>2. /\ CountActiveByUser(u)' <= CountActiveByUser(u) /\ CountActiveByUser(u)' \in Nat
        /\ CountActiveByUser(u) \in Nat
        /\ Cardinality(Excused(u)) \in Nat /\ Excused(u)' = Excused(u)
    BY ActiveShrinks
  <2> QED BY <2>1, <2>2, AccountsAssumption
<1>2. ASSUME NEW p \in Calls, call'[p].op \in SessionOps,
             call'[p].op = call[p].op, call'[p].user = call[p].user,
             call'[p].arg = call[p].arg, call'[p].alone => call[p].alone
      PROVE  /\ RefreshFits(p)'
             /\ call'[p].step = call[p].step => LoginFits(p)'
  <2>1. PICK u, k : u = call[p].user /\ k = call[p].arg
    OBVIOUS
  <2>2. /\ ActiveOf(u)' \subseteq ActiveOf(u) /\ Excused(u)' = Excused(u)
        /\ CountActiveByUser(u)' <= CountActiveByUser(u)
        /\ CountActiveByUser(u)' \in Nat /\ CountActiveByUser(u) \in Nat
        /\ Cardinality(Excused(u)) \in Nat
    BY ActiveShrinks
  <2>3. LoginFits(p) /\ RefreshFits(p)
    BY DEF SessionsInv
  <2>4. call'[p].step = call[p].step => LoginFits(p)'
    BY <1>2, <2>1, <2>2, <2>3, AccountsAssumption DEF LoginFits
  <2>5. ASSUME call'[p].op = "refresh", call'[p].alone, now' < sessions'[k].expires
        PROVE  Cardinality(ActiveOf(u)' \cup {k}) <= MaxSessions + Cardinality(Excused(u)')
    <3>1. k \in DOMAIN sessions /\ sessions[k].user = u
      BY <1>2, <2>1, <2>5 DEF AccountsInv, Rotation
    <3>2. /\ sessions'[k].expires = sessions[k].expires /\ sessions[k].expires \in Nat
          /\ now \in Nat
      BY <3>1, SessionTypes DEF OnlyRevoked, AccountsInv, AccountsTypeOK
    <3>3. Cardinality(ActiveOf(u) \cup {k}) <= MaxSessions + Cardinality(Excused(u))
      BY <1>2, <2>1, <2>3, <2>5, <3>2 DEF RefreshFits
    <3>4. PICK A, B : A = ActiveOf(u)' \cup {k} /\ B = ActiveOf(u) \cup {k}
      OBVIOUS
    <3>5. A \subseteq B /\ IsFiniteSet(B)
      BY <2>2, <3>4, SessionSets, FS_AddElement DEF AccountsInv
    <3>6. /\ Cardinality(A) <= Cardinality(B)
          /\ Cardinality(A) \in Nat /\ Cardinality(B) \in Nat
      BY <3>5, FS_Subset, FS_CardinalityType
    <3> QED BY <2>2, <3>3, <3>4, <3>6, AccountsAssumption
  <2>6. call'[p].user = u /\ call'[p].arg = k
    BY <1>2, <2>1
  <2> QED BY <2>4, <2>5, <2>6 DEF RefreshFits
<1>3. ASSUME NEW p \in Calls PROVE LoginFits(p)' /\ RefreshFits(p)'
  <2>1. CASE call'[p].op \notin SessionOps
    BY <2>1 DEF LoginFits, RefreshFits, SessionOps
  <2>2. CASE call'[p].op \in SessionOps
    <3>1. call'[p].op = "refresh" => LoginFits(p)'
      BY DEF LoginFits
    <3> QED BY <1>2, <2>2, <3>1
  <2> QED BY <2>1, <2>2
<1> QED BY <1>1, <1>3 DEF SessionsInv

LEMMA SessionsInvInit == AccountsInit => SessionsInv
<1> SUFFICES ASSUME AccountsInit PROVE SessionsInv
  OBVIOUS
<1>1. \A q \in Calls : call[q].op = "none"
  BY IdleType DEF AccountsInit
<1>2. ASSUME NEW u \in Members PROVE CountActiveByUser(u) <= MaxSessions + Cardinality(Excused(u))
  <2>1. DOMAIN sessions = {}
    BY DEF AccountsInit
  <2>2. ActiveOf(u) = {} /\ Excused(u) = {}
    BY <2>1 DEF ActiveOf, Excused
  <2> QED BY <2>2, FS_EmptySet, AccountsAssumption DEF CountActiveByUser
<1> QED BY <1>1, <1>2 DEF SessionsInv, SessionsBounded, Excused, LoginFits, RefreshFits

\* A step that ends a request, and creates no session.
LEMMA PlacesAfterReturn ==
  ASSUME AccountsInv, SessionsInv, NEW q \in Calls, Return(q), UNCHANGED <<sessions, now>>
  PROVE  SessionsInv'
<1>1. AccountsTypeOK /\ now \in Nat /\ now' = now
  BY DEF AccountsInv, AccountsTypeOK
<1>2. OnlyRevoked
  BY <1>1, UnchangedOnly
<1>3. call'[q].op \notin SessionOps /\ \A p \in Calls \ {q} : Stays(p)
  BY <1>1, CallReturned DEF SessionOps
<1> QED BY <1>1, <1>2, <1>3, PlacesKept DEF Stays

\* A request begins.  A refresh has the place of its session, which is active.
LEMMA PlacesAfterOpen ==
  ASSUME AccountsInv, SessionsInv, NEW q \in Calls, NEW op \in CallOps,
         NEW step \in Steps \ {"idle"}, NEW u \in Members, NEW r \in Account,
         NEW arg \in Nat, Open(q, op, step, u, r, arg), UNCHANGED <<sessions, now>>,
         op = "login" => step = "count",
         op = "refresh" => /\ arg \in DOMAIN sessions /\ ~sessions[arg].revoked
                           /\ sessions[arg].user = u
  PROVE  SessionsInv'
<1>1. AccountsTypeOK /\ now \in Nat /\ now' = now /\ sessions' = sessions
  BY DEF AccountsInv, AccountsTypeOK
<1>2. OnlyRevoked
  BY <1>1, UnchangedOnly
<1>3. /\ call'[q].op = op /\ call'[q].step = step /\ call'[q].user = u
      /\ call'[q].arg = arg /\ \A p \in Calls \ {q} : Stays(p)
  BY <1>1, Opened DEF AccountsInv
<1>4. LoginFits(q)'
  BY <1>3 DEF LoginFits
<1>5. ASSUME op = "refresh", now < sessions[arg].expires
      PROVE  Cardinality(ActiveOf(u) \cup {arg}) <= MaxSessions + Cardinality(Excused(u))
  <2>1. arg \in ActiveOf(u)
    BY <1>5 DEF ActiveOf, Active
  <2>2. ActiveOf(u) \cup {arg} = ActiveOf(u)
    BY <2>1
  <2> QED BY <2>2 DEF SessionsInv, SessionsBounded, CountActiveByUser, Excused
<1>6. ActiveOf(u)' = ActiveOf(u) /\ Excused(u)' = Excused(u)
  BY <1>1 DEF ActiveOf, Active, Excused, OutlivesParent
<1>7. RefreshFits(q)'
  BY <1>1, <1>3, <1>5, <1>6 DEF RefreshFits
<1> QED BY <1>1, <1>2, <1>3, <1>4, <1>7, PlacesKept DEF Stays

\* CountActiveByUser found fewer than the limit.
LEMMA PlacesAfterCount ==
  ASSUME AccountsInv, SessionsInv, NEW q \in Calls, LoginCount(q) PROVE SessionsInv'
<1>0. PICK u : u = call[q].user
  OBVIOUS
<1> DEFINE step == IF CountActiveByUser(u) >= MaxSessions THEN "evict" ELSE "session"
<1>1. /\ AccountsTypeOK /\ now \in Nat /\ now' = now /\ sessions' = sessions
      /\ call[q].op = "login" /\ Advance(q, step) /\ step \in Steps
  BY <1>0 DEF AccountsInv, AccountsTypeOK, LoginCount, At, Steps
<1>2. OnlyRevoked
  BY <1>1, UnchangedOnly
<1>3. /\ call'[q].op = "login" /\ call'[q].step = step /\ call'[q].user = u
      /\ \A p \in Calls \ {q} : Stays(p)
  BY <1>0, <1>1, Advanced
<1>4. ActiveOf(u)' = ActiveOf(u) /\ Excused(u)' = Excused(u)
  BY <1>1 DEF ActiveOf, Active, Excused, OutlivesParent
<1>5. Cardinality(ActiveOf(u)) \in Nat /\ Cardinality(Excused(u)) \in Nat
  BY <1>1, SessionSets
<1>6. CountActiveByUser(u) < MaxSessions =>
        CountActiveByUser(u) + 1 <= MaxSessions + Cardinality(Excused(u))
  BY <1>5, AccountsAssumption DEF CountActiveByUser
<1>7. step = "session" => CountActiveByUser(u) < MaxSessions
  BY <1>5, AccountsAssumption DEF CountActiveByUser
<1> HIDE DEF step
<1>8. LoginFits(q)'
  BY <1>3, <1>4, <1>6, <1>7 DEF LoginFits, CountActiveByUser
<1>9. RefreshFits(q)'
  BY <1>3 DEF RefreshFits
<1> QED BY <1>1, <1>2, <1>3, <1>8, <1>9, PlacesKept DEF Stays

\* The eviction makes room, if there was a session to evict.
LEMMA PlacesAfterEvict ==
  ASSUME AccountsInv, SessionsInv, NEW q \in Calls, LoginEvict(q) PROVE SessionsInv'
<1>0. PICK u : u = call[q].user
  OBVIOUS
<1>1. /\ AccountsTypeOK /\ now \in Nat /\ now' = now
      /\ call[q].op = "login" /\ Advance(q, "session") /\ "session" \in Steps
      /\ u \in Members /\ RevokeOldestByUser(u)
  BY <1>0 DEF AccountsInv, AccountsTypeOK, LoginEvict, At, Steps, Call
<1>2. OnlyRevoked
  BY <1>1, EvictedOnly
<1>3. /\ call'[q].op = "login" /\ call'[q].step = "session" /\ call'[q].user = u
      /\ \A p \in Calls \ {q} : Stays(p)
  BY <1>0, <1>1, Advanced
<1>4. /\ ActiveOf(u)' \subseteq ActiveOf(u) /\ Excused(u)' = Excused(u)
      /\ Cardinality(Excused(u)) \in Nat /\ IsFiniteSet(ActiveOf(u))
  BY <1>1, <1>2, ActiveShrinks, SessionSets
<1>5. PICK A : A = ActiveOf(u)'
  OBVIOUS
<1>6. Cardinality(A) + 1 <= MaxSessions + Cardinality(Excused(u))
  <2>1. CASE ActiveOf(u) = {}
    BY <1>4, <1>5, <2>1, FS_EmptySet, AccountsAssumption
  <2>2. CASE ActiveOf(u) # {}
    <3>1. ActiveOf(u) \subseteq Nat
      BY <1>1, SessionTypes DEF ActiveOf
    <3>2. PICK i \in ActiveOf(u) : \A j \in ActiveOf(u) : i <= j
      BY <2>2, <3>1, Smallest
    <3>3. sessions'[i].revoked
      <4>1. i \in DOMAIN sessions /\ sessions[i] \in Session
        BY <1>1, SessionTypes DEF ActiveOf
      <4>2. sessions'[i] = [sessions[i] EXCEPT !.revoked = TRUE]
        BY <1>1, <3>2, <4>1 DEF RevokeOldestByUser
      <4> QED BY <4>1, <4>2 DEF Session
    <3>4. i \notin A
      BY <1>5, <3>3 DEF ActiveOf, Active
    <3>5. PICK B : B = ActiveOf(u) \ {i}
      OBVIOUS
    <3>6. /\ A \subseteq B /\ IsFiniteSet(B)
          /\ Cardinality(B) = Cardinality(ActiveOf(u)) - 1
          /\ Cardinality(ActiveOf(u)) \in Nat
      BY <1>4, <1>5, <3>2, <3>4, <3>5, FS_RemoveElement, FS_CardinalityType
    <3>7. /\ Cardinality(A) <= Cardinality(B) /\ Cardinality(A) \in Nat
          /\ Cardinality(B) \in Nat
      BY <3>6, FS_Subset, FS_CardinalityType
    <3>8. Cardinality(ActiveOf(u)) <= MaxSessions + Cardinality(Excused(u))
      BY <1>1 DEF SessionsInv, SessionsBounded, CountActiveByUser, Excused
    <3> QED BY <1>4, <3>6, <3>7, <3>8, AccountsAssumption
  <2> QED BY <2>1, <2>2
<1>7. LoginFits(q)'
  BY <1>3, <1>4, <1>5, <1>6 DEF LoginFits, CountActiveByUser
<1>8. RefreshFits(q)'
  BY <1>3 DEF RefreshFits
<1> QED BY <1>1, <1>2, <1>3, <1>7, <1>8, PlacesKept DEF Stays

\* A login or a refresh creates its session.  One that overlapped another, and
\* a refresh in the instant of expiry, is excused; the others had the place.
LEMMA PlacesAfterSession ==
  ASSUME AccountsInv, SessionsInv, NEW q \in Calls, NEW parent \in Nat, NewSession(q, parent),
         call[q].step = "session",
         \/ call[q].op = "login" /\ parent = 0
         \/ call[q].op = "refresh" /\ parent = call[q].arg
  PROVE  SessionsInv'
<1> DEFINE c == call[q]
           t == [user |-> c.user, role |-> c.row.role, exp |-> now + AccessTTL]
           s == [user |-> c.user, parent |-> parent, revoked |-> FALSE,
                 expires |-> now + refreshTTL(c.row), access |-> t, alone |-> c.alone]
<1>0. PICK n, u : n = Len(sessions) + 1 /\ u = c.user
  OBVIOUS
<1>1. /\ AccountsTypeOK /\ sessions' = Append(sessions, s) /\ now' = now /\ Return(q)
  BY DEF NewSession, SessionCreate, issueAccessToken, AccountsInv
<1>2. /\ call'[q].op = "none" /\ \A p \in Calls \ {q} : Stays(p)
  BY <1>1, CallReturned
<1>3. /\ c \in Call /\ c.user \in Members /\ c.alone \in BOOLEAN /\ now \in Nat
  BY <1>1 DEF AccountsTypeOK, Call
<1>4. /\ t.exp = now + AccessTTL /\ s.access.exp = t.exp /\ s.parent = parent
      /\ s.user = u /\ s.alone = c.alone
  BY <1>0
<1> HIDE DEF s, t
<1>5. /\ DOMAIN sessions' = DOMAIN sessions \cup {n} /\ n \notin DOMAIN sessions
      /\ sessions'[n] = s /\ \A i \in DOMAIN sessions : sessions'[i] = sessions[i]
  <2>1. sessions \in Seq(Session)
    BY <1>1, SessionTypes
  <2> QED BY <1>0, <1>1, <2>1
<1>6. /\ \A i \in DOMAIN sessions : sessions[i].parent # 0 => sessions[i].parent \in DOMAIN sessions
      /\ c.op = "refresh" => parent \in DOMAIN sessions /\ sessions[parent].revoked
  BY DEF AccountsInv, Rotation
<1>7. \A i \in DOMAIN sessions : OutlivesParent(i)' = OutlivesParent(i)
  BY <1>5, <1>6 DEF OutlivesParent
<1>8. \A v : v # u => ActiveOf(v)' = ActiveOf(v) /\ Excused(v)' = Excused(v)
  BY <1>1, <1>4, <1>5, <1>7 DEF ActiveOf, Active, Excused
<1>9. /\ ActiveOf(u)' \subseteq ActiveOf(u) \cup {n} /\ Excused(u) \subseteq Excused(u)'
      /\ Excused(u)' \subseteq Excused(u) \cup {n}
      /\ n \notin ActiveOf(u) /\ n \notin Excused(u)
  BY <1>1, <1>5, <1>7 DEF ActiveOf, Active, Excused
<1>10. \/ n \in Excused(u)'
       \/ Cardinality(ActiveOf(u)) + 1 <= MaxSessions + Cardinality(Excused(u))
  <2>1. CASE ~c.alone
    BY <1>4, <1>5, <2>1 DEF Excused
  <2>2. CASE c.alone /\ c.op = "login"
    BY <1>0, <2>2 DEF SessionsInv, LoginFits, CountActiveByUser
  <2>3. CASE c.alone /\ c.op = "refresh" /\ now < sessions[parent].expires
    <3>1. Cardinality(ActiveOf(u) \cup {parent}) <= MaxSessions + Cardinality(Excused(u))
      BY <1>0, <2>3 DEF SessionsInv, RefreshFits
    <3>2. parent \notin ActiveOf(u)
      BY <1>6, <2>3 DEF ActiveOf, Active
    <3>3. IsFiniteSet(ActiveOf(u))
      BY <1>1, SessionSets
    <3> QED BY <3>1, <3>2, <3>3, FS_AddElement
  <2>4. CASE c.op = "refresh" /\ ~(now < sessions[parent].expires)
    <3>1. parent \in DOMAIN sessions /\ parent # 0 /\ sessions[parent].expires \in Nat
      BY <1>1, <1>6, <2>4, SessionTypes DEF AccountsInv, Rotation
    <3>2. sessions[parent].expires + AccessTTL <= now + AccessTTL
      BY <1>3, <2>4, <3>1, AccountsAssumption
    <3>3. OutlivesParent(n)'
      BY <1>4, <1>5, <3>1, <3>2 DEF OutlivesParent
    <3> QED BY <1>4, <1>5, <3>3 DEF Excused
  <2> QED BY <1>3, <2>1, <2>2, <2>3, <2>4
<1>11. CountActiveByUser(u)' <= MaxSessions + Cardinality(Excused(u)')
  <2>1. PICK A, E : A = ActiveOf(u)' /\ E = Excused(u)'
    OBVIOUS
  <2>2. /\ IsFiniteSet(ActiveOf(u)) /\ IsFiniteSet(Excused(u))
        /\ Cardinality(ActiveOf(u)) \in Nat /\ Cardinality(Excused(u)) \in Nat
        /\ Cardinality(ActiveOf(u)) <= MaxSessions + Cardinality(Excused(u))
    BY <1>0, <1>1, <1>3, SessionSets DEF SessionsInv, SessionsBounded, CountActiveByUser, Excused
  <2>3. /\ IsFiniteSet(ActiveOf(u) \cup {n}) /\ IsFiniteSet(Excused(u) \cup {n})
        /\ Cardinality(ActiveOf(u) \cup {n}) = Cardinality(ActiveOf(u)) + 1
        /\ Cardinality(Excused(u) \cup {n}) = Cardinality(Excused(u)) + 1
    BY <1>9, <2>2, FS_AddElement
  <2>4. /\ Cardinality(A) <= Cardinality(ActiveOf(u)) + 1 /\ Cardinality(A) \in Nat
        /\ IsFiniteSet(E)
    BY <1>9, <2>1, <2>3, FS_Subset, FS_CardinalityType
  <2>5. CASE n \in E
    <3>1. E = Excused(u) \cup {n}
      BY <1>9, <2>1, <2>5
    <3> QED BY <2>1, <2>2, <2>3, <2>4, <3>1, AccountsAssumption DEF CountActiveByUser
  <2>6. CASE n \notin E
    <3>1. E = Excused(u)
      BY <1>9, <2>1, <2>6
    <3> QED BY <1>10, <2>1, <2>2, <2>4, <2>6, <3>1, AccountsAssumption DEF CountActiveByUser
  <2> QED BY <2>5, <2>6
<1>12. SessionsBounded'
  <2> SUFFICES ASSUME NEW v \in Members
               PROVE  CountActiveByUser(v)' <= MaxSessions + Cardinality(Excused(v)')
    BY DEF SessionsBounded, Excused
  <2>1. Cardinality(ActiveOf(v)) <= MaxSessions + Cardinality(Excused(v))
    BY DEF SessionsInv, SessionsBounded, CountActiveByUser, Excused
  <2> QED BY <1>8, <1>11, <2>1 DEF CountActiveByUser
<1>13. ASSUME NEW p \in Calls PROVE LoginFits(p)' /\ RefreshFits(p)'
  <2>1. CASE call'[p].op \notin SessionOps \/ ~call'[p].alone
    BY <2>1 DEF LoginFits, RefreshFits, SessionOps
  <2>2. CASE call'[p].op \in SessionOps /\ call'[p].alone
    <3>1. PICK v, k : v = call[p].user /\ k = call[p].arg
      OBVIOUS
    <3>2. /\ p # q /\ call[p].op = call'[p].op /\ call[p].step = call'[p].step
          /\ call'[p].user = v /\ call'[p].arg = k /\ call[p].alone
      BY <1>2, <2>2, <3>1 DEF Stays, SessionOps
    <3>3. v # u
      BY <1>0, <2>2, <3>1, <3>2 DEF AccountsInv, Overlaps, SessionOps
    <3>4. ActiveOf(v)' = ActiveOf(v) /\ Excused(v)' = Excused(v)
      BY <1>8, <3>3
    <3>5. LoginFits(p) /\ RefreshFits(p)
      BY DEF SessionsInv
    <3>6. LoginFits(p)'
      BY <3>1, <3>2, <3>4, <3>5 DEF LoginFits, CountActiveByUser
    <3>7. call[p].op = "refresh" => sessions'[k].expires = sessions[k].expires
      BY <1>5, <3>1 DEF AccountsInv, Rotation
    <3>8. RefreshFits(p)'
      BY <1>1, <3>1, <3>2, <3>4, <3>5, <3>7 DEF RefreshFits
    <3> QED BY <3>6, <3>8
  <2> QED BY <2>1, <2>2
<1> QED BY <1>12, <1>13 DEF SessionsInv

\* The statements of a refresh before its session.
LEMMA PlacesInRefresh ==
  ASSUME AccountsInv, SessionsInv, NEW q \in Calls, RefreshAccount(q) \/ RefreshRevoke(q)
  PROVE  SessionsInv'
<1>1. /\ AccountsTypeOK /\ now \in Nat /\ now' = now
      /\ call[q].op = "refresh" /\ call[q].user \in Members
      /\ account[call[q].user] \in Account /\ "revoke" \in Steps /\ "session" \in Steps
  BY DEF AccountsInv, AccountsTypeOK, RefreshAccount, RefreshRevoke, At, Call, Steps
<1>2. CASE RefreshAccount(q) /\ ~GetByID(call[q].user)
  BY <1>1, <1>2, PlacesAfterReturn DEF RefreshAccount
<1>3. CASE RefreshAccount(q) /\ GetByID(call[q].user)
  <2>1. AdvanceWith(q, "revoke", account[call[q].user]) /\ sessions' = sessions
    BY <1>3 DEF RefreshAccount
  <2>2. /\ call'[q].op = "refresh" /\ call'[q].user = call[q].user
        /\ call'[q].arg = call[q].arg /\ call'[q].alone = call[q].alone
        /\ \A p \in Calls \ {q} : Stays(p)
    BY <1>1, <2>1, AdvancedWith
  <2> QED BY <1>1, <2>1, <2>2, UnchangedOnly, PlacesKept DEF Stays
<1>4. CASE RefreshRevoke(q)
  <2>1. Advance(q, "session") /\ RevokeByToken(call[q].arg)
    BY <1>4 DEF RefreshRevoke
  <2>2. call[q].arg \in DOMAIN sessions
    BY <1>1 DEF AccountsInv, Rotation
  <2>3. /\ call'[q].op = "refresh" /\ call'[q].user = call[q].user
        /\ call'[q].arg = call[q].arg /\ call'[q].alone = call[q].alone
        /\ \A p \in Calls \ {q} : Stays(p)
    BY <1>1, <2>1, Advanced
  <2>4. OnlyRevoked
    BY <1>1, <2>1, <2>2, Revoked
  <2> QED BY <1>1, <2>3, <2>4, PlacesKept DEF Stays
<1> QED BY <1>2, <1>3, <1>4

\* Steps that leave the requests as they are, and a tick of the clock.
LEMMA PlacesBetween ==
  ASSUME AccountsInv, SessionsInv, OnlyRevoked, now' \in Nat, now <= now',
         \A p \in Calls : /\ call'[p].op = call[p].op /\ call'[p].step = call[p].step
                          /\ call'[p].user = call[p].user /\ call'[p].arg = call[p].arg
                          /\ call'[p].alone = call[p].alone
  PROVE  SessionsInv'
BY PlacesKept

LEMMA PlacesOutside ==
  ASSUME AccountsInv, SessionsInv,
         HandleLogout \/ HandleCreateAPIKey \/ (\E u \in Members : HandleAdmin(u)) \/ Tick
  PROVE  SessionsInv'
<1>1. AccountsTypeOK /\ now \in Nat /\ call \in [Calls -> Call]
  BY DEF AccountsInv, AccountsTypeOK
<1>2. CASE HandleLogout
  <2>1. PICK k \in DOMAIN sessions : Logout(k)
    BY <1>2 DEF HandleLogout
  <2>2. OnlyRevoked /\ now' = now /\ call' = call
    BY <1>1, <2>1, Revoked DEF Logout
  <2> QED BY <1>1, <2>2, PlacesBetween
<1>3. CASE HandleCreateAPIKey \/ \E u \in Members : HandleAdmin(u)
  <2>1. sessions' = sessions /\ now' = now /\ call' = call
    BY <1>3 DEF HandleCreateAPIKey, CreateAPIKey, HandleAdmin, AdminUpdateStatus,
         AdminUpdateRole, AdminDeleteUser, AdminDisable2FA
  <2> QED BY <1>1, <2>1, UnchangedOnly, PlacesBetween
<1>4. CASE Tick
  <2>1. /\ sessions' = sessions /\ now' = now + 1
        /\ call' = [q \in Calls |-> [call[q] EXCEPT !.late = call[q].step # "idle"]]
    BY <1>4 DEF Tick
  <2>2. ASSUME NEW p \in Calls
        PROVE  /\ call'[p].op = call[p].op /\ call'[p].step = call[p].step
               /\ call'[p].user = call[p].user /\ call'[p].arg = call[p].arg
               /\ call'[p].alone = call[p].alone
    <3>1. call[p] \in Call /\ call'[p] = [call[p] EXCEPT !.late = call[p].step # "idle"]
      BY <1>1, <2>1
    <3> QED BY <3>1 DEF Call
  <2> QED BY <1>1, <2>1, <2>2, UnchangedOnly, PlacesBetween
<1> QED BY <1>2, <1>3, <1>4

\* The nine requests whose first statement reads.
LEMMA PlacesAfterBegin ==
  ASSUME AccountsInv, SessionsInv, NEW q \in Calls
  PROVE  /\ \A u \in Members, p \in Passwords :
              RegisterLookup(q, u, p) \/ LoginFind(q, u, p) => SessionsInv'
         /\ \A i \in DOMAIN sessions : RefreshGet(q, i) => SessionsInv'
         /\ \A u \in Members : UpdateProfileRead(q, u) => SessionsInv'
         /\ \A u \in Members, old, new \in Passwords :
              ChangePasswordRead(q, u, old, new) => SessionsInv'
         /\ \A u \in Members : SetupTOTPRead(q, u) => SessionsInv'
         /\ \A u \in Members, code \in 1 .. MaxSecrets :
              EnableTOTPRead(q, u, code) \/ DisableTOTPRead(q, u, code) => SessionsInv'
         /\ \A u \in Members, k \in DOMAIN keys :
              RevokeAPIKeyList(q, u, k) => SessionsInv'
<1> USE DEF CallOps, Steps
<1>0. AccountsTypeOK
  BY DEF AccountsInv
<1>1. /\ secrets \in Nat
      /\ Passwords \subseteq Nat /\ Absent \in Account
      /\ \A u \in Members : account[u] \in Account /\ account[u].secret \in Nat
  BY <1>0, AccountsAssumption, RowTypes DEF AccountsTypeOK, Account
<1>2. ASSUME NEW u \in Members, NEW p \in Passwords,
             RegisterLookup(q, u, p) \/ LoginFind(q, u, p)
      PROVE  SessionsInv'
  BY <1>1, <1>2, PlacesAfterOpen DEF RegisterLookup, LoginFind
<1>3. ASSUME NEW i \in DOMAIN sessions, RefreshGet(q, i) PROVE SessionsInv'
  <2>1. i \in Nat /\ sessions[i].user \in Members
    BY <1>0, SessionTypes
  <2> QED BY <1>1, <1>3, <2>1, PlacesAfterOpen DEF RefreshGet
<1>4. ASSUME NEW u \in Members, UpdateProfileRead(q, u) \/ SetupTOTPRead(q, u)
      PROVE  SessionsInv'
  <2>1. secrets + 1 \in Nat
    BY <1>1
  <2> QED BY <1>1, <1>4, <2>1, PlacesAfterOpen DEF UpdateProfileRead, SetupTOTPRead
<1>5. ASSUME NEW u \in Members, NEW old \in Passwords, NEW new \in Passwords,
             ChangePasswordRead(q, u, old, new)
      PROVE  SessionsInv'
  <2>1. [account[u] EXCEPT !.password = new] \in Account
    BY <1>1 DEF Account
  <2> QED BY <1>1, <1>5, <2>1, PlacesAfterOpen DEF ChangePasswordRead
<1>6. ASSUME NEW u \in Members, NEW code \in 1 .. MaxSecrets,
             EnableTOTPRead(q, u, code) \/ DisableTOTPRead(q, u, code)
      PROVE  SessionsInv'
  BY <1>1, <1>6, PlacesAfterOpen DEF EnableTOTPRead, DisableTOTPRead
<1>7. ASSUME NEW u \in Members, NEW k \in DOMAIN keys, RevokeAPIKeyList(q, u, k)
      PROVE  SessionsInv'
  <2>1. k \in Nat
    BY DEF AccountsInv, AccountsTypeOK
  <2> QED BY <1>1, <1>7, <2>1, PlacesAfterOpen DEF RevokeAPIKeyList
<1> QED BY <1>2, <1>3, <1>4, <1>5, <1>6, <1>7

\* Every statement of every request keeps the places.
LEMMA SessionsInvStep == AccountsInv /\ SessionsInv /\ AccountsNext => SessionsInv'
<1> SUFFICES ASSUME AccountsInv, SessionsInv, AccountsNext PROVE SessionsInv'
  OBVIOUS
<1>1. ASSUME NEW q \in Calls, HandleLogin(q) PROVE SessionsInv'
  <2>1. ASSUME LoginSession(q) PROVE SessionsInv'
    BY <2>1, PlacesAfterSession DEF LoginSession, At
  <2> QED BY <1>1, <2>1, PlacesAfterBegin, PlacesAfterCount, PlacesAfterEvict DEF HandleLogin
<1>2. ASSUME NEW q \in Calls, HandleRefreshToken(q) PROVE SessionsInv'
  <2>1. ASSUME RefreshSession(q) PROVE SessionsInv'
    <3>1. call[q].arg \in Nat
      BY DEF AccountsInv, AccountsTypeOK, Call
    <3> QED BY <2>1, <3>1, PlacesAfterSession DEF RefreshSession, At
  <2> QED BY <1>2, <2>1, PlacesAfterBegin, PlacesInRefresh DEF HandleRefreshToken
<1>3. ASSUME NEW q \in Calls,
             \/ RegisterInsert(q) \/ UpdateProfileWrite(q) \/ ChangePasswordWrite(q)
             \/ SetupTOTPWrite(q) \/ EnableTOTPWrite(q) \/ DisableTOTPWrite(q)
             \/ RevokeAPIKeyDrop(q) \/ Lose(q)
      PROVE  SessionsInv'
  BY <1>3, PlacesAfterReturn
     DEF RegisterInsert, UpdateProfileWrite, ChangePasswordWrite, SetupTOTPWrite,
         EnableTOTPWrite, DisableTOTPWrite, RevokeAPIKeyDrop, Lose
<1>4. ASSUME NEW q \in Calls,
             \/ HandleRegister(q) \/ HandleUpdateMe(q) \/ HandleAdminUpdateProfile(q)
             \/ HandleChangePassword(q) \/ HandleSetup2FA(q) \/ HandleEnable2FA(q)
             \/ HandleDisable2FA(q) \/ HandleRevokeAPIKey(q) \/ Lose(q)
      PROVE  SessionsInv'
  BY <1>3, <1>4, PlacesAfterBegin
     DEF HandleRegister, HandleUpdateMe, HandleAdminUpdateProfile, HandleChangePassword,
         HandleSetup2FA, HandleEnable2FA, HandleDisable2FA, HandleRevokeAPIKey
<1> QED BY <1>1, <1>2, <1>4, PlacesOutside DEF AccountsNext

\* An account is over its limit of sessions in use only by those that requests
\* created which overlapped or came in the instant of expiry.
THEOREM SessionsAlwaysBounded == AccountsSpec => []SessionsBounded
<1>1. SessionsInv /\ UNCHANGED <<accountsVars, workload>> => SessionsInv'
  BY DEF accountsVars, SessionsInv, SessionsBounded, LoginFits, RefreshFits, Excused,
         OutlivesParent, CountActiveByUser, ActiveOf, Active
<1>2. SessionsInv => SessionsBounded
  BY DEF SessionsInv
<1> QED BY <1>1, <1>2, AccountsInvariant, SessionsInvInit, SessionsInvStep, PTL
     DEF AccountsSpec
-----------------------------------------------------------------------------
(* Reseller accounts. *)

\* A sub-account has one row, and one owner.
SubAccountsUnique ==
  \A s, t \in subs : s.user = t.user => s.owner = t.owner

\* A request past its check works on an object of its own reseller.
WorkOnOwn ==
  \A q \in Calls :
    LET w == work[q] IN
    /\ w.op = "credit" => \E s \in subs : s.user = w.sub /\ s.owner = w.user
    /\ w.op = "revoke_reseller_key" =>
         w.arg \in DOMAIN apiKeys /\ apiKeys[w.arg].owner = w.user
    /\ w.op = "delete_webhook" => w.arg \in DOMAIN hooks /\ hooks[w.arg].owner = w.user

\* A request for a sub-account saw an approved reseller.
WorkApproved ==
  \A q \in Calls :
    work[q].op = "create_sub" => reseller[work[q].user] = "approved" \/ work[q].moved

ResellersInv ==
  /\ ResellersTypeOK
  /\ PriceSound
  /\ SubAccountsOfApproved
  /\ OwnersOnly
  /\ SubAccountsUnique
  /\ WorkOnOwn
  /\ WorkApproved
-----------------------------------------------------------------------------
LEMMA NoWorkType == NoWork \in Work /\ NoWork.op = "none"
BY PlatformAssumption DEF NoWork, Work, WorkOps

\* Nothing is stored at the start.
LEMMA ResellersInvInit == ResellersInit => ResellersInv
<1> SUFFICES ASSUME ResellersInit PROVE ResellersInv
  OBVIOUS
<1>1. ResellersTypeOK
  BY NoWorkType DEF ResellersInit, ResellersTypeOK, NoPrice, Price
<1>2. PriceSound
  BY DEF ResellersInit, PriceSound, NoPrice, MarkupCap
<1>3. WorkOnOwn /\ WorkApproved
  BY NoWorkType DEF ResellersInit, WorkOnOwn, WorkApproved
<1> QED
  BY <1>1, <1>2, <1>3
     DEF ResellersInit, ResellersInv, SubAccountsOfApproved, OwnersOnly, SubAccountsUnique

\* A request passes its check: all that changes is the request.
LEMMA StepAccept ==
  ASSUME ResellersInv, NEW q \in Calls, NEW op \in WorkOps, NEW u \in Members,
         NEW sub \in Members, NEW arg \in Nat, NEW amount \in Nat,
         Accept(q, op, u, sub, arg, amount),
         op = "credit" => \E s \in subs : s.user = sub /\ s.owner = u,
         op = "revoke_reseller_key" => arg \in DOMAIN apiKeys /\ apiKeys[arg].owner = u,
         op = "delete_webhook" => arg \in DOMAIN hooks /\ hooks[arg].owner = u,
         op = "create_sub" => reseller[u] = "approved"
  PROVE  ResellersInv'
<1> DEFINE w == [op |-> op, user |-> u, sub |-> sub, arg |-> arg, amount |-> amount,
                 moved |-> FALSE]
<1>1. w \in Work
  BY DEF Work
<1>2. /\ work' = [work EXCEPT ![q] = w]
      /\ UNCHANGED <<reseller, pricing, subs, apiKeys, hooks, touched>>
  BY DEF Accept
<1>3. ResellersTypeOK'
  BY <1>1, <1>2 DEF ResellersInv, ResellersTypeOK
<1>4. w.op = op /\ w.user = u /\ w.sub = sub /\ w.arg = arg
  OBVIOUS
<1>5. work \in [Calls -> Work]
  BY DEF ResellersInv, ResellersTypeOK
<1> HIDE DEF w
<1>6. WorkOnOwn' /\ WorkApproved'
  BY <1>2, <1>4, <1>5 DEF ResellersInv, WorkOnOwn, WorkApproved
<1> QED
  BY <1>2, <1>3, <1>6
     DEF ResellersInv, PriceSound, SubAccountsOfApproved, OwnersOnly, SubAccountsUnique

\* A request that ends leaves nothing to answer for.
LEMMA StepGiveUp ==
  ASSUME ResellersInv, NEW q \in Calls, GiveUp(q) PROVE ResellersInv'
<1>1. /\ work' = [work EXCEPT ![q] = NoWork]
      /\ UNCHANGED <<reseller, pricing, subs, apiKeys, hooks, touched>>
  BY DEF GiveUp, Finish
<1>2. ResellersTypeOK'
  BY <1>1, NoWorkType DEF ResellersInv, ResellersTypeOK
<1>3. WorkOnOwn' /\ WorkApproved'
  BY <1>1, NoWorkType
     DEF ResellersInv, ResellersTypeOK, WorkOnOwn, WorkApproved
<1> QED
  BY <1>1, <1>2, <1>3
     DEF ResellersInv, PriceSound, SubAccountsOfApproved, OwnersOnly, SubAccountsUnique

\* A reseller is created pending: one that was approved stays so.
LEMMA StepCreateReseller ==
  ASSUME ResellersInv, NEW q \in Calls, CreateResellerInsert(q) PROVE ResellersInv'
<1>1. /\ work' = [work EXCEPT ![q] = NoWork]
      /\ UNCHANGED <<pricing, subs, apiKeys, hooks, touched>>
      /\ work \in [Calls -> Work]
      /\ work[q].user \in Members
  BY DEF CreateResellerInsert, Finish, ResellersInv, ResellersTypeOK, Work
<1>2. /\ reseller' \in [Members -> ResellerStatuses \cup {"absent"}]
      /\ \A u \in Members : reseller[u] = "approved" => reseller'[u] = "approved"
  BY <1>1 DEF CreateResellerInsert, ResellerCreate, ResellersInv, ResellersTypeOK,
              ResellerStatuses
<1>3. ResellersTypeOK'
  BY <1>1, <1>2, NoWorkType DEF ResellersInv, ResellersTypeOK
<1>4. WorkOnOwn'
  BY <1>1, NoWorkType DEF ResellersInv, WorkOnOwn
<1>5. WorkApproved'
  BY <1>1, <1>2, NoWorkType DEF ResellersInv, WorkApproved, Work
<1> QED
  BY <1>1, <1>3, <1>4, <1>5
     DEF ResellersInv, PriceSound, SubAccountsOfApproved, OwnersOnly, SubAccountsUnique

\* Approval and suspension mark the requests that checked the old status.
LEMMA StatusStep ==
  ASSUME ResellersInv, NEW q \in Calls, NEW status \in ResellerStatuses,
         ResellerUpdateStatus(work[q].user, status), FinishMoving(q, work[q].user),
         UNCHANGED <<pricing, subs, apiKeys, hooks, touched>>
  PROVE  ResellersInv'
<1> DEFINE u == work[q].user
<1>1. work \in [Calls -> Work] /\ u \in Members
  BY DEF ResellersInv, ResellersTypeOK, Work
<1>2. reseller' \in [Members -> ResellerStatuses \cup {"absent"}]
      /\ \A v \in Members : v # u => reseller'[v] = reseller[v]
  BY <1>1 DEF ResellerUpdateStatus, ResellersInv, ResellersTypeOK
<1>3. /\ work' \in [Calls -> Work]
      /\ \A p \in Calls : work'[p].op = "none" \/
           /\ work'[p].op = work[p].op /\ work'[p].user = work[p].user
           /\ work'[p].sub = work[p].sub /\ work'[p].arg = work[p].arg
           /\ work'[p].moved = (work[p].moved \/ work[p].user = u)
  <2>1. ASSUME NEW p \in Calls
        PROVE  LET w == [work[p] EXCEPT !.moved = @ \/ work[p].user = u] IN
               /\ w \in Work /\ w.op = work[p].op /\ w.user = work[p].user
               /\ w.sub = work[p].sub /\ w.arg = work[p].arg
               /\ w.moved = (work[p].moved \/ work[p].user = u)
    BY <1>1 DEF Work
  <2> QED BY <1>1, <2>1, NoWorkType DEF FinishMoving
<1>4. ResellersTypeOK'
  BY <1>2, <1>3 DEF ResellersInv, ResellersTypeOK
<1>5. WorkOnOwn'
  BY <1>3 DEF ResellersInv, WorkOnOwn
<1>6. WorkApproved'
  BY <1>1, <1>2, <1>3 DEF ResellersInv, WorkApproved, Work
<1> QED
  BY <1>4, <1>5, <1>6
     DEF ResellersInv, PriceSound, SubAccountsOfApproved, OwnersOnly, SubAccountsUnique

\* A price is checked against the floor that is stored with it, and against
\* the cost that the same request names.
LEMMA StepPricing ==
  ASSUME ResellersInv, NEW u \in Members, NEW p \in Products,
         NEW cost \in Nat, NEW floor \in Nat, NEW sell \in Nat,
         SetPricing(u, p, cost, floor, sell)
  PROVE  ResellersInv'
<1> DEFINE up == <<u, p>>
           old == pricing[up]
           new == IF old.on THEN Repriced(old, cost, floor, sell)
                  ELSE NewPrice(cost, floor, sell)
<1>1. /\ UNCHANGED <<reseller, subs, apiKeys, hooks, work, touched>>
      /\ pricing' = [pricing EXCEPT ![up] = new]
      /\ Priceable(cost, floor, sell)
  BY DEF SetPricing, Upsert
<1>2. /\ up \in Members \X Products /\ old \in Price
      /\ pricing \in [Members \X Products -> Price]
  BY DEF ResellersInv, ResellersTypeOK
<1>3. new \in Price
  BY <1>2 DEF Price, Repriced, NewPrice
<1>4. /\ new.floor = floor /\ new.sell = sell
      /\ ~new.recosted => new.cost = cost
  BY <1>2 DEF Price, Repriced, NewPrice
<1>5. ResellersTypeOK'
  BY <1>1, <1>2, <1>3 DEF ResellersInv, ResellersTypeOK
<1> HIDE DEF new, up
<1>6. PriceSound'
  BY <1>1, <1>2, <1>4 DEF ResellersInv, PriceSound, Priceable
<1> QED
  BY <1>1, <1>5, <1>6
     DEF ResellersInv, SubAccountsOfApproved, OwnersOnly, SubAccountsUnique, WorkOnOwn,
         WorkApproved

\* The INSERT happens while the reseller is approved, or it was moved since.
LEMMA StepSubAccount ==
  ASSUME ResellersInv, NEW q \in Calls, CreateSubAccountInsert(q) PROVE ResellersInv'
<1> DEFINE w == work[q]
           new == [user |-> w.sub, owner |-> w.user, credit |-> w.amount,
                   approved |-> reseller[w.user] = "approved", moved |-> w.moved]
<1>1. /\ work' = [work EXCEPT ![q] = NoWork]
      /\ UNCHANGED <<reseller, pricing, apiKeys, hooks, touched>>
      /\ w.op = "create_sub"
      /\ \/ subs' = subs
         \/ subs' = subs \cup {new} /\ \A s \in subs : s.user # w.sub
  BY DEF CreateSubAccountInsert, Doing, Finish, SubAccountCreate
<1>2. work \in [Calls -> Work] /\ w \in Work
  BY DEF ResellersInv, ResellersTypeOK
<1>3. /\ new \in SubAccount /\ new.user = w.sub
      /\ new.approved = (reseller[w.user] = "approved") /\ new.moved = w.moved
  BY <1>2 DEF Work, SubAccount
<1>4. new.approved \/ new.moved
  BY <1>1, <1>2, <1>3 DEF ResellersInv, WorkApproved, Work
<1> HIDE DEF new
<1>5. ResellersTypeOK'
  BY <1>1, <1>3, NoWorkType DEF ResellersInv, ResellersTypeOK
<1>6. SubAccountsOfApproved' /\ SubAccountsUnique'
  BY <1>1, <1>3, <1>4 DEF ResellersInv, SubAccountsOfApproved, SubAccountsUnique
<1>7. WorkOnOwn' /\ WorkApproved'
  BY <1>1, <1>2, NoWorkType DEF ResellersInv, WorkOnOwn, WorkApproved
<1> QED BY <1>1, <1>5, <1>6, <1>7 DEF ResellersInv, PriceSound, OwnersOnly

\* The row of the sub-account is its reseller's: user_id is unique.
LEMMA StepCredit ==
  ASSUME ResellersInv, NEW q \in Calls, SetCreditLimitUpdate(q) PROVE ResellersInv'
<1> DEFINE w == work[q]
           Limited(s) == IF s.user = w.sub THEN [s EXCEPT !.credit = w.amount] ELSE s
<1>1. /\ work' = [work EXCEPT ![q] = NoWork]
      /\ UNCHANGED <<reseller, pricing, apiKeys, hooks>>
      /\ w.op = "credit"
      /\ subs' = {Limited(s) : s \in subs}
      /\ \E s \in subs : s.user = w.sub /\ touched' = touched \cup {<<w.user, s.owner>>}
  BY DEF SetCreditLimitUpdate, Doing, Finish, SubUpdateCreditLimit, Touch
<1>2. work \in [Calls -> Work] /\ w \in Work /\ w.user \in Members
  BY DEF ResellersInv, ResellersTypeOK, Work
<1>3. ASSUME NEW s \in subs
      PROVE  /\ Limited(s) \in SubAccount
             /\ Limited(s).user = s.user /\ Limited(s).owner = s.owner
             /\ Limited(s).approved = s.approved /\ Limited(s).moved = s.moved
  BY <1>2 DEF ResellersInv, ResellersTypeOK, SubAccount, Work
<1> HIDE DEF Limited
<1>4. touched' = touched \cup {<<w.user, w.user>>}
  BY <1>1 DEF ResellersInv, WorkOnOwn, SubAccountsUnique
<1>5. ResellersTypeOK'
  <2>1. subs' \subseteq SubAccount
    BY <1>1, <1>3
  <2> QED BY <1>1, <1>2, <1>4, <2>1, NoWorkType DEF ResellersInv, ResellersTypeOK
<1>6. SubAccountsOfApproved' /\ SubAccountsUnique'
  BY <1>1, <1>3 DEF ResellersInv, SubAccountsOfApproved, SubAccountsUnique
<1>7. WorkOnOwn' /\ WorkApproved'
  <2>1. ASSUME NEW p \in Calls, work'[p].op = "credit"
        PROVE  \E s \in subs' : s.user = work'[p].sub /\ s.owner = work'[p].user
    <3>1. p # q /\ work'[p] = work[p]
      BY <1>1, <1>2, <2>1, NoWorkType
    <3>2. PICK s \in subs : s.user = work[p].sub /\ s.owner = work[p].user
      BY <2>1, <3>1 DEF ResellersInv, WorkOnOwn
    <3> QED BY <1>1, <1>3, <3>1, <3>2
  <2> QED BY <1>1, <1>2, <2>1, NoWorkType DEF ResellersInv, WorkOnOwn, WorkApproved
<1>8. OwnersOnly'
  BY <1>4 DEF ResellersInv, OwnersOnly
<1> QED BY <1>1, <1>5, <1>6, <1>7, <1>8 DEF ResellersInv, PriceSound

\* A key is added at the end: the others keep their owners.
LEMMA StepCreateKey ==
  ASSUME ResellersInv, NEW u \in Members, CreateResellerKey(u) PROVE ResellersInv'
<1> DEFINE k == [owner |-> u, revoked |-> FALSE]
           Key == [owner: Members, revoked: BOOLEAN]
<1>1. /\ apiKeys' = Append(apiKeys, k) /\ k \in Key /\ apiKeys \in Seq(Key)
      /\ UNCHANGED <<reseller, pricing, subs, hooks, work, touched>>
  BY DEF CreateResellerKey, APIKeyCreate, ResellersInv, ResellersTypeOK
<1> HIDE DEF k, Key
<1>2. /\ apiKeys' \in Seq(Key)
      /\ \A i \in DOMAIN apiKeys : i \in DOMAIN apiKeys' /\ apiKeys'[i] = apiKeys[i]
  BY <1>1
<1>3. ResellersTypeOK'
  BY <1>1, <1>2 DEF ResellersInv, ResellersTypeOK, Key
<1>4. WorkOnOwn'
  BY <1>1, <1>2 DEF ResellersInv, WorkOnOwn
<1> QED
  BY <1>1, <1>3, <1>4
     DEF ResellersInv, PriceSound, SubAccountsOfApproved, OwnersOnly, SubAccountsUnique,
         WorkApproved

\* So is a webhook.
LEMMA StepCreateWebhook ==
  ASSUME ResellersInv, NEW u \in Members, CreateWebhook(u) PROVE ResellersInv'
<1> DEFINE h == [owner |-> u, active |-> TRUE]
           WebhookRow == [owner: Members, active: BOOLEAN]
<1>1. /\ hooks' = Append(hooks, h) /\ h \in WebhookRow /\ hooks \in Seq(WebhookRow)
      /\ UNCHANGED <<reseller, pricing, subs, apiKeys, work, touched>>
  BY DEF CreateWebhook, WebhookCreate, ResellersInv, ResellersTypeOK
<1> HIDE DEF h, WebhookRow
<1>2. /\ hooks' \in Seq(WebhookRow)
      /\ \A i \in DOMAIN hooks : i \in DOMAIN hooks' /\ hooks'[i] = hooks[i]
  BY <1>1
<1>3. ResellersTypeOK'
  BY <1>1, <1>2 DEF ResellersInv, ResellersTypeOK, WebhookRow
<1>4. WorkOnOwn'
  BY <1>1, <1>2 DEF ResellersInv, WorkOnOwn
<1> QED
  BY <1>1, <1>3, <1>4
     DEF ResellersInv, PriceSound, SubAccountsOfApproved, OwnersOnly, SubAccountsUnique,
         WorkApproved

\* The key that is revoked was listed for this reseller; owners never change.
LEMMA StepRevokeKey ==
  ASSUME ResellersInv, NEW q \in Calls, RevokeResellerKeyUpdate(q) PROVE ResellersInv'
<1> DEFINE w == work[q]
           Key == [owner: Members, revoked: BOOLEAN]
<1>1. /\ work' = [work EXCEPT ![q] = NoWork]
      /\ UNCHANGED <<reseller, pricing, subs, hooks>>
      /\ w.op = "revoke_reseller_key"
      /\ apiKeys' = [apiKeys EXCEPT ![w.arg].revoked = TRUE]
      /\ touched' = touched \cup {<<w.user, apiKeys[w.arg].owner>>}
  BY DEF RevokeResellerKeyUpdate, Doing, Finish, APIKeyRevoke, Touch
<1>2. work \in [Calls -> Work] /\ w \in Work /\ w.user \in Members
  BY DEF ResellersInv, ResellersTypeOK, Work
<1>3. w.arg \in DOMAIN apiKeys /\ apiKeys[w.arg].owner = w.user
  BY <1>1 DEF ResellersInv, WorkOnOwn
<1>4. /\ apiKeys' \in Seq(Key) /\ DOMAIN apiKeys' = DOMAIN apiKeys
      /\ \A i \in DOMAIN apiKeys : apiKeys'[i].owner = apiKeys[i].owner
  <2> DEFINE new == [apiKeys[w.arg] EXCEPT !.revoked = TRUE]
  <2>1. apiKeys \in Seq(Key) /\ apiKeys[w.arg] \in Key
    <3>1. apiKeys \in Seq(Key)
      BY DEF ResellersInv, ResellersTypeOK
    <3> HIDE DEF Key
    <3> QED BY <1>3, <3>1
  <2>2. new \in Key /\ new.owner = apiKeys[w.arg].owner
    BY <2>1
  <2>3. apiKeys' = [apiKeys EXCEPT ![w.arg] = new]
    BY <1>1
  <2> HIDE DEF new, Key
  <2> QED BY <1>3, <2>1, <2>2, <2>3
<1>5. ResellersTypeOK'
  BY <1>1, <1>2, <1>3, <1>4, NoWorkType DEF ResellersInv, ResellersTypeOK
<1>6. WorkOnOwn' /\ WorkApproved'
  BY <1>1, <1>2, <1>4, NoWorkType DEF ResellersInv, WorkOnOwn, WorkApproved
<1>7. OwnersOnly'
  BY <1>1, <1>3 DEF ResellersInv, OwnersOnly
<1> QED
  BY <1>1, <1>5, <1>6, <1>7
     DEF ResellersInv, PriceSound, SubAccountsOfApproved, SubAccountsUnique

\* So was the webhook that is deleted.
LEMMA StepDeleteWebhook ==
  ASSUME ResellersInv, NEW q \in Calls, DeleteWebhookUpdate(q) PROVE ResellersInv'
<1> DEFINE w == work[q]
           WebhookRow == [owner: Members, active: BOOLEAN]
<1>1. /\ work' = [work EXCEPT ![q] = NoWork]
      /\ UNCHANGED <<reseller, pricing, subs, apiKeys>>
      /\ w.op = "delete_webhook"
      /\ hooks' = [hooks EXCEPT ![w.arg].active = FALSE]
      /\ touched' = touched \cup {<<w.user, hooks[w.arg].owner>>}
  BY DEF DeleteWebhookUpdate, Doing, Finish, WebhookDelete, Touch
<1>2. work \in [Calls -> Work] /\ w \in Work /\ w.user \in Members
  BY DEF ResellersInv, ResellersTypeOK, Work
<1>3. w.arg \in DOMAIN hooks /\ hooks[w.arg].owner = w.user
  BY <1>1 DEF ResellersInv, WorkOnOwn
<1>4. /\ hooks' \in Seq(WebhookRow) /\ DOMAIN hooks' = DOMAIN hooks
      /\ \A i \in DOMAIN hooks : hooks'[i].owner = hooks[i].owner
  <2> DEFINE new == [hooks[w.arg] EXCEPT !.active = FALSE]
  <2>1. hooks \in Seq(WebhookRow) /\ hooks[w.arg] \in WebhookRow
    <3>1. hooks \in Seq(WebhookRow)
      BY DEF ResellersInv, ResellersTypeOK
    <3> HIDE DEF WebhookRow
    <3> QED BY <1>3, <3>1
  <2>2. new \in WebhookRow /\ new.owner = hooks[w.arg].owner
    BY <2>1
  <2>3. hooks' = [hooks EXCEPT ![w.arg] = new]
    BY <1>1
  <2> HIDE DEF new, WebhookRow
  <2> QED BY <1>3, <2>1, <2>2, <2>3
<1>5. ResellersTypeOK'
  BY <1>1, <1>2, <1>3, <1>4, NoWorkType DEF ResellersInv, ResellersTypeOK
<1>6. WorkOnOwn' /\ WorkApproved'
  BY <1>1, <1>2, <1>4, NoWorkType DEF ResellersInv, WorkOnOwn, WorkApproved
<1>7. OwnersOnly'
  BY <1>1, <1>3 DEF ResellersInv, OwnersOnly
<1> QED
  BY <1>1, <1>5, <1>6, <1>7
     DEF ResellersInv, PriceSound, SubAccountsOfApproved, SubAccountsUnique
-----------------------------------------------------------------------------
\* Every statement of every request keeps the invariant.
LEMMA ResellersInvStep == ResellersInv /\ ResellersNext => ResellersInv'
<1> SUFFICES ASSUME ResellersInv, ResellersNext PROVE ResellersInv'
  OBVIOUS
<1> USE DEF WorkOps
<1>1. ASSUME NEW q \in Calls, NEW u \in Members, CreateResellerRead(q, u)
      PROVE  ResellersInv'
  BY <1>1, StepAccept DEF CreateResellerRead
<1>2. ASSUME NEW q \in Calls, NEW u \in Members,
             ApproveResellerRead(q, u) \/ SuspendResellerRead(q, u)
      PROVE  ResellersInv'
  BY <1>2, StepAccept DEF ApproveResellerRead, SuspendResellerRead
<1>3. ASSUME NEW q \in Calls, ApproveResellerUpdate(q) \/ SuspendResellerUpdate(q)
      PROVE  ResellersInv'
  BY <1>3, StatusStep
     DEF ApproveResellerUpdate, SuspendResellerUpdate, ResellerStatuses
<1>4. ASSUME NEW q \in Calls, NEW u \in Members, NEW user \in Members,
             NEW limit \in Limits, CreateSubAccountRead(q, u, user, limit)
      PROVE  ResellersInv'
  BY <1>4, StepAccept, ResellersAssumption DEF CreateSubAccountRead, MayHaveSubAccounts
<1>5. ASSUME NEW q \in Calls, NEW u \in Members, NEW user \in Members,
             NEW limit \in Limits, SetCreditLimitRead(q, u, user, limit)
      PROVE  ResellersInv'
  BY <1>5, StepAccept, ResellersAssumption DEF SetCreditLimitRead
<1>6. ASSUME NEW q \in Calls, NEW u \in Members, NEW k \in DOMAIN apiKeys,
             RevokeResellerKeyList(q, u, k)
      PROVE  ResellersInv'
  <2>1. k \in Nat
    BY DEF ResellersInv, ResellersTypeOK
  <2> QED BY <1>6, <2>1, StepAccept DEF RevokeResellerKeyList, ListByReseller
<1>7. ASSUME NEW q \in Calls, NEW u \in Members, NEW w \in DOMAIN hooks,
             DeleteWebhookRead(q, u, w)
      PROVE  ResellersInv'
  <2>1. w \in Nat
    BY DEF ResellersInv, ResellersTypeOK
  <2> QED BY <1>7, <2>1, StepAccept DEF DeleteWebhookRead
<1>8. HandleAdminSetPricing \/ HandleSetPricing => ResellersInv'
  BY StepPricing, ResellersAssumption DEF HandleAdminSetPricing, HandleSetPricing
<1> QED
  BY <1>1, <1>2, <1>3, <1>4, <1>5, <1>6, <1>7, <1>8, StepCreateReseller,
     StepSubAccount, StepCredit, StepRevokeKey, StepDeleteWebhook, StepGiveUp,
     StepCreateKey, StepCreateWebhook
     DEF ResellersNext, HandleAdminCreateReseller, HandleAdminApprove,
         HandleAdminSuspend, HandleCreateSubAccount, HandleSetUserCredit,
         HandleRevokeResellerKey, HandleDeleteWebhook, HandleCreateResellerKey,
         HandleCreateWebhook

\* The invariant of reseller-service.
THEOREM ResellersInvariant == ResellersSpec => []ResellersInv
<1>1. ResellersInv /\ UNCHANGED <<resellersVars, workload>> => ResellersInv'
  BY DEF resellersVars, ResellersInv, ResellersTypeOK, PriceSound, SubAccountsOfApproved,
         OwnersOnly, SubAccountsUnique, WorkOnOwn, WorkApproved
<1> QED BY <1>1, ResellersInvInit, ResellersInvStep, PTL DEF ResellersSpec

\* Every variable of reseller-service keeps its type.
THEOREM ResellersTypeCorrect == ResellersSpec => []ResellersTypeOK
<1>1. ResellersInv => ResellersTypeOK
  BY DEF ResellersInv
<1> QED BY <1>1, ResellersInvariant, PTL

\* Stored prices keep the floor, and the cost and cap of equal requests.
THEOREM PricesAlwaysSound == ResellersSpec => []PriceSound
<1>1. ResellersInv => PriceSound
  BY DEF ResellersInv
<1> QED BY <1>1, ResellersInvariant, PTL

\* Sub-accounts belong to resellers that were approved when checked.
THEOREM SubAccountsAlwaysOfApproved == ResellersSpec => []SubAccountsOfApproved
<1>1. ResellersInv => SubAccountsOfApproved
  BY DEF ResellersInv
<1> QED BY <1>1, ResellersInvariant, PTL

\* A reseller's requests never change what belongs to another.
THEOREM OwnersAlwaysOnly == ResellersSpec => []OwnersOnly
<1>1. ResellersInv => OwnersOnly
  BY DEF ResellersInv
<1> QED BY <1>1, ResellersInvariant, PTL
=============================================================================
