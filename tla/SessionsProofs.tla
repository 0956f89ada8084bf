--------------------------- MODULE SessionsProofs ---------------------------
(***************************************************************************)
(* Theorems about accounts and refresh tokens, for any number of           *)
(* concurrent requests, accounts, tokens and failed statements.            *)
(***************************************************************************)
EXTENDS Sessions, TLAPS

USE DEF tables, locals, history, bounds

LEMMA TypeInit == Init => TypeOK
  BY BoundAssumption DEF Init, TypeOK, Running

\* Revoking changes no key, owner or lifetime.
LEMMA RevokedShape ==
    ASSUME TypeOK, NEW S
    PROVE  /\ Revoked(S) \in [Jtis -> TokenRows \union {None}]
           /\ \A j \in Jtis :
                /\ Revoked(S)[j] # None <=> tokens[j] # None
                /\ tokens[j] # None => Revoked(S)[j].user = tokens[j].user
                /\ j \notin S => Revoked(S)[j] = tokens[j]
                /\ tokens[j] # None /\ tokens[j].revoked => Revoked(S)[j].revoked
<1> DEFINE R == Revoked(S)
<1>1. ASSUME NEW j \in Jtis, j \in S, tokens[j] # None
      PROVE  R[j] \in TokenRows /\ R[j].user = tokens[j].user /\ R[j].revoked
  BY <1>1 DEF TypeOK, Revoked, TokenRows
<1>2. ASSUME NEW j \in Jtis, j \notin S \/ tokens[j] = None
      PROVE  R[j] = tokens[j]
  BY <1>2 DEF Revoked
<1>3. DOMAIN R = Jtis /\ R = [j \in Jtis |-> R[j]]
  BY DEF Revoked
<1>4. None \notin TokenRows
  BY NoneAssumption
<1> HIDE DEF R
<1>5. R \in [Jtis -> TokenRows \union {None}]
  BY <1>1, <1>2, <1>3 DEF TypeOK
<1> QED BY <1>1, <1>2, <1>4, <1>5 DEF R

LEMMA TypeNext == TypeOK /\ [Next]_vars => TypeOK'
<1> SUFFICES ASSUME TypeOK, [Next]_vars PROVE TypeOK'
  OBVIOUS
<1>1. CASE UNCHANGED vars
  BY <1>1 DEF vars, TypeOK, Running
<1>2. ASSUME NEW r \in Requests, NEW e \in Emails, StartRegister(r, e) PROVE TypeOK'
  BY <1>2, NoneAssumption, BoundAssumption
     DEF StartRegister, Finish, RolePairs, TypeOK, Running, UserRows, Roles
<1>3. ASSUME NEW r \in Requests, NEW e \in Emails, StartLogin(r, e) PROVE TypeOK'
  BY <1>3, NoneAssumption DEF StartLogin, RolePairs, TypeOK, Running, UserRows
<1>4. ASSUME NEW r \in Requests, Reject(r) PROVE TypeOK'
  BY <1>4 DEF Reject, TypeOK, Running
<1>5. ASSUME NEW r \in Requests, NEW q \in Requests, StartRefresh(r, q) PROVE TypeOK'
  BY <1>5, NoneAssumption DEF StartRefresh, RolePairs, TypeOK, Running, UserRows
<1>6. ASSUME NEW r \in Requests, CheckActive(r) PROVE TypeOK'
  BY <1>6 DEF CheckActive, TypeOK, Running
<1>7. ASSUME NEW r \in Requests, LoadUser(r) PROVE TypeOK'
  BY <1>7, NoneAssumption DEF LoadUser, TypeOK, Running, UserRows
<1>8. ASSUME NEW r \in Requests, Rotate(r) PROVE TypeOK'
  BY <1>8, RevokedShape, BoundAssumption DEF Rotate, Finish, TypeOK, Running
<1>9. ASSUME NEW r \in Requests, Issue(r) PROVE TypeOK'
  <2>1. CASE users[uid[r]] = None
    BY <1>9, <2>1 DEF Issue, TypeOK, Running
  <2>2. CASE users[uid[r]] # None
    <3>1. PICK j \in Jtis \ minted :
            /\ tokens' = [tokens EXCEPT ![j] = [user |-> uid[r], revoked |-> FALSE]]
            /\ minted' = minted \union {j}
            /\ Finish(r, "ok")
            /\ given' = IF pc'[r] = "ok" THEN [given EXCEPT ![r] = j] ELSE given
      BY <1>9, <2>2 DEF Issue
    <3>2. [user |-> uid[r], revoked |-> FALSE] \in TokenRows
      BY <1>9 DEF Issue, TypeOK, Running, TokenRows
    <3>3. UNCHANGED <<users, born, expired, presented, uid, role, history, setRoles>>
      BY <1>9 DEF Issue
    <3>4. pc[r] = "issuing" /\ pc' = [pc EXCEPT ![r] = pc'[r]] /\ pc'[r] \in {"ok", "failed"}
      BY <1>9, <3>1 DEF Issue, Finish, TypeOK
    <3>5. faults' \in 0 .. MaxFaults
      BY <3>1, BoundAssumption DEF Finish, TypeOK
    <3>6. given[r] = None /\ (given'[r] = None <=> pc'[r] = "failed")
      BY <3>1, <3>4, NoneAssumption DEF TypeOK
    <3> QED BY <3>1, <3>2, <3>3, <3>4, <3>5, <3>6, NoneAssumption DEF TypeOK, Running
  <2> QED BY <2>1, <2>2
<1>10. ASSUME NEW r \in Requests, Abort(r) PROVE TypeOK'
  BY <1>10, BoundAssumption DEF Abort, TypeOK, Running
<1>11. ASSUME NEW q \in Requests, Logout(q) PROVE TypeOK'
  BY <1>11, RevokedShape DEF Logout, TypeOK, Running
<1>12. ASSUME NEW u \in Ids, RevokeAllForUser(u) PROVE TypeOK'
  BY <1>12, RevokedShape DEF RevokeAllForUser, TypeOK, Running
<1>13. ASSUME NEW u \in Ids, DeleteUser(u) PROVE TypeOK'
  BY <1>13 DEF DeleteUser, TypeOK, Running
<1>14. ASSUME NEW u \in Ids, NEW new \in Roles, SetRole(u, new) PROVE TypeOK'
  BY <1>14, NoneAssumption, BoundAssumption DEF SetRole, Witness, TypeOK, Running, UserRows
<1>15. ASSUME NEW j \in Jtis, Expire(j) PROVE TypeOK'
  BY <1>15 DEF Expire, TypeOK, Running
<1>16. CASE DeleteExpired
  BY <1>16 DEF DeleteExpired, TypeOK, Running
<1> QED
  BY <1>1, <1>2, <1>3, <1>4, <1>5, <1>6, <1>7, <1>8, <1>9, <1>10, <1>11, <1>12, <1>13,
     <1>14, <1>15, <1>16 DEF Next, RequestStep

\* Every variable keeps its type; nobody issues tokens without an account and a role.
THEOREM TypeCorrect == Spec => []TypeOK
  BY TypeInit, TypeNext, PTL DEF Spec

-----------------------------------------------------------------------------
(* The inductive invariant. *)

\* A request that started with a dead token never gets past the IsActive check,
\* because a dead token cannot come back to life: its jti is not minted again.
DeadStaysDead ==
    \A r \in Requests : deadStart[r] =>
        /\ pc[r] \in {"verified", "failed"}
        /\ presented[r] \in minted
        /\ ~Active(presented[r])

\* A running request has witnessed every role in the table; the one it read is
\* among those it has witnessed.
RolesWitnessed ==
    /\ \A r \in Requests : Running(r) => RolePairs \subseteq seen[r]
    /\ \A r \in Requests : pc[r] \in {"loaded", "issuing", "ok"} => <<uid[r], role[r]>> \in seen[r]

GivenMinted == \A r \in Requests : given[r] # None => given[r] \in minted

SessionsInv ==
    /\ TypeOK
    /\ DeadStaysDead
    /\ RolesWitnessed
    /\ GivenMinted
    /\ NoSessionWithoutAccount

LEMMA SessionsInvInit == Init => SessionsInv
  BY TypeInit DEF Init, SessionsInv, DeadStaysDead, RolesWitnessed, GivenMinted,
                  NoSessionWithoutAccount, Running

\* Nothing revives a token, and only Issue brings new ones.
LEMMA NoRevival ==
    ASSUME SessionsInv, [Next]_vars
    PROVE  \A j \in minted : Active(j)' => Active(j)
<1> SUFFICES ASSUME NEW j \in Jtis, j \in minted, ~Active(j) PROVE ~Active(j)'
  BY DEF SessionsInv, TypeOK
<1> USE DEF SessionsInv, Active
<1>1. CASE UNCHANGED <<tokens, expired>>
  BY <1>1
<1>2. ASSUME NEW S, tokens' = Revoked(S), UNCHANGED expired PROVE ~Active(j)'
  BY <1>2, RevokedShape
<1>3. ASSUME NEW r \in Requests, Rotate(r) PROVE ~Active(j)'
  BY <1>2, <1>3 DEF Rotate
<1>4. ASSUME NEW r \in Requests, Issue(r) PROVE ~Active(j)'
  BY <1>4 DEF Issue, TypeOK
<1>5. ASSUME NEW q \in Requests, Logout(q) PROVE ~Active(j)'
  BY <1>2, <1>5 DEF Logout
<1>6. ASSUME NEW u \in Ids, RevokeAllForUser(u) PROVE ~Active(j)'
  BY <1>2, <1>6 DEF RevokeAllForUser
<1>7. ASSUME NEW u \in Ids, DeleteUser(u) PROVE ~Active(j)'
  BY <1>7 DEF DeleteUser, TypeOK
<1>8. ASSUME NEW k \in Jtis, Expire(k) PROVE ~Active(j)'
  BY <1>8 DEF Expire
<1>9. CASE DeleteExpired
  BY <1>9 DEF DeleteExpired, TypeOK
<1> QED
  BY <1>1, <1>3, <1>4, <1>5, <1>6, <1>7, <1>8, <1>9
     DEF Next, vars, RequestStep, StartRegister, StartLogin, Reject, StartRefresh, CheckActive,
         LoadUser, Abort, SetRole

LEMMA DeadStaysDeadNext ==
    ASSUME SessionsInv, [Next]_vars
    PROVE  DeadStaysDead'
<1> SUFFICES ASSUME NEW r \in Requests, deadStart'[r]
             PROVE  pc'[r] \in {"verified", "failed"} /\ presented'[r] \in minted' /\ ~Active(presented[r])'
  BY DEF DeadStaysDead
<1> USE DEF SessionsInv
<1>0. minted \subseteq minted'
  BY DEF Next, vars, RequestStep, StartRegister, StartLogin, Reject, StartRefresh, CheckActive,
         LoadUser, Rotate, Issue, Abort, Logout, RevokeAllForUser, DeleteUser, SetRole, Expire,
         DeleteExpired
<1>1. CASE \E q \in Requests : StartRefresh(r, q)
  <2>1. PICK q \in Requests : StartRefresh(r, q)
    BY <1>1
  <2>2. given[q] \in minted /\ ~Active(given[q]) /\ presented'[r] = given[q] /\ pc'[r] = "verified"
    BY <2>1 DEF StartRefresh, GivenMinted, TypeOK
  <2> QED BY <1>0, <2>2, NoRevival DEF Active
<1>2. CASE ~ \E q \in Requests : StartRefresh(r, q)
  <2>1. deadStart'[r] = deadStart[r] /\ presented'[r] = presented[r]
    <3>1. CASE UNCHANGED <<deadStart, presented>>
      BY <3>1
    <3>2. CASE \E q, p \in Requests : q # r /\ StartRefresh(q, p)
      BY <3>2 DEF StartRefresh, TypeOK
    <3> QED
      BY <1>2, <3>1, <3>2
         DEF Next, vars, RequestStep, StartRegister, StartLogin, Reject, CheckActive, LoadUser,
             Rotate, Issue, Abort, Logout, RevokeAllForUser, DeleteUser, SetRole, Expire,
             DeleteExpired
  <2>2. pc[r] \in {"verified", "failed"} /\ presented[r] \in minted /\ ~Active(presented[r])
    BY <2>1 DEF DeadStaysDead
  <2>3. pc'[r] \in {"verified", "failed"}
    <3>1. CASE UNCHANGED pc
      BY <2>2, <3>1
    <3>2. ASSUME NEW q \in Requests, RequestStep(q), q # r PROVE pc'[r] = pc[r]
      BY <3>2 DEF RequestStep, StartRegister, StartLogin, Reject, StartRefresh, CheckActive,
                  LoadUser, Rotate, Issue, Abort, Finish, TypeOK
    <3>3. CASE CheckActive(r) \/ Abort(r)
      BY <2>2, <3>3 DEF CheckActive, Abort, TypeOK
    <3>4. CASE RequestStep(r)
      BY <1>2, <2>2, <3>3, <3>4
         DEF RequestStep, StartRegister, StartLogin, Reject, LoadUser, Rotate, Issue
    <3> QED
      BY <2>2, <3>1, <3>2, <3>4
         DEF Next, vars, Logout, RevokeAllForUser, DeleteUser, SetRole, Expire, DeleteExpired
  <2> QED BY <1>0, <2>1, <2>2, <2>3, NoRevival DEF Active
<1> QED BY <1>1, <1>2

LEMMA GivenMintedNext ==
    ASSUME SessionsInv, [Next]_vars
    PROVE  GivenMinted'
<1> USE DEF SessionsInv
<1>1. CASE UNCHANGED given /\ minted \subseteq minted'
  BY <1>1 DEF GivenMinted
<1>2. ASSUME NEW r \in Requests, Issue(r) PROVE GivenMinted'
  <2>1. CASE users[uid[r]] = None
    BY <1>1, <1>2, <2>1 DEF Issue
  <2>2. CASE users[uid[r]] # None
    <3>1. PICK j \in Jtis \ minted :
            /\ minted' = minted \union {j}
            /\ given' = IF pc'[r] = "ok" THEN [given EXCEPT ![r] = j] ELSE given
      BY <1>2, <2>2 DEF Issue
    <3> QED BY <3>1 DEF GivenMinted, TypeOK
  <2> QED BY <2>1, <2>2
<1> QED
  BY <1>1, <1>2
     DEF Next, vars, RequestStep, StartRegister, StartLogin, Reject, StartRefresh, CheckActive,
         LoadUser, Rotate, Abort, Logout, RevokeAllForUser, DeleteUser, SetRole, Expire,
         DeleteExpired

LEMMA NoSessionNext ==
    ASSUME SessionsInv, [Next]_vars
    PROVE  NoSessionWithoutAccount'
<1> USE DEF SessionsInv, NoSessionWithoutAccount
<1>1. CASE UNCHANGED <<users, tokens>>
  BY <1>1
<1>2. ASSUME NEW S, tokens' = Revoked(S), UNCHANGED users PROVE NoSessionWithoutAccount'
  BY <1>2, RevokedShape
<1>3. ASSUME NEW r \in Requests, NEW e \in Emails, StartRegister(r, e) PROVE NoSessionWithoutAccount'
  <2>1. \A u \in Ids : users[u] # None => users'[u] # None
    BY <1>3, NoneAssumption DEF StartRegister, TypeOK, UserRows, Roles
  <2>2. UNCHANGED tokens
    BY <1>3 DEF StartRegister
  <2> QED BY <2>1, <2>2 DEF TypeOK, TokenRows
<1>4. ASSUME NEW r \in Requests, Rotate(r) PROVE NoSessionWithoutAccount'
  BY <1>2, <1>4 DEF Rotate
<1>5. ASSUME NEW r \in Requests, Issue(r) PROVE NoSessionWithoutAccount'
  BY <1>1, <1>5 DEF Issue, TypeOK
<1>6. ASSUME NEW q \in Requests, Logout(q) PROVE NoSessionWithoutAccount'
  BY <1>2, <1>6 DEF Logout
<1>7. ASSUME NEW u \in Ids, RevokeAllForUser(u) PROVE NoSessionWithoutAccount'
  BY <1>2, <1>7 DEF RevokeAllForUser
<1>8. ASSUME NEW u \in Ids, DeleteUser(u) PROVE NoSessionWithoutAccount'
  BY <1>8 DEF DeleteUser, TypeOK, TokenRows
<1>9. ASSUME NEW u \in Ids, NEW new \in Roles, SetRole(u, new) PROVE NoSessionWithoutAccount'
  <2>1. \A v \in Ids : users[v] # None => users'[v] # None
    BY <1>9, NoneAssumption DEF SetRole, TypeOK, UserRows
  <2> QED BY <1>9, <2>1 DEF SetRole, TypeOK, TokenRows
<1>10. CASE DeleteExpired
  BY <1>10 DEF DeleteExpired, TypeOK
<1> QED
  BY <1>1, <1>3, <1>4, <1>5, <1>6, <1>7, <1>8, <1>9, <1>10
     DEF Next, vars, RequestStep, StartLogin, Reject, StartRefresh, CheckActive, LoadUser, Abort,
         Expire

LEMMA RolesWitnessedNext ==
    ASSUME SessionsInv, [Next]_vars
    PROVE  RolesWitnessed'
<1> USE DEF SessionsInv
<1>0. TypeOK /\ TypeOK'
  BY TypeNext
<1>1. CASE UNCHANGED <<users, pc, uid, role, seen>>
  BY <1>1 DEF RolesWitnessed, Running, RolePairs
<1>2. ASSUME NEW r \in Requests, NEW e \in Emails, StartRegister(r, e) PROVE RolesWitnessed'
  <2>1. CASE UNCHANGED <<users, uid, role, seen>> /\ pc' = [pc EXCEPT ![r] = "failed"]
    BY <1>0, <2>1 DEF RolesWitnessed, Running, RolePairs, TypeOK
  <2>2. ASSUME NEW u \in Ids \ born,
               users' = [users EXCEPT ![u] = [email |-> e, role |-> "user"]],
               uid' = [uid EXCEPT ![r] = u],
               role' = [role EXCEPT ![r] = "user"],
               seen' = [q \in Requests |->
                          IF q = r THEN RolePairs \union {<<u, "user">>}
                          ELSE IF Running(q) THEN seen[q] \union {<<u, "user">>} ELSE seen[q]],
               Finish(r, "issuing")
        PROVE  RolesWitnessed'
    <3>1. RolePairs' \subseteq RolePairs \union {<<u, "user">>}
      BY <1>0, <2>2 DEF RolePairs, TypeOK
    <3>2. ASSUME NEW q \in Requests, q # r
          PROVE  /\ pc'[q] = pc[q] /\ uid'[q] = uid[q] /\ role'[q] = role[q]
                 /\ seen[q] \subseteq seen'[q]
                 /\ (Running(q) => <<u, "user">> \in seen'[q])
      BY <1>0, <2>2, <3>2 DEF Finish, TypeOK
    <3>3. /\ seen'[r] = RolePairs \union {<<u, "user">>}
          /\ uid'[r] = u /\ role'[r] = "user"
      BY <1>0, <2>2 DEF TypeOK
    <3>4. ASSUME NEW q \in Requests, Running(q)' PROVE RolePairs' \subseteq seen'[q]
      <4>1. CASE q = r
        BY <3>1, <3>3, <4>1
      <4>2. CASE q # r
        <5>1. Running(q)
          BY <3>2, <3>4, <4>2 DEF Running
        <5>2. RolePairs \subseteq seen[q]
          BY <5>1 DEF RolesWitnessed
        <5> QED BY <3>1, <3>2, <4>2, <5>1, <5>2
      <4> QED BY <4>1, <4>2
    <3>5. ASSUME NEW q \in Requests, pc'[q] \in {"loaded", "issuing", "ok"}
          PROVE  <<uid'[q], role'[q]>> \in seen'[q]
      <4>1. CASE q = r
        BY <3>3, <4>1
      <4>2. CASE q # r
        BY <3>2, <3>5, <4>2 DEF RolesWitnessed
      <4> QED BY <4>1, <4>2
    <3> QED BY <3>4, <3>5 DEF RolesWitnessed
  <2> QED BY <1>2, <2>1, <2>2 DEF StartRegister
<1>3. ASSUME NEW r \in Requests, NEW e \in Emails, StartLogin(r, e) PROVE RolesWitnessed'
  BY <1>0, <1>3 DEF StartLogin, RolesWitnessed, Running, RolePairs, TypeOK
<1>4. ASSUME NEW r \in Requests, Reject(r) PROVE RolesWitnessed'
  BY <1>0, <1>4 DEF Reject, RolesWitnessed, Running, RolePairs, TypeOK
<1>5. ASSUME NEW r \in Requests, NEW q \in Requests, StartRefresh(r, q) PROVE RolesWitnessed'
  BY <1>0, <1>5 DEF StartRefresh, RolesWitnessed, Running, RolePairs, TypeOK
<1>6. ASSUME NEW r \in Requests, CheckActive(r) PROVE RolesWitnessed'
  BY <1>0, <1>6 DEF CheckActive, RolesWitnessed, Running, RolePairs, TypeOK
<1>7. ASSUME NEW r \in Requests, LoadUser(r) PROVE RolesWitnessed'
  BY <1>0, <1>7 DEF LoadUser, RolesWitnessed, Running, RolePairs, TypeOK
<1>8. ASSUME NEW r \in Requests, Rotate(r) PROVE RolesWitnessed'
  BY <1>0, <1>8 DEF Rotate, Finish, RolesWitnessed, Running, RolePairs, TypeOK
<1>9. ASSUME NEW r \in Requests, Issue(r) PROVE RolesWitnessed'
  BY <1>0, <1>9 DEF Issue, Finish, RolesWitnessed, Running, RolePairs, TypeOK
<1>10. ASSUME NEW r \in Requests, Abort(r) PROVE RolesWitnessed'
  BY <1>0, <1>10 DEF Abort, RolesWitnessed, Running, RolePairs, TypeOK
<1>11. ASSUME NEW u \in Ids, DeleteUser(u) PROVE RolesWitnessed'
  BY <1>0, <1>11 DEF DeleteUser, RolesWitnessed, Running, RolePairs, TypeOK
<1>12. ASSUME NEW u \in Ids, NEW new \in Roles, SetRole(u, new) PROVE RolesWitnessed'
  BY <1>0, <1>12, NoneAssumption
     DEF SetRole, Witness, RolesWitnessed, Running, RolePairs, TypeOK, UserRows
<1> QED
  BY <1>1, <1>2, <1>3, <1>4, <1>5, <1>6, <1>7, <1>8, <1>9, <1>10, <1>11, <1>12
     DEF Next, vars, RequestStep, Logout, RevokeAllForUser, Expire, DeleteExpired

THEOREM SessionsInvariant == Spec => []SessionsInv
<1>1. SessionsInv /\ [Next]_vars => SessionsInv'
  BY TypeNext, DeadStaysDeadNext, RolesWitnessedNext, GivenMintedNext, NoSessionNext
     DEF SessionsInv
<1> QED BY <1>1, SessionsInvInit, PTL DEF Spec

\* A Refresh that starts with a dead token never returns tokens, however it
\* interleaves with other requests and whichever statements fail.
THEOREM DeadTokensAreRejected == Spec => []DeadTokenRejected
<1>1. SessionsInv => DeadTokenRejected
  BY DEF SessionsInv, DeadStaysDead, DeadTokenRejected
<1> QED BY <1>1, SessionsInvariant, PTL

\* The role in an access token is one the account had while the request ran.
THEOREM RolesAreFresh == Spec => []RoleFresh
<1>1. SessionsInv => RoleFresh
  BY DEF SessionsInv, RolesWitnessed, RoleFresh
<1> QED BY <1>1, SessionsInvariant, PTL

\* No refresh token outlives its account or is stored after the account is gone.
THEOREM AccountsOwnTheirTokens == Spec => []NoSessionWithoutAccount
<1>1. SessionsInv => NoSessionWithoutAccount
  BY DEF SessionsInv
<1> QED BY <1>1, SessionsInvariant, PTL
-----------------------------------------------------------------------------
(* Sessions end only for their own reasons. *)

\* A request has no token to present before it starts, and no account but one that
\* has been in the table: ids are not given out again.
OwnAccounts ==
    /\ \A r \in Requests : pc[r] = "idle" => presented[r] = None
    /\ \A r \in Requests : uid[r] # None => uid[r] \in born

\* A row that is revoked was presented to a refresh, or logged out.
RevokedForCause ==
    \A j \in Jtis : tokens[j] # None /\ tokens[j].revoked =>
        j \in loggedOut \/ \E q \in Requests : presented[q] = j

\* A returned token has its row, with its request's account, as long as the account
\* exists and the token has not expired.
RowsStay ==
    \A r \in Requests : pc[r] = "ok" =>
        /\ tokens[given[r]] # None => tokens[given[r]].user = uid[r]
        /\ tokens[given[r]] = None => users[uid[r]] = None \/ given[r] \in expired

KeptInv == SessionsInv /\ OwnAccounts /\ RevokedForCause /\ RowsStay

LEMMA KeptInit == Init => KeptInv
  BY SessionsInvInit DEF Init, KeptInv, OwnAccounts, RevokedForCause, RowsStay

LEMMA OwnAccountsNext ==
    ASSUME KeptInv, [Next]_vars
    PROVE  OwnAccounts'
<1> USE DEF KeptInv, SessionsInv
<1>1. CASE UNCHANGED <<presented, uid, born>> /\ \A r \in Requests : pc'[r] = "idle" => pc[r] = "idle"
  BY <1>1 DEF OwnAccounts
<1>2. ASSUME NEW r \in Requests, NEW e \in Emails, StartRegister(r, e) PROVE OwnAccounts'
  BY <1>2 DEF StartRegister, Finish, OwnAccounts, TypeOK
<1>3. ASSUME NEW r \in Requests, NEW e \in Emails, StartLogin(r, e) PROVE OwnAccounts'
  BY <1>3 DEF StartLogin, OwnAccounts, TypeOK
<1>4. ASSUME NEW r \in Requests, NEW q \in Requests, StartRefresh(r, q) PROVE OwnAccounts'
  BY <1>4 DEF StartRefresh, OwnAccounts, TypeOK, Running
<1>5. ASSUME NEW r \in Requests, Reject(r) \/ CheckActive(r) \/ LoadUser(r) \/ Abort(r)
      PROVE  OwnAccounts'
  BY <1>5 DEF Reject, CheckActive, LoadUser, Abort, OwnAccounts, TypeOK
<1>6. ASSUME NEW r \in Requests, Rotate(r) \/ Issue(r) PROVE OwnAccounts'
  BY <1>1, <1>6 DEF Rotate, Issue, Finish, TypeOK
<1> QED
  BY <1>1, <1>2, <1>3, <1>4, <1>5, <1>6
     DEF Next, vars, RequestStep, Logout, RevokeAllForUser, DeleteUser, SetRole, Expire,
         DeleteExpired

LEMMA RevokedForCauseNext ==
    ASSUME KeptInv, [Next]_vars
    PROVE  RevokedForCause'
<1> USE DEF KeptInv, SessionsInv
<1>0. \A q \in Requests : presented[q] # None => presented'[q] = presented[q]
  <2>1. ASSUME NEW r \in Requests, NEW q \in Requests, StartRefresh(r, q)
        PROVE  \A p \in Requests : presented[p] # None => presented'[p] = presented[p]
    BY <2>1 DEF StartRefresh, OwnAccounts, TypeOK
  <2> QED
    BY <2>1 DEF Next, vars, RequestStep, StartRegister, StartLogin, Reject, CheckActive, LoadUser,
                Rotate, Issue, Abort, Logout, RevokeAllForUser, DeleteUser, SetRole, Expire,
                DeleteExpired
<1>1. loggedOut \subseteq loggedOut'
  BY DEF Next, vars, RequestStep, StartRegister, StartLogin, Reject, StartRefresh, CheckActive,
         LoadUser, Rotate, Issue, Abort, Logout, RevokeAllForUser, DeleteUser, SetRole, Expire,
         DeleteExpired
<1>2. SUFFICES ASSUME NEW j \in Jtis, tokens'[j] # None, tokens'[j].revoked
               PROVE  \/ j \in loggedOut'
                      \/ \E q \in Requests : presented'[q] = j
                      \/ tokens[j] # None /\ tokens[j].revoked
  BY <1>0, <1>1, NoneAssumption DEF RevokedForCause
<1>3. CASE UNCHANGED tokens
  BY <1>2, <1>3
<1>4. ASSUME NEW S, tokens' = Revoked(S)
      PROVE  j \in S \/ (tokens[j] # None /\ tokens[j].revoked)
  BY <1>2, <1>4, RevokedShape
<1>5. ASSUME NEW r \in Requests, Rotate(r) PROVE presented'[r] = j \/ (tokens[j] # None /\ tokens[j].revoked)
  BY <1>4, <1>5 DEF Rotate
<1>6. ASSUME NEW r \in Requests, Issue(r) PROVE tokens[j] # None /\ tokens[j].revoked
  BY <1>2, <1>6 DEF Issue, TypeOK
<1>7. ASSUME NEW q \in Requests, Logout(q) PROVE j \in loggedOut' \/ (tokens[j] # None /\ tokens[j].revoked)
  BY <1>4, <1>7 DEF Logout
<1>8. ASSUME NEW u \in Ids, RevokeAllForUser(u)
      PROVE  j \in loggedOut' \/ (tokens[j] # None /\ tokens[j].revoked)
  BY <1>4, <1>8 DEF RevokeAllForUser
<1>9. ASSUME NEW u \in Ids, DeleteUser(u) PROVE tokens[j] # None /\ tokens[j].revoked
  BY <1>2, <1>9 DEF DeleteUser, TypeOK
<1>10. CASE DeleteExpired
  BY <1>2, <1>10 DEF DeleteExpired, TypeOK
<1> QED
  BY <1>3, <1>5, <1>6, <1>7, <1>8, <1>9, <1>10
     DEF Next, vars, RequestStep, StartRegister, StartLogin, Reject, StartRefresh, CheckActive,
         LoadUser, Abort, SetRole, Expire

\* The two conjuncts of RowsStay for one request.
RowOf(r) ==
    /\ tokens[given[r]] # None => tokens[given[r]].user = uid[r]
    /\ tokens[given[r]] = None => users[uid[r]] = None \/ given[r] \in expired

\* Tokens are returned by Issue alone, and what was returned is not written again.
LEMMA OnlyIssueReturns ==
    ASSUME TypeOK, [Next]_vars, NEW q \in Requests
    PROVE  /\ pc[q] # "ok" /\ pc'[q] = "ok" => Issue(q)
           /\ pc[q] = "ok" => given'[q] = given[q] /\ uid'[q] = uid[q]
<1> DEFINE Goal == /\ pc[q] # "ok" /\ pc'[q] = "ok" => Issue(q)
                   /\ pc[q] = "ok" => given'[q] = given[q] /\ uid'[q] = uid[q]
<1> USE DEF TypeOK, Running
<1>1. CASE UNCHANGED <<pc, given, uid>>
  BY <1>1
<1>2. ASSUME NEW r \in Requests, NEW e \in Emails, StartRegister(r, e) \/ StartLogin(r, e) PROVE Goal
  BY <1>2 DEF StartRegister, StartLogin, Finish
<1>3. ASSUME NEW r \in Requests, NEW p \in Requests, StartRefresh(r, p) PROVE Goal
  BY <1>3 DEF StartRefresh
<1>4. ASSUME NEW r \in Requests, Reject(r) \/ CheckActive(r) \/ LoadUser(r) \/ Abort(r) PROVE Goal
  BY <1>4 DEF Reject, CheckActive, LoadUser, Abort
<1>5. ASSUME NEW r \in Requests, Rotate(r) PROVE Goal
  BY <1>5 DEF Rotate, Finish
<1>6. ASSUME NEW r \in Requests, Issue(r) PROVE Goal
  <2>1. CASE r = q
    BY <1>6, <2>1 DEF Issue
  <2>2. CASE r # q
    BY <1>6, <2>2 DEF Issue, Finish
  <2> QED BY <2>1, <2>2
<1> QED
  BY <1>1, <1>2, <1>3, <1>4, <1>5, <1>6
     DEF Next, vars, RequestStep, Logout, RevokeAllForUser, DeleteUser, SetRole, Expire,
         DeleteExpired

LEMMA RowsStayNext ==
    ASSUME KeptInv, [Next]_vars
    PROVE  RowsStay'
<1> USE DEF KeptInv, SessionsInv
<1> SUFFICES ASSUME NEW r \in Requests, pc'[r] = "ok" PROVE RowOf(r)'
  BY DEF RowsStay, RowOf
<1>1. CASE pc[r] # "ok"
  <2>1. Issue(r)
    BY <1>1, OnlyIssueReturns
  <2>2. PICK j \in Jtis \ minted :
          /\ tokens' = [tokens EXCEPT ![j] = [user |-> uid[r], revoked |-> FALSE]]
          /\ given' = IF pc'[r] = "ok" THEN [given EXCEPT ![r] = j] ELSE given
    BY <1>1, <2>1 DEF Issue, TypeOK
  <2>3. given'[r] = j /\ uid'[r] = uid[r] /\ uid[r] \in Ids
    BY <2>1, <2>2 DEF Issue, TypeOK, Running
  <2>4. tokens'[j] = [user |-> uid[r], revoked |-> FALSE] /\ tokens'[j] \in TokenRows
    BY <2>2, <2>3 DEF TypeOK, TokenRows
  <2>5. tokens'[j] # None
    BY <2>4, NoneAssumption
  <2>6. tokens'[j].user = uid[r]
    BY <2>4
  <2> QED BY <2>3, <2>5, <2>6 DEF RowOf
<1>2. CASE pc[r] = "ok"
  <2>1. /\ given[r] \in Jtis /\ given[r] \in minted /\ uid[r] \in Ids /\ uid[r] \in born
        /\ RowOf(r)
    BY <1>2, NoneAssumption DEF TypeOK, GivenMinted, OwnAccounts, RowsStay, RowOf, Running
  <2>2. given'[r] = given[r] /\ uid'[r] = uid[r]
    BY <1>2, OnlyIssueReturns
  <2>3. ASSUME \/ tokens'[given[r]] = tokens[given[r]]
               \/ /\ tokens[given[r]] # None /\ tokens'[given[r]] # None
                  /\ tokens'[given[r]].user = tokens[given[r]].user,
               users[uid[r]] = None => users'[uid[r]] = None,
               expired \subseteq expired'
        PROVE  RowOf(r)'
    BY <2>1, <2>2, <2>3 DEF RowOf
  <2>4. ASSUME NEW S, tokens' = Revoked(S), UNCHANGED <<users, expired>> PROVE RowOf(r)'
    BY <2>1, <2>3, <2>4, RevokedShape
  <2>5. ASSUME NEW q \in Requests, NEW e \in Emails, StartRegister(q, e) PROVE RowOf(r)'
    BY <2>1, <2>3, <2>5 DEF StartRegister, TypeOK
  <2>6. ASSUME NEW q \in Requests, Rotate(q) PROVE RowOf(r)'
    BY <2>4, <2>6 DEF Rotate
  <2>7. ASSUME NEW q \in Requests, Issue(q) PROVE RowOf(r)'
    BY <2>1, <2>3, <2>7 DEF Issue, TypeOK
  <2>8. ASSUME NEW q \in Requests, Logout(q) PROVE RowOf(r)'
    BY <2>4, <2>8 DEF Logout
  <2>9. ASSUME NEW u \in Ids, RevokeAllForUser(u) PROVE RowOf(r)'
    BY <2>4, <2>9 DEF RevokeAllForUser
  <2>10. ASSUME NEW u \in Ids, DeleteUser(u) PROVE RowOf(r)'
    <3>1. CASE uid[r] = u
      BY <2>1, <2>2, <2>10, <3>1 DEF DeleteUser, RowOf, TypeOK
    <3>2. CASE uid[r] # u
      BY <2>1, <2>3, <2>10, <3>2 DEF DeleteUser, RowOf, TypeOK
    <3> QED BY <3>1, <3>2
  <2>11. ASSUME NEW u \in Ids, NEW new \in Roles, SetRole(u, new) PROVE RowOf(r)'
    BY <2>1, <2>3, <2>11 DEF SetRole, TypeOK
  <2>12. CASE DeleteExpired
    BY <2>1, <2>2, <2>12 DEF DeleteExpired, RowOf, TypeOK
  <2>13. ASSUME NEW j \in Jtis, Expire(j) PROVE RowOf(r)'
    BY <2>3, <2>13 DEF Expire
  <2>14. CASE UNCHANGED tables
    BY <2>3, <2>14
  <2> QED
    BY <2>5, <2>6, <2>7, <2>8, <2>9, <2>10, <2>11, <2>12, <2>13, <2>14
       DEF Next, vars, RequestStep, StartLogin, Reject, StartRefresh, CheckActive, LoadUser, Abort
<1> QED BY <1>1, <1>2

LEMMA KeptNext == KeptInv /\ [Next]_vars => KeptInv'
<1>1. SessionsInv /\ [Next]_vars => SessionsInv'
  BY TypeNext, DeadStaysDeadNext, RolesWitnessedNext, GivenMintedNext, NoSessionNext
     DEF SessionsInv
<1> QED BY <1>1, OwnAccountsNext, RevokedForCauseNext, RowsStayNext DEF KeptInv

\* No request ends another's session: a returned token that was presented to nobody
\* and not logged out stays active until it expires or its account is deleted.
THEOREM SessionsAreKept == Spec => []SessionKept
<1>1. KeptInv => SessionKept
  <2> SUFFICES ASSUME KeptInv, NEW r \in Requests, pc[r] = "ok", users[uid[r]] # None,
                      given[r] \notin expired \union loggedOut,
                      \A q \in Requests : presented[q] # given[r]
               PROVE  Active(given[r])
    BY DEF SessionKept
  <2>1. given[r] \in Jtis
    BY DEF KeptInv, SessionsInv, TypeOK
  <2> QED BY <2>1 DEF KeptInv, RowsStay, RevokedForCause, Active
<1> QED BY <1>1, KeptInit, KeptNext, PTL DEF Spec
-----------------------------------------------------------------------------
(* A token that was rotated is dead, whoever else is using it. *)

PresentedMinted == \A r \in Requests : presented[r] # None => presented[r] \in minted

RotatedInv == KeptInv /\ PresentedMinted /\ RotatedIsDead

\* A request presents what it started with, and comes to issuing tokens for a presented
\* one through Rotate alone.
LEMMA OnlyRotateLeadsOn ==
    ASSUME TypeOK, OwnAccounts, [Next]_vars, NEW q \in Requests
    PROVE  /\ presented'[q] # presented[q] =>
                /\ pc'[q] = "verified"
                /\ \E p \in Requests : presented'[q] = given[p]
           /\ (presented[q] # None /\ pc'[q] \in {"issuing", "ok"} /\ pc[q] \notin {"issuing", "ok"}) =>
                Rotate(q)
<1> DEFINE Goal ==
      /\ presented'[q] # presented[q] => pc'[q] = "verified" /\ \E p \in Requests : presented'[q] = given[p]
      /\ (presented[q] # None /\ pc'[q] \in {"issuing", "ok"} /\ pc[q] \notin {"issuing", "ok"}) => Rotate(q)
<1> USE DEF TypeOK
<1>1. CASE UNCHANGED <<pc, presented>>
  BY <1>1
<1>2. ASSUME NEW r \in Requests, NEW e \in Emails, StartRegister(r, e) \/ StartLogin(r, e) PROVE Goal
  BY <1>2 DEF StartRegister, StartLogin, Finish, OwnAccounts
<1>3. ASSUME NEW r \in Requests, NEW p \in Requests, StartRefresh(r, p) PROVE Goal
  BY <1>3 DEF StartRefresh
<1>4. ASSUME NEW r \in Requests, Reject(r) \/ CheckActive(r) \/ LoadUser(r) \/ Abort(r) PROVE Goal
  BY <1>4 DEF Reject, CheckActive, LoadUser, Abort
<1>5. ASSUME NEW r \in Requests, Rotate(r) PROVE Goal
  <2>1. CASE r = q
    BY <1>5, <2>1 DEF Rotate
  <2>2. CASE r # q
    BY <1>5, <2>2 DEF Rotate, Finish
  <2> QED BY <2>1, <2>2
<1>6. ASSUME NEW r \in Requests, Issue(r) PROVE Goal
  BY <1>6 DEF Issue, Finish
<1> QED
  BY <1>1, <1>2, <1>3, <1>4, <1>5, <1>6
     DEF Next, vars, RequestStep, Logout, RevokeAllForUser, DeleteUser, SetRole, Expire,
         DeleteExpired

LEMMA RotatedNext ==
    ASSUME RotatedInv, [Next]_vars
    PROVE  PresentedMinted' /\ RotatedIsDead'
<1> USE DEF RotatedInv, KeptInv, SessionsInv
<1>0. minted \subseteq minted'
  BY DEF Next, vars, RequestStep, StartRegister, StartLogin, Reject, StartRefresh, CheckActive,
         LoadUser, Rotate, Issue, Abort, Logout, RevokeAllForUser, DeleteUser, SetRole, Expire,
         DeleteExpired
<1>1. ASSUME NEW r \in Requests, presented'[r] # None PROVE presented'[r] \in minted'
  BY <1>0, <1>1, OnlyRotateLeadsOn DEF PresentedMinted, GivenMinted
<1>2. ASSUME NEW r \in Requests, presented'[r] # None, pc'[r] \in {"issuing", "ok"}
      PROVE  ~Active(presented[r])'
  <2>1. presented'[r] = presented[r]
    BY <1>2, OnlyRotateLeadsOn
  <2>2. presented[r] \in minted /\ presented[r] \in Jtis
    BY <1>2, <2>1 DEF PresentedMinted, TypeOK
  <2>3. CASE pc[r] \in {"issuing", "ok"}
    BY <1>2, <2>1, <2>2, <2>3, NoRevival DEF RotatedIsDead, Active
  <2>4. CASE Rotate(r)
    <3>1. tokens' = Revoked({presented[r]})
      BY <2>4 DEF Rotate
    <3>2. tokens'[presented[r]] = None \/ tokens'[presented[r]].revoked
      BY <2>2, <3>1 DEF Revoked, TypeOK, TokenRows
    <3> QED BY <2>1, <3>2 DEF Active
  <2> QED BY <1>2, <2>1, <2>3, <2>4, OnlyRotateLeadsOn
<1> QED BY <1>1, <1>2 DEF PresentedMinted, RotatedIsDead

\* Once one of two refreshes with the same token has rotated it, nothing makes the
\* token acceptable again.
THEOREM RotationIsFinal == Spec => []RotatedIsDead
<1>1. Init => RotatedInv
  BY KeptInit DEF Init, RotatedInv, PresentedMinted, RotatedIsDead
<1>2. RotatedInv /\ [Next]_vars => RotatedInv'
  BY KeptNext, RotatedNext DEF RotatedInv
<1>3. RotatedInv => RotatedIsDead
  BY DEF RotatedInv
<1> QED BY <1>1, <1>2, <1>3, PTL DEF Spec

-----------------------------------------------------------------------------
(* Refinement: the statements add up to a book of sessions. *)

LEMMA BookInit == Init => Book!Init
  BY DEF Init, Book!Init, Here, LiveSessions, DeadTokens, Active

\* A live token is a session of its row's account.
LEMMA LiveShape ==
    ASSUME TypeOK, NEW j \in Jtis, Active(j)
    PROVE  /\ tokens[j].user \in Ids /\ j \in minted
           /\ [jti |-> j, user |-> tokens[j].user] \in LiveSessions
  BY DEF TypeOK, TokenRows, Active, LiveSessions

\* The live tokens of an account are the tokens of its sessions.
LEMMA SessionsOf ==
    ASSUME TypeOK, NEW u \in Ids, NEW j \in Jtis, Active(j)
    PROVE  tokens[j].user # u <=> j \notin {s.jti : s \in {t \in LiveSessions : t.user = u}}
<1> DEFINE mine == {t \in LiveSessions : t.user = u}
<1>1. ASSUME NEW s \in mine, s.jti = j PROVE tokens[j].user = u
  BY <1>1 DEF LiveSessions
<1>2. ASSUME tokens[j].user = u PROVE j \in {s.jti : s \in mine}
  <2> DEFINE s == [jti |-> j, user |-> tokens[j].user]
  <2>1. s \in LiveSessions /\ s.user = u /\ s.jti = j
    BY <1>2, LiveShape
  <2> QED BY <2>1
<1> QED BY <1>1, <1>2

\* Steps after which the same tokens of the same accounts are accepted.
LEMMA BookKept ==
    ASSUME Here' = Here, UNCHANGED <<born, minted>>,
           \A j \in Jtis : Active(j)' <=> Active(j),
           \A j \in Jtis : Active(j) => tokens'[j].user = tokens[j].user,
           TypeOK
    PROVE  UNCHANGED Book!vars
<1>1. LiveSessions' = LiveSessions
  BY DEF LiveSessions
<1>2. DeadTokens' = DeadTokens
  BY DEF DeadTokens, TypeOK
<1> QED BY <1>1, <1>2 DEF Book!vars

\* Steps after which the tokens of S, and only they, are no longer accepted.
LEMMA BookClose ==
    ASSUME TypeOK, NEW S, S \subseteq LiveSessions, UNCHANGED minted,
           \A j \in Jtis : Active(j)' <=> Active(j) /\ j \notin {s.jti : s \in S},
           \A j \in Jtis : Active(j)' => tokens'[j].user = tokens[j].user
    PROVE  Book!Close(S)
<1>1. \A s \in LiveSessions : /\ s \in [jti : Jtis, user : Ids] /\ Active(s.jti)
                              /\ tokens[s.jti].user = s.user /\ s.jti \in minted
  BY LiveShape DEF LiveSessions
<1>2. \A s, t \in LiveSessions : s.jti = t.jti => s = t
  BY <1>1
<1>3. LiveSessions' = LiveSessions \ S
  <2>1. ASSUME NEW s \in LiveSessions' PROVE s \in LiveSessions \ S
    BY <2>1 DEF LiveSessions
  <2>2. ASSUME NEW s \in LiveSessions \ S PROVE s \in LiveSessions'
    <3>1. s.jti \notin {t.jti : t \in S}
      BY <1>2
    <3>2. Active(s.jti)'
      BY <1>1, <3>1
    <3> QED BY <1>1, <3>2 DEF LiveSessions
  <2> QED BY <2>1, <2>2
<1>4. DeadTokens' = DeadTokens \union {s.jti : s \in S}
  <2>1. ASSUME NEW j \in minted PROVE j \in DeadTokens' <=> j \in DeadTokens \union {s.jti : s \in S}
    BY DEF DeadTokens, TypeOK
  <2>2. \A s \in S : s.jti \in minted
    BY <1>1
  <2> QED BY <2>1, <2>2 DEF DeadTokens
<1> QED BY <1>3, <1>4 DEF Book!Close

\* Rotate, Logout and Expire end the session of one token, if it was still one.
LEMMA BookEndsOne ==
    ASSUME TypeOK, NEW j \in Jtis, UNCHANGED <<users, born, minted>>, ~Active(j)',
           \A k \in Jtis : k # j => /\ tokens'[k] = tokens[k]
                                    /\ (k \in expired' <=> k \in expired)
    PROVE  Book!Next \/ UNCHANGED Book!vars
<1>1. Here' = Here
  BY DEF Here
<1>2. \A k \in Jtis : k # j => (Active(k)' <=> Active(k)) /\ tokens'[k] = tokens[k]
  BY DEF Active
<1>3. CASE ~Active(j)
  BY <1>1, <1>2, <1>3, BookKept
<1>4. CASE Active(j)
  <2> DEFINE s == [jti |-> j, user |-> tokens[j].user]
  <2>1. s \in LiveSessions /\ s \in Book!Session
    BY <1>4, LiveShape DEF Book!Session
  <2>2. {t.jti : t \in {s}} = {j}
    OBVIOUS
  <2>3. Book!Close({s})
    BY <1>2, <2>1, <2>2, BookClose
  <2>4. Book!End(s)
    BY <1>1, <2>1, <2>3 DEF Book!End
  <2> QED BY <2>1, <2>4 DEF Book!Next
<1> QED BY <1>3, <1>4

LEMMA BookNext == TypeOK /\ [Next]_vars => [Book!Next]_(Book!vars)
<1> SUFFICES ASSUME TypeOK, [Next]_vars PROVE Book!Next \/ UNCHANGED Book!vars
  OBVIOUS
<1>1. CASE UNCHANGED tables
  <2>1. Here' = Here /\ \A j \in Jtis : Active(j)' <=> Active(j)
    BY <1>1 DEF Here, Active
  <2> QED BY <1>1, <2>1, BookKept
<1>2. ASSUME NEW r \in Requests, NEW e \in Emails, StartRegister(r, e)
      PROVE  Book!Next \/ UNCHANGED Book!vars
  <2>1. CASE UNCHANGED <<users, born>>
    BY <1>1, <1>2, <2>1 DEF StartRegister
  <2>2. ASSUME NEW u \in Ids \ born, users' = [users EXCEPT ![u] = [email |-> e, role |-> "user"]],
               born' = born \union {u}
        PROVE  Book!Join(u)
    <3>1. [email |-> e, role |-> "user"] # None
      BY NoneAssumption DEF UserRows, Roles
    <3>2. users' = [v \in Ids |-> IF v = u THEN [email |-> e, role |-> "user"] ELSE users[v]]
      BY <2>2 DEF TypeOK
    <3>3. Here' = Here \union {u} /\ u \notin Here
      BY <2>2, <3>1, <3>2 DEF Here, TypeOK
    <3>4. LiveSessions' = LiveSessions /\ DeadTokens' = DeadTokens
      BY <1>2 DEF StartRegister, LiveSessions, DeadTokens, Active
    <3>5. (born \ Here)' = born \ Here
      BY <2>2, <3>3
    <3> QED BY <2>2, <3>3, <3>4, <3>5 DEF Book!Join
  <2>3. \/ UNCHANGED <<users, born>>
        \/ \E u \in Ids \ born : /\ users' = [users EXCEPT ![u] = [email |-> e, role |-> "user"]]
                                 /\ born' = born \union {u}
    BY <1>2 DEF StartRegister
  <2> QED BY <2>1, <2>2, <2>3 DEF Book!Next
<1>3. ASSUME NEW j \in Jtis, tokens' = Revoked({j}), UNCHANGED <<users, born, minted, expired>>
      PROVE  Book!Next \/ UNCHANGED Book!vars
  <2>1. tokens'[j] = None \/ tokens'[j].revoked
    BY <1>3 DEF Revoked, TypeOK, TokenRows
  <2>2. ~Active(j)'
    BY <2>1 DEF Active
  <2>3. \A k \in Jtis : k # j => tokens'[k] = tokens[k]
    BY <1>3, RevokedShape
  <2> QED BY <1>3, <2>2, <2>3, BookEndsOne
<1>4. ASSUME NEW r \in Requests, Rotate(r) PROVE Book!Next \/ UNCHANGED Book!vars
  BY <1>3, <1>4 DEF Rotate, TypeOK
<1>5. ASSUME NEW q \in Requests, Logout(q) PROVE Book!Next \/ UNCHANGED Book!vars
  BY <1>3, <1>5 DEF Logout, TypeOK
<1>6. ASSUME NEW j \in Jtis, Expire(j) PROVE Book!Next \/ UNCHANGED Book!vars
  <2>1. ~Active(j)'
    BY <1>6 DEF Expire, Active
  <2> QED BY <1>6, <2>1, BookEndsOne DEF Expire
<1>7. ASSUME NEW r \in Requests, Issue(r) PROVE Book!Next \/ UNCHANGED Book!vars
  <2>1. CASE users[uid[r]] = None
    BY <1>1, <1>7, <2>1 DEF Issue
  <2>2. CASE users[uid[r]] # None
    <3>1. PICK j \in Jtis \ minted :
            /\ tokens' = [tokens EXCEPT ![j] = [user |-> uid[r], revoked |-> FALSE]]
            /\ minted' = minted \union {j}
      BY <1>7, <2>2 DEF Issue
    <3> DEFINE u == uid[r]
               s == [jti |-> j, user |-> u]
    <3>2. u \in Ids /\ UNCHANGED <<users, born, expired>>
      BY <1>7 DEF Issue, TypeOK, Running
    <3>3. u \in Here /\ s \in Book!Session /\ Here' = Here
      BY <2>2, <3>1, <3>2 DEF Here, Book!Session
    <3>4. tokens'[j] = [user |-> u, revoked |-> FALSE] /\ \A k \in Jtis : k # j => tokens'[k] = tokens[k]
      BY <3>1 DEF TypeOK
    <3>5. tokens'[j].user = u /\ ~tokens'[j].revoked /\ tokens'[j] # None
      <4>1. [user |-> u, revoked |-> FALSE] \in TokenRows
        BY <3>2 DEF TokenRows
      <4>2. [user |-> u, revoked |-> FALSE] # None
        BY <4>1, NoneAssumption
      <4>3. [user |-> u, revoked |-> FALSE].user = u /\ ~[user |-> u, revoked |-> FALSE].revoked
        OBVIOUS
      <4> QED BY <3>4, <4>2, <4>3
    <3>6. j \notin expired /\ ~Active(j)
      BY <3>1 DEF TypeOK, Active
    <3>7. Active(j)' /\ \A k \in Jtis : k # j => (Active(k)' <=> Active(k))
      BY <3>2, <3>4, <3>5, <3>6 DEF Active
    <3>8. LiveSessions' = LiveSessions \union {s}
      <4>1. \A t \in [jti : Jtis, user : Ids] :
              /\ t.jti # j => (t \in LiveSessions' <=> t \in LiveSessions)
              /\ t.jti = j => (t \in LiveSessions' <=> t.user = u) /\ t \notin LiveSessions
        BY <3>4, <3>5, <3>6, <3>7 DEF LiveSessions
      <4>2. \A t \in [jti : Jtis, user : Ids] : t.jti = j /\ t.user = u => t = s
        OBVIOUS
      <4>3. s \in [jti : Jtis, user : Ids] /\ s.jti = j /\ s.user = u
        BY <3>1, <3>2
      <4>4. LiveSessions \subseteq [jti : Jtis, user : Ids] /\ LiveSessions' \subseteq [jti : Jtis, user : Ids]
        BY DEF LiveSessions
      <4> HIDE DEF s
      <4> QED BY <4>1, <4>2, <4>3, <4>4
    <3>9. DeadTokens' = DeadTokens
      BY <3>1, <3>7 DEF DeadTokens, TypeOK
    <3>10. j \notin DeadTokens /\ \A t \in LiveSessions : t.jti # j
      BY <3>1, <3>6 DEF DeadTokens, LiveSessions
    <3>11. Book!Begin(s)
      BY <3>2, <3>3, <3>8, <3>9, <3>10 DEF Book!Begin
    <3> QED BY <3>3, <3>11 DEF Book!Next
  <2> QED BY <2>1, <2>2
<1>8. ASSUME NEW u \in Ids, RevokeAllForUser(u) PROVE Book!Next \/ UNCHANGED Book!vars
  <2> DEFINE theirs == {j \in Jtis : tokens[j] # None /\ tokens[j].user = u}
  <2>1. /\ tokens' = Revoked(theirs) /\ UNCHANGED <<users, born, minted, expired>>
        /\ Here' = Here
    BY <1>8 DEF RevokeAllForUser, Here
  <2>2. Book!Of(u) = {s \in LiveSessions : s.user = u}
    BY DEF Book!Of
  <2>3. \A j \in Jtis : Active(j)' <=> Active(j) /\ tokens[j].user # u
    BY <2>1, RevokedShape DEF Revoked, Active, TypeOK, TokenRows
  <2>4. \A j \in Jtis : Active(j)' => tokens'[j].user = tokens[j].user
    BY <2>1, RevokedShape DEF Active
  <2>5. \A j \in Jtis : Active(j) => (tokens[j].user # u <=> j \notin {s.jti : s \in Book!Of(u)})
    BY <2>2, SessionsOf
  <2>6. Book!Close(Book!Of(u))
    BY <2>1, <2>2, <2>3, <2>4, <2>5, BookClose
  <2> QED BY <2>1, <2>6 DEF Book!EndAll, Book!Next
<1>9. ASSUME NEW u \in Ids, DeleteUser(u) PROVE Book!Next \/ UNCHANGED Book!vars
  <2>1. /\ users' = [users EXCEPT ![u] = None] /\ UNCHANGED <<born, minted, expired>>
        /\ tokens' = [j \in Jtis |-> IF tokens[j] # None /\ tokens[j].user = u THEN None ELSE tokens[j]]
        /\ users[u] # None
    BY <1>9 DEF DeleteUser
  <2>2. u \in Here /\ Here' = Here \ {u} /\ (born \ Here)' = (born \ Here) \union {u}
    BY <2>1 DEF Here, TypeOK
  <2>3. \A j \in Jtis : Active(j)' <=> Active(j) /\ tokens[j].user # u
    BY <2>1 DEF Active
  <2>4. \A j \in Jtis : Active(j)' => tokens'[j].user = tokens[j].user
    BY <2>1 DEF Active
  <2>5. Book!Of(u) = {s \in LiveSessions : s.user = u}
    BY DEF Book!Of
  <2>6. \A j \in Jtis : Active(j) => (tokens[j].user # u <=> j \notin {s.jti : s \in Book!Of(u)})
    BY <2>5, SessionsOf
  <2>7. Book!Close(Book!Of(u))
    BY <2>1, <2>3, <2>4, <2>5, <2>6, BookClose
  <2> QED BY <2>2, <2>7 DEF Book!Leave, Book!Next
<1>10. ASSUME NEW u \in Ids, NEW new \in Roles, SetRole(u, new) PROVE Book!Next \/ UNCHANGED Book!vars
  <2>1. Here' = Here
    BY <1>10, NoneAssumption DEF SetRole, Here, TypeOK, UserRows
  <2>2. \A j \in Jtis : Active(j)' <=> Active(j)
    BY <1>10 DEF SetRole, Active
  <2> QED BY <1>10, <2>1, <2>2, BookKept DEF SetRole
<1>11. CASE DeleteExpired
  <2>1. Here' = Here
    BY <1>11 DEF DeleteExpired, Here
  <2>2. \A j \in Jtis : (Active(j)' <=> Active(j)) /\ (Active(j) => tokens'[j] = tokens[j])
    BY <1>11 DEF DeleteExpired, Active
  <2> QED BY <1>11, <2>1, <2>2, BookKept DEF DeleteExpired
<1> QED
  BY <1>1, <1>2, <1>4, <1>5, <1>6, <1>7, <1>8, <1>9, <1>10, <1>11
     DEF Next, vars, RequestStep, StartLogin, Reject, StartRefresh, CheckActive, LoadUser, Abort

\* Whatever requests do to the tables in whatever order: sessions begin only for accounts
\* that are here, under unused tokens, and end for good.
THEOREM TablesImplementSessionBook == Spec => ImplementsSessionBook
  BY TypeInit, TypeNext, BookInit, BookNext, PTL DEF Spec, ImplementsSessionBook, Book!Spec
=============================================================================
