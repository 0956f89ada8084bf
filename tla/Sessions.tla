------------------------------ MODULE Sessions ------------------------------
(***************************************************************************)
(* Accounts and refresh tokens: auth.Usecase (Register, Login, Refresh,    *)
(* Logout) over user.Usecase and the two PostgreSQL tables.  Requests run  *)
(* concurrently and share only the database.  No use case opens a          *)
(* transaction (Store.Do has no caller), so every statement commits on its *)
(* own and requests interleave between any two statements.                 *)
(*                                                                         *)
(* A statement may fail: before it took effect (Abort), or after, when the *)
(* answer is lost or the request's context has ended (Finish).             *)
(***************************************************************************)
EXTENDS Naturals, FiniteSets

CONSTANTS
    Requests,    \* calls of Register, Login and Refresh; each is made once
    Ids,         \* user ids, fresh per account
    Emails,
    Jtis,        \* refresh token ids, fresh per token
    None,        \* no row, no token, no value
    MaxFaults,   \* bound on failed statements
    MaxSetRoles  \* bound on SetRole calls

Roles == {"user", "admin"}

UserRows == [email : Emails, role : Roles]
TokenRows == [user : Ids, revoked : BOOLEAN]

ASSUME NoneAssumption ==
    None \notin Ids \union Emails \union Jtis \union Roles \union UserRows \union TokenRows
ASSUME BoundAssumption == MaxFaults \in Nat /\ MaxSetRoles \in Nat

VARIABLES
    users,      \* table users: id -> row, or None
    born,       \* ids that have ever had a row
    tokens,     \* table refresh_tokens: jti -> row, or None
    minted,     \* jtis that have ever had a row
    expired,    \* jtis whose exp / expires_at has passed
    pc,         \* where each request stands; "ok" and "failed" are final
    presented,  \* the jti a Refresh was called with
    uid,        \* the account a request works for
    role,       \* the role it read
    given,      \* the jti it returned to its caller
    deadStart,  \* history: the presented token was already dead at the start
    seen,       \* history: <<id, role>> pairs in the table since the start
    loggedOut,  \* history: jtis revoked by Logout or RevokeAllForUser
    faults, setRoles

tables == <<users, born, tokens, minted, expired>>
locals == <<pc, presented, uid, role, given>>
history == <<deadStart, seen, loggedOut>>
bounds == <<faults, setRoles>>
vars == <<tables, locals, history, bounds>>

Running(r) == pc[r] \in {"verified", "active", "loaded", "issuing"}
RolePairs == {<<u, users[u].role>> : u \in {v \in Ids : users[v] # None}}

\* Tables and locals are well formed; a request that is about to issue tokens
\* knows for whom and with which role.
TypeOK ==
    /\ users \in [Ids -> UserRows \union {None}]
    /\ born \subseteq Ids /\ \A u \in Ids : users[u] # None => u \in born
    /\ tokens \in [Jtis -> TokenRows \union {None}]
    /\ minted \subseteq Jtis /\ \A j \in Jtis : tokens[j] # None => j \in minted
    /\ expired \subseteq minted
    /\ pc \in [Requests -> {"idle", "verified", "active", "loaded", "issuing", "ok", "failed"}]
    /\ presented \in [Requests -> Jtis \union {None}]
    /\ uid \in [Requests -> Ids \union {None}]
    /\ role \in [Requests -> Roles \union {None}]
    /\ given \in [Requests -> Jtis \union {None}]
    /\ \A r \in Requests :
         /\ pc[r] \in {"verified", "active", "loaded"} => presented[r] # None
         /\ Running(r) \/ pc[r] = "ok" => uid[r] # None
         /\ pc[r] \in {"loaded", "issuing", "ok"} => role[r] # None
         /\ pc[r] = "ok" <=> given[r] # None
    /\ deadStart \in [Requests -> BOOLEAN]
    /\ seen \in [Requests -> SUBSET (Ids \X Roles)]
    /\ loggedOut \subseteq Jtis
    /\ faults \in 0 .. MaxFaults
    /\ setRoles \in 0 .. MaxSetRoles

Init ==
    /\ users = [u \in Ids |-> None] /\ born = {}
    /\ tokens = [j \in Jtis |-> None] /\ minted = {} /\ expired = {}
    /\ pc = [r \in Requests |-> "idle"]
    /\ presented = [r \in Requests |-> None]
    /\ uid = [r \in Requests |-> None]
    /\ role = [r \in Requests |-> None]
    /\ given = [r \in Requests |-> None]
    /\ deadStart = [r \in Requests |-> FALSE]
    /\ seen = [r \in Requests |-> {}]
    /\ loggedOut = {}
    /\ faults = 0 /\ setRoles = 0

-----------------------------------------------------------------------------
(* Helpers. *)

\* IsActive: the row exists, is not revoked and has not expired.
Active(j) == tokens[j] # None /\ ~tokens[j].revoked /\ j \notin expired

Revoked(S) == [j \in Jtis |-> IF j \in S /\ tokens[j] # None
                              THEN [tokens[j] EXCEPT !.revoked = TRUE] ELSE tokens[j]]

\* A statement took effect: the request goes on to `next`, or reports an error
\* because the answer never came.
Finish(r, next) ==
    \/ pc' = [pc EXCEPT ![r] = next] /\ UNCHANGED faults
    \/ /\ faults < MaxFaults
       /\ faults' = faults + 1
       /\ pc' = [pc EXCEPT ![r] = "failed"]

\* Every request running now sees the pairs P come into the table.
Witness(P) == seen' = [r \in Requests |-> IF Running(r) THEN seen[r] \union P ELSE seen[r]]

-----------------------------------------------------------------------------
(* The first statement of each request. *)

\* Register: INSERT INTO users; the UNIQUE index on email turns a duplicate away.
StartRegister(r, e) ==
    /\ pc[r] = "idle"
    /\ \/ /\ \E u \in Ids : users[u] # None /\ users[u].email = e
          /\ pc' = [pc EXCEPT ![r] = "failed"]
          /\ UNCHANGED <<users, born, uid, role, seen, faults>>
       \/ /\ \A u \in Ids : users[u] # None => users[u].email # e
          /\ \E u \in Ids \ born :
               /\ users' = [users EXCEPT ![u] = [email |-> e, role |-> "user"]]
               /\ born' = born \union {u}
               /\ uid' = [uid EXCEPT ![r] = u]
               /\ role' = [role EXCEPT ![r] = "user"]
               /\ seen' = [q \in Requests |->
                             IF q = r THEN RolePairs \union {<<u, "user">>}
                             ELSE IF Running(q) THEN seen[q] \union {<<u, "user">>} ELSE seen[q]]
          /\ Finish(r, "issuing")
    /\ UNCHANGED <<tokens, minted, expired, presented, given, deadStart, loggedOut, setRoles>>

\* Login: SELECT by email, then the password comparison, which touches nothing.
StartLogin(r, e) ==
    /\ pc[r] = "idle"
    /\ \E u \in Ids :
         /\ users[u] # None /\ users[u].email = e
         /\ uid' = [uid EXCEPT ![r] = u]
         /\ role' = [role EXCEPT ![r] = users[u].role]
    /\ pc' = [pc EXCEPT ![r] = "issuing"]
    /\ seen' = [seen EXCEPT ![r] = RolePairs]
    /\ UNCHANGED <<tables, presented, given, deadStart, loggedOut, bounds>>

\* An unknown email, a wrong password, a token that does not verify, a failed query.
Reject(r) ==
    /\ pc[r] = "idle"
    /\ pc' = [pc EXCEPT ![r] = "failed"]
    /\ UNCHANGED <<tables, presented, uid, role, given, history, bounds>>

\* Refresh with a token some earlier call returned: the signature, type and exp
\* check out and the subject is the account it was issued to.
StartRefresh(r, q) ==
    /\ pc[r] = "idle"
    /\ pc[q] = "ok" /\ given[q] \notin expired
    /\ pc' = [pc EXCEPT ![r] = "verified"]
    /\ presented' = [presented EXCEPT ![r] = given[q]]
    /\ uid' = [uid EXCEPT ![r] = uid[q]]
    /\ deadStart' = [deadStart EXCEPT ![r] = ~Active(given[q])]
    /\ seen' = [seen EXCEPT ![r] = RolePairs]
    /\ UNCHANGED <<tables, role, given, loggedOut, bounds>>

-----------------------------------------------------------------------------
(* The later statements. *)

\* Mutant: revoked_at is not looked at.
CheckExistsAndNotExpired(r) ==
    /\ pc[r] = "verified"
    /\ pc' = [pc EXCEPT ![r] = IF tokens[presented[r]] # None /\ presented[r] \notin expired
                               THEN "active" ELSE "failed"]
    /\ UNCHANGED <<tables, presented, uid, role, given, history, bounds>>

\* store.IsActive
CheckActive(r) ==
    /\ pc[r] = "verified"
    /\ pc' = [pc EXCEPT ![r] = IF Active(presented[r]) THEN "active" ELSE "failed"]
    /\ UNCHANGED <<tables, presented, uid, role, given, history, bounds>>

\* Mutant: the role comes from the token being rotated instead of the table.
LoadUserFromToken(r) ==
    /\ pc[r] = "active"
    /\ pc' = [pc EXCEPT ![r] = "loaded"]
    /\ role' = [role EXCEPT ![r] =
                  role[CHOOSE q \in Requests : pc[q] = "ok" /\ given[q] = presented[r]]]
    /\ UNCHANGED <<tables, presented, uid, given, history, bounds>>

\* users.GetByID
LoadUser(r) ==
    /\ pc[r] = "active"
    /\ \/ /\ users[uid[r]] # None
          /\ pc' = [pc EXCEPT ![r] = "loaded"]
          /\ role' = [role EXCEPT ![r] = users[uid[r]].role]
       \/ /\ users[uid[r]] = None
          /\ pc' = [pc EXCEPT ![r] = "failed"]
          /\ UNCHANGED role
    /\ UNCHANGED <<tables, presented, uid, given, history, bounds>>

\* Mutant: rotation ends every session of the account (RevokeAllForUser).
RotateAll(r) ==
    /\ pc[r] = "loaded"
    /\ tokens' = Revoked({j \in Jtis : tokens[j] # None /\ tokens[j].user = uid[r]})
    /\ Finish(r, "issuing")
    /\ UNCHANGED <<users, born, minted, expired, presented, uid, role, given, history, setRoles>>

\* Mutant: the presented token is not revoked.
RotateNothing(r) ==
    /\ pc[r] = "loaded"
    /\ Finish(r, "issuing")
    /\ UNCHANGED <<tables, presented, uid, role, given, history, setRoles>>

\* store.Revoke: the number of rows it changed is not looked at.
Rotate(r) ==
    /\ pc[r] = "loaded"
    /\ tokens' = Revoked({presented[r]})
    /\ Finish(r, "issuing")
    /\ UNCHANGED <<users, born, minted, expired, presented, uid, role, given, history, setRoles>>

\* Mutant: refresh_tokens without its foreign key.
IssueWithoutForeignKey(r) ==
    /\ pc[r] = "issuing"
    /\ \E j \in Jtis \ minted :
         /\ tokens' = [tokens EXCEPT ![j] = [user |-> uid[r], revoked |-> FALSE]]
         /\ minted' = minted \union {j}
         /\ pc' = [pc EXCEPT ![r] = "ok"]
         /\ given' = [given EXCEPT ![r] = j]
    /\ UNCHANGED <<users, born, expired, presented, uid, role, history, bounds>>

\* issueTokens: sign both tokens, then INSERT the refresh token, which the foreign
\* key refuses when the account is gone.
Issue(r) ==
    /\ pc[r] = "issuing"
    /\ \/ /\ users[uid[r]] # None
          /\ \E j \in Jtis \ minted :
               /\ tokens' = [tokens EXCEPT ![j] = [user |-> uid[r], revoked |-> FALSE]]
               /\ minted' = minted \union {j}
               /\ Finish(r, "ok")
               /\ given' = IF pc'[r] = "ok" THEN [given EXCEPT ![r] = j] ELSE given
       \/ /\ users[uid[r]] = None
          /\ pc' = [pc EXCEPT ![r] = "failed"]
          /\ UNCHANGED <<tokens, minted, given, faults>>
    /\ UNCHANGED <<users, born, expired, presented, uid, role, history, setRoles>>

\* The next statement of r fails without an effect, or its context has ended.
Abort(r) ==
    /\ Running(r)
    /\ faults < MaxFaults
    /\ faults' = faults + 1
    /\ pc' = [pc EXCEPT ![r] = "failed"]
    /\ UNCHANGED <<tables, presented, uid, role, given, history, setRoles>>

-----------------------------------------------------------------------------
(* Calls of one statement, and time. *)

\* Logout with a token that still verifies; any other token is a silent success.
Logout(q) ==
    /\ pc[q] = "ok" /\ given[q] \notin expired
    /\ tokens' = Revoked({given[q]})
    /\ loggedOut' = loggedOut \union {given[q]}
    /\ UNCHANGED <<users, born, minted, expired, locals, deadStart, seen, bounds>>

RevokeAllForUser(u) ==
    LET theirs == {j \in Jtis : tokens[j] # None /\ tokens[j].user = u}
    IN  /\ theirs # {}
        /\ tokens' = Revoked(theirs)
        /\ loggedOut' = loggedOut \union theirs
        /\ UNCHANGED <<users, born, minted, expired, locals, deadStart, seen, bounds>>

SetRole(u, new) ==
    /\ users[u] # None
    /\ setRoles < MaxSetRoles
    /\ setRoles' = setRoles + 1
    /\ users' = [users EXCEPT ![u].role = new]
    /\ Witness({<<u, new>>})
    /\ UNCHANGED <<born, tokens, minted, expired, locals, deadStart, loggedOut, faults>>

\* DELETE FROM users; ON DELETE CASCADE takes the refresh tokens along.
DeleteUser(u) ==
    /\ users[u] # None
    /\ users' = [users EXCEPT ![u] = None]
    /\ tokens' = [j \in Jtis |-> IF tokens[j] # None /\ tokens[j].user = u THEN None ELSE tokens[j]]
    /\ UNCHANGED <<born, minted, expired, locals, history, bounds>>

\* A token's lifetime ends, for the JWT and for the row.
Expire(j) ==
    /\ j \in minted \ expired
    /\ expired' = expired \union {j}
    /\ UNCHANGED <<users, born, tokens, minted, locals, history, bounds>>

\* The clean-up query meant for a periodic job.
DeleteExpired ==
    /\ \E j \in expired : tokens[j] # None
    /\ tokens' = [j \in Jtis |-> IF j \in expired THEN None ELSE tokens[j]]
    /\ UNCHANGED <<users, born, minted, expired, locals, history, bounds>>

-----------------------------------------------------------------------------
RequestStep(r) ==
    \/ \E e \in Emails : StartRegister(r, e) \/ StartLogin(r, e)
    \/ Reject(r)
    \/ \E q \in Requests : StartRefresh(r, q)
    \/ CheckActive(r) \/ LoadUser(r) \/ Rotate(r) \/ Issue(r)
    \/ Abort(r)

Next ==
    \/ \E r \in Requests : RequestStep(r) \/ Logout(r)
    \/ \E u \in Ids : RevokeAllForUser(u) \/ DeleteUser(u) \/ \E new \in Roles : SetRole(u, new)
    \/ \E j \in Jtis : Expire(j)
    \/ DeleteExpired

Spec == Init /\ [][Next]_vars

-----------------------------------------------------------------------------
(* Properties. *)

\* Rotation and logout hold against a later replay: a Refresh that starts when its
\* token has already been rotated, logged out, expired, purged or deleted with the
\* account never returns tokens, whatever runs in between.
DeadTokenRejected == \A r \in Requests : deadStart[r] => pc[r] # "ok"

\* The role in an access token is one the account had while the request ran, so a
\* role change takes effect at the latest with the next refresh that starts.
RoleFresh == \A r \in Requests : pc[r] = "ok" => <<uid[r], role[r]>> \in seen[r]

\* A session ends only by its own doing: a returned refresh token that has been
\* presented to nobody stays active until it expires or the account goes.
SessionKept ==
    \A r \in Requests : LET j == given[r] IN
        (pc[r] = "ok" /\ users[uid[r]] # None /\ j \notin expired \union loggedOut
         /\ \A q \in Requests : presented[q] # j) => Active(j)

\* Deleting an account ends it for the requests in flight too: no refresh token of
\* an account outlives it or comes into being after it.
NoSessionWithoutAccount == \A j \in Jtis : tokens[j] # None => users[tokens[j].user] # None

\* Two refreshes with one token may both succeed, but only side by side: once either
\* has rotated, the token is dead for good, whatever the other one does.
RotatedIsDead ==
    \A r \in Requests :
        (presented[r] # None /\ pc[r] \in {"issuing", "ok"}) => ~Active(presented[r])

\* Refinement: the sessions are the tokens that would be accepted now.
Here == {u \in Ids : users[u] # None}
LiveSessions == {s \in [jti : Jtis, user : Ids] : Active(s.jti) /\ tokens[s.jti].user = s.user}
DeadTokens == {j \in minted : ~Active(j)}

Book == INSTANCE SessionBook WITH
    here <- Here, gone <- born \ Here, live <- LiveSessions, dead <- DeadTokens

\* The statements of all requests, in any order and cut off anywhere, add up to sessions
\* that begin for existing accounts, under unused tokens, and end once and for all.
ImplementsSessionBook == Book!Spec

\* "invalidate the old token so it cannot be replayed": a refresh token buys at
\* most one new pair.
ReplayRejected ==
    \A q, r \in Requests :
        (pc[q] = "ok" /\ pc[r] = "ok" /\ presented[q] # None /\ presented[q] = presented[r]) => q = r
=============================================================================
