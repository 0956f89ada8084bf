-------------------------------- MODULE Gate --------------------------------
(***************************************************************************)
(* The HTTP surface over Sessions: the middleware chain, Auth, RequireRole *)
(* and the handlers behind them.  A call is judged once, by the access     *)
(* token it carries, when it arrives; its handler's statement runs later,  *)
(* after the account may have been demoted, deleted or logged out, and     *)
(* beside every other call.  SetRole and DeleteUser of Sessions happen     *)
(* here only as a handler's statement, or, for the first administrator, by *)
(* hand in the database.                                                   *)
(***************************************************************************)
EXTENDS Sessions

CONSTANTS
    Slots,      \* calls in flight at a time
    MaxCalls,   \* bound on the calls made
    MaxEnds     \* bound on logouts and on tokens that run out

ASSUME CallBoundAssumption == MaxCalls \in Nat /\ MaxEnds \in Nat

Routes == {"me", "updateMe", "deleteMe", "list", "get", "setRole", "ws"}
AdminRoutes == {"list", "get", "setRole"}
IdRoutes == {"get", "setRole"}
BodyRoutes == {"updateMe", "setRole"}

\* A bearer string: nothing usable, or one of the two tokens a request returned.
Tokens == {None} \union [kind : {"access", "refresh"}, of : Requests]

\* What a caller puts in the path and the body; None does not parse or validate.
PathIds(route) == IF route \in IdRoutes THEN Ids \union {None} ELSE {None}
Bodies(route) ==
    CASE route = "setRole"  -> Roles \union {None}
      [] route = "updateMe" -> {"name", None}
      [] OTHER              -> {None}

\* What a response says of the call: 2xx or 101, 4xx, 500.
Outcomes == {"done", "refused", "unknown"}

\* A call past the chain: who made it, by which of which request's tokens, and what for.
CallRecords ==
    [route : Routes, by : Requests, kind : {"access", "refresh"},
     id : Ids \union {None}, body : Roles \union {"name", None}]

VARIABLES
    lapsed,   \* requests whose access token has passed its exp
    call,     \* the call each slot's handler is at work on, or None
    answer,   \* what the slot's last response said, None while its handler works
    calls,    \* how many were made
    admins    \* history: administrators made by hand or by one of these

gateVars == <<lapsed, call, answer, calls, admins>>
allVars == <<vars, gateVars>>

-----------------------------------------------------------------------------
(* The chain in front of a handler. *)

\* Mutant: the typ claim is not compared.
VerifiedEitherKind(tok) == tok # None /\ tok.of \notin lapsed

\* TokenIssuer.verify: signature, issuer, exp and the typ claim.
Verified(tok) ==
    /\ tok # None
    /\ tok.kind = "access"
    /\ tok.of \notin lapsed

\* TokenIssuer.sign: a refresh token carries no role.
RoleClaim(tok) == IF tok.kind = "access" THEN role[tok.of] ELSE None

Malformed(route, id, body) ==
    \/ route \in IdRoutes /\ id = None
    \/ route \in BodyRoutes /\ body = None

\* Mutant: the admin group is mounted without RequireRole.
AdmittedWithoutRole(route, tok, id, body) ==
    Verified(tok) /\ ~Malformed(route, id, body)

\* Auth (401), RequireRole (403), the handler's parsing and validation (400): each
\* that refuses aborts the chain, and nothing is left to run.
Admitted(route, tok, id, body) ==
    /\ Verified(tok)
    /\ route \in AdminRoutes => RoleClaim(tok) = "admin"
    /\ ~Malformed(route, id, body)

\* A call arrives and gets through to its handler.
Admit(s, route, tok, id, body) ==
    /\ calls < MaxCalls /\ calls' = calls + 1
    /\ call[s] = None
    /\ tok # None => pc[tok.of] = "ok"
    /\ Admitted(route, tok, id, body)
    /\ call' = [call EXCEPT ![s] = [route |-> route, by |-> tok.of, kind |-> tok.kind,
                                    id |-> id, body |-> body]]
    /\ answer' = [answer EXCEPT ![s] = None]
    /\ UNCHANGED <<vars, lapsed, admins>>

\* A call arrives and is refused: by one of the three, or by RateLimit (429), which
\* comes first and may refuse whatever the call carries.
Refuse(s) ==
    /\ calls < MaxCalls /\ calls' = calls + 1
    /\ call[s] = None
    /\ answer' = [answer EXCEPT ![s] = "refused"]
    /\ UNCHANGED <<vars, lapsed, call, admins>>

-----------------------------------------------------------------------------
(* The handlers behind it. *)

At(s, routes) == call[s] # None /\ call[s].route \in routes

Answer(s, outcome) ==
    /\ answer' = [answer EXCEPT ![s] = outcome]
    /\ call' = [call EXCEPT ![s] = None]

Subject(s) == uid[call[s].by]

\* pgx.ErrNoRows, or no row affected: database.ErrNotFound, a 404.
Missing(u) == users[u] = None

\* Me: SELECT of the caller's own row.
Me(s) ==
    /\ At(s, {"me"})
    /\ Answer(s, IF Missing(Subject(s)) THEN "refused" ELSE "done")
    /\ UNCHANGED <<vars, lapsed, calls, admins>>

GetByID(s) ==
    /\ At(s, {"get"})
    /\ Answer(s, IF Missing(call[s].id) THEN "refused" ELSE "done")
    /\ UNCHANGED <<vars, lapsed, calls, admins>>

\* List: module Listing has its two statements.
List(s) ==
    /\ At(s, {"list"})
    /\ Answer(s, "done")
    /\ UNCHANGED <<vars, lapsed, calls, admins>>

\* UpdateMe: UPDATE of the caller's own name, which nothing here reads.
UpdateMe(s) ==
    /\ At(s, {"updateMe"})
    /\ \/ Missing(Subject(s)) /\ Answer(s, "refused")
       \/ ~Missing(Subject(s)) /\ \E o \in {"done", "unknown"} : Answer(s, o)
    /\ UNCHANGED <<vars, lapsed, calls, admins>>

\* Mutant: the DELETE is repeated when its answer is lost, and finds no row.
DeleteMeRepeated(s) ==
    /\ At(s, {"deleteMe"})
    /\ \/ /\ Missing(Subject(s))
          /\ Answer(s, "refused")
          /\ UNCHANGED vars
       \/ /\ DeleteUser(Subject(s))
          /\ \E o \in {"done", "refused"} : Answer(s, o)
    /\ UNCHANGED <<lapsed, calls, admins>>

\* DeleteMe: DELETE of the caller's own row; 500 when the answer is lost.
DeleteMe(s) ==
    /\ At(s, {"deleteMe"})
    /\ \/ /\ Missing(Subject(s))
          /\ Answer(s, "refused")
          /\ UNCHANGED vars
       \/ /\ DeleteUser(Subject(s))
          /\ \E o \in {"done", "unknown"} : Answer(s, o)
    /\ UNCHANGED <<lapsed, calls, admins>>

\* SetRole of the handler: UPDATE of the row named in the path.
ChangeRole(s) ==
    /\ At(s, {"setRole"})
    /\ LET target == call[s].id IN
         \/ /\ Missing(target)
            /\ Answer(s, "refused")
            /\ UNCHANGED <<vars, admins>>
         \/ /\ SetRole(target, call[s].body)
            /\ \E o \in {"done", "unknown"} : Answer(s, o)
            /\ admins' = IF call[s].body = "admin" /\ Subject(s) \in admins
                         THEN admins \union {target} ELSE admins
    /\ UNCHANGED <<lapsed, calls>>

\* Connect of ws: the upgrade, which checks the Origin header.
Upgrade(s) ==
    /\ At(s, {"ws"})
    /\ Answer(s, "done") \/ Answer(s, "refused")
    /\ UNCHANGED <<vars, lapsed, calls, admins>>

\* The statement fails, the request's context ends before it, or the handler
\* panics and Recovery answers.
HandlerFails(s) ==
    /\ At(s, Routes)
    /\ Answer(s, "unknown")
    /\ UNCHANGED <<vars, lapsed, calls, admins>>

-----------------------------------------------------------------------------
\* The first administrator: UPDATE users SET role = 'admin', typed by hand.
Bootstrap(u) ==
    /\ SetRole(u, "admin")
    /\ admins' = admins \union {u}
    /\ UNCHANGED <<lapsed, call, answer, calls>>

MoreEnds == Cardinality(loggedOut) + Cardinality(expired) + Cardinality(lapsed) < MaxEnds

\* An access token passes its exp, sooner than the refresh token beside it or later.
Lapse(q) ==
    /\ pc[q] = "ok" /\ q \notin lapsed
    /\ MoreEnds
    /\ lapsed' = lapsed \union {q}
    /\ UNCHANGED <<vars, call, answer, calls, admins>>

GateInit ==
    /\ Init
    /\ lapsed = {} /\ admins = {}
    /\ call = [s \in Slots |-> None] /\ answer = [s \in Slots |-> None]
    /\ calls = 0

Handle(s) ==
    \/ Me(s) \/ UpdateMe(s) \/ DeleteMe(s)
    \/ List(s) \/ GetByID(s) \/ ChangeRole(s)
    \/ Upgrade(s) \/ HandlerFails(s)

\* The calls to /auth, which need no token.  Each handler refuses a body that does
\* not parse or validate (Reject) and goes on as in Sessions.
Register(r) == Reject(r) \/ \E e \in Emails : StartRegister(r, e)
Login(r) == Reject(r) \/ \E e \in Emails : StartLogin(r, e)
Refresh(r) == Reject(r) \/ \E q \in Requests : StartRefresh(r, q)
Continue(r) == CheckActive(r) \/ LoadUser(r) \/ Rotate(r) \/ Issue(r) \/ Abort(r)
EndSession(q) == MoreEnds /\ Logout(q)

\* RevokeAllForUser and DeleteExpired have no caller.
Background ==
    \/ \E r \in Requests :
         Register(r) \/ Login(r) \/ Refresh(r) \/ Continue(r) \/ EndSession(r)
    \/ \E j \in Jtis : MoreEnds /\ Expire(j)

GateNext ==
    \/ Background /\ UNCHANGED gateVars
    \/ \E s \in Slots :
         \/ \E route \in Routes, tok \in Tokens :
              \E id \in PathIds(route), body \in Bodies(route) : Admit(s, route, tok, id, body)
         \/ Refuse(s)
         \/ Handle(s)
    \/ \E u \in Ids : Bootstrap(u)
    \/ \E q \in Requests : Lapse(q)

GateSpec == GateInit /\ [][GateNext]_allVars

-----------------------------------------------------------------------------
(* Properties. *)

\* Everything is well formed, and a handler at work has a caller who showed an access
\* token, which a refresh token of the same account is not, a path and a body it can use.
GateTypeOK ==
    /\ TypeOK
    /\ lapsed \subseteq {r \in Requests : pc[r] = "ok"}
    /\ call \in [Slots -> CallRecords \union {None}]
    /\ answer \in [Slots -> Outcomes \union {None}]
    /\ calls \in 0 .. MaxCalls
    /\ admins \subseteq Ids
    /\ \A s \in Slots : call[s] # None =>
         /\ pc[call[s].by] = "ok" /\ call[s].kind = "access"
         /\ call[s].route \in IdRoutes => call[s].id # None
         /\ call[s].route = "setRole" => call[s].body \in Roles

\* Nobody makes himself an administrator: every account and every access token
\* with the role goes back, grant by grant, to one made by hand in the database,
\* whatever demotions, deletions and stale tokens come in between.
AdminsDescend ==
    /\ \A u \in Ids : users[u] # None /\ users[u].role = "admin" => u \in admins
    /\ \A r \in Requests : role[r] = "admin" => uid[r] \in admins

\* An admin route runs only for an account that was an administrator in the table
\* while the call that returned its access token ran.
AdminActsWithAuthority ==
    \A s \in Slots :
        At(s, AdminRoutes) => <<uid[call[s].by], "admin">> \in seen[call[s].by]

\* A call answered with a refusal has changed nothing, so its caller may repeat it.
RefusalMeansNothingDone ==
    [][\A s \in Slots :
          answer'[s] # answer[s] /\ answer'[s] = "refused" => UNCHANGED tables]_allVars
=============================================================================
