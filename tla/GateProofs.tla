----------------------------- MODULE GateProofs -----------------------------
(***************************************************************************)
(* Theorems about the HTTP surface, for any number of calls in flight      *)
(* beside any number of requests, accounts and tokens.                     *)
(***************************************************************************)
EXTENDS Gate, SessionsProofs

USE DEF tables, locals, history, bounds, gateVars, allVars

-----------------------------------------------------------------------------
(* The surface implements Sessions, so every theorem about Sessions holds of it. *)

LEMMA HandleStep ==
    ASSUME NEW s \in Slots, Handle(s), GateTypeOK
    PROVE  [Next]_vars
<1> USE DEF GateTypeOK, CallRecords, At, Subject
<1>1. CASE DeleteMe(s)
  <2>1. Subject(s) \in Ids
    BY <1>1 DEF DeleteMe, TypeOK
  <2> QED BY <1>1, <2>1 DEF DeleteMe, Next, vars
<1>2. CASE ChangeRole(s)
  <2>1. call[s].id \in Ids /\ call[s].body \in Roles
    BY <1>2 DEF ChangeRole, IdRoutes
  <2> QED BY <1>2, <2>1 DEF ChangeRole, Next, vars
<1>3. CASE Me(s) \/ GetByID(s) \/ List(s) \/ UpdateMe(s) \/ Upgrade(s) \/ HandlerFails(s)
  BY <1>3 DEF Me, GetByID, List, UpdateMe, Upgrade, HandlerFails
<1> QED BY <1>1, <1>2, <1>3 DEF Handle

LEMMA BackgroundSteps ==
    Background => \/ \E r \in Requests : RequestStep(r) \/ Logout(r)
                  \/ \E j \in Jtis : Expire(j)
  BY DEF Background, Register, Login, Refresh, Continue, EndSession, RequestStep

LEMMA SurfaceStep == GateTypeOK /\ [GateNext]_allVars => [Next]_vars
<1> SUFFICES ASSUME GateTypeOK, [GateNext]_allVars PROVE [Next]_vars
  OBVIOUS
<1>1. CASE UNCHANGED allVars
  BY <1>1
<1>2. CASE Background
  BY <1>2, BackgroundSteps DEF Next
<1>3. ASSUME NEW s \in Slots, Handle(s) PROVE [Next]_vars
  BY <1>3, HandleStep
<1>4. ASSUME NEW u \in Ids, Bootstrap(u) PROVE [Next]_vars
  BY <1>4 DEF Bootstrap, Next, Roles
<1>5. ASSUME NEW q \in Requests, Lapse(q) PROVE [Next]_vars
  BY <1>5 DEF Lapse
<1>6. ASSUME NEW s \in Slots, NEW route, NEW tok, NEW id, NEW body,
             Admit(s, route, tok, id, body) \/ Refuse(s)
      PROVE  [Next]_vars
  BY <1>6 DEF Admit, Refuse
<1> QED BY <1>1, <1>2, <1>3, <1>4, <1>5, <1>6 DEF GateNext

-----------------------------------------------------------------------------
(* A request that has returned its tokens is never written to again. *)

LEMMA OkIsFinal ==
    ASSUME TypeOK, [Next]_vars, NEW q \in Requests, pc[q] = "ok"
    PROVE  pc'[q] = "ok" /\ uid'[q] = uid[q] /\ role'[q] = role[q] /\ seen'[q] = seen[q]
<1> USE DEF TypeOK, Running
<1>1. CASE UNCHANGED vars
  BY <1>1 DEF vars
<1>2. ASSUME NEW r \in Requests, NEW e \in Emails, StartRegister(r, e) \/ StartLogin(r, e)
      PROVE  pc'[q] = "ok" /\ uid'[q] = uid[q] /\ role'[q] = role[q] /\ seen'[q] = seen[q]
  BY <1>2 DEF StartRegister, StartLogin, Finish
<1>3. ASSUME NEW r \in Requests, NEW p \in Requests, StartRefresh(r, p)
      PROVE  pc'[q] = "ok" /\ uid'[q] = uid[q] /\ role'[q] = role[q] /\ seen'[q] = seen[q]
  BY <1>3 DEF StartRefresh
<1>4. ASSUME NEW r \in Requests, Reject(r) \/ CheckActive(r) \/ LoadUser(r) \/ Abort(r)
      PROVE  pc'[q] = "ok" /\ uid'[q] = uid[q] /\ role'[q] = role[q] /\ seen'[q] = seen[q]
  BY <1>4 DEF Reject, CheckActive, LoadUser, Abort
<1>5. ASSUME NEW r \in Requests, Rotate(r) \/ Issue(r)
      PROVE  pc'[q] = "ok" /\ uid'[q] = uid[q] /\ role'[q] = role[q] /\ seen'[q] = seen[q]
  BY <1>5 DEF Rotate, Issue, Finish
<1>6. ASSUME NEW u \in Ids, NEW new, SetRole(u, new)
      PROVE  pc'[q] = "ok" /\ uid'[q] = uid[q] /\ role'[q] = role[q] /\ seen'[q] = seen[q]
  BY <1>6 DEF SetRole, Witness
<1>7. CASE \/ \E r \in Requests : Logout(r)
           \/ \E u \in Ids : RevokeAllForUser(u) \/ DeleteUser(u)
           \/ \E j \in Jtis : Expire(j)
           \/ DeleteExpired
  BY <1>7 DEF Logout, RevokeAllForUser, DeleteUser, Expire, DeleteExpired
<1> QED BY <1>1, <1>2, <1>3, <1>4, <1>5, <1>6, <1>7 DEF Next, RequestStep

-----------------------------------------------------------------------------
(* Types. *)

LEMMA GateTypeInit == GateInit => GateTypeOK
  BY TypeInit, CallBoundAssumption DEF GateInit, GateTypeOK

LEMMA AnswerType ==
    ASSUME GateTypeOK, NEW s \in Slots, NEW o \in Outcomes, Answer(s, o)
    PROVE  /\ call' \in [Slots -> CallRecords \union {None}]
           /\ answer' \in [Slots -> Outcomes \union {None}]
           /\ \A t \in Slots : call'[t] # None => call[t] = call'[t]
  BY DEF GateTypeOK, Answer

\* A handler's step ends its call and leaves the others.
LEMMA HandleAnswers ==
    ASSUME GateTypeOK, NEW s \in Slots, Handle(s)
    PROVE  /\ \E o \in Outcomes : Answer(s, o)
           /\ lapsed' = lapsed /\ calls' = calls /\ pc' = pc
<1>1. CASE Me(s) \/ GetByID(s) \/ List(s)
  BY <1>1 DEF Me, GetByID, List, Outcomes, vars
<1>2. CASE UpdateMe(s)
  BY <1>2 DEF UpdateMe, Outcomes, vars
<1>3. CASE DeleteMe(s)
  BY <1>3 DEF DeleteMe, DeleteUser, Outcomes, vars
<1>4. CASE ChangeRole(s)
  BY <1>4 DEF ChangeRole, SetRole, Outcomes, vars
<1>5. CASE Upgrade(s) \/ HandlerFails(s)
  BY <1>5 DEF Upgrade, HandlerFails, Outcomes, vars
<1> QED BY <1>1, <1>2, <1>3, <1>4, <1>5 DEF Handle

LEMMA GateTypeNext == GateTypeOK /\ [GateNext]_allVars => GateTypeOK'
<1> SUFFICES ASSUME GateTypeOK, [GateNext]_allVars PROVE GateTypeOK'
  OBVIOUS
<1>1. TypeOK /\ TypeOK' /\ [Next]_vars
  BY SurfaceStep, TypeNext DEF GateTypeOK
<1>2. \A q \in Requests : pc[q] = "ok" => pc'[q] = "ok"
  BY <1>1, OkIsFinal
<1>3. CASE UNCHANGED allVars
  BY <1>1, <1>2, <1>3 DEF GateTypeOK, CallRecords
<1>4. CASE Background /\ UNCHANGED gateVars
  BY <1>1, <1>2, <1>4 DEF GateTypeOK, CallRecords
<1>5. ASSUME NEW s \in Slots, NEW route \in Routes, NEW tok \in Tokens,
             NEW id \in PathIds(route), NEW body \in Bodies(route),
             Admit(s, route, tok, id, body)
      PROVE  GateTypeOK'
  <2> DEFINE new == [route |-> route, by |-> tok.of, kind |-> tok.kind, id |-> id, body |-> body]
  <2>1. tok.of \in Requests /\ pc[tok.of] = "ok" /\ tok.kind = "access"
    BY <1>5 DEF Admit, Admitted, Verified, Tokens
  <2>2. id \in Ids \union {None} /\ (route \in IdRoutes => id # None)
    BY <1>5 DEF Admit, Admitted, Malformed, PathIds
  <2>3. body \in Roles \union {"name", None} /\ (route = "setRole" => body \in Roles)
    BY <1>5 DEF Admit, Admitted, Malformed, Bodies, BodyRoutes
  <2>4. new \in CallRecords
    BY <2>1, <2>2, <2>3 DEF CallRecords
  <2>5. call' = [call EXCEPT ![s] = new] /\ answer' = [answer EXCEPT ![s] = None]
    BY <1>5 DEF Admit
  <2>6. calls' \in 0 .. MaxCalls
    BY <1>5, CallBoundAssumption DEF Admit, GateTypeOK
  <2>7. UNCHANGED <<pc, lapsed, admins>>
    BY <1>5 DEF Admit, vars
  <2>8. /\ new.by = tok.of /\ new.kind = tok.kind /\ new.route = route /\ new.id = id /\ new.body = body
    OBVIOUS
  <2> HIDE DEF new
  <2> QED BY <1>1, <2>1, <2>2, <2>3, <2>4, <2>5, <2>6, <2>7, <2>8 DEF GateTypeOK
<1>6. ASSUME NEW s \in Slots, Refuse(s) PROVE GateTypeOK'
  BY <1>1, <1>6, CallBoundAssumption DEF Refuse, GateTypeOK, Outcomes, vars
<1>7. ASSUME NEW s \in Slots, Handle(s) PROVE GateTypeOK'
  <2>1. admins' \subseteq Ids
    BY <1>7 DEF Handle, Me, GetByID, List, UpdateMe, DeleteMe, ChangeRole, Upgrade, HandlerFails, At,
                IdRoutes, CallRecords, GateTypeOK
  <2> QED BY <1>1, <1>7, <2>1, HandleAnswers, AnswerType DEF GateTypeOK, CallRecords
<1>8. ASSUME NEW u \in Ids, Bootstrap(u) PROVE GateTypeOK'
  BY <1>1, <1>8 DEF Bootstrap, SetRole, GateTypeOK, CallRecords
<1>9. ASSUME NEW q \in Requests, Lapse(q) PROVE GateTypeOK'
  BY <1>1, <1>9 DEF Lapse, GateTypeOK, CallRecords, vars
<1> QED BY <1>3, <1>4, <1>5, <1>6, <1>7, <1>8, <1>9 DEF GateNext

\* A handler never runs for an unverified caller, nor with a path or a body that
\* did not parse.
THEOREM GateTypeCorrect == GateSpec => []GateTypeOK
  BY GateTypeInit, GateTypeNext, PTL DEF GateSpec

\* Behind the surface runs Sessions: no call does to the tables what Sessions does not.
THEOREM GateImplementsSessions == GateSpec => Spec
<1>1. GateInit => Init
  BY DEF GateInit
<1>2. GateTypeOK /\ [GateNext]_allVars => [Next]_vars
  BY SurfaceStep
<1> QED BY <1>1, <1>2, GateTypeCorrect, PTL DEF GateSpec, Spec

\* So what the tables promise they promise to every caller of the routes: sessions end for
\* good, one by one or with their account, and a token that was rotated buys nothing.
THEOREM SurfaceKeepsTheBook == GateSpec => ImplementsSessionBook /\ []RotatedIsDead
  BY GateImplementsSessions, TablesImplementSessionBook, RotationIsFinal, PTL
-----------------------------------------------------------------------------
(* Where administrators come from. *)

\* A request has read no role before it read one.
RoleUnread == \A r \in Requests : pc[r] \in {"idle", "verified", "active"} => role[r] = None

\* RequireRole looked at the token once; the role in it does not change afterwards.
RoleHeld == \A s \in Slots : At(s, AdminRoutes) => role[call[s].by] = "admin"

GateInv ==
    /\ GateTypeOK
    /\ SessionsInv
    /\ RoleUnread
    /\ RoleHeld
    /\ AdminsDescend

LEMMA GateInvInit == GateInit => GateInv
  BY GateTypeInit, SessionsInvInit, NoneAssumption
     DEF GateInit, Init, GateInv, RoleUnread, RoleHeld, AdminsDescend, At, Roles

LEMMA RoleUnreadNext == ASSUME TypeOK, RoleUnread, [Next]_vars PROVE RoleUnread'
<1> USE DEF RoleUnread, TypeOK
<1>1. CASE UNCHANGED <<pc, role>>
  BY <1>1
<1>2. ASSUME NEW r \in Requests, NEW e \in Emails, StartRegister(r, e) \/ StartLogin(r, e)
      PROVE  RoleUnread'
  BY <1>2 DEF StartRegister, StartLogin, Finish
<1>3. ASSUME NEW r \in Requests, NEW q \in Requests, StartRefresh(r, q) PROVE RoleUnread'
  BY <1>3 DEF StartRefresh
<1>4. ASSUME NEW r \in Requests, Reject(r) \/ CheckActive(r) \/ LoadUser(r) \/ Abort(r)
      PROVE  RoleUnread'
  BY <1>4 DEF Reject, CheckActive, LoadUser, Abort
<1>5. ASSUME NEW r \in Requests, Rotate(r) \/ Issue(r) PROVE RoleUnread'
  BY <1>5 DEF Rotate, Issue, Finish
<1> QED
  BY <1>1, <1>2, <1>3, <1>4, <1>5
     DEF Next, vars, RequestStep, Logout, RevokeAllForUser, DeleteUser, SetRole, Expire, DeleteExpired

\* Requests bring no administrator into the table, and read the role only there.
LEMMA RequestsGrantNothing ==
    ASSUME TypeOK, RoleUnread, NEW r \in Requests, RequestStep(r), AdminsDescend, UNCHANGED admins
    PROVE  AdminsDescend'
<1> USE DEF AdminsDescend, TypeOK
<1> "user" # "admin" /\ None # "admin"
  BY NoneAssumption DEF Roles
<1>1. ASSUME NEW e \in Emails, StartRegister(r, e) PROVE AdminsDescend'
  <2>1. CASE UNCHANGED <<users, uid, role>>
    BY <1>1, <2>1 DEF StartRegister
  <2>2. ASSUME NEW u \in Ids,
               users' = [users EXCEPT ![u] = [email |-> e, role |-> "user"]],
               uid' = [uid EXCEPT ![r] = u], role' = [role EXCEPT ![r] = "user"]
        PROVE  AdminsDescend'
    BY <2>2
  <2> QED BY <1>1, <2>1, <2>2 DEF StartRegister
<1>2. ASSUME NEW e \in Emails, StartLogin(r, e) PROVE AdminsDescend'
  BY <1>2 DEF StartLogin
<1>3. ASSUME NEW q \in Requests, StartRefresh(r, q) PROVE AdminsDescend'
  BY <1>3 DEF StartRefresh, RoleUnread
<1>4. CASE LoadUser(r)
  BY <1>4 DEF LoadUser, Running
<1>5. CASE Reject(r) \/ CheckActive(r) \/ Rotate(r) \/ Issue(r) \/ Abort(r)
  BY <1>5 DEF Reject, CheckActive, Rotate, Issue, Abort
<1> QED BY <1>1, <1>2, <1>3, <1>4, <1>5 DEF RequestStep

\* A grant keeps the lineage if its target is an administrator of it afterwards.
LEMMA SetRoleKeepsLineage ==
    ASSUME TypeOK, AdminsDescend, NEW u \in Ids, NEW new \in Roles, SetRole(u, new),
           admins \subseteq admins', new = "admin" => u \in admins'
    PROVE  AdminsDescend'
<1>1. users' = [users EXCEPT ![u] = [email |-> users[u].email, role |-> new]]
      /\ UNCHANGED <<uid, role>>
  <2>1. users[u] \in UserRows
    BY DEF SetRole, TypeOK
  <2>2. [users[u] EXCEPT !.role = new] = [email |-> users[u].email, role |-> new]
    BY <2>1 DEF UserRows
  <2>3. users' = [users EXCEPT ![u] = [users[u] EXCEPT !.role = new]] /\ UNCHANGED <<uid, role>>
    BY DEF SetRole
  <2> QED BY <2>2, <2>3
<1>2. users \in [Ids -> UserRows \union {None}]
  BY DEF TypeOK
<1> QED BY <1>1, <1>2 DEF AdminsDescend

LEMMA GateInvNext == GateInv /\ [GateNext]_allVars => GateInv'
<1> SUFFICES ASSUME GateInv, [GateNext]_allVars PROVE GateInv'
  OBVIOUS
<1>1. GateTypeOK /\ GateTypeOK' /\ TypeOK /\ [Next]_vars
  BY GateTypeNext, SurfaceStep DEF GateInv, GateTypeOK
<1>2. SessionsInv'
  BY <1>1, TypeNext, DeadStaysDeadNext, RolesWitnessedNext, GivenMintedNext, NoSessionNext
     DEF GateInv, SessionsInv
<1>3. RoleUnread'
  BY <1>1, RoleUnreadNext DEF GateInv
<1>4. RoleHeld'
  <2> SUFFICES ASSUME NEW s \in Slots, At(s, AdminRoutes)' PROVE role'[call'[s].by] = "admin"
    BY DEF RoleHeld
  <2>1. CASE At(s, AdminRoutes) /\ call'[s] = call[s]
    BY <1>1, <2>1, OkIsFinal DEF GateInv, RoleHeld, GateTypeOK, CallRecords, At
  <2>2. ASSUME NEW route, NEW tok, NEW id, NEW body, Admit(s, route, tok, id, body)
        PROVE  role'[call'[s].by] = "admin"
    BY <1>1, <2>2 DEF Admit, Admitted, Verified, RoleClaim, At, GateTypeOK, vars
  <2>3. CASE call' # call
    <3>1. ASSUME NEW t \in Slots, Handle(t) PROVE call[s] = call'[s]
      BY <1>1, <3>1, HandleAnswers, AnswerType DEF At
    <3>2. ASSUME NEW t \in Slots, t # s, NEW route, NEW tok, NEW id, NEW body,
                 Admit(t, route, tok, id, body)
          PROVE  call[s] = call'[s]
      BY <3>2 DEF Admit, GateTypeOK
    <3> QED
      BY <2>1, <2>2, <2>3, <3>1, <3>2 DEF GateNext, Refuse, Bootstrap, Lapse, At
  <2> QED BY <2>1, <2>3 DEF At
<1>5. AdminsDescend'
  <2>1. CASE UNCHANGED <<users, uid, role, admins>>
    BY <2>1 DEF GateInv, AdminsDescend
  <2>2. ASSUME NEW r \in Requests, RequestStep(r), UNCHANGED admins PROVE AdminsDescend'
    BY <1>1, <2>2, RequestsGrantNothing DEF GateInv
  <2>3. ASSUME NEW s \in Slots, DeleteMe(s) PROVE AdminsDescend'
    BY <1>1, <2>3 DEF DeleteMe, DeleteUser, GateInv, AdminsDescend, TypeOK, vars
  <2>4. ASSUME NEW s \in Slots, ChangeRole(s) PROVE AdminsDescend'
    <3>1. CASE UNCHANGED <<vars, admins>>
      BY <2>1, <3>1 DEF vars
    <3>2. CASE SetRole(call[s].id, call[s].body)
      <4>1. call[s].by \in Requests /\ role[call[s].by] = "admin"
        BY <2>4 DEF ChangeRole, GateInv, RoleHeld, GateTypeOK, CallRecords, At, AdminRoutes
      <4>2. Subject(s) \in admins
        BY <4>1 DEF GateInv, AdminsDescend, Subject
      <4>3. call[s].id \in Ids /\ call[s].body \in Roles
        BY <2>4 DEF ChangeRole, GateInv, GateTypeOK, CallRecords, At, IdRoutes
      <4>4. admins \subseteq admins' /\ (call[s].body = "admin" => call[s].id \in admins')
        <5>1. users[call[s].id] # None
          BY <3>2 DEF SetRole
        <5> QED BY <2>4, <4>2, <5>1 DEF ChangeRole, Missing
      <4> QED BY <1>1, <3>2, <4>3, <4>4, SetRoleKeepsLineage DEF GateInv
    <3> QED BY <2>4, <3>1, <3>2 DEF ChangeRole
  <2>5. ASSUME NEW u \in Ids, Bootstrap(u) PROVE AdminsDescend'
    BY <1>1, <2>5, SetRoleKeepsLineage DEF Bootstrap, GateInv, Roles
  <2> QED
    BY <2>1, <2>2, <2>3, <2>4, <2>5, BackgroundSteps
       DEF GateNext, vars, Logout, Expire, Admit, Refuse, Handle, Me, GetByID, List, UpdateMe,
           Upgrade, HandlerFails, Lapse
<1> QED BY <1>1, <1>2, <1>3, <1>4, <1>5 DEF GateInv

\* The inductive invariant holds in every behaviour.
THEOREM GateInvariant == GateSpec => []GateInv
  BY GateInvInit, GateInvNext, PTL DEF GateSpec

\* Every administrator, in the table or in a token, descends from one made by hand.
THEOREM AdministratorsDescend == GateSpec => []AdminsDescend
<1>1. GateInv => AdminsDescend
  BY DEF GateInv
<1> QED BY <1>1, GateInvariant, PTL

\* Whoever gets to an admin handler was an administrator while his token was made.
THEOREM AdminsHaveAuthority == GateSpec => []AdminActsWithAuthority
<1>1. GateInv => AdminActsWithAuthority
  <2> SUFFICES ASSUME GateInv, NEW s \in Slots, At(s, AdminRoutes)
               PROVE  <<uid[call[s].by], "admin">> \in seen[call[s].by]
    BY DEF AdminActsWithAuthority
  <2>1. call[s].by \in Requests /\ pc[call[s].by] = "ok" /\ role[call[s].by] = "admin"
    BY DEF GateInv, GateTypeOK, CallRecords, RoleHeld, At
  <2> QED BY <2>1 DEF GateInv, SessionsInv, RolesWitnessed
<1> QED BY <1>1, GateInvariant, PTL

-----------------------------------------------------------------------------
(* What a refusal means. *)

\* No call that was answered with a 4xx has touched an account or a session.
THEOREM RefusalsDoNothing == GateSpec => RefusalMeansNothingDone
<1>1. ASSUME GateTypeOK, [GateNext]_allVars, NEW s \in Slots,
             answer'[s] # answer[s], answer'[s] = "refused"
      PROVE  UNCHANGED tables
  <2> USE DEF GateTypeOK
  <2>1. CASE UNCHANGED answer
    BY <1>1, <2>1
  <2>2. ASSUME NEW t \in Slots, DeleteMe(t) PROVE UNCHANGED tables
    BY <1>1, <2>2 DEF DeleteMe, Answer, vars
  <2>3. ASSUME NEW t \in Slots, ChangeRole(t) PROVE UNCHANGED tables
    BY <1>1, <2>3 DEF ChangeRole, Answer, vars
  <2> QED
    BY <1>1, <2>1, <2>2, <2>3
       DEF GateNext, vars, Admit, Refuse, Handle, Me, GetByID, List, UpdateMe, Upgrade, HandlerFails,
           Bootstrap, Lapse
<1>2. GateTypeOK /\ [GateNext]_allVars
        => [\A s \in Slots :
              answer'[s] # answer[s] /\ answer'[s] = "refused" => UNCHANGED tables]_allVars
  BY <1>1
<1> QED BY <1>2, GateTypeCorrect, PTL DEF GateSpec, RefusalMeansNothingDone
=============================================================================
