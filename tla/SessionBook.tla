---------------------------- MODULE SessionBook ----------------------------
(***************************************************************************)
(* What accounts and refresh tokens promise together: a session begins     *)
(* only for an account that is here, under a token never used before, and  *)
(* ends alone or with all others of its account; what has ended does not   *)
(* come back, and an account that has gone leaves no session behind.       *)
(***************************************************************************)
CONSTANTS Ids, Jtis

VARIABLES
    here,  \* accounts that exist
    gone,  \* accounts that have been deleted
    live,  \* sessions: whose refresh token would be accepted now
    dead   \* tokens that were issued and will never be accepted again

vars == <<here, gone, live, dead>>

Session == [jti : Jtis, user : Ids]
Of(u) == {s \in live : s.user = u}

Init == here = {} /\ gone = {} /\ live = {} /\ dead = {}

Close(S) ==
    /\ live' = live \ S
    /\ dead' = dead \union {s.jti : s \in S}

Join(u) ==
    /\ u \notin here \union gone
    /\ here' = here \union {u}
    /\ UNCHANGED <<gone, live, dead>>

Leave(u) ==
    /\ u \in here
    /\ here' = here \ {u} /\ gone' = gone \union {u}
    /\ Close(Of(u))

Begin(s) ==
    /\ s.user \in here
    /\ s.jti \notin dead /\ \A t \in live : t.jti # s.jti
    /\ live' = live \union {s}
    /\ UNCHANGED <<here, gone, dead>>

End(s) == s \in live /\ Close({s}) /\ UNCHANGED <<here, gone>>

EndAll(u) == Close(Of(u)) /\ UNCHANGED <<here, gone>>

Next ==
    \/ \E u \in Ids : Join(u) \/ Leave(u) \/ EndAll(u)
    \/ \E s \in Session : Begin(s) \/ End(s)

Spec == Init /\ [][Next]_vars
=============================================================================
