---------------------------- MODULE TokenBucket ----------------------------
(***************************************************************************)
(* What the rate limiter promises: every client address has a token bucket *)
(* of its own that is never forgotten.  Levels are counted in credits: a   *)
(* unit of time earns one, a request costs Cost of them.                   *)
(***************************************************************************)
EXTENDS Integers

CONSTANTS Ips, Full, Cost, None

VARIABLES
    level,   \* the credits in each bucket
    answer   \* the last request's address and whether it was admitted

vars == <<level, answer>>

Init == level = [ip \in Ips |-> Full] /\ answer = None

Admit(ip) ==
    /\ level[ip] >= Cost
    /\ level' = [level EXCEPT ![ip] = @ - Cost]
    /\ answer' = [ip |-> ip, admitted |-> TRUE]

Refuse(ip) ==
    /\ level[ip] < Cost
    /\ answer' = [ip |-> ip, admitted |-> FALSE]
    /\ UNCHANGED level

Tick ==
    /\ level' = [ip \in Ips |-> IF level[ip] < Full THEN level[ip] + 1 ELSE Full]
    /\ UNCHANGED answer

Next == Tick \/ \E ip \in Ips : Admit(ip) \/ Refuse(ip)

Spec == Init /\ [][Next]_vars
=============================================================================
