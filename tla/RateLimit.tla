----------------------------- MODULE RateLimit -----------------------------
(***************************************************************************)
(* middleware.RateLimit: one rate.Limiter per client address in a map, and *)
(* a goroutine that drops the addresses not seen for three minutes.  Both  *)
(* hold the mutex throughout, so a request is one step and a sweep another.*)
(*                                                                         *)
(* A unit of time earns one credit; a request costs Cost of them, so rps   *)
(* is one request per Cost units.  The sweeper wakes every minute; here it *)
(* may wake at any time.  rps <= 0 installs no limiter and has no model.   *)
(***************************************************************************)
EXTENDS Integers

CONSTANTS
    Ips,        \* client addresses
    None,       \* no visitor, no answer, no window
    Cost,       \* credits per request: 1 / rps
    Burst,      \* the configured burst
    Idle,       \* three minutes, in units of time
    MaxWindow   \* bound on the length of an observed window

\* A burst below one is raised to one.
Size == IF Burst < 1 THEN 1 ELSE Burst

Full == Size * Cost

Visitor == [tokens : 0 .. Full, age : 0 .. Full, idle : 0 .. Idle + 1]
Answer == [ip : Ips, admitted : BOOLEAN]
Window == [ip : Ips, elapsed : 0 .. MaxWindow, spent : Nat]

ASSUME CostAssumption == Cost \in Nat \ {0} /\ Burst \in Int
ASSUME IdleAssumption == Idle \in Nat /\ MaxWindow \in Nat
ASSUME NoneAssumption == None \notin Visitor \union Answer \union Window

VARIABLES
    visitors,   \* ip -> visitor, or None.  tokens: limiter.tokens as of limiter.last;
                \* age: time since limiter.last, idle: since lastSeen (both saturate)
    answer,     \* the last request's address and whether it was let through
    window      \* history: what one address spent since some moment, or None

vars == <<visitors, answer, window>>

Smaller(a, b) == IF a < b THEN a ELSE b

\* What the limiter holds by now: tokens advance with time up to the burst.
Level(v) == Smaller(Full, v.tokens + v.age)

\* Counters stay in range: a bucket never holds more than the burst.
TypeOK ==
    /\ visitors \in [Ips -> Visitor \union {None}]
    /\ answer \in Answer \union {None}
    /\ window \in Window \union {None}

Init == visitors = [ip \in Ips |-> None] /\ answer = None /\ window = None

\* The map lookup: an address without an entry gets a full bucket.
Found(ip) ==
    IF visitors[ip] = None THEN [tokens |-> Full, age |-> 0, idle |-> 0] ELSE visitors[ip]

Spend(ip) == window' = IF window # None /\ window.ip = ip
                       THEN [window EXCEPT !.spent = @ + Cost] ELSE window

Allow(ip) ==
    /\ Level(Found(ip)) >= Cost
    /\ visitors' = [visitors EXCEPT
                      ![ip] = [tokens |-> Level(Found(ip)) - Cost, age |-> 0, idle |-> 0]]
    /\ answer' = [ip |-> ip, admitted |-> TRUE]
    /\ Spend(ip)

\* Mutant: a refusal restarts the limiter's clock without crediting the time.
DenyAndForgetAge(ip) ==
    /\ Level(Found(ip)) < Cost
    /\ visitors' = [visitors EXCEPT ![ip] = [Found(ip) EXCEPT !.age = 0, !.idle = 0]]
    /\ answer' = [ip |-> ip, admitted |-> FALSE]
    /\ UNCHANGED window

\* 429: the limiter is left as it was, yet the visitor counts as seen.
Deny(ip) ==
    /\ Level(Found(ip)) < Cost
    /\ visitors' = [visitors EXCEPT ![ip] = [Found(ip) EXCEPT !.idle = 0]]
    /\ answer' = [ip |-> ip, admitted |-> FALSE]
    /\ UNCHANGED window

\* Mutant: the comparison is turned round.
SweptBusy(v) == v # None /\ v.idle < Idle

\* Mutant: the sweeper drops a visitor one unit too early.
SweptEarly(v) == v # None /\ v.idle >= Idle

Swept(v) == v # None /\ v.idle > Idle

Sweep ==
    /\ visitors' = [ip \in Ips |-> IF Swept(visitors[ip]) THEN None ELSE visitors[ip]]
    /\ UNCHANGED <<answer, window>>

Older(v) == [tokens |-> v.tokens, age |-> Smaller(Full, v.age + 1),
             idle |-> Smaller(Idle + 1, v.idle + 1)]

Tick ==
    /\ visitors' = [ip \in Ips |-> IF visitors[ip] = None THEN None ELSE Older(visitors[ip])]
    /\ window' = IF window = None \/ window.elapsed = MaxWindow THEN None
                 ELSE [window EXCEPT !.elapsed = @ + 1]
    /\ UNCHANGED answer

\* Someone starts to count what an address may spend.
OpenWindow(ip) ==
    /\ window = None
    /\ window' = [ip |-> ip, elapsed |-> 0, spent |-> 0]
    /\ UNCHANGED <<visitors, answer>>

Next ==
    \/ \E ip \in Ips : Allow(ip) \/ Deny(ip) \/ OpenWindow(ip)
    \/ Sweep
    \/ Tick

Spec == Init /\ [][Next]_vars

\* time.Tick wakes the sweeper for ever.
FairSpec == Spec /\ WF_vars(Sweep)

-----------------------------------------------------------------------------
(* Properties. *)

\* The configuration under which forgetting is harmless: a bucket refills within
\* the three minutes, burst <= 180 * rps; for the default burst of 20 that is any rate
\* above one request in nine seconds.
RefillsWhileIdle == Full <= Idle + 1

\* A visitor dropped by the sweeper comes back with a full bucket; nobody can tell
\* it was ever dropped, and a refused request costs nothing.
Bucket == INSTANCE TokenBucket
              WITH level <- [ip \in Ips |-> Level(Found(ip))]
ImplementsTokenBucket == Bucket!Spec

\* Over any stretch of time an address is let through for the burst and what the
\* rate earned meanwhile, across refusals, sweeps and returns.
WindowBound == window # None => window.spent <= Full + window.elapsed

\* What a visitor dropped by the sweeper gains at most, having waited Idle + 1.
Unearned == IF Full > Idle + 1 THEN Full - (Idle + 1) ELSE 0

\* The same for every configuration: beyond the burst and the refill, forgetting gives
\* an address no more than one unearned part of a bucket for every idle time that passed.
ForgettingBound ==
    window # None => \E n \in 0 .. window.elapsed :
        /\ n * (Idle + 1) <= window.elapsed
        /\ window.spent <= Full + window.elapsed + n * Unearned

\* "Idle visitors are swept periodically so the map does not grow unbounded": an
\* address that stays away loses its entry.
IdleVisitorsForgotten ==
    \A ip \in Ips : (visitors[ip] # None /\ visitors[ip].idle > Idle)
                        ~> (visitors[ip] = None \/ visitors[ip].idle = 0)
=============================================================================
