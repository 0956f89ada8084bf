-------------------------- MODULE RateLimitProofs --------------------------
(***************************************************************************)
(* Theorems about the rate limiter, for any set of addresses, rate, burst  *)
(* and idle time.  Where buckets refill while a visitor is idle, nobody    *)
(* can tell that the limiter forgets; elsewhere the sweeper hands out full *)
(* buckets too early, and ForgettingBound says how much that can give.     *)
(***************************************************************************)
EXTENDS RateLimit, TLAPS

LEMMA FullPositive == Size \in Nat /\ Full \in Nat /\ Cost \in Nat /\ 0 < Cost /\ Cost <= Full
<1>1. Size \in Nat /\ 1 <= Size /\ Cost \in Nat /\ 0 < Cost
  BY CostAssumption DEF Size
<1>2. ASSUME NEW m \in Nat, NEW n \in Nat, 1 <= m PROVE m * n \in Nat /\ n <= m * n
  <2>1. PICK k \in Nat : m = k + 1
    BY <1>2
  <2>2. m * n = k * n + n /\ k * n \in Nat
    BY <2>1
  <2> QED BY <2>2
<1> QED BY <1>1, <1>2 DEF Full

\* Levels lie between empty and full, whatever the limiter last wrote down.
LEMMA LevelRange ==
    ASSUME NEW v \in Visitor
    PROVE  Level(v) \in 0 .. Full
  BY FullPositive DEF Level, Smaller, Visitor

LEMMA FoundType ==
    ASSUME TypeOK, NEW ip \in Ips
    PROVE  Found(ip) \in Visitor /\ (visitors[ip] # None => Found(ip) = visitors[ip])
  BY FullPositive, IdleAssumption DEF TypeOK, Found, Visitor

\* A unit of time earns one credit, up to the burst.
LEMMA LevelOlder ==
    ASSUME NEW v \in Visitor
    PROVE  /\ Older(v) \in Visitor
           /\ Level(Older(v)) = Smaller(Full, Level(v) + 1)
  BY FullPositive, IdleAssumption DEF Older, Level, Smaller, Visitor

LEMMA TypeInit == Init => TypeOK
  BY DEF Init, TypeOK

LEMMA TypeNext == TypeOK /\ [Next]_vars => TypeOK'
<1> SUFFICES ASSUME TypeOK, [Next]_vars PROVE TypeOK'
  OBVIOUS
<1>1. CASE UNCHANGED vars
  BY <1>1 DEF vars, TypeOK
<1>2. ASSUME NEW ip \in Ips, Allow(ip) PROVE TypeOK'
  <2>1. [tokens |-> Level(Found(ip)) - Cost, age |-> 0, idle |-> 0] \in Visitor
    BY <1>2, FoundType, LevelRange, FullPositive, IdleAssumption DEF Allow, Visitor
  <2>2. window' \in Window \union {None}
    BY <1>2, FullPositive DEF Allow, Spend, TypeOK, Window
  <2> QED BY <1>2, <2>1, <2>2 DEF Allow, TypeOK, Answer
<1>3. ASSUME NEW ip \in Ips, Deny(ip) PROVE TypeOK'
  <2>1. [Found(ip) EXCEPT !.idle = 0] \in Visitor
    BY FoundType, IdleAssumption DEF Visitor
  <2> QED BY <1>3, <2>1 DEF Deny, TypeOK, Answer
<1>4. ASSUME NEW ip \in Ips, OpenWindow(ip) PROVE TypeOK'
  BY <1>4, IdleAssumption DEF OpenWindow, TypeOK, Window
<1>5. CASE Sweep
  BY <1>5 DEF Sweep, TypeOK
<1>6. CASE Tick
  <2>1. visitors' \in [Ips -> Visitor \union {None}]
    BY <1>6, LevelOlder DEF Tick, TypeOK
  <2>2. window' \in Window \union {None}
    BY <1>6, IdleAssumption DEF Tick, TypeOK, Window
  <2> QED BY <1>6, <2>1, <2>2 DEF Tick, TypeOK
<1> QED BY <1>1, <1>2, <1>3, <1>4, <1>5, <1>6 DEF Next

\* No bucket is ever above the burst or below empty.
THEOREM TypeCorrect == Spec => []TypeOK
  BY TypeInit, TypeNext, PTL DEF Spec

-----------------------------------------------------------------------------
(* Clocks and levels. *)

\* The limiter was last settled no later than the visitor was last seen.
ClockIsOlder == \A ip \in Ips : visitors[ip] # None =>
                    visitors[ip].age >= Smaller(Full, visitors[ip].idle)

ClockInv == TypeOK /\ ClockIsOlder

LEMMA ClockNext == TypeOK /\ ClockIsOlder /\ [Next]_vars => ClockIsOlder'
<1> SUFFICES ASSUME TypeOK, ClockIsOlder, [Next]_vars, NEW ip \in Ips, visitors'[ip] # None
             PROVE  visitors'[ip].age >= Smaller(Full, visitors'[ip].idle)
  BY DEF ClockIsOlder
<1> DEFINE Good(v) == v.age >= Smaller(Full, v.idle)
<1>1. CASE visitors'[ip] = visitors[ip]
  BY <1>1 DEF ClockIsOlder
<1>2. ASSUME NEW p \in Ips, Allow(p) PROVE Good(visitors'[ip])
  BY <1>1, <1>2, FullPositive DEF Allow, TypeOK, Smaller
<1>3. ASSUME NEW p \in Ips, Deny(p) PROVE Good(visitors'[ip])
  <2>1. CASE ip = p
    <3>1. Found(p) \in Visitor /\ visitors'[p] = [Found(p) EXCEPT !.idle = 0]
      BY <1>3, FoundType DEF Deny, TypeOK
    <3>2. visitors'[p].idle = 0 /\ visitors'[p].age \in 0 .. Full
      BY <3>1 DEF Visitor
    <3> QED BY <2>1, <3>2, FullPositive DEF Smaller
  <2> QED BY <1>1, <1>3, <2>1 DEF Deny, TypeOK
<1>4. CASE Sweep
  BY <1>1, <1>4 DEF Sweep
<1>5. CASE Tick
  <2>1. visitors[ip] \in Visitor /\ visitors'[ip] = Older(visitors[ip]) /\ Good(visitors[ip])
    BY <1>5 DEF Tick, TypeOK, ClockIsOlder
  <2> QED BY <2>1, FullPositive, IdleAssumption DEF Older, Smaller, Visitor
<1>6. ASSUME NEW p \in Ips, OpenWindow(p) PROVE Good(visitors'[ip])
  BY <1>1, <1>6 DEF OpenWindow
<1>7. CASE UNCHANGED vars
  BY <1>1, <1>7 DEF vars
<1> QED BY <1>2, <1>3, <1>4, <1>5, <1>6, <1>7 DEF Next

\* In every reachable state the two clocks agree.
THEOREM ClockInvariant == Spec => []ClockInv
<1>1. Init => ClockInv
  BY TypeInit DEF Init, ClockInv, ClockIsOlder
<1>2. ClockInv /\ [Next]_vars => ClockInv'
  BY TypeNext, ClockNext DEF ClockInv
<1> QED BY <1>1, <1>2, PTL DEF Spec

LEMMA UnearnedRange ==
    /\ Unearned \in 0 .. Full /\ Full - Unearned = Smaller(Full, Idle + 1)
    /\ RefillsWhileIdle => Unearned = 0
  BY FullPositive, IdleAssumption DEF Unearned, Smaller, RefillsWhileIdle

\* Whoever is swept has earned all of a bucket but the unearned part.
LEMMA SweptIsNearlyFull ==
    ASSUME ClockInv, NEW ip \in Ips, Swept(visitors[ip])
    PROVE  visitors[ip].idle = Idle + 1 /\ Level(Found(ip)) + Unearned >= Full
<1>1. visitors[ip] # None /\ visitors[ip].idle > Idle /\ Found(ip) = visitors[ip]
  BY FoundType DEF Swept, ClockInv
<1>2. Found(ip) \in Visitor /\ visitors[ip].age >= Smaller(Full, visitors[ip].idle)
  BY <1>1, FoundType DEF ClockInv, ClockIsOlder
<1>3. visitors[ip].idle = Idle + 1 /\ Found(ip).age >= Smaller(Full, Idle + 1)
  BY <1>1, <1>2, IdleAssumption DEF Visitor
<1>4. Level(Found(ip)) >= Smaller(Full, Idle + 1)
  BY <1>2, <1>3, FullPositive, IdleAssumption DEF Level, Smaller, Visitor
<1> QED BY <1>2, <1>3, <1>4, UnearnedRange, LevelRange, FullPositive

LEMMA FullWhenNew == Level([tokens |-> Full, age |-> 0, idle |-> 0]) = Full
  BY FullPositive DEF Level, Smaller

\* What each step does to the levels.
LEMMA LevelSteps ==
    ASSUME ClockInv, TypeOK'
    PROVE  /\ \A p \in Ips : Allow(p) =>
                /\ Level(Found(p)) >= Cost
                /\ \A ip \in Ips : Level(Found(ip))' =
                        IF ip = p THEN Level(Found(ip)) - Cost ELSE Level(Found(ip))
           /\ \A p \in Ips : Deny(p) =>
                \A ip \in Ips : Level(Found(ip))' = Level(Found(ip))
           /\ Sweep => \A ip \in Ips :
                Level(Found(ip))' = IF Swept(visitors[ip]) THEN Full ELSE Level(Found(ip))
           /\ Tick => \A ip \in Ips : Level(Found(ip))' = Smaller(Full, Level(Found(ip)) + 1)
<1> USE DEF ClockInv
<1>1. ASSUME NEW p \in Ips, Allow(p), NEW ip \in Ips
      PROVE  Level(Found(ip))' = IF ip = p THEN Level(Found(ip)) - Cost ELSE Level(Found(ip))
  <2>1. CASE ip # p
    BY <1>1, <2>1 DEF Allow, TypeOK, Found, Level
  <2>2. CASE ip = p
    <3>1. visitors'[p] = [tokens |-> Level(Found(p)) - Cost, age |-> 0, idle |-> 0]
      BY <1>1 DEF Allow, TypeOK
    <3>2. Level(Found(p)) \in 0 .. Full /\ Level(Found(p)) >= Cost
      BY <1>1, FoundType, LevelRange DEF Allow
    <3>3. visitors'[p] \in Visitor
      BY <3>1, <3>2, FullPositive, IdleAssumption DEF Visitor
    <3>4. Found(p)' = visitors'[p]
      BY <3>3, NoneAssumption DEF Found
    <3> QED BY <2>2, <3>1, <3>2, <3>4, FullPositive DEF Level, Smaller
  <2> QED BY <2>1, <2>2
<1>2. ASSUME NEW p \in Ips, Deny(p), NEW ip \in Ips
      PROVE  Level(Found(ip))' = Level(Found(ip))
  <2>1. CASE ip # p
    BY <1>2, <2>1 DEF Deny, TypeOK, Found, Level
  <2>2. CASE ip = p
    <3>1. visitors'[p] = [Found(p) EXCEPT !.idle = 0] /\ Found(p) \in Visitor
      BY <1>2, FoundType DEF Deny, TypeOK
    <3>2. visitors'[p] \in Visitor
      BY <3>1, IdleAssumption DEF Visitor
    <3>3. Found(p)' = visitors'[p]
      BY <3>2, NoneAssumption DEF Found
    <3>4. Found(p)'.tokens = Found(p).tokens /\ Found(p)'.age = Found(p).age
      BY <3>1, <3>3 DEF Visitor
    <3> QED BY <2>2, <3>4 DEF Level
  <2> QED BY <2>1, <2>2
<1>3. ASSUME Sweep, NEW ip \in Ips
      PROVE  Level(Found(ip))' = IF Swept(visitors[ip]) THEN Full ELSE Level(Found(ip))
  <2>1. CASE ~Swept(visitors[ip])
    BY <1>3, <2>1 DEF Sweep, Found, Level
  <2>2. CASE Swept(visitors[ip])
    <3>1. Found(ip)' = [tokens |-> Full, age |-> 0, idle |-> 0]
      BY <1>3, <2>2 DEF Sweep, Found
    <3>2. Level(Found(ip)') = Full
      BY <3>1, FullWhenNew
    <3> QED BY <2>2, <3>2 DEF Level
  <2> QED BY <2>1, <2>2
<1>4. ASSUME Tick, NEW ip \in Ips PROVE Level(Found(ip))' = Smaller(Full, Level(Found(ip)) + 1)
  <2>1. CASE visitors[ip] = None
    <3>1. Found(ip)' = Found(ip) /\ Level(Found(ip)) = Full
      BY <1>4, <2>1, FullWhenNew DEF Tick, Found
    <3> QED BY <3>1, FullPositive DEF Level, Smaller
  <2>2. CASE visitors[ip] # None
    <3>1. visitors'[ip] = Older(Found(ip)) /\ Found(ip) \in Visitor
      BY <1>4, <2>2, FoundType DEF Tick
    <3>2. Found(ip)' = Older(Found(ip))
      BY <3>1, LevelOlder, NoneAssumption DEF Found
    <3>3. Level(Found(ip)') = Smaller(Full, Level(Found(ip)) + 1)
      BY <3>1, <3>2, LevelOlder
    <3> QED BY <3>3 DEF Level
  <2> QED BY <2>1, <2>2
<1>5. \A p \in Ips : Allow(p) => Level(Found(p)) >= Cost
  BY DEF Allow
<1> QED BY <1>1, <1>2, <1>3, <1>4, <1>5

-----------------------------------------------------------------------------
(* What a window may have spent. *)

\* How long an address has been away; no time that counts once it is forgotten.
Away(ip) == IF visitors[ip] = None THEN 0 ELSE visitors[ip].idle

\* After n drops the spending and what is left in the bucket are covered by the burst,
\* the time that passed and n unearned parts; each drop took a whole idle time.
Covered(n) ==
    /\ n * (Idle + 1) + Away(window.ip) <= window.elapsed
    /\ Level(Found(window.ip)) + window.spent <= Full + window.elapsed + n * Unearned

WindowCovered == window # None /\ window.spent # 0 => \E n \in Nat : Covered(n)

LEMMA Times ==
    ASSUME NEW n \in Nat, NEW k \in Nat
    PROVE  n * k \in Nat /\ (n + 1) * k = n * k + k /\ 0 * k = 0 /\ n * 0 = 0
  OBVIOUS

\* What the cases of a step have in common: the window's values and their ranges.
LEMMA Ranges ==
    ASSUME TypeOK, NEW ip \in Ips
    PROVE  /\ Level(Found(ip)) \in 0 .. Full /\ Away(ip) \in 0 .. Idle + 1
           /\ Full \in Nat /\ Cost \in Nat /\ Cost > 0 /\ Idle \in Nat /\ Unearned \in Nat
  BY FoundType, LevelRange, FullPositive, IdleAssumption, UnearnedRange
     DEF Away, Visitor, TypeOK

LEMMA RangesNext ==
    ASSUME TypeOK', NEW ip \in Ips
    PROVE  Level(Found(ip))' \in 0 .. Full /\ Away(ip)' \in 0 .. Idle + 1
<1>1. Found(ip)' \in Visitor
  BY FullPositive, IdleAssumption DEF TypeOK, Found, Visitor
<1>2. Level(Found(ip)') \in 0 .. Full
  BY <1>1, LevelRange
<1>3. Away(ip)' \in 0 .. Idle + 1
  BY IdleAssumption DEF Away, Visitor, TypeOK
<1> QED BY <1>2, <1>3 DEF Level

\* What each step does to the time an address has been away.
LEMMA AwaySteps ==
    ASSUME TypeOK, NEW ip \in Ips
    PROVE  /\ \A p \in Ips : Allow(p) \/ Deny(p) => Away(ip)' <= Away(ip)
           /\ Sweep => Away(ip)' = IF Swept(visitors[ip]) THEN 0 ELSE Away(ip)
           /\ Tick => Away(ip)' <= Away(ip) + 1
<1>0. Away(ip) \in 0 .. Idle + 1 /\ Idle \in Nat
  BY Ranges
<1>1. ASSUME NEW p \in Ips, Allow(p) \/ Deny(p) PROVE Away(ip)' <= Away(ip)
  <2>1. CASE ip # p
    BY <1>0, <1>1, <2>1 DEF Allow, Deny, Away, TypeOK
  <2>2. CASE ip = p
    <3>1. visitors'[p].idle = 0
      <4>1. CASE Allow(p)
        BY <4>1 DEF Allow, TypeOK
      <4>2. CASE Deny(p)
        BY <4>2, FoundType DEF Deny, TypeOK, Visitor
      <4> QED BY <1>1, <4>1, <4>2
    <3> QED BY <1>0, <2>2, <3>1 DEF Away
  <2> QED BY <2>1, <2>2
<1>2. ASSUME Sweep PROVE Away(ip)' = IF Swept(visitors[ip]) THEN 0 ELSE Away(ip)
  BY <1>2 DEF Sweep, Away
<1>3. ASSUME Tick PROVE Away(ip)' <= Away(ip) + 1
  <2>1. CASE visitors[ip] = None
    BY <1>0, <1>3, <2>1 DEF Tick, Away
  <2>2. CASE visitors[ip] # None
    <3>1. visitors[ip] \in Visitor /\ visitors'[ip] = Older(visitors[ip])
      BY <1>3, <2>2 DEF Tick, TypeOK
    <3>2. Older(visitors[ip]).idle <= visitors[ip].idle + 1
      BY <1>0, <3>1 DEF Older, Smaller, Visitor
    <3> QED BY <1>0, <2>2, <3>1, <3>2 DEF Away
  <2> QED BY <2>1, <2>2
<1> QED BY <1>1, <1>2, <1>3

LEMMA WindowNext == ClockInv /\ WindowCovered /\ TypeOK' /\ [Next]_vars => WindowCovered'
<1> SUFFICES ASSUME ClockInv, WindowCovered, TypeOK', [Next]_vars,
                    window' # None, window'.spent # 0
             PROVE  \E n \in Nat : Covered(n)'
  BY DEF WindowCovered
<1>0. /\ window' \in Window /\ window'.ip \in Ips
      /\ window # None => window \in Window /\ window.ip \in Ips
  BY DEF TypeOK, ClockInv, Window
<1>1. ASSUME NEW p \in Ips, OpenWindow(p) PROVE FALSE
  BY <1>1 DEF OpenWindow
<1>2. CASE UNCHANGED vars
  BY <1>2 DEF vars, WindowCovered, Covered, Away, Found, Level
<1>3. ASSUME window # None, Allow(window.ip) PROVE \E n \in Nat : Covered(n)'
  <2>1. PICK ip \in Ips : ip = window.ip /\ window \in Window
    BY <1>0, <1>3
  <2>2. window' = [window EXCEPT !.spent = @ + Cost]
    BY <1>3 DEF Allow, Spend
  <2>3. window'.ip = ip /\ window'.spent = window.spent + Cost /\ window'.elapsed = window.elapsed
    BY <2>1, <2>2 DEF Window
  <2>4. /\ Level(Found(ip))' = Level(Found(ip)) - Cost /\ Away(ip)' <= Away(ip)
        /\ Level(Found(ip))' \in 0 .. Full /\ Away(ip)' \in 0 .. Idle + 1
    BY <1>3, <2>1, LevelSteps, AwaySteps, RangesNext DEF ClockInv
  <2>5. /\ Level(Found(ip)) \in 0 .. Full /\ Away(ip) \in 0 .. Idle + 1
        /\ Full \in Nat /\ Cost \in Nat /\ Idle \in Nat /\ Unearned \in Nat
    BY <2>1, Ranges DEF ClockInv
  <2>6. Level(Found(window.ip))' = Level(Found(ip))' /\ Away(window.ip)' = Away(ip)'
    BY <2>1, <2>3 DEF Found, Away, Level
  <2>7. CASE window.spent = 0
    <3>0. visitors'[ip].idle = 0
      BY <1>3, <2>1 DEF Allow, TypeOK, ClockInv
    <3>1. Away(ip)' = 0
      BY <3>0 DEF Away
    <3>2. 0 * (Idle + 1) = 0 /\ 0 * Unearned = 0
      BY <2>5, Times
    <3>3. window.elapsed \in Nat /\ window'.elapsed = window.elapsed /\ window'.spent = Cost
      BY <2>1, <2>3, <2>5, <2>7, IdleAssumption DEF Window
    <3>4. 0 * (Idle + 1) + Away(window.ip)' <= window'.elapsed
      BY <2>6, <3>1, <3>2, <3>3
    <3>5. Level(Found(window.ip))' + window'.spent <= Full + window'.elapsed + 0 * Unearned
      BY <2>4, <2>5, <2>6, <3>2, <3>3
    <3> QED BY <3>4, <3>5 DEF Covered
  <2>8. CASE window.spent # 0
    <3>1. PICK n \in Nat : Covered(n)
      BY <1>3, <2>8 DEF WindowCovered
    <3>2. n * (Idle + 1) \in Nat /\ n * Unearned \in Nat
      BY <2>5, Times
    <3>3. Covered(n)'
      BY <2>1, <2>3, <2>4, <2>5, <2>6, <3>1, <3>2 DEF Covered, Window
    <3> QED BY <3>3
  <2> QED BY <2>7, <2>8
<1>4. ASSUME NEW p \in Ips, Allow(p), window = None \/ p # window.ip
      PROVE  \E n \in Nat : Covered(n)'
  <2>1. window' = window /\ window \in Window /\ window.ip \in Ips /\ p # window.ip
    BY <1>0, <1>4 DEF Allow, Spend
  <2>2. visitors'[window.ip] = visitors[window.ip]
    BY <1>4, <2>1 DEF Allow, TypeOK, ClockInv
  <2> QED BY <2>1, <2>2 DEF WindowCovered, Covered, Away, Found, Level
<1>5. ASSUME window' = window, NEW n \in Nat, Covered(n), window # None,
             NEW ip \in Ips, ip = window.ip,
             Level(Found(ip))' = Level(Found(ip)), Away(ip)' <= Away(ip)
      PROVE  Covered(n)'
  <2>1. window \in Window
    BY <1>0, <1>5
  <2>2. /\ Level(Found(ip)) \in 0 .. Full /\ Away(ip) \in 0 .. Idle + 1
        /\ Full \in Nat /\ Idle \in Nat /\ Unearned \in Nat
        /\ Level(Found(ip))' \in 0 .. Full /\ Away(ip)' \in 0 .. Idle + 1
    BY <2>1, Ranges, RangesNext DEF ClockInv
  <2>3. n * (Idle + 1) \in Nat /\ n * Unearned \in Nat
    BY <2>2, Times
  <2>4. Level(Found(window.ip))' = Level(Found(ip))' /\ Away(window.ip)' = Away(ip)'
    BY <1>5 DEF Found, Away, Level
  <2> QED BY <1>5, <2>1, <2>2, <2>3, <2>4 DEF Covered, Window
<1>6. ASSUME NEW p \in Ips, Deny(p) PROVE \E n \in Nat : Covered(n)'
  <2>1. window' = window /\ window # None
    BY <1>6 DEF Deny
  <2> PICK ip \in Ips : ip = window.ip
    BY <1>0, <2>1
  <2>2. Level(Found(ip))' = Level(Found(ip)) /\ Away(ip)' <= Away(ip)
    BY <1>0, <1>6, <2>1, LevelSteps, AwaySteps DEF ClockInv
  <2>3. PICK n \in Nat : Covered(n)
    BY <2>1 DEF WindowCovered
  <2> QED BY <1>5, <2>1, <2>2, <2>3
<1>7. CASE Sweep
  <2>1. PICK ip \in Ips :
            window' = window /\ window # None /\ window \in Window /\ ip = window.ip
    BY <1>0, <1>7 DEF Sweep
  <2>2. PICK n \in Nat : Covered(n)
    BY <2>1 DEF WindowCovered
  <2>3. CASE ~Swept(visitors[ip])
    <3>1. Level(Found(ip))' = Level(Found(ip)) /\ Away(ip)' = Away(ip) /\ Away(ip) \in Int
      BY <1>7, <2>1, <2>3, LevelSteps, AwaySteps, Ranges DEF ClockInv
    <3> QED BY <1>5, <2>1, <2>2, <3>1
  <2>4. CASE Swept(visitors[ip])
    <3>1. Level(Found(ip))' = Full /\ Away(ip)' = 0
      BY <1>7, <2>1, <2>4, LevelSteps, AwaySteps DEF ClockInv
    <3>2. Level(Found(ip)) + Unearned >= Full /\ Away(ip) = Idle + 1
      BY <2>1, <2>4, SweptIsNearlyFull DEF Away, Swept
    <3>3. /\ Level(Found(ip)) \in 0 .. Full
          /\ Full \in Nat /\ Idle \in Nat /\ Unearned \in Nat
      BY <2>1, Ranges DEF ClockInv
    <3>4. /\ n * (Idle + 1) \in Nat /\ (n + 1) * (Idle + 1) = n * (Idle + 1) + (Idle + 1)
          /\ n * Unearned \in Nat /\ (n + 1) * Unearned = n * Unearned + Unearned
      BY <3>3, Times
    <3>5. Level(Found(window.ip))' = Level(Found(ip))' /\ Away(window.ip)' = Away(ip)'
      BY <2>1 DEF Found, Away, Level
    <3>6. Covered(n + 1)'
      BY <2>1, <2>2, <3>1, <3>2, <3>3, <3>4, <3>5 DEF Covered, Window
    <3> QED BY <3>6
  <2> QED BY <2>3, <2>4
<1>8. CASE Tick
  <2>1. PICK ip \in Ips :
            /\ window # None /\ window \in Window /\ ip = window.ip
            /\ window' = [window EXCEPT !.elapsed = @ + 1]
    BY <1>0, <1>8 DEF Tick
  <2>2. /\ window'.ip = ip /\ window'.spent = window.spent
        /\ window'.elapsed = window.elapsed + 1
    BY <2>1 DEF Window
  <2>3. PICK n \in Nat : Covered(n)
    BY <2>1, <2>2 DEF WindowCovered
  <2>4. /\ Level(Found(ip))' = Smaller(Full, Level(Found(ip)) + 1) /\ Away(ip)' <= Away(ip) + 1
        /\ Level(Found(ip))' \in 0 .. Full /\ Away(ip)' \in 0 .. Idle + 1
    BY <1>8, <2>1, LevelSteps, AwaySteps, RangesNext DEF ClockInv
  <2>5. /\ Level(Found(ip)) \in 0 .. Full /\ Away(ip) \in 0 .. Idle + 1
        /\ Full \in Nat /\ Idle \in Nat /\ Unearned \in Nat
    BY <2>1, Ranges DEF ClockInv
  <2>6. n * (Idle + 1) \in Nat /\ n * Unearned \in Nat
    BY <2>5, Times
  <2>7. Level(Found(window.ip))' = Level(Found(ip))' /\ Away(window.ip)' = Away(ip)'
    BY <2>1, <2>2 DEF Found, Away, Level
  <2>8. Covered(n)'
    BY <2>1, <2>2, <2>3, <2>4, <2>5, <2>6, <2>7 DEF Covered, Window, Smaller
  <2> QED BY <2>8
<1> QED BY <1>1, <1>2, <1>3, <1>4, <1>6, <1>7, <1>8 DEF Next

THEOREM WindowsAreCovered == Spec => []WindowCovered
<1>1. Init => WindowCovered
  BY DEF Init, WindowCovered
<1>2. ClockInv => TypeOK
  BY DEF ClockInv
<1> QED BY <1>1, <1>2, ClockInvariant, WindowNext, PTL DEF Spec

\* What Covered leaves to be spent.
LEMMA Spent ==
    ASSUME TypeOK, window # None, NEW n \in Nat, Covered(n)
    PROVE  /\ n \in 0 .. window.elapsed /\ n * (Idle + 1) <= window.elapsed
           /\ window.spent <= Full + window.elapsed + n * Unearned
<1>1. window \in Window /\ window.ip \in Ips
  BY DEF TypeOK, Window
<1>2. /\ Level(Found(window.ip)) \in 0 .. Full /\ Away(window.ip) \in 0 .. Idle + 1
      /\ Full \in Nat /\ Idle \in Nat /\ Unearned \in Nat
  BY <1>1, Ranges
<1>3. n * (Idle + 1) = n * Idle + n /\ n * Idle \in Nat /\ n * Unearned \in Nat
  BY <1>2
<1> QED BY <1>1, <1>2, <1>3 DEF Covered, Window

\* Whatever the configuration, the limiter's forgetting gives an address no more than one
\* unearned part of a bucket for every idle time that passes.
THEOREM ForgettingIsBounded == Spec => []ForgettingBound
<1>1. ClockInv /\ WindowCovered => ForgettingBound
  <2> SUFFICES ASSUME ClockInv, WindowCovered, window # None
               PROVE  \E n \in 0 .. window.elapsed :
                        /\ n * (Idle + 1) <= window.elapsed
                        /\ window.spent <= Full + window.elapsed + n * Unearned
    BY DEF ForgettingBound
  <2>1. CASE window.spent = 0
    <3>1. window \in Window /\ Full \in Nat /\ Idle \in Nat /\ Unearned \in Nat
      BY FullPositive, IdleAssumption, UnearnedRange DEF TypeOK, ClockInv
    <3>2. 0 * (Idle + 1) = 0 /\ 0 * Unearned = 0
      BY <3>1, Times
    <3>3. window.elapsed \in Nat
      BY <3>1, IdleAssumption DEF Window
    <3>4. 0 \in 0 .. window.elapsed /\ 0 * (Idle + 1) <= window.elapsed
      BY <3>2, <3>3
    <3>5. window.spent <= Full + window.elapsed + 0 * Unearned
      BY <2>1, <3>1, <3>2, <3>3
    <3> QED BY <3>4, <3>5
  <2>2. CASE window.spent # 0
    BY <2>2, Spent DEF WindowCovered, ClockInv
  <2> QED BY <2>1, <2>2
<1> QED BY <1>1, ClockInvariant, WindowsAreCovered, PTL

\* Nobody gets more through than the burst and what the rate earned meanwhile.
THEOREM SpendingIsBounded ==
    ASSUME RefillsWhileIdle
    PROVE  Spec => []WindowBound
<1>1. ClockInv /\ ForgettingBound => WindowBound
  <2> SUFFICES ASSUME ClockInv, ForgettingBound, window # None
               PROVE  window.spent <= Full + window.elapsed
    BY DEF WindowBound
  <2>1. PICK n \in 0 .. window.elapsed : window.spent <= Full + window.elapsed + n * Unearned
    BY DEF ForgettingBound
  <2>2. window \in Window /\ Full \in Nat /\ Unearned = 0
    BY FullPositive, UnearnedRange DEF TypeOK, ClockInv
  <2>3. window.elapsed \in Nat /\ n \in Nat /\ n * Unearned = 0
    BY <2>2, IdleAssumption, Times DEF Window
  <2> QED BY <2>1, <2>2, <2>3 DEF Window
<1> QED BY <1>1, ClockInvariant, ForgettingIsBounded, PTL

-----------------------------------------------------------------------------
(* The refinement. *)

LEMMA BucketInit == Init => Bucket!Init
  BY FullWhenNew DEF Init, Bucket!Init, Found

LEMMA BucketNext ==
    RefillsWhileIdle /\ ClockInv /\ ClockInv' /\ [Next]_vars => [Bucket!Next]_(Bucket!vars)
<1> SUFFICES ASSUME RefillsWhileIdle, ClockInv, ClockInv', [Next]_vars
             PROVE  Bucket!Next \/ UNCHANGED Bucket!vars
  OBVIOUS
<1> DEFINE level == [ip \in Ips |-> Level(Found(ip))]
<1>0. TypeOK' /\ \A ip \in Ips : Level(Found(ip)) \in 0 .. Full
  BY FoundType, LevelRange DEF ClockInv
<1>1. CASE UNCHANGED vars
  BY <1>1 DEF vars, Bucket!vars, Found, Level
<1>2. ASSUME NEW p \in Ips, Allow(p) PROVE Bucket!Admit(p)
  <2>1. \A ip \in Ips : Level(Found(ip))' = IF ip = p THEN Level(Found(ip)) - Cost
                                            ELSE Level(Found(ip))
    BY <1>0, <1>2, LevelSteps
  <2>2. level' = [level EXCEPT ![p] = @ - Cost]
    BY <2>1
  <2>3. level[p] >= Cost /\ answer' = [ip |-> p, admitted |-> TRUE]
    BY <1>2 DEF Allow
  <2> QED BY <2>2, <2>3 DEF Bucket!Admit
<1>3. ASSUME NEW p \in Ips, Deny(p) PROVE Bucket!Refuse(p)
  <2>1. \A ip \in Ips : Level(Found(ip))' = Level(Found(ip))
    BY <1>0, <1>3, LevelSteps
  <2>2. level' = level
    BY <2>1
  <2>3. level[p] < Cost /\ answer' = [ip |-> p, admitted |-> FALSE]
    BY <1>3 DEF Deny
  <2> QED BY <2>2, <2>3 DEF Bucket!Refuse
<1>4. CASE Sweep
  <2>1. \A ip \in Ips : Level(Found(ip))' = Level(Found(ip))
    BY <1>0, <1>4, LevelSteps, SweptIsNearlyFull, UnearnedRange, FullPositive
  <2>2. level' = level
    BY <2>1
  <2> QED BY <1>4, <2>2 DEF Sweep, Bucket!vars
<1>5. ASSUME Tick PROVE Bucket!Tick
  <2>1. \A ip \in Ips : Level(Found(ip))' = Smaller(Full, Level(Found(ip)) + 1)
    BY <1>0, <1>5, LevelSteps
  <2>2. \A ip \in Ips : Smaller(Full, Level(Found(ip)) + 1)
                          = IF Level(Found(ip)) < Full THEN Level(Found(ip)) + 1 ELSE Full
    BY <1>0, FullPositive DEF Smaller
  <2>3. level' = [ip \in Ips |-> IF level[ip] < Full THEN level[ip] + 1 ELSE Full]
    BY <2>1, <2>2
  <2> QED BY <1>5, <2>3 DEF Tick, Bucket!Tick
<1>6. ASSUME NEW p \in Ips, OpenWindow(p) PROVE UNCHANGED Bucket!vars
  BY <1>6 DEF OpenWindow, Bucket!vars, Found, Level
<1> QED BY <1>1, <1>2, <1>3, <1>4, <1>5, <1>6 DEF Next, Bucket!Next

\* Forgetting visitors is invisible: the limiter is one token bucket per address.
THEOREM LimiterIsATokenBucket ==
    ASSUME RefillsWhileIdle
    PROVE  Spec => ImplementsTokenBucket
  BY ClockInvariant, BucketInit, BucketNext, PTL DEF Spec, ImplementsTokenBucket, Bucket!Spec
=============================================================================
