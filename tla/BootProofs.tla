----------------------------- MODULE BootProofs -----------------------------
(***************************************************************************)
(* Theorems about starting and stopping, for any number of processes,      *)
(* configurations, migrations, starts and requests.                        *)
(***************************************************************************)
EXTENDS Boot, FiniteSetTheorems, TLAPS

USE DEF files, schema, run

Places == {"off"} \union Running \union Ended

LEMMA TypeInit == Init => TypeOK
<1> SUFFICES ASSUME Init PROVE TypeOK
  OBVIOUS
<1>1. [dev |-> FALSE, auto |-> FALSE] \in Config /\ [priv |-> 0, pub |-> 0] \in [priv : Nat, pub : Nat]
  BY DEF Config
<1>2. cfg \in [Procs -> Config] /\ loaded \in [Procs -> [priv : Nat, pub : Nat]]
  BY <1>1 DEF Init
<1>3. ran \in [1 .. Migrations -> Nat] /\ inflight \in [Procs -> 0 .. MaxInFlight]
  BY BoundAssumption DEF Init
<1>4. /\ pc \in [Procs -> {"off"} \union Running \union Ended] /\ fresh \in [Procs -> Nat]
      /\ \A p \in Procs : pc[p] \notin Migrating /\ lock # p
  BY BoundAssumption DEF Init, Migrating
<1>5. signalled \in [Procs -> BOOLEAN]
  BY DEF Init
<1>6. /\ priv \in File /\ pub \in File /\ made \in Nat /\ lock \in Procs \union {None}
      /\ version \in 0 .. Migrations /\ starts \in 0 .. MaxStarts
  BY BoundAssumption DEF Init, File
<1>7. spoiled \in BOOLEAN /\ dirty \in BOOLEAN
  BY DEF Init
<1> QED BY <1>2, <1>3, <1>4, <1>5, <1>6, <1>7 DEF TypeOK

\* A step from one place to another that keeps out of the lock's business.
LEMMA PlainStep ==
    ASSUME TypeOK, NEW p \in Procs, NEW to \in Places \ Migrating,
           pc[p] \notin Migrating, pc' = [pc EXCEPT ![p] = to], UNCHANGED lock
    PROVE  /\ pc' \in [Procs -> Places]
           /\ lock' \in Procs \union {None}
           /\ \A q \in Procs : pc'[q] \in Migrating <=> lock' = q
  BY DEF TypeOK, Places

\* The end of a process gives its lock back.
LEMMA EndStep ==
    ASSUME TypeOK, NEW p \in Procs, NEW how \in Ended, End(p, how)
    PROVE  TypeOK'
<1>1. /\ pc' \in [Procs -> Places]
      /\ lock' \in Procs \union {None}
      /\ \A q \in Procs : pc'[q] \in Migrating <=> lock' = q
  BY BoundAssumption DEF End, TypeOK, Places, Ended, Migrating
<1> QED BY <1>1 DEF End, TypeOK, Places

LEMMA TypeNext == TypeOK /\ [Next]_vars => TypeOK'
<1> SUFFICES ASSUME TypeOK, [Next]_vars PROVE TypeOK'
  OBVIOUS
<1> USE DEF Step, Places, Running, Starting, Up, Loading, Writing, Ended, Migrating
<1>1. CASE UNCHANGED vars
  BY <1>1 DEF vars, TypeOK
<1>2. ASSUME NEW p \in Procs, NEW c \in Configs, Start(p, c) PROVE TypeOK'
  <2>1. c \in Config /\ [priv |-> 0, pub |-> 0] \in [priv : Nat, pub : Nat]
    BY ConfigAssumption
  <2>2. PICK to \in {"connect", "exit2"} : pc' = [pc EXCEPT ![p] = to]
    BY <1>2 DEF Start
  <2>3. /\ pc' \in [Procs -> Places]
        /\ lock' \in Procs \union {None}
        /\ \A q \in Procs : pc'[q] \in Migrating <=> lock' = q
    BY <1>2, <2>2, PlainStep DEF Start
  <2>4. starts' \in 0 .. MaxStarts
    BY <1>2, BoundAssumption DEF Start, TypeOK
  <2> QED BY <1>2, <2>1, <2>3, <2>4, BoundAssumption DEF Start, TypeOK
<1>3. ASSUME NEW p \in Procs, Connect(p) PROVE TypeOK'
  BY <1>3 DEF Connect, TypeOK
<1>4. ASSUME NEW p \in Procs, Lock(p) PROVE TypeOK'
  BY <1>4, BoundAssumption DEF Lock, TypeOK
<1>5. ASSUME NEW p \in Procs, Mark(p) PROVE TypeOK'
  BY <1>5, BoundAssumption DEF Mark, TypeOK
<1>6. ASSUME NEW p \in Procs, Apply(p) PROVE TypeOK'
  <2>1. ran' \in [1 .. Migrations -> Nat]
    <3>1. ran \in [1 .. Migrations -> Nat] /\ ran' = [ran EXCEPT ![version] = @ + 1]
      BY <1>6 DEF Apply, TypeOK
    <3>2. ran' = [m \in 1 .. Migrations |-> IF m = version THEN ran[m] + 1 ELSE ran[m]]
      BY <3>1
    <3>3. \A m \in 1 .. Migrations : ran[m] \in Nat /\ ran[m] + 1 \in Nat
      BY <3>1
    <3> QED BY ONLY <3>2, <3>3
  <2> QED BY <1>6, <2>1 DEF Apply, TypeOK
<1>7. ASSUME NEW p \in Procs, Clean(p) PROVE TypeOK'
  BY <1>7 DEF Clean, TypeOK
<1>8. ASSUME NEW p \in Procs, Unlock(p) PROVE TypeOK'
  BY <1>8, BoundAssumption DEF Unlock, TypeOK
<1>9. ASSUME NEW p \in Procs, FindKeys(p) PROVE TypeOK'
  BY <1>9 DEF FindKeys, TypeOK
<1>10. ASSUME NEW p \in Procs, OpenPrivate(p) PROVE TypeOK'
  BY <1>10 DEF OpenPrivate, TypeOK, File
<1>11. ASSUME NEW p \in Procs, WritePrivate(p) PROVE TypeOK'
  BY <1>11 DEF WritePrivate, TypeOK, File
<1>12. ASSUME NEW p \in Procs, OpenPublic(p) PROVE TypeOK'
  BY <1>12 DEF OpenPublic, TypeOK, File
<1>13. ASSUME NEW p \in Procs, WritePublic(p) PROVE TypeOK'
  BY <1>13 DEF WritePublic, TypeOK, File
<1>14. ASSUME NEW p \in Procs, LoadPrivate(p) PROVE TypeOK'
  <2>1. loaded' \in [Procs -> [priv : Nat, pub : Nat]]
    <3>1. /\ loaded \in [Procs -> [priv : Nat, pub : Nat]]
          /\ \/ priv \in Nat /\ loaded' = [loaded EXCEPT ![p].priv = priv]
             \/ loaded' = loaded
      BY <1>14 DEF LoadPrivate, TypeOK
    <3> QED BY <3>1
  <2> QED BY <1>14, <2>1 DEF LoadPrivate, TypeOK
<1>15. ASSUME NEW p \in Procs, LoadPublic(p) PROVE TypeOK'
  <2>1. loaded' \in [Procs -> [priv : Nat, pub : Nat]]
    <3>1. /\ loaded \in [Procs -> [priv : Nat, pub : Nat]]
          /\ \/ pub \in Nat /\ loaded' = [loaded EXCEPT ![p].pub = pub]
             \/ loaded' = loaded
      BY <1>15 DEF LoadPublic, TypeOK
    <3> QED BY <3>1
  <2> QED BY <1>15, <2>1 DEF LoadPublic, TypeOK
<1>16. ASSUME NEW p \in Procs, Signal(p) PROVE TypeOK'
  BY <1>16 DEF Signal, TypeOK
<1>17. ASSUME NEW p \in Procs, Arrive(p) PROVE TypeOK'
  BY <1>17, BoundAssumption DEF Arrive, TypeOK
<1>18. ASSUME NEW p \in Procs, Answer(p) PROVE TypeOK'
  <2>1. inflight' \in [Procs -> 0 .. MaxInFlight]
    <3>1. /\ inflight \in [Procs -> 0 .. MaxInFlight] /\ inflight[p] > 0
          /\ inflight' = [inflight EXCEPT ![p] = @ - 1]
      BY <1>18 DEF Answer, TypeOK
    <3> QED BY <3>1, BoundAssumption
  <2> QED BY <1>18, <2>1 DEF Answer, TypeOK
<1>19. ASSUME NEW p \in Procs, Shutdown(p) \/ ListenerFails(p) \/ Drain(p) PROVE TypeOK'
  BY <1>19 DEF Shutdown, ListenerFails, Drain, TypeOK
<1>20. ASSUME NEW p \in Procs, Fail(p) \/ Kill(p) PROVE TypeOK'
  BY <1>20, EndStep DEF Fail, Kill
<1>21. CASE ForceVersion
  <2>1. version' \in 0 .. Migrations
    <3> DEFINE A == {m \in 1 .. Migrations : ran[m] > 0}
    <3>1. IsFiniteSet(1 .. Migrations) /\ Cardinality(1 .. Migrations) = Migrations
      BY BoundAssumption, FS_Interval
    <3>2. IsFiniteSet(A) /\ Cardinality(A) <= Migrations
      BY <3>1, FS_Subset
    <3>3. Cardinality(A) \in Nat
      BY <3>2, FS_CardinalityType
    <3> QED BY <1>21, <3>2, <3>3, BoundAssumption DEF ForceVersion
  <2> QED BY <1>21, <2>1 DEF ForceVersion, TypeOK
<1> HIDE DEF Step
<1> QED BY <1>1, <1>2, <1>3, <1>4, <1>5, <1>6, <1>7, <1>8, <1>9, <1>10, <1>11, <1>12, <1>13,
           <1>14, <1>15, <1>16, <1>17, <1>18, <1>19, <1>20, <1>21 DEF Next, Proceed

\* Every variable keeps its type, and the lock belongs to the process that migrates.
THEOREM TypeCorrect == Spec => []TypeOK
  BY TypeInit, TypeNext, PTL DEF Spec

-----------------------------------------------------------------------------
(* The schema: what is applied is a prefix of the migrations, the version  *)
(* is its length or, while dirty, perhaps one more.                        *)

Applied(k) == \A m \in 1 .. Migrations : ran[m] = IF m <= k THEN 1 ELSE 0

\* Where a process that migrates has seen the schema complete.
Past(p) == cfg[p].auto /\ pc[p] \in {"keys", "generate"} \union Writing \union Loading \union Up

SchemaInv ==
    /\ ~dirty => Applied(version)
    /\ dirty => version >= 1 /\ (Applied(version) \/ Applied(version - 1))
    /\ \A p \in Procs :
         /\ pc[p] = "migrating" => ~dirty
         /\ pc[p] = "marked" => dirty /\ Applied(version - 1)
         /\ pc[p] = "applied" => dirty /\ Applied(version)
         /\ Past(p) => version = Migrations /\ ~dirty

LEMMA SchemaInit == Init => SchemaInv
  BY BoundAssumption DEF Init, SchemaInv, Applied, Past, Up, Writing, Loading

\* Every step but those of MigrateUp and the operator leaves the schema alone, and
\* nobody gets past MigrateUp or into it otherwise than through its steps.
LEMMA SchemaKept ==
    ASSUME SchemaInv, UNCHANGED <<version, dirty, ran>>,
           \A p \in Procs :
               /\ pc'[p] \in Migrating => pc'[p] = pc[p]
               /\ Past(p)' => Past(p)
    PROVE  SchemaInv'
  BY DEF SchemaInv, Applied, Migrating

LEMMA SchemaNext == TypeOK /\ SchemaInv /\ [Next]_vars => SchemaInv'
<1> SUFFICES ASSUME TypeOK, SchemaInv, [Next]_vars PROVE SchemaInv'
  OBVIOUS
<1> USE DEF Step, Past, Migrating, Writing, Loading, Up
<1>1. CASE UNCHANGED vars
  BY <1>1, SchemaKept DEF vars
<1>2. ASSUME NEW p \in Procs, NEW c \in Configs, Start(p, c) PROVE SchemaInv'
  <2>1. \A q \in Procs : pc'[q] \in {pc[q], "connect", "exit2"} /\ (q # p => cfg'[q] = cfg[q] /\ pc'[q] = pc[q])
    BY <1>2 DEF Start, TypeOK
  <2>2. pc'[p] \in {"connect", "exit2"}
    BY <1>2 DEF Start, TypeOK
  <2> QED BY <1>2, <2>1, <2>2, SchemaKept DEF Start
<1>3. ASSUME NEW p \in Procs, Connect(p) PROVE SchemaInv'
  <2>1. CASE cfg[p].auto
    BY <1>3, <2>1, SchemaKept DEF Connect, TypeOK
  <2>2. CASE ~cfg[p].auto
    BY <1>3, <2>2, SchemaKept DEF Connect, TypeOK
  <2> QED BY <2>1, <2>2
<1>4. ASSUME NEW p \in Procs, Lock(p) PROVE SchemaInv'
  BY <1>4 DEF Lock, SchemaInv, Applied, TypeOK
<1>5. ASSUME NEW p \in Procs, Mark(p) PROVE SchemaInv'
  <2>1. ~dirty /\ Applied(version) /\ version' = version + 1 /\ version \in Nat /\ dirty' = TRUE
    BY <1>5 DEF Mark, SchemaInv, TypeOK
  <2>2. (Applied(version - 1))' /\ version' >= 1
    BY <1>5, <2>1 DEF Mark, Applied
  <2>3. \A q \in Procs : /\ q # p => pc'[q] \notin Migrating
                         /\ pc'[p] = "marked"
                         /\ ~Past(q)'
    BY <1>5, <2>1 DEF Mark, SchemaInv, TypeOK
  <2> QED BY <2>1, <2>2, <2>3 DEF SchemaInv
<1>6. ASSUME NEW p \in Procs, Apply(p) PROVE SchemaInv'
  <2>1. dirty /\ Applied(version - 1) /\ version >= 1 /\ version \in 1 .. Migrations
    BY <1>6 DEF Apply, SchemaInv, TypeOK
  <2>2. ran' = [m \in 1 .. Migrations |-> IF m = version THEN ran[m] + 1 ELSE ran[m]]
    BY <1>6 DEF Apply, TypeOK
  <2>3. Applied(version)'
    <3>1. version' = version
      BY <1>6 DEF Apply
    <3>2. \A m \in 1 .. Migrations : ran'[m] = IF m <= version THEN 1 ELSE 0
      BY ONLY <2>1, <2>2, BoundAssumption DEF Applied
    <3> QED BY <3>1, <3>2 DEF Applied
  <2>4. \A q \in Procs : /\ q # p => pc'[q] \notin Migrating
                         /\ pc'[p] = "applied"
                         /\ ~Past(q)'
    BY <1>6, <2>1 DEF Apply, SchemaInv, TypeOK
  <2>5. dirty' = dirty /\ version' = version
    BY <1>6 DEF Apply
  <2> QED BY <2>1, <2>3, <2>4, <2>5 DEF SchemaInv
<1>7. ASSUME NEW p \in Procs, Clean(p) PROVE SchemaInv'
  BY <1>7 DEF Clean, SchemaInv, Applied, TypeOK
<1>8. ASSUME NEW p \in Procs, Unlock(p) PROVE SchemaInv'
  BY <1>8 DEF Unlock, SchemaInv, Applied, TypeOK
<1>9. ASSUME NEW p \in Procs,
             \/ FindKeys(p) \/ OpenPrivate(p) \/ WritePrivate(p) \/ OpenPublic(p)
             \/ WritePublic(p) \/ LoadPrivate(p) \/ LoadPublic(p)
             \/ Shutdown(p) \/ ListenerFails(p) \/ Drain(p)
      PROVE  SchemaInv'
  BY <1>9, SchemaKept DEF FindKeys, OpenPrivate, WritePrivate, OpenPublic, WritePublic, LoadPrivate,
     LoadPublic, Shutdown, ListenerFails, Drain, TypeOK
<1>10. ASSUME NEW p \in Procs, Signal(p) \/ Arrive(p) \/ Answer(p) PROVE SchemaInv'
  BY <1>10, SchemaKept DEF Signal, Arrive, Answer
<1>11. ASSUME NEW p \in Procs, Fail(p) \/ Kill(p) PROVE SchemaInv'
  BY <1>11, SchemaKept DEF Fail, Kill, End, TypeOK
<1>12. CASE ForceVersion
  <2>1. \A q \in Procs : pc[q] \notin Migrating /\ ~Past(q)
    BY <1>12, BoundAssumption DEF ForceVersion, SchemaInv, TypeOK
  <2>2. PICK k \in 0 .. Migrations : Applied(k)
    <3>1. version \in 0 .. Migrations /\ version >= 1 /\ (Applied(version) \/ Applied(version - 1))
      BY <1>12 DEF ForceVersion, SchemaInv, TypeOK
    <3>2. version - 1 \in 0 .. Migrations
      BY <3>1, BoundAssumption
    <3> QED BY <3>1, <3>2
  <2>3. {m \in 1 .. Migrations : ran[m] > 0} = 1 .. k
    BY <2>2, BoundAssumption DEF Applied
  <2>4. Cardinality(1 .. k) = k
    BY <2>2, FS_Interval
  <2> QED BY <1>12, <2>1, <2>2, <2>3, <2>4 DEF ForceVersion, SchemaInv, Applied
<1> HIDE DEF Step
<1> QED BY <1>1, <1>2, <1>3, <1>4, <1>5, <1>6, <1>7, <1>8, <1>9, <1>10, <1>11, <1>12 DEF Next, Proceed

\* Every migration takes effect once and in order, whatever processes start, fail and
\* are killed.
THEOREM MigrationsAreAppliedOnce == Spec => []MigrationsRunOnce
<1>1. TypeOK /\ SchemaInv => MigrationsRunOnce
  <2> SUFFICES ASSUME TypeOK, SchemaInv PROVE MigrationsRunOnce
    OBVIOUS
  <2>1. PICK k \in Int : Applied(k)
    BY DEF SchemaInv, TypeOK
  <2>2. ASSUME NEW m \in 1 .. Migrations
        PROVE  ran[m] <= 1 /\ (ran[m] = 1 => \A l \in 1 .. m : ran[l] = 1)
    <3>1. ran[m] = 1 => m <= k
      BY <2>1 DEF Applied
    <3>2. \A l \in 1 .. m : l \in 1 .. Migrations /\ (m <= k => l <= k)
      BY <2>1, BoundAssumption
    <3> QED BY <2>1, <3>1, <3>2 DEF Applied
  <2> QED BY <2>2 DEF MigrationsRunOnce
<1> QED BY <1>1, TypeInit, TypeNext, SchemaInit, SchemaNext, PTL DEF Spec

\* Whoever migrates before serving serves on the complete schema.
THEOREM SchemaIsCurrent == Spec => []ServesOnCurrentSchema
<1>1. TypeOK /\ SchemaInv => ServesOnCurrentSchema
  BY DEF SchemaInv, TypeOK, Applied, Past, ServesOnCurrentSchema
<1> QED BY <1>1, TypeInit, TypeNext, SchemaInit, SchemaNext, PTL DEF Spec

-----------------------------------------------------------------------------
(* The key files: as long as nothing spoiled them, at most one process     *)
(* generates keys, and then no other process is loading or serving.        *)

Generating == {"generate"} \union Writing

KeyInv ==
    ~spoiled =>
        /\ \A p, q \in Procs : p # q /\ pc[p] \in Generating => pc[q] \notin Section \union Up
        /\ (\A p \in Procs : pc[p] \notin Writing) => (priv = Absent \/ (priv \in Nat /\ pub = priv))
        /\ \A p \in Procs :
             /\ pc[p] = "generate" => priv = Absent
             /\ pc[p] = "load" /\ cfg[p].dev => priv # Absent
             /\ pc[p] = "keyMissing" => ~cfg[p].dev
             /\ pc[p] \in {"half", "pubTorn"} => priv = fresh[p]
             /\ pc[p] \in {"loadPub"} \union Up => priv \in Nat /\ loaded[p].priv = priv
             /\ pc[p] \in Up => loaded[p].pub = priv

LEMMA KeyInit == Init => KeyInv
<1> SUFFICES ASSUME Init PROVE KeyInv
  OBVIOUS
<1>1. \A p \in Procs : pc[p] = "off"
  BY DEF Init
<1>2. priv = Absent \/ (priv \in Nat /\ pub = priv)
  BY DEF Init
<1> QED BY <1>1, <1>2 DEF KeyInv, Section, Generating, Up, Writing, Loading

\* Steps that leave the files alone and bring nobody into the section.
LEMMA KeyKept ==
    ASSUME KeyInv, spoiled' = FALSE => spoiled = FALSE, UNCHANGED <<priv, pub>>,
           \A p \in Procs :
              /\ ~spoiled' /\ pc[p] \in Writing => pc'[p] = pc[p]
              /\ pc'[p] \in Section \union Up =>
                   /\ pc'[p] = pc[p] \/ {pc[p], pc'[p]} \subseteq Up
                   /\ fresh'[p] = fresh[p] /\ loaded'[p] = loaded[p]
              /\ pc'[p] \in {"load", "keyMissing"} /\ cfg'[p].dev =>
                   pc'[p] = pc[p] /\ cfg[p].dev
    PROVE  KeyInv'
<1> SUFFICES ASSUME ~spoiled' PROVE KeyInv'
  BY DEF KeyInv
<1> USE DEF Section, Generating, Writing, Loading, Up
<1>1. \A p \in Procs : /\ pc'[p] \in Generating => pc[p] = pc'[p]
                       /\ pc'[p] \in Section \union Up => pc[p] \in Section \union Up
                       /\ pc'[p] \in {"loadPub"} \union Up => pc[p] \in {"loadPub"} \union Up
                       /\ pc'[p] \in Up => pc[p] \in Up
                       /\ pc'[p] \in Writing <=> pc[p] \in Writing
  OBVIOUS
<1> QED BY <1>1 DEF KeyInv

LEMMA KeyNext == TypeOK /\ KeyInv /\ [Next]_vars => KeyInv'
<1> SUFFICES ASSUME TypeOK, KeyInv, [Next]_vars, ~spoiled' PROVE KeyInv'
  BY DEF KeyInv
<1> USE DEF Step, Section, Generating, Writing, Loading, Up
<1>1. CASE UNCHANGED vars
  BY <1>1 DEF vars, KeyInv
<1>2. ASSUME NEW p \in Procs, NEW c \in Configs, Start(p, c) PROVE KeyInv'
  <2>1. /\ pc'[p] \in {"connect", "exit2"} /\ pc[p] \in {"off"} \union Ended
        /\ \A q \in Procs : q # p => /\ pc'[q] = pc[q] /\ fresh'[q] = fresh[q]
                                 /\ loaded'[q] = loaded[q] /\ cfg'[q] = cfg[q]
    BY <1>2 DEF Start, TypeOK
  <2> QED BY <1>2, <2>1, KeyKept DEF Start, Ended
<1>3. ASSUME NEW p \in Procs, Connect(p) PROVE KeyInv'
  BY <1>3 DEF Connect, KeyInv, TypeOK
<1>4. ASSUME NEW p \in Procs, Lock(p) \/ Mark(p) \/ Apply(p) \/ Clean(p) \/ Unlock(p) PROVE KeyInv'
  BY <1>4, KeyKept DEF Lock, Mark, Apply, Clean, Unlock, TypeOK
<1>5. ASSUME NEW p \in Procs, FindKeys(p) PROVE KeyInv'
  <2>1. /\ ~spoiled /\ pc[p] = "keys" /\ pc'[p] \in {"generate", "load"}
        /\ pc'[p] = "generate" => priv = Absent
        /\ \A q \in Procs : q # p => pc'[q] = pc[q]
        /\ \A q \in Procs : pc[q] \notin Generating
        /\ pc'[p] = "generate" => \A q \in Procs : pc[q] \notin Section
        /\ UNCHANGED <<priv, pub, fresh, loaded, cfg>>
        /\ pc'[p] = "load" /\ cfg[p].dev => priv # Absent
    BY <1>5 DEF FindKeys, TypeOK
  <2>2. priv = Absent => \A q \in Procs : pc[q] \notin Up
    BY <2>1, BoundAssumption DEF KeyInv
  <2> QED BY <2>1, <2>2 DEF KeyInv
<1>6. ASSUME NEW p \in Procs, OpenPrivate(p) PROVE KeyInv'
  BY <1>6 DEF OpenPrivate, KeyInv, TypeOK
<1>7. ASSUME NEW p \in Procs, WritePrivate(p) PROVE KeyInv'
  BY <1>7 DEF WritePrivate, KeyInv, TypeOK
<1>8. ASSUME NEW p \in Procs, OpenPublic(p) PROVE KeyInv'
  BY <1>8 DEF OpenPublic, KeyInv, TypeOK
<1>9. ASSUME NEW p \in Procs, WritePublic(p) PROVE KeyInv'
  BY <1>9, BoundAssumption DEF WritePublic, KeyInv, TypeOK
<1>10. ASSUME NEW p \in Procs, LoadPrivate(p) PROVE KeyInv'
  <2>1. CASE priv = Absent
    <3>1. /\ pc[p] \in Loading /\ pc'[p] = "keyMissing" /\ UNCHANGED <<loaded, fresh, priv, pub, spoiled, cfg>>
          /\ \A q \in Procs : q # p => pc'[q] = pc[q]
      BY <1>10, <2>1, BoundAssumption DEF LoadPrivate, TypeOK
    <3>2. ~cfg[p].dev
      BY <1>10, <2>1, <3>1, BoundAssumption DEF LoadPrivate, KeyInv
    <3> QED BY <3>1, <3>2, KeyKept
  <2>2. CASE priv # Absent
    <3>1. /\ pc[p] \in Loading /\ pc'[p] = "loadPub" /\ UNCHANGED <<fresh, priv, pub, spoiled, cfg>>
          /\ priv \in Nat /\ loaded'[p].priv = priv
          /\ \A q \in Procs : q # p => pc'[q] = pc[q] /\ loaded'[q] = loaded[q]
      BY <1>10, <2>2 DEF LoadPrivate, TypeOK
    <3>2. \A q \in Procs : pc[q] \notin Generating /\ pc'[q] \notin Generating
      BY <3>1 DEF KeyInv
    <3>3. pc[p] = "loadPub" => loaded'[p].priv = loaded[p].priv
      BY <1>10, <2>2 DEF LoadPrivate, TypeOK
    <3>4. pc[p] = "load" <=> pc'[p] = "loadPub"
      BY <1>10, <2>2, <3>1 DEF LoadPrivate
    <3> QED BY <3>1, <3>2, <3>3, <3>4, BoundAssumption DEF KeyInv
  <2> QED BY <2>1, <2>2
<1>11. ASSUME NEW p \in Procs, LoadPublic(p) PROVE KeyInv'
  \* The private key was there and nobody is writing: so is the public key.
  <2>1. pub # Absent
    <3>1. ~spoiled /\ pc[p] = "loadPub"
      BY <1>11 DEF LoadPublic
    <3>2. priv \in Nat /\ \A q \in Procs : pc[q] \notin Writing
      BY <3>1 DEF KeyInv
    <3> QED BY <3>1, <3>2, BoundAssumption DEF KeyInv
  <2>2. CASE pub # Absent
    <3>1. /\ pc[p] \in Loading /\ pc'[p] = "serving" /\ UNCHANGED <<fresh, priv, pub, spoiled, cfg>>
          /\ pub \in Nat /\ loaded'[p].pub = pub
          /\ \A q \in Procs : q # p => pc'[q] = pc[q] /\ loaded'[q] = loaded[q]
      BY <1>11, <2>2 DEF LoadPublic, TypeOK
    <3>2. \A q \in Procs : pc[q] \notin Generating /\ pc'[q] \notin Generating
      BY <3>1 DEF KeyInv
    <3>3. pc[p] = "loadPub" => loaded'[p].priv = loaded[p].priv
      BY <1>11, <2>2 DEF LoadPublic, TypeOK
    <3>4. pc[p] = "load" <=> pc'[p] = "loadPub"
      BY <1>11, <2>2, <3>1 DEF LoadPublic
    <3> QED BY <3>1, <3>2, <3>3, <3>4, BoundAssumption DEF KeyInv
  <2> QED BY <2>1, <2>2
<1>12. ASSUME NEW p \in Procs, Shutdown(p) \/ ListenerFails(p) \/ Drain(p) PROVE KeyInv'
  <2>1. /\ pc[p] \in Up /\ pc'[p] \in Up \union {"exit0", "exit1"}
        /\ \A q \in Procs : q # p => pc'[q] = pc[q]
        /\ UNCHANGED <<fresh, loaded, priv, pub, spoiled, cfg>>
    BY <1>12 DEF Shutdown, ListenerFails, Drain, TypeOK
  <2> QED BY <2>1, KeyKept
<1>13. ASSUME NEW p \in Procs, Signal(p) \/ Arrive(p) \/ Answer(p) PROVE KeyInv'
  BY <1>13 DEF Signal, Arrive, Answer, KeyInv, TypeOK
<1>14. ASSUME NEW p \in Procs, Fail(p) \/ Kill(p) PROVE KeyInv'
  <2>1. PICK how \in {"exit1", "killed"} : End(p, how)
    BY <1>14 DEF Fail, Kill
  <2>2. /\ pc'[p] = how /\ pc[p] \notin Writing /\ spoiled' = spoiled
        /\ \A q \in Procs : q # p => pc'[q] = pc[q]
    BY <2>1 DEF End, TypeOK
  <2> QED BY <2>1, <2>2, KeyKept DEF End, Ended
<1>15. CASE ForceVersion
  BY <1>15 DEF ForceVersion, KeyInv, TypeOK
<1> HIDE DEF Step
<1> QED BY <1>1, <1>2, <1>3, <1>4, <1>5, <1>6, <1>7, <1>8, <1>9, <1>10, <1>11, <1>12, <1>13,
           <1>14, <1>15 DEF Next, Proceed

\* Without an interrupted or overlapping generation all processes that serve use the
\* one pair in the files.
THEOREM ServersShareOneKeyPair == Spec => []OneKeyPair
<1>1. TypeOK /\ KeyInv => OneKeyPair
  <2> SUFFICES ASSUME TypeOK, KeyInv, NEW p \in Procs, pc[p] \in Up, ~spoiled
               PROVE  loaded[p].priv = priv /\ loaded[p].pub = priv /\ pub = priv
    BY DEF OneKeyPair
  <2>1. \A q \in Procs : pc[q] \notin Writing
    BY DEF KeyInv, Generating, Writing, Up
  <2>2. priv # Absent
    BY BoundAssumption DEF KeyInv
  <2> QED BY <2>1, <2>2 DEF KeyInv
<1> QED BY <1>1, TypeInit, TypeNext, KeyInit, KeyNext, PTL DEF Spec

\* In development only an interrupted or overlapping generation makes a start end for
\* want of a key file.
THEOREM KeysAreFound == Spec => []UndisturbedStartFindsKeys
<1>1. KeyInv => UndisturbedStartFindsKeys
  BY DEF KeyInv, UndisturbedStartFindsKeys
<1> QED BY <1>1, TypeInit, TypeNext, KeyInit, KeyNext, PTL DEF Spec

-----------------------------------------------------------------------------
(* Progress: what the other processes and the operator change does not     *)
(* lengthen a start.                                                       *)

\* Each step of a process lowers its rank, and what others do while it migrates is
\* kept out by the lock.
LEMMA RankFalls ==
    ASSUME TypeOK, NEW p \in Procs, pc[p] \in Running, pc'[p] # pc[p], [Next]_vars
    PROVE  Rank(p)' < Rank(p)
<1> USE DEF Step, Running, Starting, Up, Loading, Writing, Ended, Migrating
<1>1. /\ Migrations \in Nat /\ version \in 0 .. Migrations
      /\ Rank(p) \in Nat \ {0}
  <2>1. Migrations \in Nat /\ version \in 0 .. Migrations
    BY BoundAssumption DEF TypeOK
  <2>2. 3 * (Migrations - version) \in Nat /\ 3 * Migrations \in Nat
    BY <2>1
  <2>3. /\ pc[p] = "migrating" => Rank(p) = 3 * (Migrations - version) + 10
        /\ pc[p] = "applied" => Rank(p) = 3 * (Migrations - version) + 11
        /\ pc[p] = "marked" => Rank(p) = 3 * (Migrations - version) + 12
        /\ pc[p] = "migrate" => Rank(p) = 3 * Migrations + 11
        /\ pc[p] = "connect" => Rank(p) = 3 * Migrations + 12
    BY DEF Rank
  <2>4. pc[p] \in Writing \union Loading \union Up \union {"keys", "generate"} => Rank(p) \in 1 .. 9
    BY DEF Rank
  <2> QED BY <2>1, <2>2, <2>3, <2>4
<1>2. ASSUME NEW q \in Procs, NEW c \in Configs, Start(q, c) PROVE FALSE
  BY <1>2 DEF Start, TypeOK
<1>3. CASE pc'[p] \in Ended
  BY <1>1, <1>3 DEF Rank
<1>4. ASSUME NEW q \in Procs, Fail(q) \/ Kill(q) PROVE pc'[p] \in Ended
  BY <1>4 DEF Fail, Kill, End, TypeOK
<1>5. ASSUME NEW q \in Procs, Signal(q) \/ Arrive(q) \/ Answer(q) \/ ForceVersion PROVE FALSE
  BY <1>5 DEF Signal, Arrive, Answer, ForceVersion
<1>6. ASSUME NEW q \in Procs, Proceed(q) \/ ListenerFails(q) PROVE Proceed(p) \/ ListenerFails(p)
  <2>1. q = p
    BY <1>6 DEF Proceed, ListenerFails, Connect, Lock, Mark, Apply, Clean, Unlock, FindKeys,
       OpenPrivate, WritePrivate, OpenPublic, WritePublic, LoadPrivate, LoadPublic, Shutdown,
       Drain, TypeOK
  <2> QED BY <1>6, <2>1
<1>7. ASSUME Connect(p) PROVE Rank(p)' < Rank(p)
  BY <1>1, <1>7 DEF Connect, TypeOK, Rank
<1>8. ASSUME Lock(p) \/ Unlock(p) PROVE Rank(p)' < Rank(p)
  BY <1>1, <1>8 DEF Lock, Unlock, TypeOK, Rank
<1>9. ASSUME Mark(p) \/ Apply(p) \/ Clean(p) PROVE Rank(p)' < Rank(p)
  <2>1. CASE Mark(p)
    <3>1. /\ pc[p] = "migrating" /\ pc'[p] = "marked" /\ version' = version + 1
      BY <2>1 DEF Mark, TypeOK
    <3> QED BY ONLY <1>1, <3>1 DEF Rank
  <2>2. CASE Apply(p)
    BY <1>1, <2>2 DEF Apply, TypeOK, Rank
  <2>3. CASE Clean(p)
    BY <1>1, <2>3 DEF Clean, TypeOK, Rank
  <2> QED BY <1>9, <2>1, <2>2, <2>3
<1>10. ASSUME FindKeys(p) \/ OpenPrivate(p) \/ WritePrivate(p) \/ OpenPublic(p) \/ WritePublic(p)
       PROVE  Rank(p)' < Rank(p)
  BY <1>1, <1>10 DEF FindKeys, OpenPrivate, WritePrivate, OpenPublic, WritePublic, TypeOK, Rank
<1>11. ASSUME LoadPrivate(p) \/ LoadPublic(p) PROVE Rank(p)' < Rank(p)
  BY <1>1, <1>11 DEF LoadPrivate, LoadPublic, TypeOK, Rank
<1>12. ASSUME Shutdown(p) \/ ListenerFails(p) \/ Drain(p) PROVE Rank(p)' < Rank(p)
  BY <1>1, <1>12 DEF Shutdown, ListenerFails, Drain, TypeOK, Rank
<1>13. ASSUME Proceed(p) \/ ListenerFails(p) PROVE Rank(p)' < Rank(p)
  BY <1>13, <1>7, <1>8, <1>9, <1>10, <1>11, <1>12 DEF Proceed
<1> HIDE DEF Step
<1> QED BY <1>2, <1>3, <1>4, <1>5, <1>6, <1>13 DEF Next, vars

\* No start goes in circles, for any number of migrations, processes and restarts.
THEOREM StartsGoForward == Spec => OnlyForward
<1>1. TypeOK /\ [Next]_vars =>
        [\A p \in Procs : pc[p] \in Running /\ pc'[p] # pc[p] => Rank(p)' < Rank(p)]_vars
  BY RankFalls
<1> QED BY <1>1, TypeInit, TypeNext, PTL DEF Spec, OnlyForward
=============================================================================
