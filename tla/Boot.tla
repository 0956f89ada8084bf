-------------------------------- MODULE Boot --------------------------------
(***************************************************************************)
(* The life of a process: main, config.Load, database.NewPool, MigrateUp,  *)
(* auth.LoadKeys, server.New, serving and Shutdown.  Several processes may *)
(* start at once; they share the database schema with its migration table  *)
(* and advisory lock, and the two key files.  A process may be killed or   *)
(* fail between any two steps; what it wrote stays, its lock is released.  *)
(***************************************************************************)
EXTENDS Integers, FiniteSets

CONSTANTS
    Procs,
    Configs,      \* the configurations a process may be started with
    Migrations,   \* how many up-migrations there are
    Torn, Absent, \* contents of a key file: truncated, no file
    None,         \* nobody holds the lock
    MaxStarts,    \* bound on process starts
    MaxInFlight   \* bound on requests in flight in a process

Config == [dev : BOOLEAN, auto : BOOLEAN]

ASSUME ConfigAssumption == Configs \subseteq Config
ASSUME BoundAssumption ==
    /\ Migrations \in Nat /\ MaxStarts \in Nat /\ MaxInFlight \in Nat
    /\ None \notin Procs /\ Torn \notin Nat /\ Absent \notin Nat /\ Torn # Absent

VARIABLES
    pc,         \* where each process stands in main
    cfg,        \* dev: env # "production", auto: db.auto_migrate
    signalled,  \* SIGINT or SIGTERM arrived: rootCtx is done
    inflight,   \* requests in its handlers
    fresh,      \* the key pair it generated; key pairs are numbered, 0 is the supplied one
    loaded,     \* the private and public key it read
    priv, pub,  \* the key files: a number, Torn or Absent
    lock,       \* the advisory lock of golang-migrate
    version, dirty, \* table schema_migrations
    ran,        \* how often each migration took effect
    made,       \* key pairs generated so far
    starts,     \* processes started so far
    spoiled     \* history: a generation of keys was cut short or ran beside another start

files == <<fresh, loaded, priv, pub, made, spoiled>>
schema == <<lock, version, dirty, ran>>
run == <<cfg, signalled, inflight, starts>>
vars == <<pc, files, schema, run>>

Migrating == {"migrating", "marked", "applied"}
Writing == {"privTorn", "half", "pubTorn"}
Loading == {"load", "loadPub"}
Up == {"serving", "draining"}
Starting == {"connect", "migrate", "keys", "generate"} \union Migrating \union Writing \union Loading
Running == Starting \union Up
\* "keyMissing" is an exit with status 1 because LoadKeys did not find a file.
Ended == {"exit0", "exit1", "exit2", "keyMissing", "killed"}

File == Nat \union {Torn, Absent}
Step(p, from, to) == pc[p] = from /\ pc' = [pc EXCEPT ![p] = to]

\* The lock is held by the process that migrates, and by nobody else.
TypeOK ==
    /\ pc \in [Procs -> {"off"} \union Running \union Ended]
    /\ cfg \in [Procs -> Config]
    /\ signalled \in [Procs -> BOOLEAN]
    /\ inflight \in [Procs -> 0 .. MaxInFlight]
    /\ fresh \in [Procs -> Nat]
    /\ loaded \in [Procs -> [priv : Nat, pub : Nat]]
    /\ priv \in File /\ pub \in File /\ made \in Nat /\ spoiled \in BOOLEAN
    /\ lock \in Procs \union {None}
    /\ \A p \in Procs : pc[p] \in Migrating <=> lock = p
    /\ version \in 0 .. Migrations /\ dirty \in BOOLEAN
    /\ ran \in [1 .. Migrations -> Nat]
    /\ starts \in 0 .. MaxStarts

\* No keys yet, a supplied pair, or a public key left from earlier.
Init ==
    /\ pc = [p \in Procs |-> "off"]
    /\ cfg = [p \in Procs |-> [dev |-> FALSE, auto |-> FALSE]]
    /\ signalled = [p \in Procs |-> FALSE] /\ inflight = [p \in Procs |-> 0]
    /\ fresh = [p \in Procs |-> 0] /\ loaded = [p \in Procs |-> [priv |-> 0, pub |-> 0]]
    /\ priv \in {Absent, 0} /\ pub \in {Absent, 0} /\ (priv = 0 => pub = 0)
    /\ lock = None /\ version = 0 /\ dirty = FALSE
    /\ ran = [m \in 1 .. Migrations |-> 0]
    /\ made = 0 /\ starts = 0 /\ spoiled = FALSE

-----------------------------------------------------------------------------
(* Start, configuration and connection. *)

\* config.Load and logger.New; either may fail, which is a panic.
Start(p, c) ==
    /\ pc[p] \in {"off"} \union Ended
    /\ starts < MaxStarts
    /\ starts' = starts + 1
    /\ \E to \in {"connect", "exit2"} : pc' = [pc EXCEPT ![p] = to]
    /\ cfg' = [cfg EXCEPT ![p] = c]
    /\ signalled' = [signalled EXCEPT ![p] = FALSE]
    /\ inflight' = [inflight EXCEPT ![p] = 0]
    /\ fresh' = [fresh EXCEPT ![p] = 0]
    /\ loaded' = [loaded EXCEPT ![p] = [priv |-> 0, pub |-> 0]]
    /\ UNCHANGED <<priv, pub, made, spoiled, schema>>

\* NewPool pings under rootCtx: a signal by now is a failure to connect.
Connect(p) ==
    /\ ~signalled[p]
    /\ Step(p, "connect", IF cfg[p].auto THEN "migrate" ELSE "keys")
    /\ UNCHANGED <<files, schema, run>>

-----------------------------------------------------------------------------
(* MigrateUp: the whole of it under the advisory lock, deaf to signals. *)

\* Mutant: the dirty flag is not looked at.
LockIgnoringDirty(p) ==
    /\ lock = None
    /\ lock' = p
    /\ Step(p, "migrate", "migrating")
    /\ UNCHANGED <<files, version, dirty, ran, run>>

\* m.Up takes the lock and refuses a dirty schema.
Lock(p) ==
    /\ lock = None /\ ~dirty
    /\ lock' = p
    /\ Step(p, "migrate", "migrating")
    /\ UNCHANGED <<files, version, dirty, ran, run>>

\* SetVersion(version + 1, dirty), in a transaction of its own.
Mark(p) ==
    /\ version < Migrations
    /\ version' = version + 1 /\ dirty' = TRUE
    /\ Step(p, "migrating", "marked")
    /\ UNCHANGED <<files, lock, ran, run>>

\* The statements of a migration file are one implicit transaction.
Apply(p) ==
    /\ ran' = [ran EXCEPT ![version] = @ + 1]
    /\ Step(p, "marked", "applied")
    /\ UNCHANGED <<files, lock, version, dirty, run>>

Clean(p) ==
    /\ dirty' = FALSE
    /\ Step(p, "applied", "migrating")
    /\ UNCHANGED <<files, lock, version, ran, run>>

\* Up is done, or there was nothing to do (ErrNoChange).
Unlock(p) ==
    /\ version = Migrations
    /\ lock' = None
    /\ Step(p, "migrating", "keys")
    /\ UNCHANGED <<files, version, dirty, ran, run>>

-----------------------------------------------------------------------------
(* LoadKeys. *)

Section == Loading \union Writing \union {"generate"}

\* Mutant: the public key file is looked for.
FindKeysByPublic(p) ==
    LET to == IF cfg[p].dev /\ pub = Absent THEN "generate" ELSE "load"
        beside == {q \in Procs : pc[q] \in Section}
    IN  /\ Step(p, "keys", to)
        /\ spoiled' = (spoiled \/ \E q \in beside : "generate" \in {to, pc[q]} \/ pc[q] \in Writing)
        /\ UNCHANGED <<fresh, loaded, priv, pub, made, schema, run>>

\* Only the private key file is looked for, and only outside production.
FindKeys(p) ==
    LET to == IF cfg[p].dev /\ priv = Absent THEN "generate" ELSE "load"
        beside == {q \in Procs : pc[q] \in Section}
    IN  /\ Step(p, "keys", to)
        /\ spoiled' = (spoiled \/ \E q \in beside : "generate" \in {to, pc[q]} \/ pc[q] \in Writing)
        /\ UNCHANGED <<fresh, loaded, priv, pub, made, schema, run>>

\* generateAndWrite: each WriteFile truncates, then writes.
OpenPrivate(p) ==
    /\ made' = made + 1
    /\ fresh' = [fresh EXCEPT ![p] = made + 1]
    /\ priv' = Torn
    /\ Step(p, "generate", "privTorn")
    /\ UNCHANGED <<loaded, pub, spoiled, schema, run>>

WritePrivate(p) ==
    /\ priv' = fresh[p]
    /\ Step(p, "privTorn", "half")
    /\ UNCHANGED <<fresh, loaded, pub, made, spoiled, schema, run>>

\* Mutant: a public key that is there already is kept.
OpenPublicIfAbsent(p) ==
    /\ pub' = IF pub = Absent THEN Torn ELSE pub
    /\ Step(p, "half", IF pub = Absent THEN "pubTorn" ELSE "load")
    /\ UNCHANGED <<fresh, loaded, priv, made, spoiled, schema, run>>

OpenPublic(p) ==
    /\ pub' = Torn
    /\ Step(p, "half", "pubTorn")
    /\ UNCHANGED <<fresh, loaded, priv, made, spoiled, schema, run>>

WritePublic(p) ==
    /\ pub' = fresh[p]
    /\ Step(p, "pubTorn", "load")
    /\ UNCHANGED <<fresh, loaded, priv, made, spoiled, schema, run>>

\* A file that is absent ends the start here, one that does not parse in Fail.
LoadPrivate(p) ==
    /\ \/ priv \in Nat /\ Step(p, "load", "loadPub") /\ loaded' = [loaded EXCEPT ![p].priv = priv]
       \/ priv = Absent /\ Step(p, "load", "keyMissing") /\ UNCHANGED loaded
    /\ UNCHANGED <<fresh, priv, pub, made, spoiled, schema, run>>

\* Mutant: a public key that is missing sends the start back to generate the pair.
LoadPublicOrGenerate(p) ==
    /\ \/ pub \in Nat /\ Step(p, "loadPub", "serving") /\ loaded' = [loaded EXCEPT ![p].pub = pub]
       \/ pub = Absent /\ Step(p, "loadPub", "generate") /\ UNCHANGED loaded
    /\ UNCHANGED <<fresh, priv, pub, made, spoiled, schema, run>>

\* The second key is there as well: server.New registers the routes and main serves.
LoadPublic(p) ==
    /\ \/ pub \in Nat /\ Step(p, "loadPub", "serving") /\ loaded' = [loaded EXCEPT ![p].pub = pub]
       \/ pub = Absent /\ Step(p, "loadPub", "keyMissing") /\ UNCHANGED loaded
    /\ UNCHANGED <<fresh, priv, pub, made, spoiled, schema, run>>

-----------------------------------------------------------------------------
(* Serving and stopping. *)

Signal(p) ==
    /\ pc[p] \in Running /\ ~signalled[p]
    /\ signalled' = [signalled EXCEPT ![p] = TRUE]
    /\ UNCHANGED <<pc, cfg, inflight, starts, files, schema>>

Arrive(p) ==
    /\ pc[p] = "serving" /\ inflight[p] < MaxInFlight
    /\ inflight' = [inflight EXCEPT ![p] = @ + 1]
    /\ UNCHANGED <<pc, cfg, signalled, starts, files, schema>>

Answer(p) ==
    /\ pc[p] \in Up /\ inflight[p] > 0
    /\ inflight' = [inflight EXCEPT ![p] = @ - 1]
    /\ UNCHANGED <<pc, cfg, signalled, starts, files, schema>>

\* The select in main: a signal, at whatever point of the start it came.
Shutdown(p) ==
    /\ signalled[p]
    /\ Step(p, "serving", "draining")
    /\ UNCHANGED <<files, schema, run>>

\* The listener failed: main goes on as for a signal, and exits with 0 if it can drain.
ListenerFails(p) ==
    /\ Step(p, "serving", "draining")
    /\ UNCHANGED <<files, schema, run>>

\* Mutant: Shutdown gets a context without a timeout.
DrainForever(p) ==
    /\ inflight[p] = 0
    /\ Step(p, "draining", "exit0")
    /\ UNCHANGED <<files, schema, run>>

\* Shutdown waits for the handlers until ShutdownTimeout.
Drain(p) ==
    /\ Step(p, "draining", IF inflight[p] = 0 THEN "exit0" ELSE "exit1")
    /\ UNCHANGED <<files, schema, run>>

\* The process ends at once; PostgreSQL drops its session and with it the lock.
End(p, how) ==
    /\ pc' = [pc EXCEPT ![p] = how]
    /\ lock' = IF lock = p THEN None ELSE lock
    /\ spoiled' = (spoiled \/ pc[p] \in Writing)
    /\ UNCHANGED <<fresh, loaded, priv, pub, made, version, dirty, ran, run>>

\* Mutant: a failed migration is logged and the start goes on.
FailUnlessMigrating(p) ==
    /\ pc[p] \in Starting \ {"keys"}
    /\ End(p, IF pc[p] \in Migrating THEN "keys" ELSE "exit1")

\* log.Fatal: the ping, the lock and its timeout, a dirty schema, a migration, a key
\* file that cannot be written, read or parsed.
Fail(p) ==
    /\ pc[p] \in Starting \ {"keys"}
    /\ End(p, "exit1")

\* Mutant: a session that outlives its process keeps the lock.
KillKeepingLock(p) ==
    /\ pc[p] \in Running
    /\ pc' = [pc EXCEPT ![p] = "killed"]
    /\ spoiled' = (spoiled \/ pc[p] \in Writing)
    /\ UNCHANGED <<fresh, loaded, priv, pub, made, schema, run>>

Kill(p) ==
    /\ pc[p] \in Running
    /\ End(p, "killed")

\* make migrate-force, once nobody migrates: the operator looks up what was applied.
ForceVersion ==
    /\ dirty /\ lock = None
    /\ dirty' = FALSE
    /\ version' = Cardinality({m \in 1 .. Migrations : ran[m] > 0})
    /\ UNCHANGED <<pc, files, lock, ran, run>>

-----------------------------------------------------------------------------
\* What a process does next when nothing goes wrong.
Proceed(p) ==
    \/ Connect(p)
    \/ Lock(p) \/ Mark(p) \/ Apply(p) \/ Clean(p) \/ Unlock(p)
    \/ FindKeys(p) \/ OpenPrivate(p) \/ WritePrivate(p) \/ OpenPublic(p) \/ WritePublic(p)
    \/ LoadPrivate(p) \/ LoadPublic(p)
    \/ Shutdown(p) \/ Drain(p)

Next ==
    \/ \E p \in Procs :
         \/ \E c \in Configs : Start(p, c)
         \/ Proceed(p) \/ Fail(p) \/ Kill(p)
         \/ Signal(p) \/ Arrive(p) \/ Answer(p) \/ ListenerFails(p)
    \/ ForceVersion

Spec == Init /\ [][Next]_vars

\* A process that can go on or must give up does one of the two: calls into the file
\* system and the database return, waiting for the lock and Shutdown have timeouts.
FairSpec == Spec /\ \A p \in Procs : WF_vars(Proceed(p) \/ Fail(p))

-----------------------------------------------------------------------------
(* Properties. *)

\* MigrateUp before server.New: a process that migrates serves only on the complete
\* schema, whoever applied it and however often earlier starts broke off.
ServesOnCurrentSchema ==
    \A p \in Procs : (pc[p] \in Up /\ cfg[p].auto) =>
        version = Migrations /\ ~dirty /\ \A m \in 1 .. Migrations : ran[m] > 0

\* Every migration takes effect once and in order, across simultaneous starts, kills
\* between any two steps and an operator's repair.
MigrationsRunOnce ==
    \A m \in 1 .. Migrations : ran[m] <= 1 /\ (ran[m] = 1 => \A l \in 1 .. m : ran[l] = 1)

\* Unless a generation was cut short or ran beside another start, every process that
\* serves signs and verifies with one and the same pair, the one in the files.
OneKeyPair ==
    \A p \in Procs : pc[p] \in Up /\ ~spoiled =>
        loaded[p].priv = priv /\ loaded[p].pub = priv /\ pub = priv

\* What is left of the promise below: only a generation that was cut short or ran beside
\* another start makes a later start in development end for want of a key file.
UndisturbedStartFindsKeys ==
    ~spoiled => \A p \in Procs : cfg[p].dev => pc[p] # "keyMissing"

\* "In non-production environments a missing pair is generated on the fly": a start
\* in development never ends for want of a key file.
DevStartFindsKeys == \A p \in Procs : cfg[p].dev => pc[p] # "keyMissing"

\* How many steps a process has before it at most.
Rank(p) ==
    CASE pc[p] \in {"off"} \union Ended -> 0
      [] pc[p] = "draining" -> 1   [] pc[p] = "serving" -> 2
      [] pc[p] = "loadPub" -> 3    [] pc[p] = "load" -> 4
      [] pc[p] = "pubTorn" -> 5    [] pc[p] = "half" -> 6
      [] pc[p] = "privTorn" -> 7   [] pc[p] = "generate" -> 8
      [] pc[p] = "keys" -> 9
      [] pc[p] = "migrating" -> 3 * (Migrations - version) + 10
      [] pc[p] = "applied" -> 3 * (Migrations - version) + 11
      [] pc[p] = "marked" -> 3 * (Migrations - version) + 12
      [] pc[p] = "migrate" -> 3 * Migrations + 11
      [] pc[p] = "connect" -> 3 * Migrations + 12

\* No start goes in circles: whatever other processes and the operator do to the schema
\* and the key files meanwhile, each step a process takes brings it nearer to its end.
OnlyForward == [][\A p \in Procs : pc[p] \in Running /\ pc'[p] # pc[p] => Rank(p)' < Rank(p)]_vars

\* A process that was signalled stops, wherever it was and whatever its handlers do.
SignalledStops ==
    \A p \in Procs : (pc[p] \in Running /\ signalled[p]) ~> (pc[p] \in Ended)
=============================================================================
