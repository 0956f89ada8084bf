# Verification of jst-go

TLA+ models of the parts of jst-go that carry state: the WebSocket hub, the
sessions built on refresh tokens and the HTTP surface in front of them, nested
transactions, the rate limiter, the paged list of users, and a process's life from
migrations and key files to shutdown. TLC runs check them on small instances;
TLAPS proofs settle the safety properties for every instance.

    tlc -workers 2 -config hub_safety.cfg MCWsHub     # one run
    tlapm WsHubProofs.tla                             # the proofs of one module

`PROJECT.json` lists components, runs, the mutant that shows each property can
fail, the source lines behind every definition, findings, hazards and theorems.

## 1. The system

jst-go is a Go HTTP server (gin, pgx, sqlc, RS256 JWTs) with a WebSocket
endpoint. A request passes the middleware chain (request id, recovery, logger,
CORS, rate limit, body limit, timeout), for protected routes `Auth` and
`RequireRole`, and reaches a handler that calls a usecase. Usecases share only
the PostgreSQL database, through `database.Store`; the hub shares channels with
the goroutines of its connections.

| Component | State | Operations | Hard behaviour | What makes it correct |
|---|---|---|---|---|
| WebSocket hub (`internal/modules/ws`) | `clients`, `byUser`, `rooms`, `Client.rooms`; channels `register`, `unregister`, `broadcast` (256), `roomCmd` (64), `Client.send` (16); the sockets | `Connect`, `readPump`, `writePump`, `Broadcast`, `SendToUser`, `BroadcastToRoom`, `JoinUser`, `LeaveUser`, `Run` | two goroutines per connection and one hub; bounded queues; slow and dead peers; a random `select`; shutdown | the indexes agree; never a send on or second close of a closed channel; the right audience, in order, without silent gaps; no deadlock; dead connections are reaped; shutdown closes all |
| Sessions (`internal/modules/auth`) | table `refresh_tokens`, the tokens callers hold | `Register`, `Login`, `Refresh`, `Logout`, `RevokeAllForUser`, `DeleteExpiredRefreshTokens` | statements of concurrent requests interleave; a statement fails, or its answer is lost | dead tokens buy nothing; rotation; fresh roles; a session ends only for its own reasons |
| Users (`internal/modules/user`) | table `users` | `Register`, `Authenticate`, `GetByID`, `UpdateName`, `SetRole`, `Delete`, `List` | unique email; deletion cascades; page and count are two statements | no tokens without an account; pages and totals that fit |
| Transactions (`shared/database/store.go`) | the transaction in a context, its savepoints, the pooled connection | `Do`, `DB`, commit, rollback | nesting, panics, cancelled contexts, aborted transactions, lost commits | all or nothing; an inner failure undoes only the inner work; no connection goes back with a transaction open |
| Rate limiter (`shared/middleware/ratelimit.go`) | `visitors`: ip to limiter and time last seen | the middleware, the sweeper | eviction against refill | a per-ip token bucket |
| Key files (`auth/keys.go`) | two PEM files | `LoadKeys` | crash between two writes, two processes | a loaded pair matches; a start can succeed |
| Access control (`middleware/auth.go`, `routes.go`) | the request's user id and role | `Auth`, `RequireRole` | a chain that aborts; tokens that outlive a role | admin operations only for a token that said admin |
| Lifecycle (`cmd/api/main.go`, `internal/server`) | process state, root context, listener | start-up, signal, shutdown | drain, hijacked connections, failed listener | orderly shutdown within its time |
| Pool and migrations (`shared/database`) | `schema_migrations`, an advisory lock | `NewPool`, `MigrateUp` | two starts at once, a crash between two steps, a dirty schema | a migration takes effect once; serving only on the complete schema |
| The rest: config, logger, validator, httpx, the other middleware, generated code | none between requests, or a library's | | | in the modules only as far as they decide what runs (section 7) |

The hub and the usecases meet only in `Auth` in front of `/ws`; the rate limiter and
the timeout stand in front of every route; start-up hands the keys to the token
issuer, and the shutdown ends the hub's context.

## 2. Modules

| Module | Models | Runs |
|---|---|---|
| `WsHub` | the hub, the handshake, both pumps | `hub_safety`, `hub_live`, `hub_ghost` |
| `Fanout` | what the hub promises: the abstract specification `WsHub` implements | `hub_safety` (`ImplementsFanout`) |
| `Membership` | `WsHub` with a memory of the rooms each connection asked for | `hub_safety` (`LastWordHolds`) |
| `MCWsHub`, `MCMembership` | instances of the two | |
| `WsHubProofs` | theorems about `WsHub` | |
| `Sessions` | auth and user usecases over the two tables | `sessions_safety`, `sessions_replay` |
| `SessionBook` | what accounts and sessions promise: the abstract specification `Sessions` implements | `sessions_safety` (`ImplementsSessionBook`) |
| `MCSessions`, `SessionsProofs` | instances and theorems | |
| `StoreTx` | `Store.Do` with nested calls | `store_tx`, `store_release` |
| `NestedTx` | what `Do` promises: the abstract specification `StoreTx` implements | `store_tx` (`ImplementsNestedTx`) |
| `MCStoreTx`, `StoreTxProofs` | instances and theorems | |
| `WsStreamProofs` | theorems about order, privacy, `Fanout` and `Membership`, on top of `WsHubProofs` | |
| `RateLimit` | the limiter's map and its sweeper | `rate_limit` |
| `TokenBucket` | what the limiter promises: the abstract specification `RateLimit` implements | `rate_limit` (`ImplementsTokenBucket`) |
| `MCRateLimit`, `RateLimitProofs` | instances and theorems | |
| `Boot` | `main`, migrations, key files, serving, shutdown, of several processes | `boot`, `boot_keys` |
| `MCBoot`, `BootProofs` | instances and theorems | |
| `Listing` | `GET /users`, page after page | `listing` |
| `MCListing`, `ListingProofs` | instance and theorems | |
| `Gate` | routes, middleware and handlers; extends `Sessions` | `gate` |
| `MCGate`, `GateProofs` | instance and theorems, on top of `SessionsProofs` | |

### 2.1 WsHub

*State.* `clients`, `byUser`, `rooms` are the hub's maps (an absent key is the
empty set: `addTo` and `delFrom` create and prune the sets), `joined` is
`Client.rooms`. `broadcast`, `roomCmd` and `send` are the buffered channels as
sequences with the capacity as the guard of the sender; `register` and
`unregister` are unbuffered, so the send and its receive are one step, taken by
the hub in its select. `pc`, `cur` and `targets` are the control of `Run`: the
fan-out loop is one step per client, in any order as Go ranges over a map.
`handler`, `reader`, `inflight` and `writer` are the three goroutines of a
connection; `conn` is its socket. `panicked` means that a goroutine panicked and
took the process with it; nothing happens afterwards.

*Actions.* `Connect`, `HubRegister`, `StartPumps` are `Handler.Connect`;
`ReadJoin`, `ReadLeave`, `ReadChat` read a frame and decode it, `SendCommand` and
`SendChat` hand it to the hub (two steps: the second blocks on a full channel
while the world moves); `ReadFail` and `ReaderClose` end the pump; `WriterTake`,
`WriterSeesClose`, `WriterPingFails` are the select of `writePump`; `HubRegister`,
`HubUnregister`, `HubRoom`, `HubDispatch` with `HubDeliver`, and `HubStop` are the
five cases of `Run`. `PeerFail` is the network, `Cancel` the signal.

*Abstracted.* Payloads are message identities with a sender and an address.
`encode` and `decode` decide only which of join, leave, room message or message to
everyone a frame is. Time is not measured: a deadline on a failed socket passes
eventually, by fairness, and `PeerFail` covers a peer that stalls or breaks the
protocol. A handshake that is refused leaves no state.

### 2.2 Fanout

A queue of accepted messages, the live clients, the message being handed out with
those still to be served, and each client's stream. `Serve` either appends to the
stream or cuts the client off for good; there is no third possibility, and
`Dispatch` does not start while somebody is unserved. `Promise` in `WsHub` maps
`live` to `clients`, `stream` to what was received plus what is in the buffer, and
`todo` to the targets still registered (a ghost in a room is not a live client).

`Membership` adds one history variable to `WsHub` and changes nothing in it: `wanted`
takes up each join or leave at the moment a connection's `readPump` gets it into
`roomCmd`, while the hub handles it later.

### 2.3 Sessions

*State.* The two tables as functions from ids to rows or `None`; per request its
program counter and locals. Every action is one SQL statement with the checks
around it, because no usecase opens a transaction. `presented`, `given` are the
tokens requests were called with and returned; a token a caller never received can
never be presented, as it cannot be signed.

*Actions.* `StartRegister`, `StartLogin`, `StartRefresh` are the first statement
of a request, `CheckActive`, `LoadUser`, `Rotate`, `Issue` the following ones;
`Logout`, `RevokeAllForUser`, `SetRole`, `DeleteUser`, `DeleteExpired` are calls of
one statement; `Expire` is time. A statement can fail without effect (`Abort`) or
after its effect (the second disjunct of `Finish`): the connection breaks or the
request's deadline passes (`middleware.Timeout`). Unique emails, the foreign key
and ON DELETE CASCADE come from the migrations.

*Abstracted.* Password hashing and signatures: a login that reaches `Issue` knew
the password, and a token that verifies is one some call returned. Expiry is one
event for the JWT's `exp` and the row's `expires_at`.

*`SessionBook`* has no requests, statements or rows: accounts join and leave, a session
begins under a token never used before and ends alone or with all others of its
account. `Book` in `Sessions` maps a live session to a token that `IsActive` would
accept, and a dead one to a token that was issued and is not.

### 2.4 StoreTx

*State.* `stack` holds the open calls of one goroutine and `mode` says where the
innermost one stands: in its function, after it, or in the deferred function with
an error or a panic. `conn`, `pending`, `mark` are the server's side: the state of
the session, the writes of the open transaction, and what they were when each
savepoint was set. `txClosed` is the flag of a `pgx.Tx`, `ended` the contexts that
have ended, `visible` what is committed. `around`, `writer`, `inDoubt` are history.

*Actions.* `Begin` and `BeginFails` are `begin`; `Write`, `StatementFails`,
`ContextEnds`, `FnEnds` are what the function does or meets; `Commit` and
`CommitFails` are line 99; `DoFails` and `DoPanics` the deferred function, with
`Rollback` for `rollback`: it is sent without the context's cancellation and takes
a closed `pgx.Tx` for a success.

*Abstracted.* pgx and PostgreSQL are external; the module's head lists what is
assumed of them. A statement that writes is a member of `Writes`. One goroutine
only: the comment of `Do` forbids to fan the context out. A function always uses
the context it was given, not one of an outer call; `runtime.Goexit` inside the
function, which skips the deferred function's two cases, is left out. `Do` has no
caller in the repository but the tests, so any legal use of it is modelled.

*`NestedTx`* has no savepoints and no connection: each open call holds the writes made
in it, hands them outwards when it succeeds and takes them with it when it fails.
`Nested` in `StoreTx` computes what a call holds from the marks of the savepoints
around it (`Held`), and calls the transaction broken when the server has given it up.

### 2.5 RateLimit and TokenBucket

*State.* `visitors` is the map; an entry has the limiter's `tokens` as of its last
admission, the time since then (`age`) and since the visitor was seen (`idle`).
`window` is history: what one address spent since some moment.

*Actions.* The middleware and the sweeper hold the mutex throughout, so a request
is one step, `Allow` or `Deny`, and `Sweep` another. `Tick` is time. As in
`golang.org/x/time/rate`, a refusal leaves the limiter alone, an admission settles it.

*Abstracted.* The unit of time is what earns one credit, a request costs `Cost`
credits, so a rate is `1/Cost` requests per unit. Both clocks stop counting where it
makes no difference any more. The sweeper wakes every minute in the code, here at
any time. With `rps <= 0` the middleware is not installed and there is nothing to
model. `TokenBucket` is one bucket per address that is never forgotten; the
refinement maps an address without an entry to a full bucket.

### 2.6 Boot

*State.* Per process where it stands in `main`, its configuration (`dev` is
`env # "production"`, `auto` is `db.auto_migrate`), whether it was signalled, its
requests in flight and the keys it holds. Shared: the two key files, each a numbered
key, torn or absent, and golang-migrate's lock, version and dirty flag; `ran` counts
how often a migration took effect.

*Actions.* `Start`, `Connect`; `Lock`, `Mark`, `Apply`, `Clean`, `Unlock` are
`MigrateUp`; `FindKeys`, `OpenPrivate` to `WritePublic`, `LoadPrivate`, `LoadPublic`
are `LoadKeys` with a file truncated before it is written; `Arrive`, `Answer`,
`Signal`, `ListenerFails`, `Shutdown`, `Drain` the rest of `main`. `Fail` is every
`log.Fatal` of the start, `Kill` the loss of a process between any two steps: files
stay as they are, the lock goes with its session. `ForceVersion` is the operator's
`make migrate-force` on a dirty schema.

*Abstracted.* golang-migrate is external: the version is set dirty, the file's
statements run as one implicit transaction, the version is set clean. `MigrateDown`
has no caller. `Shutdown` waits for handlers, not for hijacked WebSocket
connections, so those are not in `inflight`; how the hub ends is in `WsHub`
(`StopClosesRegistered`). A listener that fails takes the same way out as a signal:
the process says that it stopped and exits with 0, as the code does.

### 2.7 Listing

*State.* The table as far as the list sees it: `created_at` and whether the row
matches the search. One client walks: `limit` and `rawOffset` are what it sends,
`page` and `total` the current response, `got` and `throughout` history.

*Actions.* `ListUsers` and `CountUsers` are two statements, each with its own
snapshot; `Respond` echoes the numbers as parsed, not as clamped, and the client
advances by the limit it was told. `Create`, `Delete`, `Rename` are other requests;
a rename may bring a row into the search or take it out. `Parse` is
`strconv.ParseInt(_, 10, 32)` with its error ignored, `ClampLimit` and
`ClampOffset` are the usecase's.

*Abstracted.* Rows with one `created_at` come in any order, and in another one on
the next page, as `ORDER BY created_at` alone allows. What the search compares is
left out. The client is the one the response is written for; it has no source.

### 2.8 Gate

*State.* On top of `Sessions`: `call`, the call a slot's handler is at work on, past
the middleware, with the kind of token it carried; `answer`, what the slot's last
response said; `lapsed`, requests whose access token ran out. `admins` is history.

*Actions.* `Admit` is `Auth`, `RequireRole` and the handler's parsing, judged once
when the call arrives; `Refuse` is every 401, 403, 400 and 429. Each handler behind
it is an action of its own that runs its statement later, after the account may
have been demoted, deleted or logged out: `Me`, `UpdateMe`, `DeleteMe`, `List`,
`GetByID`, `ChangeRole`, `Upgrade`. `HandlerFails` is a failed statement, an ended
context, or a panic that `Recovery` answers. `Register`, `Login`, `Refresh` and
`Logout` are those of `Sessions` behind their body checks. `Bootstrap` is the
`UPDATE` that `src/README.md` tells the operator to type for the first administrator.

*Abstracted.* A bearer string is nothing usable or one of the tokens some request
returned. Responses are done (2xx, 101), refused (4xx) or unknown (500).
`RevokeAllForUser` and `DeleteExpiredRefreshTokens` have no caller in the program
and so do not happen here; `Sessions` has them.

## 3. What the runs check

`TypeOK` is among the properties of `hub_safety` and `boot`, and `GateTypeOK`, which
contains that of `Sessions`, of `gate`. It is proved for every module with variables of
the code (section 5).

### hub_safety (about 1,240,000 states)

Two users with one connection each; both join and leave a room and talk, c1 may
fail; the server may send c1's user a private message; capacities 1 for `send`, 2
for `broadcast` and `roomCmd`; at most three inbound frames or calls. Three inputs
suffice for the shortest bad histories: fill a buffer, get dropped, then join or
receive again; two messages of one sender in the shared queue with a third in
between; a join and a leave with a command of the other connection between them.
The specification is `MemberSpec`, `WsHub` with the memory of `Membership`.

- `IndexConsistent`: `byUser` inverts the user of live clients, the two room
  indexes agree on live clients, and a registered connection is live exactly while
  its channel is open.
- `PanicOnlyFromGhost`: no double close, no send on a closed channel, save to a
  removed client that came back into a room.
- `SenderOrder`: one sender's messages reach each receiver in order.
- `PrivateDelivery`: `SendToUser(u)` reaches only u. The empty user id is excluded:
  the switch in `Run` treats it as "everyone", but nothing in the repository calls
  `SendToUser` without one.
- `MembersOnly`: a room message is queued only for a client in the room at that
  moment, although the message may have waited while the client left.
- `ImplementsFanout`: `WsHub` refines `Fanout`.
- `NobodyForgotten`: a client the hub serves has a `readPump` that will take it out,
  and a hub that has stopped leaves no registered connection's channel open. It is
  the part of `DeadConnectionReaped` and `StopClosesRegistered` that can go wrong at
  one moment.
- `LastWordHolds`: a live connection is in exactly the rooms it last asked for, as soon
  as none of its commands about the room is on its way. The server gives no commands
  here: whom `JoinUser` addresses is decided when it is handled, so it has no place in
  an order of requests.

The system may stop (cancelled, panicked, or out of inputs), so deadlock is off.

### hub_live (about 15,000 states)

Joins come from the server (`JoinUser`), as the comment in `handleInbound`
recommends. `NoGhosts`: rooms hold live clients only, and the hub never panics;
`DeadConnectionReaped`, `ReaderUnblocked`, `StopClosesRegistered`: the liveness of
reaping, of readers and of shutdown. Inputs are bounded by two, with channels of
capacity one: the second sender finds the channel full. The bound means TLC sees
histories in which everybody eventually falls silent; a peer that sends for ever
is not covered, and `ReaderUnblocked` is the property that would suffer. The
argument for it does not use silence, though: the hub never blocks, so a full
channel is emptied again and again.

### hub_ghost (a violation)

`RunsUntilCancelled` is the comment of `Run`. No peer fails here (`Frail` is empty),
so only the fan-out loop can take a client out. A client's join waits in `roomCmd`
while two messages to its user come in: the first fills its buffer of one, the second
finds it full and drops the client as slow (`hub.go:99`); `handleRoom` then puts the
closed client back into the room, and the next message to the room panics on its
closed channel. The join and the three messages are the four inputs of the bound.
A connection that dies with a join behind it in `roomCmd` and is unregistered first
(`hub.go:80-81`) gets to the same state. See the findings.

### sessions_safety (about 580,000 states) and sessions_replay

Three requests, two ids and emails, three tokens, one failed statement, one role change.
Three requests are the least that reach a refresh racing another refresh of the same
token; two accounts let a token outlive or be confused with another's. Requests, ids,
emails and tokens are interchangeable (`Interchangeable`), and all properties are
invariants or conditions on single steps that treat them alike (`ImplementsSessionBook`
has no fairness), so the symmetry is sound. More requests repeat the same races with
more spectators: two requests share state only through a token or an account, and three
already include the one that created both.

- `DeadTokenRejected`: a refresh that starts when its token is already rotated,
  logged out, expired, purged or gone never returns tokens.
- `RoleFresh`: the role in an issued token is one the account had while the
  request ran.
- `SessionKept`: a token presented to nobody, not logged out and not expired stays
  active while its account exists: no request ends another's session.
- `NoSessionWithoutAccount`: no token row without its account, in spite of
  deletions racing refreshes.
- `RotatedIsDead`: the token a refresh was called with is dead once that refresh has
  rotated, for good, whatever another refresh does with it. This is what is left of
  `ReplayRejected` below.
- `ImplementsSessionBook`: `Sessions` refines `SessionBook`.

`sessions_replay` checks `ReplayRejected`, the comment at the rotation ("so it
cannot be replayed"), and finds it violated: two concurrent refreshes with one
token both pass `IsActive` before either revokes.

### store_tx (about 3,900,000 states) and store_release

Four calls, nested up to three deep, and two writes. Three levels are the least at
which a call is both inside one and around another; the fourth call is a second
nested call beside the first, or a transaction after it; two writes tell what a
failed call loses from what its neighbour keeps. Every call may begin or not, end
each way, and lose its context or connection at each point. Calls and writes are
interchangeable, and all properties are invariants or conditions on single steps that
treat them alike, so the symmetry is sound. The goroutine stops when the calls are
used up.

- `SuccessIsKept`: a write made in calls that all returned nil is committed,
  whatever failed beside them.
- `FailureIsUndone`: no write of a failed call, or of a call inside it, is ever
  committed. The exceptions are named in `inDoubt`: an outermost commit that nobody
  answered, and a savepoint whose release failed.
- `NoConnectionLeak`: a goroutine outside of `Do` holds no connection.
- `ImplementsNestedTx`: `StoreTx` refines `NestedTx`, so a call's writes are its own
  until it returns.

`store_release` checks `InnerFailureUndone`, the comment of `Do` ("an inner failure
undoes only the inner work") without the second exception, and finds it violated:
when the release of a savepoint fails, `rollback` finds the savepoint closed and
sends nothing, and the failed inner call's writes are committed with the outer one.

### rate_limit (about 17,000 states)

Two addresses, a request every two units of time, a burst of two, an idle time of
three. The bucket is full again after four units, which is exactly when a visitor
may be dropped: one unit less and the properties fail (a mutant shows it). A second
address tells whether buckets are separate. Deadlock is checked: time never stops.

- `ImplementsTokenBucket`: forgetting a visitor cannot be told from keeping it.
- `WindowBound`: in any stretch of time an address is let through for the burst and
  what the stretch earned. Windows of up to five units hold a drop and a return.
- `IdleVisitorsForgotten`: the map does not keep an address that stays away.

The module `MCRateLimit` assumes `RefillsWhileIdle`. What a limiter promises without it
(`ForgettingBound`: the burst, the refill, and one unearned part of a bucket for each
idle time that passed) is proved and not run; with the assumption it is `WindowBound`,
since nothing is unearned. See section 5.

### boot (about 246,000 states) and boot_keys

Two processes, one for development with migrations, one for production without, two
migrations, three starts, one request in flight. Two migrations are the least where
a crash may leave one applied and the next not; three starts are two at once and a
restart, or a crash, a repair and another start. Starts are used up in the end, so
deadlock is off.

- `ServesOnCurrentSchema`, `MigrationsRunOnce`: across simultaneous starts, kills
  between any two steps and repairs by hand.
- `OneKeyPair`: all serving processes hold both halves of the pair in the files,
  unless a generation was cut short or ran beside another start.
- `UndisturbedStartFindsKeys`: with the same exception, no start in development ends
  for want of a key file: what is left of `DevStartFindsKeys` below.
- `OnlyForward`: each step of a process lowers a rank, computed from where it is and
  from the schema's version, whatever other processes, crashes and repairs do to the
  schema and the files. So no start goes round in circles.
- `SignalledStops`: a signal ends the process wherever it is, even if a handler
  never returns.

`boot_keys` checks `DevStartFindsKeys`, the comment of `LoadKeys` ("a missing pair
is generated on the fly"), and finds it violated: a process that dies between its
two files leaves a private key, and no later start generates the public one.

### listing (about 2,500,000 states)

Four accounts with four times, limits of at most two, a largest integer of five, two
changes; parameters below zero, zero, honoured, one too large and one beyond the
integers. Four rows under limits of one and two are two full pages and a page to
come; two changes can come before and between the statements. Walks end, so
deadlock is off.

- `TotalCoversPage`: no response shows rows beyond its own total, unless one left
  between the two statements.
- `WalkMissesNobody`: a walk with an honoured limit shows everyone who was in the
  result all along, unless a row left it or two rows share a time. New rows, and rows
  that a rename brings in, only push the others down.
- `WalkRepeatsNobody`: while the result stands as it stood at the start of the walk, no
  page shows an account an earlier one has shown. The walk must start at an offset
  that is not negative: from -1 the first page starts at row 0, but the client
  advances from the -1 that is echoed, and the second page overlaps the first.

With a limit the server replaces, the echo misleads the client: it advances by a
number that is not the page's length. The property therefore asks for an honoured
limit; no document of the repository promises more.

### gate (about 1,820,000 states)

The three requests of `sessions_safety` with two rows of tokens, one slot with two
calls, three changes of a role, and one end of a token (logout, expiry of the refresh
token or of the access token). Two accounts let one administrator make the other,
and be demoted or deleted before the other's call is judged. Of the three changes
one is by hand; the other two may be an administrator's demotion of himself or of
another, and a grant by somebody whose token is older than that. Failed statements of
the requests are left to `sessions_safety`; `HandlerFails` and lost answers of the
handlers are here. Calls are used up, so deadlock is off.

One slot means that no two handlers are at work at once. `RequireRole` reads nothing
but the token, which never changes, so that a demotion between the check and the
statement has the effect of one before the check, and the latter is in the run. That
is an argument about this code, not a check: several handlers in several slots are
in the proofs only (`AdministratorsDescend`).

- `GateTypeOK`: besides the types, a handler at work has a caller who showed an access
  token. A refresh token of the same account is signed by the same key, and only the
  `typ` claim tells them apart.
- `AdminsDescend`: every administrator, in the table or in a token, goes back to one
  made by hand.
- `AdminActsWithAuthority`: whoever gets to an admin handler was an administrator
  while the call that returned the access token ran. (He may not be one any more:
  the role is a claim of the token and nothing looks it up again.)
- `RefusalMeansNothingDone`: a call answered with a 4xx changed nothing.

## 4. Fairness

`hub_live`, `rate_limit` and `boot` use it. In `rate_limit` the sweeper is weakly
fair: `time.Tick` wakes it for ever, and nothing else is obliged to happen. In
`boot` each process goes on or fails (`FairSpec`): calls into the file system and
the database return, and `Shutdown` has its own timeout. That golang-migrate's wait
for the lock ends, with the lock or with an error, is an assumption about the library;
nothing in `src/` bounds it. No request is obliged to be answered, nor anybody to
start, signal, kill or repair.

In `hub_live` (`Fairness` in `WsHub`), a goroutine that can run does:
weak fairness for steps nobody else can disable (`HubDeliver`, `StartPumps`,
`ReadFail`, `ReaderClose`, the writer's steps). Channel operations get strong
fairness, because they are enabled and disabled by others: `select` chooses
uniformly among the ready cases, so a case ready again and again is chosen, and a
channel that is emptied again and again lets its senders in. It is stated per
channel, not per client: Go's first-come order of waiting senders is not needed.
`ReadFail` and `WriterPingFails` are fair because every read and write carries a
deadline (`pongWait`, `writeWait`) and the ticker never stops. Nothing obliges a
peer to connect, talk or fail, nor anybody to cancel.

## 5. What is proved

The constants are arbitrary; the assumptions are the named ASSUMEs of the modules
(nil is not a client, capacities are natural numbers, the null value is no row).

*WsHub* (`WsHubProofs`). `TypeOK` is inductive by itself (`TypeCorrect`).
`IndexConsistent` is not: a command could name a client the hub never saw, or an
unregistered client could sit in an index. `HubInv` adds that connections not registered
yet are in no index and in no command (`UnregisteredUnknown`, `CommandsAreOwn`) and that
the fan-out loop only holds clients that are live or members of the message's room
(`TargetsAddressed`). `HubInvariant` is the induction, one step per action;
`IndexesAgree` and `PanicNeedsGhost` are conjuncts, `OnlyMembersGetRoomMessages` is an
action property that follows from it. `ServerJoinsNeverPanic` assumes that no connection
sends joins (`JoinsByServerOnly`) and proves `NoGhosts`: with server decided joins the
panic of `hub_ghost` cannot happen, for any number of clients. `ForgetsNobody` follows
from `HubInv` as well: only `HubRegister` adds a client, and the client's readPump is
not started before; what takes a client out closes its channel.

*Order, privacy and fan-out* (`WsStreamProofs`). Order is about every place a message
can be in: `OrderInv` says that the messages of one sender grow along the receiver's
stream, the message being handed out, the queue and the one in its reader's hand
(`StreamsFirst`, `CurFirst`, `QueueOrdered`, `PendingLast`), all below the next identity
(`IdsCounted`). `SendersAreHeardInOrder` follows. `PrivacyInv` adds that the fan-out
loop of a message to a user holds only that user's connections (`UserTargeted`).
`HubImplementsFanout` is the refinement, step by step: it needs that nobody hears a
message before it is his turn (`FanoutInv`), and that the targets still to be served,
ghosts left out, are the `todo` of `Fanout`. `LastWordCounts` is about the rooms a
connection asked for: of the commands on their way the last one about a room says what
the connection wants, and with none on its way `Client.rooms` does (`LastOneDecides`).
It assumes that the server puts nobody into a room (`JoinsByClientsOnly`), as the last
word could be the server's otherwise, and needs that a readPump is started only once
(`PumpsStartOnce`): two would race each other.

*Sessions* (`SessionsProofs`). `SessionsInv` adds to the properties that a token dead at
the start of a request that presents it is still dead when the request is about to check
it (`DeadStaysDead`: the lemma `NoRevival` shows that no statement revives a row), that
a returned token was minted (`GivenMinted`), and that a role a request holds was in the
table while it ran (`RolesWitnessed`). `DeadTokensAreRejected`, `RolesAreFresh` and
`AccountsOwnTheirTokens` follow. `SessionsAreKept` needs its own strengthening,
`KeptInv`: a revoked row was presented to a refresh or logged out (`RevokedForCause`), a
returned token keeps its row and its owner while the account exists and the token has
not expired (`RowsStay`), and an account a request holds is one that was created
(`OwnAccounts`), as ids are not given out again. `RotationIsFinal` says that the row of
a token that was exchanged for another stays dead; it rests on `OnlyRotateLeadsOn`, that
a request with a token comes to issuing the next one through `Rotate` alone.
`TablesImplementSessionBook` is the refinement of `SessionBook`: each statement on the
tables opens, ends or changes sessions as the book allows, or nothing.

*StoreTx* (`StoreTxProofs`). None of the three properties is inductive. `StoreInv` adds
that the open calls are the stack, each inside exactly those below it (`StackShape`);
that a call not made yet has left no trace (`FreshShape`); where the connection is, and
that a closed `pgx.Tx` belongs to the innermost call after its failed commit
(`ConnShape`); that a savepoint's mark separates the writes made in its call, or inside
it, from all others (`MarkShape`), which is why a rollback undoes the right ones; and
what that means for the writes on their way (`PendingSound`, `Kept`).
`SuccessfulCallsAreKept`, `FailedCallsAreUndone` and `ConnectionsComeBack` follow, for
any number of calls, writes and levels. `DoImplementsNestedTx` is the refinement: the
writes a call holds are those between its savepoint's mark and the next one's
(`HeldShape`), so a return hands them to the call outside or drops them, whatever branch
of `Do` it takes. What pgx and PostgreSQL do is assumed as the module states it.

*RateLimit* (`RateLimitProofs`). `ClockInv` relates the two clocks: the limiter was last
settled no later than the visitor was last seen (`ClockIsOlder`), so who has been idle
for `Idle` has earned at least that. `WindowCovered` says that what a window spent, with
what is left in the bucket, is covered by the burst, the time that passed and some
number of unearned parts, one for each time the visitor was dropped, and that each drop
took a whole idle time. Both hold for every configuration (`WindowsAreCovered`), and so
does the bound that follows (`ForgettingIsBounded`). `LimiterIsATokenBucket` and
`SpendingIsBounded` assume `RefillsWhileIdle`: a bucket refills within the idle time,
`burst <= 180 * rps`. It is an assumption about the configuration that the code does not
check. With a larger burst, a visitor who pauses for three minutes comes back to a full
bucket he has not earned, and the limiter is no token bucket. The default burst of 20
asks for one request in nine seconds or more (limiting itself is off by default).

*Boot* (`BootProofs`). `SchemaInv` says which migrations have taken effect at each
version, clean or dirty, for the process that holds the lock and without one, and that a
process past its migration has seen them all. `KeyInv` says what the two files contain
at each step of a generation nobody disturbed, and that nobody else is loading or
serving meanwhile; a start in development that looks for the second file has found the
first. `MigrationsAreAppliedOnce`, `SchemaIsCurrent`, `ServersShareOneKeyPair` and
`KeysAreFound` follow, for any processes, migrations and starts. `StartsGoForward` is
the safety half of a start's progress: a rank, which counts the steps left and the
migrations above the version, falls with every step of the process (`RankFalls`). Others
do not raise it meanwhile: the version moves only under the lock, and the operator's
`ForceVersion` needs the lock free.

*Listing* (`ListingProofs`). The proofs count. In a result without ties the place of a
row is the number of rows above it; that number does not fall while no row leaves, and a
page that skips as many rows as are above a row it does not show has all of itself above
that row too (`PageGoesByPlace`). `WalkInv` says that a row the walk still owes has at
least as many rows above it as the next request skips, and that the total then tells the
client to go on. `CoverInv` is the same for the total. `RepeatInv` says the converse of
what was shown: while nothing disturbs the table it lies above the next offset, so that
a page, which starts at its offset (`PageHasItsPlaces`), shows nobody twice
(`WalksRepeatNobody`). Assumed is that the table has no more rows than an int32 counts,
as an offset reaches no others.

*Gate* (`GateProofs`). `GateImplementsSessions` is a refinement with the identity as its
mapping: every call does to the tables what some action of `Sessions` does, so the
theorems of `SessionsProofs` hold of the whole surface. `GateInv` adds that the role in
a token is what its request read (`RoleUnread` before it, `RoleHeld` for a handler past
`RequireRole`). `AdministratorsDescend`, `AdminsHaveAuthority` and `RefusalsDoNothing`
hold for any number of slots and calls. `SurfaceKeepsTheBook` puts the two refinements
together: `SessionBook` describes the sessions of the whole surface.

## 6. What is only model-checked

Liveness, which is out of the prover's reach: `DeadConnectionReaped`, `ReaderUnblocked`,
`StopClosesRegistered`, `IdleVisitorsForgotten` and `SignalledStops`. Two of them have a
proved safety half: `ForgetsNobody` for the connections `StopClosesRegistered` is about,
`StartsGoForward` for the starts. Every safety property of the passing runs is proved,
the refinements (`Fanout`, `SessionBook`, `NestedTx`, `TokenBucket`, `Gate` to
`Sessions`) included. `ForgettingBound` is proved only, as said above. The runs that
expect a violation stand for themselves.

## 7. What is not modelled

- CORS, the request id and the log keep nothing between requests and decide nothing
  that a property is about. The body limit is among what makes a body unusable
  (`Malformed`), `Recovery` among what makes an answer unknown (`HandlerFails`).
- The values of the configuration are constants of the modules; how they are read
  and defaulted is left out. The validator's rules decide only whether a body is
  usable; `httpx` shapes responses, of which the modules keep the class.
- `MigrateDown` has no caller. The routes for health, readiness and Swagger read
  nothing the modules keep.
- The sqlc code and the API documentation (`docs/docs.go`) are generated. The
  statements' effects are modelled from the SQL; row scanning holds no behaviour.
- Signatures, hashes and JSON are abstracted as said above.
- What a message a client sends just after its join can miss: `roomCmd` and `broadcast`
  are separate channels and `select` picks either. Both orders are behaviours of
  `WsHub`; nothing in the repository promises one, so no property does.
- Three edges that are real and have no property, because no document says what
  should happen there: a handshake or a `readPump` that waits for a hub that has
  stopped (`WsHub` has the step; only the end of the process frees it), a
  registration whose account is stored and whose tokens are not (in `Sessions`), and
  the moment around expiry in which a JWT's `exp` and the row's `expires_at` may
  disagree (`Sessions` expires both as one event).
- The `limit` a page of users echoes is the one asked for, before the server clamps
  it; see `listing` above for what that leaves of the walk.
- That a failed listener ends in a clean exit is in `Boot` as the code has it; the
  repository does not say what it should be.

## 8. Plan

Done: `WsHub` over `Fanout` with `Membership` beside it, `Sessions` over `SessionBook`,
`StoreTx` over `NestedTx`, `RateLimit` over `TokenBucket`, `Boot`, `Listing`, `Gate`
over `Sessions`, each with its proofs.

What could be added:

1. `WsHub` behind `Boot`: a drain that runs while the hub still closes its
   connections. The two share only the root context, and `StopClosesRegistered`
   already allows any delay.
2. `StoreTx` under the usecases, once a usecase opens a transaction; today none does.
3. `Listing` with several clients: they share only the table, which changes here in
   any way one more client could bring about.
4. An abstract specification of a start, which `Boot` would implement; its properties
   are stated one by one today.
