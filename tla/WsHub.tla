------------------------------- MODULE WsHub -------------------------------
(***************************************************************************)
(* The WebSocket hub of internal/modules/ws: one goroutine (Hub.Run) that  *)
(* owns the client and room indexes, and, for every connection, a handler  *)
(* (Handler.Connect), a readPump and a writePump that talk to it over      *)
(* channels.  `register` and `unregister` are unbuffered, so a send and    *)
(* its receive are one step; `broadcast`, `roomCmd` and each client's      *)
(* `send` are bounded FIFO queues.                                         *)
(*                                                                         *)
(* A closed-over detail: once a goroutine panics the process is gone, so   *)
(* no action is enabled after `panicked` becomes TRUE.                     *)
(***************************************************************************)
EXTENDS Naturals, Sequences, FiniteSets

CONSTANTS
    Clients,          \* the connections; a *Client pointer is never reused
    Users,            \* user ids found in access tokens
    UserOf,           \* the user each connection authenticates as
    Rooms,            \* room names in use; may contain Empty
    Empty,            \* the empty string: "field not set"
    NoClient,         \* a nil *Client
    None,             \* no operation, no message
    ClientKinds,      \* what each connection sends: a set of "join", "leave", "message"
    Frail,            \* bound: the connections whose peer may fail
    ServerCalls,      \* Broadcast / SendToUser / BroadcastToRoom calls made
    ServerCommands,   \* JoinUser / LeaveUser calls made
    SendBuffer,       \* capacity of Client.send (16 in the code)
    BroadcastBuffer,  \* capacity of Hub.broadcast (256)
    RoomBuffer,       \* capacity of Hub.roomCmd (64)
    MaxInputs         \* bound on inbound frames plus server-side calls

ASSUME ClientsAssumption == NoClient \notin Clients /\ None \notin Clients
ASSUME UsersAssumption == UserOf \in [Clients -> Users] /\ Empty \notin Users
ASSUME BufferAssumption ==
    SendBuffer \in Nat /\ BroadcastBuffer \in Nat /\ RoomBuffer \in Nat /\ MaxInputs \in Nat
ASSUME FrailAssumption == Frail \subseteq Clients
ASSUME KindsAssumption == ClientKinds \in [Clients -> SUBSET {"join", "leave", "message"}]

(* Who a message is addressed to, and through which method it was sent. *)
Everyone == [api |-> "Broadcast", userID |-> Empty, room |-> Empty]
ToUser(u) == [api |-> "SendToUser", userID |-> u, room |-> Empty]
ToRoom(r) == [api |-> "BroadcastToRoom", userID |-> Empty, room |-> r]

Calls == {Everyone} \union {ToUser(u) : u \in Users \union {Empty}}
                    \union {ToRoom(r) : r \in Rooms \union {Empty}}
Messages == [id : 1 .. MaxInputs, from : Clients \union {NoClient}, to : Calls]
Commands == [client : Clients \union {NoClient}, userID : Users \union {Empty},
             room : Rooms, join : BOOLEAN]

ASSUME ServerAssumption ==
    /\ ServerCalls \subseteq Calls
    /\ ServerCommands \subseteq [client : {NoClient}, userID : Users \union {Empty},
                                 room : Rooms, join : BOOLEAN]

VARIABLES
    pc,         \* Hub.Run: "select", "deliver" (inside the fan-out loop), "stopped"
    panicked,   \* a goroutine has panicked: the process is gone
    cur,        \* the outbound being fanned out
    targets,    \* the clients the fan-out loop has not reached yet
    clients,    \* Hub.clients
    byUser,     \* Hub.byUser; an absent key is the empty set
    rooms,      \* Hub.rooms; an absent key is the empty set
    joined,     \* Client.rooms
    broadcast,  \* Hub.broadcast
    roomCmd,    \* Hub.roomCmd
    send,       \* Client.send
    closed,     \* whether Client.send is closed
    taken,      \* history: what writePump has received from Client.send
    conn,       \* the socket: "none", "open", "broken" (peer gone), "closed"
    handler,    \* Handler.Connect: "idle", "registering", "registered", "returned"
    reader,     \* readPump
    inflight,   \* what readPump is blocked sending to the hub
    writer,     \* writePump
    ctxDone,    \* the context of Run is cancelled
    inputs      \* number of inbound frames and server-side calls so far

loopVars == <<pc, cur, targets>>
indexVars == <<clients, byUser, rooms, joined>>
queueVars == <<broadcast, roomCmd>>
sendVars == <<send, taken>>
connVars == <<conn, handler, reader, inflight, writer>>
envVars == <<ctxDone, inputs>>
vars == <<loopVars, panicked, indexVars, queueVars, sendVars, closed, connVars, envVars>>

(***************************************************************************)
(* The type invariant.  The queues never exceed the capacity they were     *)
(* made with.                                                              *)
(***************************************************************************)
TypeOK ==
    /\ pc \in {"select", "deliver", "stopped"}
    /\ panicked \in BOOLEAN
    /\ cur \in Messages \union {None}
    /\ pc = "deliver" => cur \in Messages
    /\ targets \subseteq Clients
    /\ clients \subseteq Clients
    /\ byUser \in [Users -> SUBSET Clients]
    /\ rooms \in [Rooms -> SUBSET Clients]
    /\ joined \in [Clients -> SUBSET Rooms]
    /\ broadcast \in Seq(Messages) /\ Len(broadcast) <= BroadcastBuffer
    /\ roomCmd \in Seq(Commands) /\ Len(roomCmd) <= RoomBuffer
    /\ send \in [Clients -> Seq(Messages)]
    /\ \A c \in Clients : Len(send[c]) <= SendBuffer
    /\ closed \in [Clients -> BOOLEAN]
    /\ taken \in [Clients -> Seq(Messages)]
    /\ conn \in [Clients -> {"none", "open", "broken", "closed"}]
    /\ handler \in [Clients -> {"idle", "registering", "registered", "returned"}]
    /\ reader \in [Clients -> {"none", "reading", "commanding", "publishing",
                               "leaving", "closing", "done"}]
    /\ inflight \in [Clients -> Messages \union Commands \union {None}]
    /\ \A c \in Clients : reader[c] = "commanding" => inflight[c] \in Commands
    /\ \A c \in Clients : reader[c] = "publishing" => inflight[c] \in Messages
    /\ writer \in [Clients -> {"none", "running", "done"}]
    /\ ctxDone \in BOOLEAN
    /\ inputs \in 0 .. MaxInputs

Init ==
    /\ pc = "select" /\ cur = None /\ targets = {}
    /\ panicked = FALSE
    /\ clients = {}
    /\ byUser = [u \in Users |-> {}]
    /\ rooms = [r \in Rooms |-> {}]
    /\ joined = [c \in Clients |-> {}]
    /\ broadcast = <<>> /\ roomCmd = <<>>
    /\ send = [c \in Clients |-> <<>>]
    /\ closed = [c \in Clients |-> FALSE]
    /\ taken = [c \in Clients |-> <<>>]
    /\ conn = [c \in Clients |-> "none"]
    /\ handler = [c \in Clients |-> "idle"]
    /\ reader = [c \in Clients |-> "none"]
    /\ inflight = [c \in Clients |-> None]
    /\ writer = [c \in Clients |-> "none"]
    /\ ctxDone = FALSE
    /\ inputs = 0

-----------------------------------------------------------------------------
(* The handler: verify the token, upgrade, register, start the pumps. *)

\* A handshake whose token verifies is upgraded; a rejected one leaves no state.
Connect(c) ==
    /\ handler[c] = "idle"
    /\ handler' = [handler EXCEPT ![c] = "registering"]
    /\ conn' = [conn EXCEPT ![c] = "open"]
    /\ UNCHANGED <<loopVars, panicked, indexVars, queueVars, sendVars, closed,
                   reader, inflight, writer, envVars>>

\* `h.hub.register <- client` meets `case c := <-h.register`.
HubRegister(c) ==
    /\ pc = "select"
    /\ handler[c] = "registering"
    /\ handler' = [handler EXCEPT ![c] = "registered"]
    /\ clients' = clients \union {c}
    /\ byUser' = [byUser EXCEPT ![UserOf[c]] = @ \union {c}]
    /\ UNCHANGED <<loopVars, panicked, rooms, joined, queueVars, sendVars, closed,
                   conn, reader, inflight, writer, envVars>>

StartPumps(c) ==
    /\ handler[c] = "registered"
    /\ handler' = [handler EXCEPT ![c] = "returned"]
    /\ writer' = [writer EXCEPT ![c] = "running"]
    /\ reader' = [reader EXCEPT ![c] = "reading"]
    /\ UNCHANGED <<loopVars, panicked, indexVars, queueVars, sendVars, closed,
                   conn, inflight, envVars>>

-----------------------------------------------------------------------------
(* The peer and the network. *)

\* The peer goes away, stalls past a deadline or breaks the protocol.
PeerFail(c) ==
    /\ c \in Frail
    /\ conn[c] = "open"
    /\ conn' = [conn EXCEPT ![c] = "broken"]
    /\ UNCHANGED <<loopVars, panicked, indexVars, queueVars, sendVars, closed,
                   handler, reader, inflight, writer, envVars>>

-----------------------------------------------------------------------------
(* readPump.  Reading a frame and handing it to the hub are two steps: the
   second blocks while the channel is full, and the world moves meanwhile. *)

\* ReadMessage returned a frame, handleInbound decoded it to `next` and blocks on
\* the channel `chan` names.  Frames buffered before the socket closed still arrive.
ReadFrame(c, chan, next) ==
    /\ reader[c] = "reading"
    /\ inputs < MaxInputs
    /\ inputs' = inputs + 1
    /\ reader' = [reader EXCEPT ![c] = chan]
    /\ inflight' = [inflight EXCEPT ![c] = next]
    /\ UNCHANGED <<loopVars, panicked, indexVars, queueVars, sendVars, closed,
                   conn, handler, writer, ctxDone>>

ReadJoin(c) ==
    /\ "join" \in ClientKinds[c]
    /\ \E r \in Rooms :
         ReadFrame(c, "commanding", [client |-> c, userID |-> Empty, room |-> r, join |-> TRUE])

ReadLeave(c) ==
    /\ "leave" \in ClientKinds[c]
    /\ \E r \in Rooms :
         ReadFrame(c, "commanding", [client |-> c, userID |-> Empty, room |-> r, join |-> FALSE])

\* An envelope without a room, and any frame that is not an envelope, goes to everyone.
ReadChat(c) ==
    /\ "message" \in ClientKinds[c]
    /\ \E to \in {Everyone} \union {ToRoom(r) : r \in Rooms \ {Empty}} :
         ReadFrame(c, "publishing", [id |-> inputs + 1, from |-> c, to |-> to])

SendCommand(c) ==
    /\ reader[c] = "commanding"
    /\ Len(roomCmd) < RoomBuffer
    /\ roomCmd' = Append(roomCmd, inflight[c])
    /\ reader' = [reader EXCEPT ![c] = "reading"]
    /\ inflight' = [inflight EXCEPT ![c] = None]
    /\ UNCHANGED <<loopVars, panicked, indexVars, broadcast, sendVars, closed,
                   conn, handler, writer, envVars>>

\* Mutant: a queue without a capacity instead of the bounded channel.
SendChatUnbounded(c) ==
    /\ reader[c] = "publishing"
    /\ broadcast' = Append(broadcast, inflight[c])
    /\ reader' = [reader EXCEPT ![c] = "reading"]
    /\ inflight' = [inflight EXCEPT ![c] = None]
    /\ UNCHANGED <<loopVars, panicked, indexVars, roomCmd, sendVars, closed,
                   conn, handler, writer, envVars>>

SendChat(c) ==
    /\ reader[c] = "publishing"
    /\ Len(broadcast) < BroadcastBuffer
    /\ broadcast' = Append(broadcast, inflight[c])
    /\ reader' = [reader EXCEPT ![c] = "reading"]
    /\ inflight' = [inflight EXCEPT ![c] = None]
    /\ UNCHANGED <<loopVars, panicked, indexVars, roomCmd, sendVars, closed,
                   conn, handler, writer, envVars>>

\* The read deadline, a closed socket or an oversized frame ends the pump; the
\* deferred function first unregisters ...
ReadFail(c) ==
    /\ reader[c] = "reading"
    /\ conn[c] # "open"
    /\ reader' = [reader EXCEPT ![c] = "leaving"]
    /\ UNCHANGED <<loopVars, panicked, indexVars, queueVars, sendVars, closed,
                   conn, handler, inflight, writer, envVars>>

\* ... and then, once the hub has taken it, closes the socket.
ReaderClose(c) ==
    /\ reader[c] = "closing"
    /\ reader' = [reader EXCEPT ![c] = "done"]
    /\ conn' = [conn EXCEPT ![c] = "closed"]
    /\ UNCHANGED <<loopVars, panicked, indexVars, queueVars, sendVars, closed,
                   handler, inflight, writer, envVars>>

-----------------------------------------------------------------------------
(* writePump. *)

WriterReturns(c) ==
    /\ writer' = [writer EXCEPT ![c] = "done"]
    /\ conn' = [conn EXCEPT ![c] = "closed"]

\* Receive a message and write it; the write fails only on a socket that is not open.
WriterTake(c) ==
    /\ writer[c] = "running"
    /\ send[c] # <<>>
    /\ send' = [send EXCEPT ![c] = Tail(@)]
    /\ taken' = [taken EXCEPT ![c] = Append(@, Head(send[c]))]
    /\ \/ conn[c] # "closed" /\ UNCHANGED <<writer, conn>>
       \/ conn[c] # "open" /\ WriterReturns(c)
    /\ UNCHANGED <<loopVars, panicked, indexVars, queueVars, closed,
                   handler, reader, inflight, envVars>>

\* `!ok`: the hub closed the channel and it is drained.
WriterSeesClose(c) ==
    /\ writer[c] = "running"
    /\ closed[c] /\ send[c] = <<>>
    /\ WriterReturns(c)
    /\ UNCHANGED <<loopVars, panicked, indexVars, queueVars, sendVars, closed,
                   handler, reader, inflight, envVars>>

\* The ping of the ticker cannot be written.
WriterPingFails(c) ==
    /\ writer[c] = "running"
    /\ conn[c] # "open"
    /\ WriterReturns(c)
    /\ UNCHANGED <<loopVars, panicked, indexVars, queueVars, sendVars, closed,
                   handler, reader, inflight, envVars>>

-----------------------------------------------------------------------------
(* The methods other parts of the server call: each is one channel send. *)

ServerPublish ==
    /\ inputs < MaxInputs
    /\ Len(broadcast) < BroadcastBuffer
    /\ inputs' = inputs + 1
    /\ \E to \in ServerCalls :
         broadcast' = Append(broadcast, [id |-> inputs + 1, from |-> NoClient, to |-> to])
    /\ UNCHANGED <<loopVars, panicked, indexVars, roomCmd, sendVars, closed,
                   connVars, ctxDone>>

ServerCommand ==
    /\ inputs < MaxInputs
    /\ Len(roomCmd) < RoomBuffer
    /\ inputs' = inputs + 1
    /\ \E cmd \in ServerCommands : roomCmd' = Append(roomCmd, cmd)
    /\ UNCHANGED <<loopVars, panicked, indexVars, broadcast, sendVars, closed,
                   connVars, ctxDone>>

Cancel ==
    /\ ~ctxDone
    /\ ctxDone' = TRUE
    /\ UNCHANGED <<loopVars, panicked, indexVars, queueVars, sendVars, closed,
                   connVars, inputs>>

-----------------------------------------------------------------------------
(* Hub.Run: one branch of the select per action. *)

\* close(c.send) for every c in S; closing a closed channel panics.
CloseSend(S) ==
    /\ closed' = [c \in Clients |-> closed[c] \/ c \in S]
    /\ panicked' = (panicked \/ \E c \in S : closed[c])

\* Mutants of Remove: the user index is not pruned; the rooms are not left; the
\* check that makes a second removal a no-op is missing.
RemoveKeepingUser(c) ==
    IF c \in clients
    THEN /\ clients' = clients \ {c}
         /\ rooms' = [r \in Rooms |-> IF r \in joined[c] THEN rooms[r] \ {c} ELSE rooms[r]]
         /\ CloseSend({c})
         /\ UNCHANGED byUser
    ELSE UNCHANGED <<clients, byUser, rooms, closed, panicked>>

RemoveKeepingRooms(c) ==
    IF c \in clients
    THEN /\ clients' = clients \ {c}
         /\ byUser' = [byUser EXCEPT ![UserOf[c]] = @ \ {c}]
         /\ CloseSend({c})
         /\ UNCHANGED rooms
    ELSE UNCHANGED <<clients, byUser, rooms, closed, panicked>>

RemoveAgain(c) ==
    /\ clients' = clients \ {c}
    /\ byUser' = [byUser EXCEPT ![UserOf[c]] = @ \ {c}]
    /\ rooms' = [r \in Rooms |-> IF r \in joined[c] THEN rooms[r] \ {c} ELSE rooms[r]]
    /\ CloseSend({c})

\* What `remove` does to the indexes and to the channel; Client.rooms is kept.
Remove(c) ==
    IF c \in clients
    THEN /\ clients' = clients \ {c}
         /\ byUser' = [byUser EXCEPT ![UserOf[c]] = @ \ {c}]
         /\ rooms' = [r \in Rooms |-> IF r \in joined[c] THEN rooms[r] \ {c} ELSE rooms[r]]
         /\ CloseSend({c})
    ELSE UNCHANGED <<clients, byUser, rooms, closed, panicked>>

\* `c.hub.unregister <- c` meets `case c := <-h.unregister`.
HubUnregister(c) ==
    /\ pc = "select"
    /\ reader[c] = "leaving"
    /\ reader' = [reader EXCEPT ![c] = "closing"]
    /\ Remove(c)
    /\ UNCHANGED <<loopVars, joined, queueVars, sendVars, conn, handler, inflight,
                   writer, envVars>>

CommandTargets(cmd) ==
    IF cmd.client # NoClient THEN {cmd.client}
    ELSE IF cmd.userID # Empty THEN byUser[cmd.userID] ELSE {}

\* Mutant: leaving forgets the room on the client but not in Hub.rooms.
HandleRoomHalfLeave(cmd) ==
    LET members == CommandTargets(cmd)
    IN  /\ rooms' = [rooms EXCEPT ![cmd.room] = IF cmd.join THEN @ \union members ELSE @]
        /\ joined' = [c \in Clients |->
                        IF c \notin members THEN joined[c]
                        ELSE IF cmd.join THEN joined[c] \union {cmd.room}
                        ELSE joined[c] \ {cmd.room}]

\* handleRoom: no check that a client named by the command is still registered.
HandleRoom(cmd) ==
    LET members == CommandTargets(cmd)
    IN  /\ rooms' = [rooms EXCEPT ![cmd.room] =
                        IF cmd.join THEN @ \union members ELSE @ \ members]
        /\ joined' = [c \in Clients |->
                        IF c \notin members THEN joined[c]
                        ELSE IF cmd.join THEN joined[c] \union {cmd.room}
                        ELSE joined[c] \ {cmd.room}]

\* Mutant: the newest command is served first.
HubRoomNewest ==
    /\ pc = "select"
    /\ roomCmd # <<>>
    /\ HandleRoom(roomCmd[Len(roomCmd)])
    /\ roomCmd' = SubSeq(roomCmd, 1, Len(roomCmd) - 1)
    /\ UNCHANGED <<loopVars, panicked, clients, byUser, broadcast, sendVars, closed,
                   connVars, envVars>>

HubRoom ==
    /\ pc = "select"
    /\ roomCmd # <<>>
    /\ HandleRoom(Head(roomCmd))
    /\ roomCmd' = Tail(roomCmd)
    /\ UNCHANGED <<loopVars, panicked, clients, byUser, broadcast, sendVars, closed,
                   connVars, envVars>>

\* Mutant: the switch lost its second case.
AudienceIgnoringUser(m) == IF m.to.room # Empty THEN rooms[m.to.room] ELSE clients

\* The switch that picks the map to range over.
Audience(m) ==
    IF m.to.room # Empty THEN rooms[m.to.room]
    ELSE IF m.to.userID # Empty THEN byUser[m.to.userID]
    ELSE clients

\* Mutant: the newest message is served first.
HubDispatchNewest ==
    /\ pc = "select"
    /\ broadcast # <<>>
    /\ broadcast' = SubSeq(broadcast, 1, Len(broadcast) - 1)
    /\ targets' = Audience(broadcast[Len(broadcast)])
    /\ IF targets' = {} THEN UNCHANGED <<pc, cur>>
       ELSE pc' = "deliver" /\ cur' = broadcast[Len(broadcast)]
    /\ UNCHANGED <<panicked, indexVars, roomCmd, sendVars, closed, connVars, envVars>>

HubDispatch ==
    /\ pc = "select"
    /\ broadcast # <<>>
    /\ broadcast' = Tail(broadcast)
    /\ targets' = Audience(Head(broadcast))
    /\ IF targets' = {} THEN UNCHANGED <<pc, cur>>
       ELSE pc' = "deliver" /\ cur' = Head(broadcast)
    /\ UNCHANGED <<panicked, indexVars, roomCmd, sendVars, closed, connVars, envVars>>

\* Mutants of the non-blocking send: a full buffer loses the message silently; a
\* full buffer blocks the hub.
HubDeliverLossy(c) ==
    /\ pc = "deliver"
    /\ c \in targets
    /\ targets' = targets \ {c}
    /\ IF targets' = {} THEN pc' = "select" /\ cur' = None ELSE UNCHANGED <<pc, cur>>
    /\ send' = IF Len(send[c]) < SendBuffer
               THEN [send EXCEPT ![c] = Append(@, cur)] ELSE send
    /\ panicked' = closed[c]
    /\ UNCHANGED <<indexVars, closed, queueVars, taken, connVars, envVars>>

HubDeliverBlocking(c) ==
    /\ pc = "deliver"
    /\ c \in targets
    /\ closed[c] \/ Len(send[c]) < SendBuffer
    /\ targets' = targets \ {c}
    /\ IF targets' = {} THEN pc' = "select" /\ cur' = None ELSE UNCHANGED <<pc, cur>>
    /\ send' = IF closed[c] THEN send ELSE [send EXCEPT ![c] = Append(@, cur)]
    /\ panicked' = closed[c]
    /\ UNCHANGED <<indexVars, closed, queueVars, taken, connVars, envVars>>

\* One turn of `for c := range targets`, in map order, that is in any order: the
\* non-blocking send succeeds, drops a slow client, or panics on a closed channel.
HubDeliver(c) ==
    /\ pc = "deliver"
    /\ c \in targets
    /\ targets' = targets \ {c}
    /\ IF targets' = {} THEN pc' = "select" /\ cur' = None ELSE UNCHANGED <<pc, cur>>
    /\ \/ /\ closed[c]
          /\ panicked' = TRUE
          /\ UNCHANGED <<clients, byUser, rooms, send, closed>>
       \/ /\ ~closed[c] /\ Len(send[c]) < SendBuffer
          /\ send' = [send EXCEPT ![c] = Append(@, cur)]
          /\ UNCHANGED <<panicked, clients, byUser, rooms, closed>>
       \/ /\ ~closed[c] /\ Len(send[c]) >= SendBuffer
          /\ Remove(c)
          /\ UNCHANGED send
    /\ UNCHANGED <<joined, queueVars, taken, connVars, envVars>>

\* Mutant: the indexes are reset but the channels stay open.
HubStopWithoutClose ==
    /\ pc = "select"
    /\ ctxDone
    /\ pc' = "stopped"
    /\ clients' = {}
    /\ byUser' = [u \in Users |-> {}]
    /\ rooms' = [r \in Rooms |-> {}]
    /\ UNCHANGED <<cur, targets, panicked, closed, joined, queueVars, sendVars,
                   connVars, envVars>>

HubStop ==
    /\ pc = "select"
    /\ ctxDone
    /\ pc' = "stopped"
    /\ CloseSend(clients)
    /\ clients' = {}
    /\ byUser' = [u \in Users |-> {}]
    /\ rooms' = [r \in Rooms |-> {}]
    /\ UNCHANGED <<cur, targets, joined, queueVars, sendVars, connVars, envVars>>

-----------------------------------------------------------------------------
WriterStep(c) == WriterTake(c) \/ WriterSeesClose(c) \/ WriterPingFails(c)

ClientStep(c) ==
    \/ Connect(c) \/ HubRegister(c) \/ StartPumps(c) \/ PeerFail(c)
    \/ ReadJoin(c) \/ ReadLeave(c) \/ ReadChat(c)
    \/ SendCommand(c) \/ SendChat(c) \/ ReadFail(c) \/ ReaderClose(c)
    \/ WriterStep(c)
    \/ HubUnregister(c) \/ HubDeliver(c)

Next ==
    /\ ~panicked
    /\ \/ \E c \in Clients : ClientStep(c)
       \/ ServerPublish \/ ServerCommand \/ Cancel
       \/ HubRoom \/ HubDispatch \/ HubStop

(***************************************************************************)
(* Fairness.  A goroutine that can run does run: weak fairness for the     *)
(* steps nobody else can disable.  `select` chooses at random among the    *)
(* ready cases and a full channel that empties again and again lets its    *)
(* senders in, so a channel operation that is possible again and again     *)
(* happens: strong fairness.  Each is stated for the channel as a whole;   *)
(* that Go also serves the waiting senders in order is not needed.         *)
(* A read ends by its deadline and a ping or a write by its own, so        *)
(* ReadFail and WriterPingFails are fair.  Nothing obliges a peer to       *)
(* connect, fail or send, nor anybody to cancel the context.               *)
(***************************************************************************)
Live(A) == ~panicked /\ A

Fairness ==
    /\ SF_vars(Live(HubRoom))
    /\ SF_vars(Live(HubDispatch))
    /\ SF_vars(Live(HubStop))
    /\ SF_vars(Live(\E c \in Clients : HubRegister(c)))
    /\ SF_vars(Live(\E c \in Clients : HubUnregister(c)))
    /\ SF_vars(Live(\E c \in Clients : SendCommand(c)))
    /\ SF_vars(Live(\E c \in Clients : SendChat(c)))
    /\ WF_vars(Live(\E c \in Clients : HubDeliver(c)))
    /\ WF_vars(Live(\E c \in Clients : StartPumps(c)))
    /\ WF_vars(Live(\E c \in Clients : ReadFail(c) \/ ReaderClose(c)))
    /\ WF_vars(Live(\E c \in Clients : WriterStep(c)))

Spec == Init /\ [][Next]_vars /\ Fairness

-----------------------------------------------------------------------------
(* Safety. *)

\* The connections the hub has been told about.
Registered == {c \in Clients : handler[c] \in {"registered", "returned"}}

\* Members of some room that the hub no longer knows: their channel is closed.
Ghosts == (UNION {rooms[r] : r \in Rooms}) \ clients

\* The indexes tell one story: byUser is the inverse of UserOf on the live
\* clients, Hub.rooms and Client.rooms agree about them, and a registered
\* connection is either live with an open channel or has had its channel closed,
\* so that no socket is forgotten open.
IndexConsistent ==
    /\ \A u \in Users : byUser[u] = {c \in clients : UserOf[c] = u}
    /\ \A r \in Rooms, c \in clients : c \in rooms[r] <=> r \in joined[c]
    /\ \A c \in Clients : (c \in clients) <=> (c \in Registered /\ ~closed[c])

\* The hub never closes a channel twice, and never sends on a closed one, except
\* when it fans out a room message and the room holds a ghost.
PanicOnlyFromGhost == panicked => Ghosts # {}

\* No connection is forgotten: whoever the hub still serves has a readPump that has not
\* left yet and so will take it out, and a hub that has stopped leaves no channel open
\* for a writePump to wait on.
NobodyForgotten ==
    /\ \A c \in clients : reader[c] \notin {"closing", "done"}
    /\ pc = "stopped" => \A c \in Registered : closed[c]

\* What a client has received or will receive, in the order it receives it.
Stream(c) == taken[c] \o send[c]

\* Messages of one connection reach every receiver in the order they were sent,
\* through the shared queue and in spite of drops.
SenderOrder ==
    \A c \in Clients : \A i, j \in 1 .. Len(Stream(c)) :
        (i < j /\ Stream(c)[i].from = Stream(c)[j].from) => Stream(c)[i].id < Stream(c)[j].id

\* A message sent with SendToUser to a user id reaches only that user's
\* connections (the empty id means everyone: see the README).
PrivateDelivery ==
    \A c \in Clients : \A i \in 1 .. Len(Stream(c)) :
        LET to == Stream(c)[i].to
        IN  (to.api = "SendToUser" /\ to.userID # Empty) => UserOf[c] = to.userID

\* The hub queues a room message only for a client that is in the room at that
\* moment: not for one whose leave has been handled, although the client may
\* have left or joined while the message waited in `broadcast`.
MembersOnly ==
    [][\A c \in Clients :
         (Len(send'[c]) > Len(send[c]) /\ cur.to.room # Empty) => cur.to.room \in joined[c]]_vars

\* The hub implements the fan-out promise of module Fanout: every dispatched
\* message reaches each live client it is for, or that client is cut off.
Promise == INSTANCE Fanout WITH
    queue <- broadcast,
    live <- clients,
    todo <- targets \intersect clients,
    cur <- IF targets \intersect clients = {} THEN None ELSE cur,
    stream <- [c \in Clients |-> Stream(c)]
ImplementsFanout == Promise!Spec

-----------------------------------------------------------------------------
(* With joins decided by the server (JoinUser), as the comment in handleInbound
   suggests, rooms never outlive their members and the hub never panics. *)
NoGhosts == Ghosts = {} /\ ~panicked

(* Liveness. *)

\* A registered connection whose socket failed is taken out of the hub.
DeadConnectionReaped ==
    \A c \in Clients : (c \in clients /\ conn[c] # "open") ~> (c \notin clients)

\* No reader stays blocked on the hub while the hub runs: a slow client never
\* wedges the others.
ReaderUnblocked ==
    \A c \in Clients :
        (reader[c] \in {"commanding", "publishing", "leaving"}) ~>
            (reader[c] \in {"reading", "closing", "done"} \/ pc = "stopped")

\* After cancellation the hub stops, in spite of any backlog, and every
\* connection it knows is closed by its own writePump.
StopClosesRegistered ==
    \A c \in Clients : (ctxDone /\ handler[c] = "returned") ~> (pc = "stopped" /\ conn[c] = "closed")

(* What the documentation says. *)

\* "Run processes hub events until ctx is cancelled": no other way to end.
RunsUntilCancelled == panicked => ctxDone
=============================================================================
