---------------------------- MODULE WsHubProofs ----------------------------
(***************************************************************************)
(* Theorems about the hub, for any number of clients, users and rooms and  *)
(* any buffer sizes.                                                       *)
(***************************************************************************)
EXTENDS WsHub, TLAPS

\* The address of every call names a room or nothing, and a user or nothing.
LEMMA CallShape ==
    ASSUME NEW to \in Calls
    PROVE  /\ to.room \in Rooms \union {Empty}
           /\ to.userID \in Users \union {Empty}
  BY DEF Calls, Everyone, ToUser, ToRoom

\* Taking the head of a bounded queue leaves a bounded queue.
LEMMA Dequeue ==
    ASSUME NEW S, NEW q \in Seq(S), q # <<>>, NEW n \in Nat, Len(q) <= n
    PROVE  /\ Head(q) \in S
           /\ Tail(q) \in Seq(S)
           /\ Len(Tail(q)) <= n
  OBVIOUS

\* Appending below the capacity keeps the capacity.
LEMMA Enqueue ==
    ASSUME NEW S, NEW q \in Seq(S), NEW n \in Nat, Len(q) < n, NEW e \in S
    PROVE  /\ Append(q, e) \in Seq(S)
           /\ Len(Append(q, e)) <= n
  OBVIOUS

USE DEF loopVars, indexVars, queueVars, sendVars, connVars, envVars

LEMMA TypeInit == Init => TypeOK
<1> SUFFICES ASSUME Init PROVE TypeOK
  OBVIOUS
<1> USE DEF Init
<1>1. /\ broadcast \in Seq(Messages) /\ Len(broadcast) <= BroadcastBuffer
      /\ roomCmd \in Seq(Commands) /\ Len(roomCmd) <= RoomBuffer
  BY BufferAssumption
<1>2. /\ send \in [Clients -> Seq(Messages)]
      /\ taken \in [Clients -> Seq(Messages)]
      /\ \A c \in Clients : Len(send[c]) <= SendBuffer
  BY BufferAssumption
<1>3. inputs \in 0 .. MaxInputs
  BY BufferAssumption
<1>4. /\ byUser \in [Users -> SUBSET Clients]
      /\ rooms \in [Rooms -> SUBSET Clients]
      /\ joined \in [Clients -> SUBSET Rooms]
  OBVIOUS
<1>5. /\ inflight \in [Clients -> Messages \union Commands \union {None}]
      /\ \A c \in Clients : reader[c] = "commanding" => inflight[c] \in Commands
      /\ \A c \in Clients : reader[c] = "publishing" => inflight[c] \in Messages
  OBVIOUS
<1> QED
  BY <1>1, <1>2, <1>3, <1>4, <1>5 DEF TypeOK

\* A frame that decodes to a well-typed message or command keeps the types.
LEMMA ReadFrameTyped ==
    ASSUME TypeOK, NEW c \in Clients, NEW next,
           \/ next \in Commands /\ ReadFrame(c, "commanding", next)
           \/ next \in Messages /\ ReadFrame(c, "publishing", next)
    PROVE  TypeOK'
<1>1. inputs' \in 0 .. MaxInputs
  BY BufferAssumption DEF ReadFrame, TypeOK
<1>2. CASE next \in Commands /\ ReadFrame(c, "commanding", next)
  BY <1>1, <1>2 DEF ReadFrame, TypeOK
<1>3. CASE next \in Messages /\ ReadFrame(c, "publishing", next)
  BY <1>1, <1>3 DEF ReadFrame, TypeOK
<1> QED BY <1>2, <1>3

\* The removal of a client keeps the indexes well typed.
LEMMA RemoveTyped ==
    ASSUME TypeOK, NEW c \in Clients, Remove(c)
    PROVE  /\ clients' \subseteq Clients
           /\ byUser' \in [Users -> SUBSET Clients]
           /\ rooms' \in [Rooms -> SUBSET Clients]
           /\ closed' \in [Clients -> BOOLEAN]
           /\ panicked' \in BOOLEAN
<1>1. CASE c \in clients
  <2>1. closed' = [d \in Clients |-> closed[d] \/ d \in {c}]
        /\ panicked' = (panicked \/ \E d \in {c} : closed[d])
    BY <1>1 DEF Remove, CloseSend
  <2>2. closed' \in [Clients -> BOOLEAN] /\ panicked' \in BOOLEAN
    BY <2>1 DEF TypeOK
  <2>3. /\ clients' = clients \ {c}
        /\ byUser' = [byUser EXCEPT ![UserOf[c]] = @ \ {c}]
        /\ rooms' = [r \in Rooms |-> IF r \in joined[c] THEN rooms[r] \ {c} ELSE rooms[r]]
    BY <1>1 DEF Remove
  <2> QED BY <2>2, <2>3, UsersAssumption DEF TypeOK
<1>2. CASE c \notin clients
  BY <1>2 DEF Remove, TypeOK
<1> QED BY <1>1, <1>2

LEMMA TypeNext == TypeOK /\ [Next]_vars => TypeOK'
<1> SUFFICES ASSUME TypeOK, [Next]_vars PROVE TypeOK'
  OBVIOUS
<1>1. CASE UNCHANGED vars
  BY <1>1 DEF vars, TypeOK
<1>2. ASSUME NEW c \in Clients, ClientStep(c) PROVE TypeOK'
  <2>1. CASE Connect(c)
    BY <2>1 DEF Connect, TypeOK
  <2>2. CASE HubRegister(c)
    BY <2>2, UsersAssumption DEF HubRegister, TypeOK
  <2>3. CASE StartPumps(c)
    BY <2>3 DEF StartPumps, TypeOK
  <2>4. CASE PeerFail(c)
    BY <2>4 DEF PeerFail, TypeOK
  <2>5. CASE ReadJoin(c)
    <3>1. PICK r \in Rooms :
            ReadFrame(c, "commanding", [client |-> c, userID |-> Empty, room |-> r, join |-> TRUE])
      BY <2>5 DEF ReadJoin
    <3> QED BY <3>1, ReadFrameTyped DEF Commands
  <2>6. CASE ReadLeave(c)
    <3>1. PICK r \in Rooms :
            ReadFrame(c, "commanding", [client |-> c, userID |-> Empty, room |-> r, join |-> FALSE])
      BY <2>6 DEF ReadLeave
    <3> QED BY <3>1, ReadFrameTyped DEF Commands
  <2>7. CASE ReadChat(c)
    <3>1. PICK to \in {Everyone} \union {ToRoom(r) : r \in Rooms \ {Empty}} :
            ReadFrame(c, "publishing", [id |-> inputs + 1, from |-> c, to |-> to])
      BY <2>7 DEF ReadChat
    <3>2. to \in Calls
      BY <3>1 DEF Calls
    <3>3. inputs + 1 \in 1 .. MaxInputs
      BY <3>1, BufferAssumption DEF ReadFrame, TypeOK
    <3> QED BY <3>1, <3>2, <3>3, ReadFrameTyped DEF Messages
  <2>8. CASE SendCommand(c)
    BY <2>8, BufferAssumption DEF SendCommand, TypeOK
  <2>9. CASE SendChat(c)
    BY <2>9, BufferAssumption DEF SendChat, TypeOK
  <2>10. CASE ReadFail(c)
    BY <2>10 DEF ReadFail, TypeOK
  <2>11. CASE ReaderClose(c)
    BY <2>11 DEF ReaderClose, TypeOK
  <2>12. CASE WriterTake(c)
    <3>1. /\ send' \in [Clients -> Seq(Messages)]
          /\ \A d \in Clients : Len(send'[d]) <= SendBuffer
      <4>1. Head(send[c]) \in Messages /\ Tail(send[c]) \in Seq(Messages)
            /\ Len(Tail(send[c])) <= SendBuffer
        BY <2>12, BufferAssumption, Dequeue DEF WriterTake, TypeOK
      <4>2. send' = [send EXCEPT ![c] = Tail(send[c])]
        BY <2>12 DEF WriterTake
      <4> QED BY <4>1, <4>2 DEF TypeOK
    <3>2. taken' \in [Clients -> Seq(Messages)]
      <4>1. Head(send[c]) \in Messages
        BY <2>12, BufferAssumption, Dequeue DEF WriterTake, TypeOK
      <4>2. taken' = [taken EXCEPT ![c] = Append(taken[c], Head(send[c]))]
        BY <2>12 DEF WriterTake
      <4> QED BY <4>1, <4>2 DEF TypeOK
    <3>3. /\ conn' \in [Clients -> {"none", "open", "broken", "closed"}]
          /\ writer' \in [Clients -> {"none", "running", "done"}]
      <4>1. CASE UNCHANGED <<writer, conn>>
        BY <4>1 DEF TypeOK
      <4>2. CASE WriterReturns(c)
        BY <4>2 DEF WriterReturns, TypeOK
      <4> QED BY <2>12, <4>1, <4>2 DEF WriterTake
    <3> QED BY <2>12, <3>1, <3>2, <3>3 DEF WriterTake, TypeOK
  <2>13. CASE WriterSeesClose(c)
    BY <2>13 DEF WriterSeesClose, WriterReturns, TypeOK
  <2>14. CASE WriterPingFails(c)
    BY <2>14 DEF WriterPingFails, WriterReturns, TypeOK
  <2>15. CASE HubUnregister(c)
    BY <2>15, RemoveTyped DEF HubUnregister, TypeOK
  <2>16. CASE HubDeliver(c)
    <3>1. /\ clients' \subseteq Clients
          /\ byUser' \in [Users -> SUBSET Clients]
          /\ rooms' \in [Rooms -> SUBSET Clients]
          /\ closed' \in [Clients -> BOOLEAN]
          /\ panicked' \in BOOLEAN
      BY <2>16, RemoveTyped DEF HubDeliver, TypeOK
    <3>2. send' \in [Clients -> Seq(Messages)]
          /\ \A d \in Clients : Len(send'[d]) <= SendBuffer
      <4>1. CASE UNCHANGED send
        BY <4>1 DEF TypeOK
      <4>2. CASE Len(send[c]) < SendBuffer /\ send' = [send EXCEPT ![c] = Append(send[c], cur)]
        <5>1. Append(send[c], cur) \in Seq(Messages) /\ Len(Append(send[c], cur)) <= SendBuffer
          BY <2>16, <4>2, BufferAssumption, Enqueue DEF HubDeliver, TypeOK
        <5> QED BY <4>2, <5>1 DEF TypeOK
      <4> QED BY <2>16, <4>1, <4>2 DEF HubDeliver
    <3> QED BY <2>16, <3>1, <3>2 DEF HubDeliver, TypeOK
  <2> QED
    BY <1>2, <2>1, <2>2, <2>3, <2>4, <2>5, <2>6, <2>7, <2>8, <2>9, <2>10, <2>11, <2>12,
       <2>13, <2>14, <2>15, <2>16 DEF ClientStep, WriterStep
<1>3. CASE ServerPublish
  <2>1. PICK to \in ServerCalls :
          broadcast' = Append(broadcast, [id |-> inputs + 1, from |-> NoClient, to |-> to])
    BY <1>3 DEF ServerPublish
  <2>2. [id |-> inputs + 1, from |-> NoClient, to |-> to] \in Messages
    BY <1>3, ServerAssumption, BufferAssumption DEF ServerPublish, Messages, TypeOK
  <2> QED BY <1>3, <2>1, <2>2, BufferAssumption DEF ServerPublish, TypeOK
<1>4. CASE ServerCommand
  <2>1. PICK cmd \in ServerCommands : roomCmd' = Append(roomCmd, cmd)
    BY <1>4 DEF ServerCommand
  <2>2. cmd \in Commands
    BY ServerAssumption DEF Commands
  <2> QED BY <1>4, <2>1, <2>2, BufferAssumption DEF ServerCommand, TypeOK
<1>5. CASE Cancel
  BY <1>5 DEF Cancel, TypeOK
<1>6. CASE HubRoom
  <2>1. Head(roomCmd) \in Commands /\ Tail(roomCmd) \in Seq(Commands)
        /\ Len(Tail(roomCmd)) <= RoomBuffer
    BY <1>6, BufferAssumption, Dequeue DEF HubRoom, TypeOK
  <2>2. CommandTargets(Head(roomCmd)) \subseteq Clients
    BY <2>1 DEF CommandTargets, Commands, TypeOK
  <2>3. Head(roomCmd).room \in Rooms
    BY <2>1 DEF Commands
  <2>4. rooms' \in [Rooms -> SUBSET Clients] /\ joined' \in [Clients -> SUBSET Rooms]
    BY <1>6, <2>2, <2>3 DEF HubRoom, HandleRoom, TypeOK
  <2> QED BY <1>6, <2>1, <2>4 DEF HubRoom, TypeOK
<1>7. CASE HubDispatch
  <2>1. Head(broadcast) \in Messages /\ Tail(broadcast) \in Seq(Messages)
        /\ Len(Tail(broadcast)) <= BroadcastBuffer
    BY <1>7, BufferAssumption, Dequeue DEF HubDispatch, TypeOK
  <2>2. Head(broadcast).to \in Calls
    BY <2>1 DEF Messages
  <2>3. Audience(Head(broadcast)) \subseteq Clients
    BY <2>2, CallShape DEF Audience, TypeOK
  <2> QED BY <1>7, <2>1, <2>3 DEF HubDispatch, TypeOK
<1>8. CASE HubStop
  BY <1>8 DEF HubStop, CloseSend, TypeOK
<1> QED
  BY <1>1, <1>2, <1>3, <1>4, <1>5, <1>6, <1>7, <1>8 DEF Next

\* The queues stay within their capacities and every variable keeps its type,
\* whatever the connections, the server's calls and the scheduler do.
THEOREM TypeCorrect == Spec => []TypeOK
  BY TypeInit, TypeNext, PTL DEF Spec

-----------------------------------------------------------------------------
(* The inductive invariant. *)

\* The hub has no trace of a connection it has not been told about.
UnregisteredUnknown ==
    \A c \in Clients : c \notin Registered =>
        ~closed[c] /\ reader[c] = "none" /\ joined[c] = {} /\ \A r \in Rooms : c \notin rooms[r]

\* A command in flight or queued names the connection that sent it, or none.
CommandsAreOwn ==
    /\ \A c \in Clients : reader[c] = "commanding" => inflight[c].client = c
    /\ \A i \in 1 .. Len(roomCmd) : roomCmd[i].client \in Registered \union {NoClient}

\* The fan-out loop ranges over the room, or over live clients.
TargetsAddressed ==
    pc = "deliver" =>
        targets \subseteq IF cur.to.room # Empty THEN rooms[cur.to.room] ELSE clients

HubInv ==
    /\ TypeOK
    /\ IndexConsistent
    /\ PanicOnlyFromGhost
    /\ UnregisteredUnknown
    /\ CommandsAreOwn
    /\ TargetsAddressed

LEMMA HubInvInit == Init => HubInv
  BY TypeInit DEF Init, HubInv, IndexConsistent, PanicOnlyFromGhost, UnregisteredUnknown,
                  CommandsAreOwn, TargetsAddressed, Registered

\* Steps that leave the hub's state alone only have to keep the readers honest.
LEMMA Undisturbed ==
    ASSUME HubInv, TypeOK',
           UNCHANGED <<pc, cur, targets, panicked, clients, byUser, rooms, joined, closed>>,
           UNCHANGED roomCmd,
           Registered' = Registered,
           \A c \in Clients : c \notin Registered => reader'[c] = "none",
           \A c \in Clients : reader'[c] = "commanding" => inflight'[c].client = c
    PROVE  HubInv'
<1> USE DEF HubInv
<1>1. IndexConsistent'
  BY DEF IndexConsistent
<1>2. PanicOnlyFromGhost'
  BY DEF PanicOnlyFromGhost, Ghosts
<1>3. UnregisteredUnknown'
  BY DEF UnregisteredUnknown
<1>4. CommandsAreOwn'
  BY DEF CommandsAreOwn
<1>5. TargetsAddressed'
  BY DEF TargetsAddressed
<1> QED BY <1>1, <1>2, <1>3, <1>4, <1>5

LEMMA ReadFrameKeepsHubInv ==
    ASSUME HubInv, TypeOK', NEW c \in Clients, NEW next,
           \/ next.client = c /\ ReadFrame(c, "commanding", next)
           \/ ReadFrame(c, "publishing", next)
    PROVE  HubInv'
<1>1. Registered' = Registered
  BY DEF ReadFrame, Registered
<1>2. \A d \in Clients : d \notin Registered => reader'[d] = "none"
  BY DEF ReadFrame, HubInv, UnregisteredUnknown, TypeOK
<1>3. \A d \in Clients : reader'[d] = "commanding" => inflight'[d].client = d
  <2> SUFFICES ASSUME NEW d \in Clients, reader'[d] = "commanding" PROVE inflight'[d].client = d
    OBVIOUS
  <2>1. CASE d = c
    BY <2>1 DEF ReadFrame, HubInv, TypeOK
  <2>2. CASE d # c
    <3>1. reader'[d] = reader[d] /\ inflight'[d] = inflight[d]
      BY <2>2 DEF ReadFrame, HubInv, TypeOK
    <3> QED BY <3>1 DEF HubInv, CommandsAreOwn
  <2> QED BY <2>1, <2>2
<1> QED BY <1>1, <1>2, <1>3, Undisturbed DEF ReadFrame

\* A command joins the queue: from a reader, hence from a registered connection,
\* or from the server, which names no connection.
LEMMA CommandKeepsHubInv ==
    ASSUME HubInv, TypeOK', NEW cmd \in Commands,
           cmd.client \in Registered \union {NoClient},
           roomCmd' = Append(roomCmd, cmd),
           UNCHANGED <<pc, cur, targets, panicked, clients, byUser, rooms, joined, closed>>,
           Registered' = Registered,
           \A c \in Clients : reader'[c] # reader[c] => reader[c] # "none" /\ reader'[c] # "commanding",
           \A c \in Clients : inflight'[c] # inflight[c] => reader'[c] # "commanding"
    PROVE  HubInv'
<1> USE DEF HubInv
<1>1. IndexConsistent'
  BY DEF IndexConsistent
<1>2. PanicOnlyFromGhost'
  BY DEF PanicOnlyFromGhost, Ghosts
<1>3. UnregisteredUnknown'
  BY DEF UnregisteredUnknown
<1>4. CommandsAreOwn'
  <2>1. \A c \in Clients : reader'[c] = "commanding" => inflight'[c].client = c
    BY DEF CommandsAreOwn
  <2>2. \A i \in 1 .. Len(roomCmd') : roomCmd'[i].client \in Registered' \union {NoClient}
    <3>1. roomCmd \in Seq(Commands)
      BY DEF TypeOK
    <3> QED BY <3>1 DEF CommandsAreOwn
  <2> QED BY <2>1, <2>2 DEF CommandsAreOwn
<1>5. TargetsAddressed'
  BY DEF TargetsAddressed
<1> QED BY <1>1, <1>2, <1>3, <1>4, <1>5

\* The removal of a client keeps the indexes in agreement, closes nothing twice
\* and takes nobody else out of anything.
LEMMA RemoveKeepsIndexes ==
    ASSUME HubInv, NEW c \in Clients, Remove(c), UNCHANGED joined, Registered' = Registered
    PROVE  /\ IndexConsistent'
           /\ panicked' = panicked
           /\ \A d \in Clients : d # c => (d \in clients' <=> d \in clients)
           /\ \A r \in Rooms : rooms'[r] \subseteq rooms[r] /\ rooms[r] \subseteq rooms'[r] \union {c}
           /\ \A d \in Clients : closed'[d] => closed[d] \/ d \in clients
<1> USE DEF HubInv
<1>1. CASE c \notin clients
  BY <1>1 DEF Remove, IndexConsistent
<1>2. CASE c \in clients
  <2>1. ~closed[c]
    BY <1>2 DEF IndexConsistent
  <2>2. /\ clients' = clients \ {c}
        /\ byUser' = [byUser EXCEPT ![UserOf[c]] = byUser[UserOf[c]] \ {c}]
        /\ rooms' = [r \in Rooms |-> IF r \in joined[c] THEN rooms[r] \ {c} ELSE rooms[r]]
        /\ closed' = [d \in Clients |-> closed[d] \/ d \in {c}]
        /\ panicked' = (panicked \/ \E d \in {c} : closed[d])
    BY <1>2 DEF Remove, CloseSend
  <2>3. panicked' = panicked
    BY <2>1, <2>2 DEF TypeOK
  <2>4. \A u \in Users : byUser'[u] = {d \in clients' : UserOf[d] = u}
    BY <2>2, UsersAssumption DEF IndexConsistent, TypeOK
  <2>5. \A r \in Rooms, d \in clients' : d \in rooms'[r] <=> r \in joined'[d]
    BY <2>2 DEF IndexConsistent, TypeOK
  <2>6. \A d \in Clients : (d \in clients') <=> (d \in Registered' /\ ~closed'[d])
    BY <2>2 DEF IndexConsistent, TypeOK
  <2>7. IndexConsistent'
    BY <2>4, <2>5, <2>6 DEF IndexConsistent
  <2> QED BY <1>2, <2>2, <2>3, <2>7
<1> QED BY <1>1, <1>2

LEMMA HubInvNext == HubInv /\ [Next]_vars => HubInv'
<1> SUFFICES ASSUME HubInv, [Next]_vars PROVE HubInv'
  OBVIOUS
<1> USE DEF HubInv
<1>0. TypeOK'
  BY TypeNext
<1>1. CASE UNCHANGED vars
  BY <1>0, <1>1, Undisturbed DEF vars, Registered, UnregisteredUnknown, CommandsAreOwn
<1>2. ASSUME ~panicked, NEW c \in Clients, ClientStep(c) PROVE HubInv'
  <2>1. CASE Connect(c)
    <3>1. Registered' = Registered
      BY <2>1 DEF Connect, Registered, TypeOK
    <3> QED BY <1>0, <2>1, <3>1, Undisturbed DEF Connect, UnregisteredUnknown, CommandsAreOwn
  <2>2. CASE HubRegister(c)
    <3>1. Registered' = Registered \union {c} /\ c \notin Registered
      BY <2>2 DEF HubRegister, Registered, TypeOK
    <3>2. ~closed[c] /\ joined[c] = {} /\ \A r \in Rooms : c \notin rooms[r]
      BY <3>1 DEF UnregisteredUnknown
    <3>3. IndexConsistent'
      <4>1. \A u \in Users : byUser'[u] = {d \in clients' : UserOf[d] = u}
        BY <2>2, UsersAssumption DEF HubRegister, IndexConsistent, TypeOK
      <4>2. \A r \in Rooms, d \in clients' : d \in rooms'[r] <=> r \in joined'[d]
        BY <2>2, <3>2 DEF HubRegister, IndexConsistent, TypeOK
      <4>3. \A d \in Clients : (d \in clients') <=> (d \in Registered' /\ ~closed'[d])
        BY <2>2, <3>1, <3>2 DEF HubRegister, IndexConsistent, TypeOK
      <4> QED BY <4>1, <4>2, <4>3 DEF IndexConsistent
    <3>4. PanicOnlyFromGhost'
      BY <1>2, <2>2 DEF HubRegister, PanicOnlyFromGhost
    <3>5. UnregisteredUnknown'
      BY <2>2, <3>1 DEF HubRegister, UnregisteredUnknown
    <3>6. CommandsAreOwn'
      BY <2>2, <3>1 DEF HubRegister, CommandsAreOwn
    <3>7. TargetsAddressed'
      BY <2>2 DEF HubRegister, TargetsAddressed
    <3> QED BY <1>0, <3>3, <3>4, <3>5, <3>6, <3>7
  <2>3. CASE StartPumps(c)
    <3>1. Registered' = Registered /\ c \in Registered
      BY <2>3 DEF StartPumps, Registered, TypeOK
    <3>2. \A d \in Clients : d \notin Registered => reader'[d] = "none"
      BY <2>3, <3>1 DEF StartPumps, UnregisteredUnknown, TypeOK
    <3>3. \A d \in Clients : reader'[d] = "commanding" => inflight'[d].client = d
      BY <2>3 DEF StartPumps, CommandsAreOwn, TypeOK
    <3> QED BY <1>0, <2>3, <3>1, <3>2, <3>3, Undisturbed DEF StartPumps
  <2>4. CASE PeerFail(c)
    BY <1>0, <2>4, Undisturbed DEF PeerFail, Registered, UnregisteredUnknown, CommandsAreOwn
  <2>5. CASE ReadJoin(c)
    <3>1. PICK r \in Rooms :
            ReadFrame(c, "commanding", [client |-> c, userID |-> Empty, room |-> r, join |-> TRUE])
      BY <2>5 DEF ReadJoin
    <3> QED BY <1>0, <3>1, ReadFrameKeepsHubInv
  <2>6. CASE ReadLeave(c)
    <3>1. PICK r \in Rooms :
            ReadFrame(c, "commanding", [client |-> c, userID |-> Empty, room |-> r, join |-> FALSE])
      BY <2>6 DEF ReadLeave
    <3> QED BY <1>0, <3>1, ReadFrameKeepsHubInv
  <2>7. CASE ReadChat(c)
    <3>1. PICK to \in {Everyone} \union {ToRoom(r) : r \in Rooms \ {Empty}} :
            ReadFrame(c, "publishing", [id |-> inputs + 1, from |-> c, to |-> to])
      BY <2>7 DEF ReadChat
    <3> QED BY <1>0, <3>1, ReadFrameKeepsHubInv
  <2>8. CASE SendCommand(c)
    <3>1. inflight[c] \in Commands /\ inflight[c].client \in Registered
      BY <2>8 DEF SendCommand, TypeOK, CommandsAreOwn, UnregisteredUnknown
    <3>2. Registered' = Registered
      BY <2>8 DEF SendCommand, Registered
    <3>3. \A d \in Clients : reader'[d] # reader[d] => reader[d] # "none" /\ reader'[d] # "commanding"
      BY <2>8 DEF SendCommand, TypeOK
    <3>4. \A d \in Clients : inflight'[d] # inflight[d] => reader'[d] # "commanding"
      BY <2>8 DEF SendCommand, TypeOK
    <3> QED BY <1>0, <2>8, <3>1, <3>2, <3>3, <3>4, CommandKeepsHubInv DEF SendCommand
  <2>9. CASE SendChat(c)
    <3>1. \A d \in Clients : d \notin Registered => reader'[d] = "none"
      BY <2>9 DEF SendChat, UnregisteredUnknown, TypeOK
    <3>2. \A d \in Clients : reader'[d] = "commanding" => inflight'[d].client = d
      BY <2>9 DEF SendChat, CommandsAreOwn, TypeOK
    <3> QED BY <1>0, <2>9, <3>1, <3>2, Undisturbed DEF SendChat, Registered
  <2>10. CASE ReadFail(c)
    <3>1. \A d \in Clients : d \notin Registered => reader'[d] = "none"
      BY <2>10 DEF ReadFail, UnregisteredUnknown, TypeOK
    <3>2. \A d \in Clients : reader'[d] = "commanding" => inflight'[d].client = d
      BY <2>10 DEF ReadFail, CommandsAreOwn, TypeOK
    <3> QED BY <1>0, <2>10, <3>1, <3>2, Undisturbed DEF ReadFail, Registered
  <2>11. CASE ReaderClose(c)
    <3>1. \A d \in Clients : d \notin Registered => reader'[d] = "none"
      BY <2>11 DEF ReaderClose, UnregisteredUnknown, TypeOK
    <3>2. \A d \in Clients : reader'[d] = "commanding" => inflight'[d].client = d
      BY <2>11 DEF ReaderClose, CommandsAreOwn, TypeOK
    <3> QED BY <1>0, <2>11, <3>1, <3>2, Undisturbed DEF ReaderClose, Registered
  <2>12. CASE WriterStep(c)
    BY <1>0, <2>12, Undisturbed
       DEF WriterStep, WriterTake, WriterSeesClose, WriterPingFails, Registered,
           UnregisteredUnknown, CommandsAreOwn
  <2>13. CASE HubUnregister(c)
    <3>1. Registered' = Registered
      BY <2>13 DEF HubUnregister, Registered
    <3>2. /\ IndexConsistent'
          /\ panicked' = panicked
          /\ \A r \in Rooms : rooms'[r] \subseteq rooms[r]
          /\ \A d \in Clients : closed'[d] => closed[d] \/ d \in clients
      BY <2>13, <3>1, RemoveKeepsIndexes DEF HubUnregister
    <3>3. PanicOnlyFromGhost'
      BY <1>2, <3>2 DEF PanicOnlyFromGhost
    <3>4. UnregisteredUnknown'
      <4>1. \A d \in Clients : d \notin Registered => reader'[d] = "none"
        BY <2>13 DEF HubUnregister, UnregisteredUnknown, TypeOK
      <4>2. clients \subseteq Registered
        BY DEF IndexConsistent, TypeOK
      <4> QED BY <2>13, <3>1, <3>2, <4>1, <4>2 DEF HubUnregister, UnregisteredUnknown
    <3>5. CommandsAreOwn'
      <4>1. \A d \in Clients : reader'[d] = "commanding" => inflight'[d].client = d
        BY <2>13 DEF HubUnregister, CommandsAreOwn, TypeOK
      <4> QED BY <2>13, <3>1, <4>1 DEF HubUnregister, CommandsAreOwn
    <3>6. TargetsAddressed'
      BY <2>13 DEF HubUnregister, TargetsAddressed
    <3> QED BY <1>0, <3>2, <3>3, <3>4, <3>5, <3>6
  <2>14. CASE HubDeliver(c)
    <3>1. Registered' = Registered /\ UNCHANGED joined
      BY <2>14 DEF HubDeliver, Registered
    <3>2. c \in IF cur.to.room # Empty THEN rooms[cur.to.room] ELSE clients
      BY <2>14 DEF HubDeliver, TargetsAddressed
    <3>3. CommandsAreOwn'
      BY <2>14, <3>1 DEF HubDeliver, CommandsAreOwn
    <3>4. cur \in Messages /\ cur.to.room \in Rooms \union {Empty}
      BY <2>14, CallShape DEF HubDeliver, Messages, TypeOK
    <3>5. CASE closed[c] /\ panicked' /\ UNCHANGED <<clients, byUser, rooms, send, closed>>
      <4>1. IndexConsistent'
        BY <3>1, <3>5 DEF IndexConsistent
      <4>2. PanicOnlyFromGhost'
        BY <3>2, <3>4, <3>5 DEF IndexConsistent, PanicOnlyFromGhost, Ghosts
      <4>3. UnregisteredUnknown'
        BY <2>14, <3>1, <3>5 DEF HubDeliver, UnregisteredUnknown
      <4>4. TargetsAddressed'
        BY <2>14, <3>5 DEF HubDeliver, TargetsAddressed
      <4> QED BY <1>0, <3>3, <4>1, <4>2, <4>3, <4>4
    <3>6. CASE UNCHANGED <<panicked, clients, byUser, rooms, closed>>
      <4>1. IndexConsistent'
        BY <3>1, <3>6 DEF IndexConsistent
      <4>2. PanicOnlyFromGhost'
        BY <1>2, <3>6 DEF PanicOnlyFromGhost
      <4>3. UnregisteredUnknown'
        BY <2>14, <3>1, <3>6 DEF HubDeliver, UnregisteredUnknown
      <4>4. TargetsAddressed'
        BY <2>14, <3>6 DEF HubDeliver, TargetsAddressed
      <4> QED BY <1>0, <3>3, <4>1, <4>2, <4>3, <4>4
    <3>7. CASE Remove(c)
      <4>1. /\ IndexConsistent'
            /\ panicked' = panicked
            /\ \A d \in Clients : d # c => (d \in clients' <=> d \in clients)
            /\ \A r \in Rooms : rooms'[r] \subseteq rooms[r] /\ rooms[r] \subseteq rooms'[r] \union {c}
            /\ \A d \in Clients : closed'[d] => closed[d] \/ d \in clients
        BY <3>1, <3>7, RemoveKeepsIndexes
      <4>2. PanicOnlyFromGhost'
        BY <1>2, <4>1 DEF PanicOnlyFromGhost
      <4>3. UnregisteredUnknown'
        <5>1. clients \subseteq Registered
          BY DEF IndexConsistent, TypeOK
        <5> QED BY <2>14, <3>1, <4>1, <5>1 DEF HubDeliver, UnregisteredUnknown
      <4>4. TargetsAddressed'
        <5> SUFFICES ASSUME pc' = "deliver"
                     PROVE  targets' \subseteq IF cur'.to.room # Empty THEN rooms'[cur'.to.room] ELSE clients'
          BY DEF TargetsAddressed
        <5>1. targets' = targets \ {c} /\ cur' = cur /\ targets \subseteq Clients
          BY <2>14 DEF HubDeliver, TypeOK
        <5>2. targets \subseteq IF cur.to.room # Empty THEN rooms[cur.to.room] ELSE clients
          BY <2>14 DEF HubDeliver, TargetsAddressed
        <5> QED BY <3>4, <4>1, <5>1, <5>2
      <4> QED BY <1>0, <3>3, <4>1, <4>2, <4>3, <4>4
    <3> QED BY <2>14, <3>5, <3>6, <3>7 DEF HubDeliver
  <2> QED
    BY <1>2, <2>1, <2>2, <2>3, <2>4, <2>5, <2>6, <2>7, <2>8, <2>9, <2>10, <2>11, <2>12,
       <2>13, <2>14 DEF ClientStep
<1>3. CASE ServerPublish
  BY <1>0, <1>3, Undisturbed
     DEF ServerPublish, Registered, UnregisteredUnknown, CommandsAreOwn
<1>4. CASE ServerCommand
  <2>1. PICK cmd \in ServerCommands : roomCmd' = Append(roomCmd, cmd)
    BY <1>4 DEF ServerCommand
  <2>2. cmd \in Commands /\ cmd.client = NoClient
    BY ServerAssumption DEF Commands
  <2>3. Registered' = Registered
    BY <1>4 DEF ServerCommand, Registered
  <2> QED BY <1>0, <1>4, <2>1, <2>2, <2>3, CommandKeepsHubInv DEF ServerCommand
<1>5. CASE Cancel
  BY <1>0, <1>5, Undisturbed DEF Cancel, Registered, UnregisteredUnknown, CommandsAreOwn
<1>6. ASSUME ~panicked, HubRoom PROVE HubInv'
  <2> DEFINE cmd == Head(roomCmd)
             members == CommandTargets(cmd)
  <2>1. roomCmd \in Seq(Commands) /\ roomCmd # <<>> /\ roomCmd' = Tail(roomCmd)
    BY <1>6 DEF HubRoom, TypeOK
  <2>2. cmd = roomCmd[1] /\ cmd \in Commands /\ 1 \in 1 .. Len(roomCmd)
    BY <2>1
  <2>3. members \subseteq Registered
    <3>1. cmd.client \in Registered \union {NoClient}
      BY <2>2 DEF CommandsAreOwn
    <3>2. clients \subseteq Registered
      BY DEF IndexConsistent, TypeOK
    <3> QED BY <2>2, <3>1, <3>2 DEF CommandTargets, Commands, IndexConsistent
  <2>4. Registered' = Registered
    BY <1>6 DEF HubRoom, Registered
  <2>5. cmd.room \in Rooms /\ cmd.join \in BOOLEAN
    BY <2>2 DEF Commands
  <2>6. /\ rooms' = [rooms EXCEPT ![cmd.room] =
                       IF cmd.join THEN rooms[cmd.room] \union members ELSE rooms[cmd.room] \ members]
        /\ joined' = [c \in Clients |->
                        IF c \notin members THEN joined[c]
                        ELSE IF cmd.join THEN joined[c] \union {cmd.room}
                        ELSE joined[c] \ {cmd.room}]
    BY <1>6 DEF HubRoom, HandleRoom
  <2> HIDE DEF cmd, members
  <2>7. IndexConsistent'
    <3>1. \A r \in Rooms, c \in clients : c \in rooms'[r] <=> r \in joined'[c]
      BY <2>5, <2>6 DEF IndexConsistent, TypeOK
    <3> QED BY <1>6, <2>4, <3>1 DEF HubRoom, IndexConsistent
  <2>8. PanicOnlyFromGhost'
    BY <1>6 DEF HubRoom, PanicOnlyFromGhost
  <2>9. UnregisteredUnknown'
    <3>1. \A c \in Clients : c \notin Registered => joined'[c] = {} /\ \A r \in Rooms : c \notin rooms'[r]
      BY <2>3, <2>5, <2>6 DEF UnregisteredUnknown, TypeOK
    <3> QED BY <1>6, <2>4, <3>1 DEF HubRoom, UnregisteredUnknown
  <2>10. CommandsAreOwn'
    <3>1. \A i \in 1 .. Len(roomCmd') : roomCmd'[i].client \in Registered \union {NoClient}
      <4>1. \A i \in 1 .. Len(roomCmd') : i + 1 \in 1 .. Len(roomCmd) /\ roomCmd'[i] = roomCmd[i + 1]
        BY <2>1
      <4> QED BY <4>1 DEF CommandsAreOwn
    <3> QED BY <1>6, <2>4, <3>1 DEF HubRoom, CommandsAreOwn
  <2>11. TargetsAddressed'
    BY <1>6 DEF HubRoom, TargetsAddressed
  <2> QED BY <1>0, <2>7, <2>8, <2>9, <2>10, <2>11
<1>7. ASSUME ~panicked, HubDispatch PROVE HubInv'
  <2>1. Registered' = Registered
    BY <1>7 DEF HubDispatch, Registered
  <2>2. IndexConsistent' /\ PanicOnlyFromGhost'
    BY <1>7, <2>1 DEF HubDispatch, IndexConsistent, PanicOnlyFromGhost
  <2>3. UnregisteredUnknown' /\ CommandsAreOwn'
    BY <1>7, <2>1 DEF HubDispatch, UnregisteredUnknown, CommandsAreOwn
  <2>4. TargetsAddressed'
    <3>1. Head(broadcast) \in Messages
      BY <1>7, BufferAssumption, Dequeue DEF HubDispatch, TypeOK
    <3>2. Head(broadcast).to.userID \in Users \union {Empty}
      BY <3>1, CallShape DEF Messages
    <3> QED BY <1>7, <3>2 DEF HubDispatch, Audience, TargetsAddressed, IndexConsistent
  <2> QED BY <1>0, <2>2, <2>3, <2>4
<1>8. ASSUME ~panicked, HubStop PROVE HubInv'
  <2>1. Registered' = Registered
    BY <1>8 DEF HubStop, Registered
  <2>2. /\ closed' = [c \in Clients |-> closed[c] \/ c \in clients]
        /\ panicked' = (panicked \/ \E c \in clients : closed[c])
    BY <1>8 DEF HubStop, CloseSend
  <2>3. IndexConsistent'
    BY <1>8, <2>1, <2>2 DEF HubStop, IndexConsistent, TypeOK
  <2>4. PanicOnlyFromGhost'
    BY <1>8, <2>2 DEF PanicOnlyFromGhost, IndexConsistent, TypeOK
  <2>5. UnregisteredUnknown'
    BY <1>8, <2>1, <2>2 DEF HubStop, UnregisteredUnknown, IndexConsistent, TypeOK
  <2>6. CommandsAreOwn' /\ TargetsAddressed'
    BY <1>8, <2>1 DEF HubStop, CommandsAreOwn, TargetsAddressed
  <2> QED BY <1>0, <2>3, <2>4, <2>5, <2>6
<1> QED
  BY <1>1, <1>2, <1>3, <1>4, <1>5, <1>6, <1>7, <1>8 DEF Next

THEOREM HubInvariant == Spec => []HubInv
  BY HubInvInit, HubInvNext, PTL DEF Spec

\* Hub.clients, Hub.byUser, Hub.rooms, Client.rooms and the open channels agree in
\* every reachable state, for any number of connections and any buffer sizes.
THEOREM IndexesAgree == Spec => []IndexConsistent
  BY HubInvariant, PTL DEF HubInv

\* The one way the hub goroutine panics is a room message to a ghost member.
THEOREM PanicNeedsGhost == Spec => []PanicOnlyFromGhost
  BY HubInvariant, PTL DEF HubInv

\* A room message is queued only for a client that is in the room at that moment.
THEOREM OnlyMembersGetRoomMessages == Spec => MembersOnly
<1> DEFINE Step == \A c \in Clients :
                     (Len(send'[c]) > Len(send[c]) /\ cur.to.room # Empty) => cur.to.room \in joined[c]
<1>1. HubInv /\ [Next]_vars => [Step]_vars
  <2> SUFFICES ASSUME HubInv, Next, NEW c \in Clients,
                      Len(send'[c]) > Len(send[c]), cur.to.room # Empty
               PROVE  cur.to.room \in joined[c]
    BY DEF Step
  <2> USE DEF HubInv
  <2>1. HubDeliver(c)
    <3>1. ~ UNCHANGED send
      OBVIOUS
    <3>2. ASSUME NEW d \in Clients, WriterTake(d) PROVE FALSE
      <4>1. send' = [send EXCEPT ![d] = Tail(send[d])] /\ send[d] # <<>> /\ send[d] \in Seq(Messages)
        BY <3>2 DEF WriterTake, TypeOK
      <4>2. Len(Tail(send[d])) < Len(send[d])
        BY <4>1
      <4>3. send'[c] = IF c = d THEN Tail(send[d]) ELSE send[c]
        BY <4>1 DEF TypeOK
      <4>4. Len(send[c]) \in Nat /\ Len(Tail(send[d])) \in Nat
        BY <4>1 DEF TypeOK
      <4> QED BY <4>2, <4>3, <4>4
    <3>3. PICK d \in Clients : HubDeliver(d)
      BY <3>1, <3>2
         DEF Next, ClientStep, Connect, HubRegister, StartPumps, PeerFail, ReadJoin, ReadLeave,
             ReadChat, ReadFrame, SendCommand, SendChat, ReadFail, ReaderClose, WriterStep,
             WriterSeesClose, WriterPingFails, HubUnregister, ServerPublish, ServerCommand,
             Cancel, HubRoom, HubDispatch, HubStop
    <3>4. send' = [send EXCEPT ![d] = Append(send[d], cur)]
      BY <3>1, <3>3 DEF HubDeliver
    <3>5. c = d
      <4>1. c # d => send'[c] = send[c]
        BY <3>4 DEF TypeOK
      <4> QED BY <4>1 DEF TypeOK
    <3> QED BY <3>3, <3>5
  <2>2. c \in targets /\ pc = "deliver" /\ ~closed[c]
    BY <2>1 DEF HubDeliver
  <2>3. c \in rooms[cur.to.room]
    BY <2>2 DEF TargetsAddressed
  <2>4. cur.to.room \in Rooms
    BY <2>2, CallShape DEF Messages, TypeOK
  <2>5. c \in clients
    BY <2>2, <2>3, <2>4 DEF UnregisteredUnknown, IndexConsistent
  <2> QED BY <2>3, <2>4, <2>5 DEF IndexConsistent
<1> QED BY <1>1, HubInvariant, PTL DEF Spec, MembersOnly

LEMMA ForgottenNext == HubInv /\ NobodyForgotten /\ [Next]_vars => NobodyForgotten'
<1> SUFFICES ASSUME HubInv, NobodyForgotten, [Next]_vars PROVE NobodyForgotten'
  OBVIOUS
<1> USE DEF HubInv
<1>1. CASE UNCHANGED <<pc, clients, closed, reader, handler>>
  BY <1>1 DEF NobodyForgotten, Registered
\* Until the hub stops, the second half says nothing.
<1>2. ASSUME pc' # "stopped", \A c \in clients' : reader'[c] \notin {"closing", "done"}
      PROVE  NobodyForgotten'
  BY <1>2 DEF NobodyForgotten
<1>3. pc = "stopped" => clients = {}
  BY DEF NobodyForgotten, IndexConsistent, TypeOK
<1>4. ASSUME NEW c \in Clients, ClientStep(c) PROVE NobodyForgotten'
  <2>1. CASE HubRegister(c)
    <3>1. c \notin Registered
      BY <2>1 DEF HubRegister, Registered
    <3>2. reader'[c] = "none"
      BY <2>1, <3>1 DEF HubRegister, UnregisteredUnknown
    <3> QED BY <1>2, <2>1, <3>2 DEF HubRegister, NobodyForgotten
  <2>2. CASE HubUnregister(c)
    <3>1. c \notin clients'
      BY <2>2 DEF HubUnregister, Remove
    <3>2. clients' \subseteq clients
      BY <2>2 DEF HubUnregister, Remove
    <3>3. \A d \in Clients : d # c => reader'[d] = reader[d]
      BY <2>2 DEF HubUnregister, TypeOK
    <3>4. pc' # "stopped"
      BY <2>2 DEF HubUnregister
    <3> QED BY <1>2, <3>1, <3>2, <3>3, <3>4 DEF NobodyForgotten, TypeOK
  <2>3. CASE HubDeliver(c)
    <3>1. clients' \subseteq clients
      BY <2>3 DEF HubDeliver, Remove
    <3>2. pc' # "stopped" /\ UNCHANGED reader
      BY <2>3 DEF HubDeliver
    <3> QED BY <1>2, <3>1, <3>2 DEF NobodyForgotten
  \* Whatever the goroutines of a connection do, they end no pump that still reads.
  <2>4. ASSUME UNCHANGED <<pc, clients, closed>>, Registered' = Registered,
               \A d \in Clients : reader'[d] \in {"closing", "done"} => reader[d] \in {"closing", "done"}
        PROVE  NobodyForgotten'
    BY <2>4 DEF NobodyForgotten, TypeOK
  <2>5. CASE StartPumps(c) \/ SendCommand(c) \/ SendChat(c) \/ ReadFail(c) \/ ReaderClose(c)
    BY <2>4, <2>5 DEF StartPumps, SendCommand, SendChat, ReadFail, ReaderClose, Registered, TypeOK
  <2>6. CASE Connect(c) \/ PeerFail(c) \/ WriterStep(c)
    BY <2>4, <2>6
       DEF Connect, PeerFail, WriterStep, WriterTake, WriterSeesClose, WriterPingFails, Registered, TypeOK
  <2>7. CASE ReadJoin(c) \/ ReadLeave(c) \/ ReadChat(c)
    BY <2>4, <2>7 DEF ReadJoin, ReadLeave, ReadChat, ReadFrame, Registered, TypeOK
  <2> QED BY <1>4, <2>1, <2>2, <2>3, <2>5, <2>6, <2>7 DEF ClientStep
<1>5. CASE HubRoom \/ ServerPublish \/ ServerCommand \/ Cancel
  BY <1>1, <1>5 DEF HubRoom, ServerPublish, ServerCommand, Cancel
<1>6. CASE HubDispatch
  <2>1. pc' # "stopped" /\ UNCHANGED <<clients, reader>>
    BY <1>6 DEF HubDispatch
  <2> QED BY <1>2, <2>1 DEF NobodyForgotten
<1>7. CASE HubStop
  <2>1. clients' = {} /\ Registered' = Registered
        /\ closed' = [c \in Clients |-> closed[c] \/ c \in clients]
    BY <1>7 DEF HubStop, CloseSend, Registered
  <2>2. \A c \in Registered : closed'[c]
    BY <2>1 DEF IndexConsistent, Registered
  <2> QED BY <2>1, <2>2 DEF NobodyForgotten
<1> QED BY <1>1, <1>4, <1>5, <1>6, <1>7 DEF Next, vars

\* No connection is forgotten in the hub, whoever is dropped, leaves or fails and however
\* the hub ends.
THEOREM ForgetsNobody == Spec => []NobodyForgotten
<1>1. Init => NobodyForgotten
  BY DEF Init, NobodyForgotten
<1> QED BY <1>1, ForgottenNext, HubInvariant, PTL DEF Spec
-----------------------------------------------------------------------------
(* Servers that keep the joins to themselves. *)

JoinsByServerOnly == \A c \in Clients : "join" \notin ClientKinds[c]

ServerJoinInv ==
    /\ HubInv
    /\ NoGhosts
    /\ \A c \in Clients : reader[c] = "commanding" => ~inflight[c].join
    /\ \A i \in 1 .. Len(roomCmd) : roomCmd[i].client # NoClient => ~roomCmd[i].join

LEMMA ServerJoinNext ==
    ASSUME JoinsByServerOnly
    PROVE  ServerJoinInv /\ [Next]_vars => ServerJoinInv'
<1> SUFFICES ASSUME ServerJoinInv, [Next]_vars PROVE ServerJoinInv'
  OBVIOUS
<1> USE DEF ServerJoinInv
<1>0. HubInv' /\ TypeOK /\ TypeOK'
  BY HubInvNext, TypeNext DEF HubInv
<1>1. \A c \in Clients : reader'[c] = "commanding" => ~inflight'[c].join
  <2> SUFFICES ASSUME NEW d \in Clients, reader'[d] = "commanding" PROVE ~inflight'[d].join
    OBVIOUS
  <2>1. CASE reader'[d] = reader[d] /\ inflight'[d] = inflight[d]
    BY <2>1
  <2>2. CASE \E c \in Clients : ReadJoin(c) \/ ReadLeave(c) \/ ReadChat(c)
    <3>1. PICK c \in Clients : ReadLeave(c) \/ ReadChat(c)
      BY <2>2 DEF ReadJoin, JoinsByServerOnly
    <3>2. CASE d # c
      <4>1. reader'[d] = reader[d] /\ inflight'[d] = inflight[d]
        BY <1>0, <3>1, <3>2 DEF ReadLeave, ReadChat, ReadFrame, TypeOK
      <4> QED BY <2>1, <4>1
    <3>3. CASE d = c /\ ReadLeave(c)
      BY <1>0, <3>3 DEF ReadLeave, ReadFrame, TypeOK
    <3>4. CASE d = c /\ ReadChat(c)
      BY <1>0, <3>4 DEF ReadChat, ReadFrame, TypeOK
    <3> QED BY <3>1, <3>2, <3>3, <3>4
  <2>3. CASE \E c \in Clients : StartPumps(c) \/ SendCommand(c) \/ SendChat(c) \/ ReadFail(c)
                               \/ ReaderClose(c) \/ HubUnregister(c)
    BY <1>0, <2>3 DEF StartPumps, SendCommand, SendChat, ReadFail, ReaderClose, HubUnregister, TypeOK
  <2> QED
    BY <2>1, <2>2, <2>3
       DEF Next, vars, ClientStep, Connect, HubRegister, PeerFail, WriterStep, WriterTake,
           WriterSeesClose, WriterPingFails, WriterReturns, HubDeliver, ServerPublish,
           ServerCommand, Cancel, HubRoom, HubDispatch, HubStop
<1>2. \A i \in 1 .. Len(roomCmd') : roomCmd'[i].client # NoClient => ~roomCmd'[i].join
  <2>1. CASE UNCHANGED roomCmd
    BY <2>1
  <2>2. CASE \E cmd : roomCmd' = Append(roomCmd, cmd) /\ (cmd.client # NoClient => ~cmd.join)
    BY <1>0, <2>2 DEF TypeOK
  <2>3. CASE HubRoom
    BY <1>0, <2>3 DEF HubRoom, TypeOK
  <2>4. CASE ServerCommand
    BY <2>2, <2>4, ServerAssumption DEF ServerCommand
  <2>5. CASE \E c \in Clients : SendCommand(c)
    BY <2>2, <2>5 DEF SendCommand
  <2> QED
    BY <2>1, <2>3, <2>4, <2>5
       DEF Next, vars, ClientStep, Connect, HubRegister, StartPumps, PeerFail, ReadJoin,
           ReadLeave, ReadChat, ReadFrame, SendChat, ReadFail, ReaderClose, WriterStep,
           WriterTake, WriterSeesClose, WriterPingFails, HubUnregister, HubDeliver,
           ServerPublish, Cancel, HubDispatch, HubStop
<1>3. NoGhosts'
  <2>1. CASE UNCHANGED <<clients, rooms, panicked>>
    BY <2>1 DEF NoGhosts, Ghosts
  <2>2. CASE \E c \in Clients : HubRegister(c)
    BY <2>2 DEF HubRegister, NoGhosts, Ghosts
  <2>3. ASSUME NEW c \in Clients, Remove(c), ~panicked, UNCHANGED joined, Registered' = Registered
        PROVE  NoGhosts'
    <3>1. CASE c \notin clients
      BY <2>1, <2>3, <3>1 DEF Remove
    <3>2. CASE c \in clients
      <4>1. /\ clients' = clients \ {c}
            /\ rooms' = [r \in Rooms |-> IF r \in joined[c] THEN rooms[r] \ {c} ELSE rooms[r]]
        BY <2>3, <3>2 DEF Remove
      <4>2. ~panicked'
        BY <2>3, RemoveKeepsIndexes
      <4>3. \A r \in Rooms : rooms'[r] \subseteq clients'
        BY <3>2, <4>1 DEF HubInv, IndexConsistent, NoGhosts, Ghosts
      <4> QED BY <4>2, <4>3 DEF NoGhosts, Ghosts
    <3> QED BY <3>1, <3>2
  <2>4. CASE \E c \in Clients : HubUnregister(c)
    BY <2>3, <2>4 DEF HubUnregister, Registered, NoGhosts
  <2>5. ASSUME NEW c \in Clients, HubDeliver(c) PROVE NoGhosts'
    <3>1. ~closed[c]
      <4>1. c \in clients
        <5>1. c \in IF cur.to.room # Empty THEN rooms[cur.to.room] ELSE clients
          BY <2>5 DEF HubDeliver, HubInv, TargetsAddressed
        <5>2. cur.to.room \in Rooms \union {Empty}
          BY <1>0, <2>5, CallShape DEF HubDeliver, Messages, TypeOK
        <5> QED BY <5>1, <5>2 DEF NoGhosts, Ghosts
      <4> QED BY <4>1 DEF HubInv, IndexConsistent
    <3> QED BY <2>1, <2>3, <2>5, <3>1 DEF HubDeliver, Registered, NoGhosts
  <2>6. CASE HubRoom
    <3> DEFINE cmd == Head(roomCmd)
    <3>1. cmd = roomCmd[1] /\ 1 \in 1 .. Len(roomCmd) /\ cmd \in Commands
      BY <1>0, <2>6 DEF HubRoom, TypeOK
    <3>2. cmd.join => CommandTargets(cmd) \subseteq clients
      BY <3>1 DEF CommandTargets, Commands, HubInv, IndexConsistent
    <3>3. /\ rooms' = [rooms EXCEPT ![cmd.room] =
                         IF cmd.join THEN rooms[cmd.room] \union CommandTargets(cmd)
                         ELSE rooms[cmd.room] \ CommandTargets(cmd)]
          /\ UNCHANGED <<clients, panicked>>
      BY <2>6 DEF HubRoom, HandleRoom
    <3>4. \A r \in Rooms : rooms'[r] \subseteq clients
      BY <1>0, <3>2, <3>3 DEF NoGhosts, Ghosts, TypeOK
    <3> QED BY <3>3, <3>4 DEF NoGhosts, Ghosts
  <2>7. CASE HubStop
    <3>1. ~panicked'
      BY <2>7 DEF HubStop, CloseSend, NoGhosts, HubInv, IndexConsistent, TypeOK
    <3> QED BY <2>7, <3>1 DEF HubStop, NoGhosts, Ghosts
  <2> QED
    BY <2>1, <2>2, <2>4, <2>5, <2>6, <2>7
       DEF Next, vars, ClientStep, Connect, StartPumps, PeerFail, ReadJoin, ReadLeave,
           ReadChat, ReadFrame, SendCommand, SendChat, ReadFail, ReaderClose, WriterStep,
           WriterTake, WriterSeesClose, WriterPingFails, ServerPublish, ServerCommand, Cancel,
           HubDispatch
<1> QED BY <1>0, <1>1, <1>2, <1>3

\* When connections do not join rooms themselves but the server does it for them
\* (JoinUser), no room ever holds a forgotten connection and the hub never panics.
THEOREM ServerJoinsNeverPanic ==
    ASSUME JoinsByServerOnly
    PROVE  Spec => []NoGhosts
<1>1. Init => ServerJoinInv
  BY HubInvInit DEF Init, ServerJoinInv, NoGhosts, Ghosts
<1>2. ServerJoinInv /\ [Next]_vars => ServerJoinInv'
  BY ServerJoinNext
<1>3. ServerJoinInv => NoGhosts
  BY DEF ServerJoinInv
<1> QED BY <1>1, <1>2, <1>3, PTL DEF Spec
=============================================================================
