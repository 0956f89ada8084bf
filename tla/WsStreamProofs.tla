--------------------------- MODULE WsStreamProofs ---------------------------
(***************************************************************************)
(* What the clients of the hub receive: in which order, who receives it,   *)
(* and that nothing is lost silently (module Fanout), for any number of    *)
(* clients, users and rooms and any buffer sizes.                          *)
(***************************************************************************)
EXTENDS WsHubProofs, Membership

USE DEF loopVars, indexVars, queueVars, sendVars, connVars, envVars

-----------------------------------------------------------------------------
(* The stream of a client is the same whether a message is in the buffer or *)
(* has been taken, so only the fan-out loop changes it.                     *)

LEMMA StreamType ==
    ASSUME TypeOK, NEW c \in Clients
    PROVE  Stream(c) \in Seq(Messages)
  BY DEF TypeOK, Stream

LEMMA StreamUntouched ==
    ASSUME UNCHANGED <<send, taken>>, NEW c \in Clients
    PROVE  Stream(c)' = Stream(c)
  BY DEF Stream

\* Moving the head of one sequence to the end of the other keeps their concatenation.
LEMMA MoveHead ==
    ASSUME NEW S, NEW t \in Seq(S), NEW s \in Seq(S), s # <<>>
    PROVE  Append(t, Head(s)) \o Tail(s) = t \o s
<1>1. Append(t, Head(s)) \in Seq(S) /\ Tail(s) \in Seq(S) /\ Len(s) >= 1
  OBVIOUS
<1>2. Len(Append(t, Head(s)) \o Tail(s)) = Len(t \o s)
  BY <1>1
<1>3. ASSUME NEW i \in 1 .. Len(t \o s)
      PROVE  (Append(t, Head(s)) \o Tail(s))[i] = (t \o s)[i]
  BY <1>1, <1>3
<1> QED BY <1>1, <1>2, <1>3

LEMMA StreamTaken ==
    ASSUME TypeOK, NEW c \in Clients, WriterTake(c), NEW d \in Clients
    PROVE  Stream(d)' = Stream(d)
<1>1. CASE d = c
  <2>1. send'[c] = Tail(send[c]) /\ taken'[c] = Append(taken[c], Head(send[c])) /\ send[c] # <<>>
    BY DEF WriterTake, TypeOK
  <2>2. taken[c] \in Seq(Messages) /\ send[c] \in Seq(Messages)
    BY DEF TypeOK
  <2> QED BY <1>1, <2>1, <2>2, MoveHead DEF Stream
<1>2. CASE d # c
  BY <1>2 DEF WriterTake, TypeOK, Stream
<1> QED BY <1>1, <1>2

LEMMA StreamGrows ==
    ASSUME TypeOK, NEW c \in Clients, cur \in Messages, UNCHANGED taken,
           send' = [send EXCEPT ![c] = Append(send[c], cur)], NEW d \in Clients
    PROVE  Stream(d)' = IF d = c THEN Append(Stream(c), cur) ELSE Stream(d)
<1>1. taken[c] \in Seq(Messages) /\ send[c] \in Seq(Messages)
  BY DEF TypeOK
<1>2. ASSUME NEW t \in Seq(Messages), NEW s \in Seq(Messages), NEW m \in Messages
      PROVE  t \o Append(s, m) = Append(t \o s, m)
  <2>1. Len(t \o Append(s, m)) = Len(Append(t \o s, m))
    OBVIOUS
  <2>2. ASSUME NEW i \in 1 .. Len(t) + Len(s) + 1
        PROVE  (t \o Append(s, m))[i] = Append(t \o s, m)[i]
    OBVIOUS
  <2> QED BY <2>1, <2>2
<1>3. CASE d = c
  BY <1>1, <1>2, <1>3 DEF Stream, TypeOK
<1>4. CASE d # c
  BY <1>4 DEF Stream, TypeOK
<1> QED BY <1>3, <1>4

-----------------------------------------------------------------------------
(* The order of messages. *)

\* Of two messages of one sender, a was sent first.
Before(a, b) == a.from = b.from => a.id < b.id

\* Every message that has been accepted and not dropped.
Sent ==
    {broadcast[i] : i \in 1 .. Len(broadcast)}
        \union (IF pc = "deliver" THEN {cur} ELSE {})
        \union UNION {{Stream(c)[i] : i \in 1 .. Len(Stream(c))} : c \in Clients}

\* What waits was sent before what waits behind it, what is being handed out before
\* all that waits, and what was handed out before what is and what will be.
QueueOrdered ==
    \A i, j \in 1 .. Len(broadcast) : i < j => Before(broadcast[i], broadcast[j])

CurFirst == pc = "deliver" => \A k \in 1 .. Len(broadcast) : Before(cur, broadcast[k])

StreamsFirst ==
    \A c \in Clients : \A i \in 1 .. Len(Stream(c)) :
        /\ \A k \in 1 .. Len(broadcast) : Before(Stream(c)[i], broadcast[k])
        /\ c \in targets => Before(Stream(c)[i], cur)

\* A message a reader still holds is the last of its sender.
PendingLast ==
    \A c \in Clients : reader[c] = "publishing" =>
        /\ inflight[c].from = c /\ inflight[c].id <= inputs
        /\ \A m \in Sent : Before(m, inflight[c])

IdsCounted == \A m \in Sent : m.id <= inputs

LoopIdle == pc # "deliver" => targets = {}

OrderInv ==
    /\ TypeOK
    /\ QueueOrdered
    /\ CurFirst
    /\ StreamsFirst
    /\ PendingLast
    /\ IdsCounted
    /\ LoopIdle
    /\ SenderOrder

LEMMA OrderInit == Init => OrderInv
<1> SUFFICES ASSUME Init PROVE OrderInv
  OBVIOUS
<1>1. TypeOK
  BY TypeInit
<1>2. \A c \in Clients : Stream(c) = <<>>
  BY DEF Init, Stream
<1>3. Sent = {}
  BY <1>2 DEF Sent, Init
<1> QED
  BY <1>1, <1>2, <1>3 DEF Init, OrderInv, QueueOrdered, CurFirst, StreamsFirst, PendingLast,
                          IdsCounted, LoopIdle, SenderOrder

LEMMA SentTyped ==
    ASSUME TypeOK
    PROVE  Sent \subseteq Messages
  BY StreamType DEF Sent, TypeOK

\* A step that moves no message.
LEMMA OrderKept ==
    ASSUME OrderInv, TypeOK', UNCHANGED <<broadcast, cur, targets>>,
           pc' = "deliver" <=> pc = "deliver",
           \A c \in Clients : Stream(c)' = Stream(c),
           inputs <= inputs',
           \A c \in Clients : reader'[c] = "publishing" =>
               reader[c] = "publishing" /\ inflight'[c] = inflight[c]
    PROVE  OrderInv'
<1> USE DEF OrderInv
<1>1. Sent' = Sent
  BY DEF Sent
<1>2. QueueOrdered' /\ CurFirst' /\ LoopIdle'
  BY DEF QueueOrdered, CurFirst, LoopIdle
<1>3. StreamsFirst' /\ SenderOrder'
  BY DEF StreamsFirst, SenderOrder
<1>4. IdsCounted'
  <2>1. \A m \in Sent : m.id \in Nat
    BY SentTyped DEF Messages
  <2> QED BY <1>1, <2>1 DEF IdsCounted, TypeOK
<1>5. PendingLast'
  <2> SUFFICES ASSUME NEW c \in Clients, reader'[c] = "publishing"
               PROVE  /\ inflight'[c].from = c /\ inflight'[c].id <= inputs'
                      /\ \A m \in Sent' : Before(m, inflight'[c])
    BY DEF PendingLast
  <2>1. reader[c] = "publishing" /\ inflight'[c] = inflight[c] /\ inflight[c] \in Messages
    BY DEF TypeOK
  <2>2. inflight[c].id \in Nat
    BY <2>1 DEF Messages
  <2> QED BY <1>1, <2>1, <2>2 DEF PendingLast, TypeOK
<1> QED BY <1>2, <1>3, <1>4, <1>5

\* A message that comes after everything sent so far joins the queue.
LEMMA OrderAccepted ==
    ASSUME OrderInv, TypeOK', NEW m \in Messages, broadcast' = Append(broadcast, m),
           UNCHANGED <<pc, cur, targets, send, taken>>,
           \A n \in Sent : Before(n, m),
           inputs <= inputs', m.id <= inputs',
           \A c \in Clients : reader'[c] = "publishing" =>
               /\ reader[c] = "publishing" /\ inflight'[c] = inflight[c]
               /\ m.from # c
    PROVE  OrderInv'
<1> USE DEF OrderInv
<1>1. \A c \in Clients : Stream(c)' = Stream(c)
  BY StreamUntouched
<1>2. broadcast \in Seq(Messages)
  BY DEF TypeOK
<1>3. /\ Len(broadcast') = Len(broadcast) + 1
      /\ broadcast'[Len(broadcast) + 1] = m
      /\ \A i \in 1 .. Len(broadcast) : broadcast'[i] = broadcast[i]
  BY <1>2
<1>4. Sent' = Sent \union {m}
  <2>1. {broadcast'[i] : i \in 1 .. Len(broadcast')}
            = {broadcast[i] : i \in 1 .. Len(broadcast)} \union {m}
    BY <1>2, <1>3
  <2> QED BY <1>1, <2>1 DEF Sent
<1>5. \A i \in 1 .. Len(broadcast) : broadcast[i] \in Sent
  BY DEF Sent
<1>6. pc = "deliver" => cur \in Sent
  BY DEF Sent
<1>7. \A c \in Clients : \A i \in 1 .. Len(Stream(c)) : Stream(c)[i] \in Sent
  BY DEF Sent
<1>8. QueueOrdered'
  <2> SUFFICES ASSUME NEW i \in 1 .. Len(broadcast'), NEW j \in 1 .. Len(broadcast'), i < j
               PROVE  Before(broadcast'[i], broadcast'[j])
    BY DEF QueueOrdered
  <2>1. i \in 1 .. Len(broadcast) /\ (j \in 1 .. Len(broadcast) \/ j = Len(broadcast) + 1)
    BY <1>2, <1>3
  <2> QED BY <1>3, <1>5, <2>1 DEF QueueOrdered
<1>9. \A k \in 1 .. Len(broadcast') : k \in 1 .. Len(broadcast) \/ broadcast'[k] = m
  BY <1>2, <1>3
<1>10. CurFirst' /\ LoopIdle' /\ SenderOrder'
  BY <1>1, <1>3, <1>6, <1>9 DEF CurFirst, LoopIdle, SenderOrder
<1>11. StreamsFirst'
  BY <1>1, <1>3, <1>7, <1>9 DEF StreamsFirst
<1>12. IdsCounted'
  <2>1. \A n \in Sent : n.id \in Nat
    BY SentTyped DEF Messages
  <2> QED BY <1>4, <2>1 DEF IdsCounted, TypeOK
<1>13. PendingLast'
  <2> SUFFICES ASSUME NEW c \in Clients, reader'[c] = "publishing"
               PROVE  /\ inflight'[c].from = c /\ inflight'[c].id <= inputs'
                      /\ \A n \in Sent' : Before(n, inflight'[c])
    BY DEF PendingLast
  <2>1. reader[c] = "publishing" /\ inflight'[c] = inflight[c] /\ inflight[c] \in Messages
    BY DEF TypeOK
  <2>2. inflight[c].id \in Nat
    BY <2>1 DEF Messages
  <2>3. Before(m, inflight[c])
    BY <2>1 DEF PendingLast, Before
  <2> QED BY <1>4, <2>1, <2>2, <2>3 DEF PendingLast, TypeOK
<1> QED BY <1>8, <1>10, <1>11, <1>12, <1>13
LEMMA ReadFrameKeepsOrder ==
    ASSUME OrderInv, TypeOK', NEW c \in Clients, NEW chan, NEW next, ReadFrame(c, chan, next),
           chan = "publishing" => next.from = c /\ next.id = inputs + 1
    PROVE  OrderInv'
<1> USE DEF OrderInv
<1>1. /\ UNCHANGED <<pc, cur, targets, broadcast, send, taken>> /\ inputs' = inputs + 1
      /\ inputs \in Nat
      /\ reader'[c] = chan /\ inflight'[c] = next
      /\ \A d \in Clients : d # c => reader'[d] = reader[d] /\ inflight'[d] = inflight[d]
  BY DEF ReadFrame, TypeOK
<1>2. \A d \in Clients : Stream(d)' = Stream(d)
  BY <1>1, StreamUntouched
<1>3. Sent' = Sent
  BY <1>1, <1>2 DEF Sent
<1>4. QueueOrdered' /\ CurFirst' /\ LoopIdle'
  BY <1>1 DEF QueueOrdered, CurFirst, LoopIdle
<1>5. StreamsFirst' /\ SenderOrder'
  BY <1>1, <1>2 DEF StreamsFirst, SenderOrder
<1>6. \A m \in Sent : m.id \in Nat
  BY SentTyped DEF Messages
<1>7. IdsCounted'
  BY <1>1, <1>3, <1>6 DEF IdsCounted
<1>8. PendingLast'
  <2> SUFFICES ASSUME NEW d \in Clients, reader'[d] = "publishing"
               PROVE  /\ inflight'[d].from = d /\ inflight'[d].id <= inputs'
                      /\ \A m \in Sent' : Before(m, inflight'[d])
    BY DEF PendingLast
  <2>1. CASE d = c
    BY <1>1, <1>3, <1>6, <2>1 DEF IdsCounted, Before
  <2>2. CASE d # c
    <3>1. inflight[d].id \in Nat
      BY <1>1, <2>2 DEF TypeOK, Messages
    <3> QED BY <1>1, <1>3, <2>2, <3>1 DEF PendingLast
  <2> QED BY <2>1, <2>2
<1> QED BY <1>4, <1>5, <1>7, <1>8

\* The head of the queue goes into the fan-out loop, or to nobody.
LEMMA DispatchKeepsOrder ==
    ASSUME OrderInv, TypeOK', HubDispatch
    PROVE  OrderInv'
<1> USE DEF OrderInv
<1>1. broadcast \in Seq(Messages) /\ broadcast # <<>> /\ broadcast' = Tail(broadcast) /\ pc = "select"
  BY DEF HubDispatch, TypeOK
<1>2. /\ Head(broadcast) = broadcast[1] /\ 1 \in 1 .. Len(broadcast)
      /\ \A k \in 1 .. Len(broadcast') : k + 1 \in 1 .. Len(broadcast) /\ broadcast'[k] = broadcast[k + 1]
  BY <1>1
<1>3. \A c \in Clients : Stream(c)' = Stream(c)
  BY StreamUntouched DEF HubDispatch
<1>4. \/ pc' = "select" /\ targets' = {}
      \/ pc' = "deliver" /\ cur' = broadcast[1]
  BY <1>1, <1>2 DEF HubDispatch
<1>5. UNCHANGED <<inputs, reader, inflight>>
  BY DEF HubDispatch
<1>6. Sent' \subseteq Sent
  BY <1>2, <1>3, <1>4 DEF Sent
<1>7. QueueOrdered'
  <2> SUFFICES ASSUME NEW i \in 1 .. Len(broadcast'), NEW j \in 1 .. Len(broadcast'), i < j
               PROVE  Before(broadcast'[i], broadcast'[j])
    BY DEF QueueOrdered
  <2>1. i + 1 < j + 1
    OBVIOUS
  <2> QED BY <1>2, <2>1 DEF QueueOrdered
<1>8. CurFirst'
  <2>1. \A k \in 1 .. Len(broadcast') : 1 < k + 1
    OBVIOUS
  <2> QED BY <1>2, <1>4, <2>1 DEF CurFirst, QueueOrdered
<1>9. StreamsFirst'
  BY <1>2, <1>3, <1>4 DEF StreamsFirst
<1>10. PendingLast' /\ IdsCounted'
  BY <1>5, <1>6 DEF PendingLast, IdsCounted
<1>11. LoopIdle' /\ SenderOrder'
  BY <1>3, <1>4 DEF LoopIdle, SenderOrder
<1> QED BY <1>7, <1>8, <1>9, <1>10, <1>11

\* The current message goes to the end of one stream, or past a client.
LEMMA DeliverKeepsOrder ==
    ASSUME OrderInv, TypeOK', NEW c \in Clients, HubDeliver(c)
    PROVE  OrderInv'
<1> USE DEF OrderInv
<1>1. /\ pc = "deliver" /\ c \in targets /\ targets' = targets \ {c} /\ cur \in Messages
      /\ (pc' = "select" /\ targets' = {}) \/ (pc' = "deliver" /\ cur' = cur)
      /\ UNCHANGED <<broadcast, inputs, reader, inflight, taken>>
  BY DEF HubDeliver, TypeOK
<1>2. \/ UNCHANGED send
      \/ send' = [send EXCEPT ![c] = Append(send[c], cur)]
  BY DEF HubDeliver
<1>3. \A d \in Clients :
        \/ Stream(d)' = Stream(d)
        \/ d = c /\ Stream(d)' = Append(Stream(d), cur)
  BY <1>1, <1>2, StreamUntouched, StreamGrows
<1>4. \A d \in Clients : Stream(d) \in Seq(Messages)
  BY StreamType
<1>5. ASSUME NEW d \in Clients, NEW i \in 1 .. Len(Stream(d)')
      PROVE  \/ i \in 1 .. Len(Stream(d)) /\ Stream(d)'[i] = Stream(d)[i]
             \/ d = c /\ i = Len(Stream(d)) + 1 /\ Stream(d)'[i] = cur /\ Len(Stream(d)') = i
  BY <1>3, <1>4
<1>6. Sent' \subseteq Sent
  <2>1. \A d \in Clients : \A i \in 1 .. Len(Stream(d)') : Stream(d)'[i] \in Sent
    BY <1>1, <1>5 DEF Sent
  <2>2. \A i \in 1 .. Len(broadcast') : broadcast'[i] \in Sent
    BY <1>1 DEF Sent
  <2>3. pc' = "deliver" => cur' \in Sent
    BY <1>1 DEF Sent
  <2> QED BY <2>1, <2>2, <2>3 DEF Sent
<1>7. QueueOrdered' /\ CurFirst' /\ LoopIdle'
  BY <1>1 DEF QueueOrdered, CurFirst, LoopIdle
<1>8. StreamsFirst'
  <2> SUFFICES ASSUME NEW d \in Clients, NEW i \in 1 .. Len(Stream(d)')
               PROVE  /\ \A k \in 1 .. Len(broadcast') : Before(Stream(d)'[i], broadcast'[k])
                      /\ d \in targets' => Before(Stream(d)'[i], cur')
    BY DEF StreamsFirst
  <2>1. CASE i \in 1 .. Len(Stream(d)) /\ Stream(d)'[i] = Stream(d)[i]
    BY <1>1, <2>1 DEF StreamsFirst
  <2>2. CASE d = c /\ Stream(d)'[i] = cur
    BY <1>1, <2>2 DEF CurFirst
  <2> QED BY <1>5, <2>1, <2>2
<1>9. PendingLast' /\ IdsCounted'
  BY <1>1, <1>6 DEF PendingLast, IdsCounted
<1>10. SenderOrder'
  <2> SUFFICES ASSUME NEW d \in Clients, NEW i \in 1 .. Len(Stream(d)'),
                      NEW j \in 1 .. Len(Stream(d)'), i < j
               PROVE  Before(Stream(d)'[i], Stream(d)'[j])
    BY DEF SenderOrder, Before
  <2>1. i \in 1 .. Len(Stream(d)) /\ Stream(d)'[i] = Stream(d)[i]
    BY <1>4, <1>5
  <2>2. CASE j \in 1 .. Len(Stream(d)) /\ Stream(d)'[j] = Stream(d)[j]
    BY <2>1, <2>2 DEF SenderOrder, Before
  <2>3. CASE d = c /\ Stream(d)'[j] = cur
    BY <1>1, <2>1, <2>3 DEF StreamsFirst
  <2> QED BY <1>5, <2>2, <2>3
<1> QED BY <1>7, <1>8, <1>9, <1>10

LEMMA OrderNext == OrderInv /\ [Next]_vars => OrderInv'
<1> SUFFICES ASSUME OrderInv, [Next]_vars PROVE OrderInv'
  OBVIOUS
<1> USE DEF OrderInv
<1>0. TypeOK' /\ inputs \in Nat
  BY TypeNext DEF TypeOK
<1>1. CASE UNCHANGED vars
  BY <1>0, <1>1, OrderKept, StreamUntouched DEF vars
<1>2. ASSUME NEW c \in Clients, Connect(c) \/ HubRegister(c) \/ PeerFail(c) PROVE OrderInv'
  BY <1>0, <1>2, OrderKept, StreamUntouched DEF Connect, HubRegister, PeerFail
<1>3. ASSUME NEW c \in Clients,
             StartPumps(c) \/ SendCommand(c) \/ ReadFail(c) \/ ReaderClose(c) \/ HubUnregister(c)
      PROVE  OrderInv'
  <2>1. \A d \in Clients : reader'[d] = "publishing" =>
            reader[d] = "publishing" /\ inflight'[d] = inflight[d]
    BY <1>3 DEF StartPumps, SendCommand, ReadFail, ReaderClose, HubUnregister, TypeOK
  <2> QED BY <1>0, <1>3, <2>1, OrderKept, StreamUntouched
             DEF StartPumps, SendCommand, ReadFail, ReaderClose, HubUnregister
<1>4. ASSUME NEW c \in Clients, ReadJoin(c) \/ ReadLeave(c) PROVE OrderInv'
  BY <1>0, <1>4, ReadFrameKeepsOrder DEF ReadJoin, ReadLeave
<1>5. ASSUME NEW c \in Clients, ReadChat(c) PROVE OrderInv'
  BY <1>0, <1>5, ReadFrameKeepsOrder DEF ReadChat
<1>6. ASSUME NEW c \in Clients, SendChat(c) PROVE OrderInv'
  <2>1. reader[c] = "publishing" /\ inflight[c] \in Messages /\ broadcast' = Append(broadcast, inflight[c])
    BY <1>6 DEF SendChat, TypeOK
  <2>2. \A d \in Clients : reader'[d] = "publishing" =>
            d # c /\ reader[d] = "publishing" /\ inflight'[d] = inflight[d]
    BY <1>6 DEF SendChat, TypeOK
  <2> QED BY <1>0, <1>6, <2>1, <2>2, OrderAccepted DEF SendChat, PendingLast
<1>7. ASSUME NEW c \in Clients, WriterTake(c) PROVE OrderInv'
  <2>1. \A d \in Clients : Stream(d)' = Stream(d)
    BY <1>7, StreamTaken
  <2>2. UNCHANGED <<broadcast, cur, targets, pc, inputs, reader, inflight>>
    BY <1>7 DEF WriterTake
  <2> QED BY <1>0, <2>1, <2>2, OrderKept
<1>8. ASSUME NEW c \in Clients, WriterSeesClose(c) \/ WriterPingFails(c) PROVE OrderInv'
  BY <1>0, <1>8, OrderKept, StreamUntouched DEF WriterSeesClose, WriterPingFails
<1>9. ASSUME NEW c \in Clients, HubDeliver(c) PROVE OrderInv'
  BY <1>0, <1>9, DeliverKeepsOrder
<1>10. CASE ServerPublish
  <2>1. PICK to \in ServerCalls :
          broadcast' = Append(broadcast, [id |-> inputs + 1, from |-> NoClient, to |-> to])
    BY <1>10 DEF ServerPublish
  <2> DEFINE m == [id |-> inputs + 1, from |-> NoClient, to |-> to]
  <2>2. m \in Messages
    BY <1>0, <1>10, ServerAssumption, BufferAssumption DEF ServerPublish, Messages, TypeOK
  <2>3. \A n \in Sent : Before(n, m)
    BY <1>0, SentTyped DEF Before, IdsCounted, Messages
  <2>4. inputs' = inputs + 1 /\ UNCHANGED <<pc, cur, targets, send, taken, reader, inflight>>
    BY <1>10 DEF ServerPublish
  <2>5. m.id <= inputs' /\ m.from \notin Clients /\ broadcast' = Append(broadcast, m)
    BY <1>0, <2>1, <2>4, ClientsAssumption
  <2> HIDE DEF m
  <2> QED BY <1>0, <2>2, <2>3, <2>4, <2>5, OrderAccepted
<1>11. CASE ServerCommand \/ Cancel \/ HubRoom \/ HubStop
  BY <1>0, <1>11, OrderKept, StreamUntouched DEF ServerCommand, Cancel, HubRoom, HubStop
<1>12. CASE HubDispatch
  BY <1>0, <1>12, DispatchKeepsOrder
<1> QED
  BY <1>1, <1>2, <1>3, <1>4, <1>5, <1>6, <1>7, <1>8, <1>9, <1>10, <1>11, <1>12
     DEF Next, ClientStep, WriterStep

THEOREM OrderInvariant == Spec => []OrderInv
  BY OrderInit, OrderNext, PTL DEF Spec

\* One sender's messages reach every receiver in the order they were sent, through
\* the shared queue, the fan-out in map order and the drops of slow clients.
THEOREM SendersAreHeardInOrder == Spec => []SenderOrder
<1>1. OrderInv => SenderOrder
  BY DEF OrderInv
<1> QED BY <1>1, OrderInvariant, PTL
-----------------------------------------------------------------------------
(* Who receives a message. *)

\* The fan-out loop of a message to one user ranges over that user's connections.
UserTargeted ==
    pc = "deliver" /\ cur.to.room = Empty /\ cur.to.userID # Empty =>
        \A c \in targets : UserOf[c] = cur.to.userID

PrivacyInv == HubInv /\ UserTargeted /\ PrivateDelivery

\* A message may stand in the stream of c.
Meant(m, c) == m.to.api = "SendToUser" /\ m.to.userID # Empty => UserOf[c] = m.to.userID

LEMMA ApiShape ==
    ASSUME NEW m \in Messages, m.to.api = "SendToUser"
    PROVE  m.to.room = Empty
  BY DEF Messages, Calls, Everyone, ToUser, ToRoom

LEMMA PrivacyKept ==
    ASSUME PrivacyInv, \A c \in Clients : Stream(c)' = Stream(c)
    PROVE  PrivateDelivery'
  BY DEF PrivacyInv, PrivateDelivery

LEMMA PrivacyNext == PrivacyInv /\ [Next]_vars => PrivacyInv'
<1> SUFFICES ASSUME PrivacyInv, [Next]_vars PROVE PrivacyInv'
  OBVIOUS
<1> USE DEF PrivacyInv
<1>0. HubInv' /\ TypeOK /\ IndexConsistent
  BY HubInvNext DEF HubInv
<1>1. ASSUME UNCHANGED <<pc, cur, targets>>, \A c \in Clients : Stream(c)' = Stream(c)
      PROVE  PrivacyInv'
  BY <1>0, <1>1, PrivacyKept DEF UserTargeted
<1>2. CASE UNCHANGED vars
  BY <1>1, <1>2, StreamUntouched DEF vars
<1>3. ASSUME NEW c \in Clients, WriterTake(c) PROVE PrivacyInv'
  <2>1. \A d \in Clients : Stream(d)' = Stream(d)
    BY <1>0, <1>3, StreamTaken
  <2> QED BY <1>1, <1>3, <2>1 DEF WriterTake
<1>4. ASSUME NEW c \in Clients, ClientStep(c), ~WriterTake(c), ~HubDeliver(c) PROVE PrivacyInv'
  <2>1. UNCHANGED <<pc, cur, targets, send, taken>>
    BY <1>4 DEF ClientStep, Connect, HubRegister, StartPumps, PeerFail, ReadJoin, ReadLeave,
                ReadChat, ReadFrame, SendCommand, SendChat, ReadFail, ReaderClose, WriterStep,
                WriterSeesClose, WriterPingFails, HubUnregister
  <2> QED BY <1>1, <2>1, StreamUntouched
<1>5. CASE ServerPublish \/ ServerCommand \/ Cancel \/ HubRoom
  BY <1>1, <1>5, StreamUntouched DEF ServerPublish, ServerCommand, Cancel, HubRoom
<1>6. CASE HubStop
  <2>1. \A c \in Clients : Stream(c)' = Stream(c)
    BY <1>6, StreamUntouched DEF HubStop
  <2>2. UserTargeted'
    BY <1>6 DEF HubStop, UserTargeted
  <2> QED BY <1>0, <2>1, <2>2, PrivacyKept
<1>7. CASE HubDispatch
  <2>1. \A c \in Clients : Stream(c)' = Stream(c)
    BY <1>7, StreamUntouched DEF HubDispatch
  <2>2. Head(broadcast) \in Messages
    BY <1>0, <1>7 DEF HubDispatch, TypeOK
  <2>3. Head(broadcast).to.userID \in Users \union {Empty}
    BY <2>2, CallShape DEF Messages
  <2>4. UserTargeted'
    BY <1>0, <1>7, <2>3 DEF HubDispatch, UserTargeted, Audience, IndexConsistent
  <2> QED BY <1>0, <2>1, <2>4, PrivacyKept
<1>8. ASSUME NEW c \in Clients, HubDeliver(c) PROVE PrivacyInv'
  <2>1. /\ pc = "deliver" /\ c \in targets /\ cur \in Messages /\ UNCHANGED taken
        /\ targets' = targets \ {c}
        /\ pc' = "select" \/ cur' = cur
        /\ UNCHANGED send \/ send' = [send EXCEPT ![c] = Append(send[c], cur)]
    BY <1>0, <1>8 DEF HubDeliver, TypeOK
  <2>2. \A d \in Clients : \/ Stream(d)' = Stream(d)
                           \/ d = c /\ Stream(d)' = Append(Stream(d), cur)
    BY <1>0, <2>1, StreamUntouched, StreamGrows
  <2>3. Meant(cur, c)
    BY <2>1, ApiShape DEF UserTargeted, Meant
  <2>4. \A d \in Clients : Stream(d) \in Seq(Messages)
    BY <1>0, StreamType
  <2>5. \A d \in Clients : \A i \in 1 .. Len(Stream(d)) : Meant(Stream(d)[i], d)
    BY DEF PrivateDelivery, Meant
  <2>6. \A d \in Clients : \A i \in 1 .. Len(Stream(d)') : Meant(Stream(d)'[i], d)
    BY <2>2, <2>3, <2>4, <2>5
  <2>7. PrivateDelivery'
    BY <2>6 DEF PrivateDelivery, Meant
  <2>8. UserTargeted'
    BY <2>1 DEF UserTargeted
  <2> QED BY <1>0, <2>7, <2>8
<1> QED
  BY <1>2, <1>3, <1>4, <1>5, <1>6, <1>7, <1>8 DEF Next

\* A message sent to a user reaches no connection of anybody else, however long it
\* waited while connections came and went.
THEOREM PrivateMessagesStayPrivate == Spec => []PrivateDelivery
<1>1. Init => PrivacyInv
  <2> SUFFICES ASSUME Init PROVE PrivacyInv
    OBVIOUS
  <2>1. \A c \in Clients : Stream(c) = <<>>
    BY DEF Init, Stream
  <2> QED BY <2>1, HubInvInit DEF Init, PrivacyInv, UserTargeted, PrivateDelivery
<1>2. PrivacyInv => PrivateDelivery
  BY DEF PrivacyInv
<1> QED BY <1>1, <1>2, PrivacyNext, PTL DEF Spec
-----------------------------------------------------------------------------
(* The hub implements Fanout. *)

\* A connection the hub has not been told about has received nothing.
Unheard == \A c \in Clients : c \notin Registered => Stream(c) = <<>>

FanoutInv == HubInv /\ LoopIdle /\ Unheard

LEMMA FanoutInvInit == Init => FanoutInv
<1> SUFFICES ASSUME Init PROVE FanoutInv
  OBVIOUS
<1>1. \A c \in Clients : Stream(c) = <<>>
  BY DEF Init, Stream
<1> QED BY <1>1, HubInvInit DEF Init, FanoutInv, LoopIdle, Unheard

\* Whoever the fan-out loop serves is registered.
LEMMA TargetsRegistered ==
    ASSUME HubInv, pc = "deliver"
    PROVE  targets \subseteq Registered
<1> USE DEF HubInv
<1>1. clients \subseteq Registered
  BY DEF IndexConsistent, TypeOK
<1>2. cur.to.room \in Rooms \union {Empty}
  BY CallShape DEF TypeOK, Messages
<1>3. \A r \in Rooms : rooms[r] \subseteq Registered
  BY DEF UnregisteredUnknown, TypeOK
<1> QED BY <1>1, <1>2, <1>3 DEF TargetsAddressed

LEMMA FanoutInvNext == FanoutInv /\ [Next]_vars => FanoutInv'
<1> SUFFICES ASSUME FanoutInv, [Next]_vars PROVE FanoutInv'
  OBVIOUS
<1> USE DEF FanoutInv
<1>0. HubInv' /\ TypeOK
  BY HubInvNext DEF HubInv
<1>1. ASSUME LoopIdle', Registered \subseteq Registered', \A c \in Clients : Stream(c)' = Stream(c)
      PROVE  FanoutInv'
  BY <1>0, <1>1 DEF Unheard
<1>2. CASE UNCHANGED vars
  BY <1>1, <1>2, StreamUntouched DEF vars, LoopIdle, Registered
<1>3. ASSUME NEW c \in Clients, WriterTake(c) PROVE FanoutInv'
  <2>1. \A d \in Clients : Stream(d)' = Stream(d)
    BY <1>0, <1>3, StreamTaken
  <2> QED BY <1>1, <1>3, <2>1 DEF WriterTake, LoopIdle, Registered
<1>4. ASSUME NEW c \in Clients, ClientStep(c), ~WriterTake(c), ~HubDeliver(c) PROVE FanoutInv'
  <2>1. UNCHANGED <<pc, targets, send, taken>>
    BY <1>4 DEF ClientStep, Connect, HubRegister, StartPumps, PeerFail, ReadJoin, ReadLeave,
                ReadChat, ReadFrame, SendCommand, SendChat, ReadFail, ReaderClose, WriterStep,
                WriterSeesClose, WriterPingFails, HubUnregister
  <2>2. Registered \subseteq Registered'
    BY <1>0, <1>4 DEF ClientStep, Connect, HubRegister, StartPumps, PeerFail, ReadJoin, ReadLeave,
                ReadChat, ReadFrame, SendCommand, SendChat, ReadFail, ReaderClose, WriterStep,
                WriterSeesClose, WriterPingFails, HubUnregister, Registered, TypeOK
  <2> QED BY <1>1, <2>1, <2>2, StreamUntouched DEF LoopIdle
<1>5. CASE ServerPublish \/ ServerCommand \/ Cancel \/ HubRoom \/ HubStop
  BY <1>1, <1>5, StreamUntouched
     DEF ServerPublish, ServerCommand, Cancel, HubRoom, HubStop, LoopIdle, Registered
<1>6. CASE HubDispatch
  BY <1>1, <1>6, StreamUntouched DEF HubDispatch, LoopIdle, Registered
<1>7. ASSUME NEW c \in Clients, HubDeliver(c) PROVE FanoutInv'
  <2>1. /\ pc = "deliver" /\ c \in targets /\ cur \in Messages /\ UNCHANGED taken
        /\ LoopIdle' /\ Registered' = Registered
        /\ UNCHANGED send \/ send' = [send EXCEPT ![c] = Append(send[c], cur)]
    BY <1>0, <1>7 DEF HubDeliver, TypeOK, LoopIdle, Registered
  <2>2. c \in Registered
    BY <2>1, TargetsRegistered
  <2>3. \A d \in Clients : d # c => Stream(d)' = Stream(d)
    BY <1>0, <2>1, StreamUntouched, StreamGrows
  <2> QED BY <1>0, <2>1, <2>2, <2>3 DEF Unheard
<1> QED
  BY <1>2, <1>3, <1>4, <1>5, <1>6, <1>7 DEF Next

\* The five variables of Fanout, as the hub's state gives them.
Todo == targets \intersect clients
Shown == IF Todo = {} THEN None ELSE cur
Streams == [c \in Clients |-> Stream(c)]

LEMMA PromiseKept ==
    ASSUME UNCHANGED <<broadcast, clients, Todo, Shown, Streams>>
    PROVE  UNCHANGED Promise!vars
  BY DEF Promise!vars, Todo, Shown, Streams

LEMMA PromiseSubmit ==
    ASSUME NEW m \in Messages, broadcast' = Append(broadcast, m),
           UNCHANGED <<clients, targets, cur, send, taken>>
    PROVE  Promise!Next
<1>1. Streams' = Streams
  BY StreamUntouched DEF Streams
<1> QED BY <1>1 DEF Promise!Next, Promise!Submit, Streams

LEMMA PromiseNext == FanoutInv /\ [Next]_vars => [Promise!Next]_(Promise!vars)
<1> SUFFICES ASSUME FanoutInv, [Next]_vars
             PROVE  Promise!Next \/ UNCHANGED Promise!vars
  OBVIOUS
<1> USE DEF FanoutInv
<1>0. TypeOK /\ IndexConsistent
  BY DEF HubInv
<1>1. ASSUME UNCHANGED <<broadcast, clients, targets, cur>>, \A c \in Clients : Stream(c)' = Stream(c)
      PROVE  UNCHANGED Promise!vars
  BY <1>1, PromiseKept DEF Todo, Shown, Streams
<1>2. CASE UNCHANGED vars
  BY <1>1, <1>2, StreamUntouched DEF vars
<1>3. ASSUME NEW c \in Clients, HubRegister(c) PROVE Promise!Next
  <2>1. c \notin clients /\ Stream(c) = <<>> /\ targets = {}
    BY <1>0, <1>3 DEF HubRegister, IndexConsistent, Registered, Unheard, LoopIdle
  <2>2. Streams' = Streams
    BY <1>3, StreamUntouched DEF HubRegister, Streams
  <2>3. Promise!Admit(c)
    BY <1>3, <2>1, <2>2 DEF HubRegister, Promise!Admit, Streams
  <2> QED BY <2>3 DEF Promise!Next
<1>4. ASSUME NEW c \in Clients, SendChat(c) PROVE Promise!Next
  BY <1>0, <1>4, PromiseSubmit DEF SendChat, TypeOK
<1>5. CASE ServerPublish
  <2>1. PICK to \in ServerCalls :
          broadcast' = Append(broadcast, [id |-> inputs + 1, from |-> NoClient, to |-> to])
    BY <1>5 DEF ServerPublish
  <2>2. [id |-> inputs + 1, from |-> NoClient, to |-> to] \in Messages
    BY <1>0, <1>5, ServerAssumption, BufferAssumption DEF ServerPublish, Messages, TypeOK
  <2> QED BY <1>5, <2>1, <2>2, PromiseSubmit DEF ServerPublish
<1>6. ASSUME NEW S \in SUBSET clients, clients' = clients \ S, pc = "select",
             UNCHANGED <<broadcast, targets, cur, send, taken>>
      PROVE  Promise!Next
  <2>1. Streams' = Streams
    BY <1>6, StreamUntouched DEF Streams
  <2>2. targets = {}
    BY <1>6 DEF LoopIdle
  <2>3. Promise!Depart(S)
    BY <1>6, <2>1, <2>2 DEF Promise!Depart, Streams
  <2> QED BY <2>3 DEF Promise!Next
<1>7. ASSUME NEW c \in Clients, HubUnregister(c) PROVE Promise!Next
  <2>1. clients' = clients \ (clients \intersect {c})
    BY <1>7 DEF HubUnregister, Remove
  <2> QED BY <1>6, <1>7, <2>1 DEF HubUnregister
<1>8. CASE HubStop
  BY <1>6, <1>8 DEF HubStop
<1>9. CASE HubDispatch
  <2> DEFINE m == Head(broadcast)
  <2>0. m \in Messages
    BY <1>0, <1>9 DEF HubDispatch, TypeOK
  <2>1. m.to.room \in Rooms \union {Empty} /\ m.to.userID \in Users \union {Empty}
    BY <2>0, CallShape DEF Messages
  <2>2. Audience(m) \intersect clients \in Promise!Audiences(m)
    BY <1>0, <2>1 DEF Audience, Promise!Audiences, IndexConsistent
  <2>3. targets = {} /\ broadcast # <<>> /\ broadcast' = Tail(broadcast) /\ clients' = clients
        /\ targets' = Audience(m) /\ (targets' # {} => cur' = m)
    BY <1>9 DEF HubDispatch, LoopIdle
  <2>4. Streams' = Streams
    BY <1>9, StreamUntouched DEF HubDispatch, Streams
  <2> HIDE DEF m
  <2>5. Promise!Dispatch
    BY <2>2, <2>3, <2>4 DEF m, Promise!Dispatch, Streams
  <2> QED BY <2>5 DEF Promise!Next
<1>10. ASSUME NEW c \in Clients, HubDeliver(c) PROVE Promise!Next \/ UNCHANGED Promise!vars
  <2>1. /\ pc = "deliver" /\ c \in targets /\ targets' = targets \ {c} /\ cur \in Messages
        /\ targets' # {} => cur' = cur
        /\ UNCHANGED <<broadcast, taken>>
    BY <1>0, <1>10 DEF HubDeliver, TypeOK
  <2>2. ~closed[c] => c \in clients
    BY <1>0, <2>1, TargetsRegistered DEF IndexConsistent
  <2>3. CASE closed[c] /\ UNCHANGED <<clients, send>>
    <3>1. c \notin clients
      BY <1>0, <2>3 DEF IndexConsistent
    <3>2. Todo' = Todo /\ Shown' = Shown
      BY <2>1, <2>3, <3>1 DEF Todo, Shown
    <3>3. Streams' = Streams
      BY <2>1, <2>3, StreamUntouched DEF Streams
    <3> QED BY <2>1, <2>3, <3>2, <3>3, PromiseKept
  <2>4. CASE ~closed[c] /\ send' = [send EXCEPT ![c] = Append(send[c], cur)] /\ UNCHANGED clients
    <3>1. c \in Todo /\ Todo' = Todo \ {c} /\ Shown = cur
      BY <2>1, <2>2, <2>4 DEF Todo, Shown
    <3>2. Shown' = IF Todo' = {} THEN None ELSE Shown
      BY <2>1, <3>1 DEF Todo, Shown
    <3>3. Streams' = [Streams EXCEPT ![c] = Append(@, Shown)]
      BY <1>0, <2>1, <2>4, <3>1, StreamGrows DEF Streams
    <3>4. Promise!Serve(c)
      BY <2>1, <2>4, <3>1, <3>2, <3>3 DEF Promise!Serve, Todo, Shown, Streams
    <3> QED BY <3>4 DEF Promise!Next
  <2>5. CASE ~closed[c] /\ Remove(c) /\ UNCHANGED send
    <3>1. clients' = clients \ {c}
      BY <2>2, <2>5 DEF Remove
    <3>2. c \in Todo /\ Todo' = Todo \ {c} /\ Shown = cur
      BY <2>1, <2>2, <2>5, <3>1 DEF Todo, Shown
    <3>3. Shown' = IF Todo' = {} THEN None ELSE Shown
      BY <2>1, <3>2 DEF Todo, Shown
    <3>4. Streams' = Streams
      BY <2>1, <2>5, StreamUntouched DEF Streams
    <3>5. Promise!Serve(c)
      BY <2>1, <3>1, <3>2, <3>3, <3>4 DEF Promise!Serve, Todo, Shown, Streams
    <3> QED BY <3>5 DEF Promise!Next
  <2> QED BY <1>10, <2>3, <2>4, <2>5 DEF HubDeliver
<1>11. ASSUME NEW c \in Clients, WriterTake(c) PROVE UNCHANGED Promise!vars
  <2>1. \A d \in Clients : Stream(d)' = Stream(d)
    BY <1>0, <1>11, StreamTaken
  <2> QED BY <1>1, <1>11, <2>1 DEF WriterTake
<1>12. ASSUME NEW c \in Clients,
              \/ Connect(c) \/ StartPumps(c) \/ PeerFail(c) \/ ReadJoin(c) \/ ReadLeave(c)
              \/ ReadChat(c) \/ SendCommand(c) \/ ReadFail(c) \/ ReaderClose(c)
              \/ WriterSeesClose(c) \/ WriterPingFails(c)
       PROVE  UNCHANGED Promise!vars
  BY <1>1, <1>12, StreamUntouched
     DEF Connect, StartPumps, PeerFail, ReadJoin, ReadLeave, ReadChat, ReadFrame, SendCommand,
         ReadFail, ReaderClose, WriterSeesClose, WriterPingFails
<1>13. CASE ServerCommand \/ Cancel \/ HubRoom
  BY <1>1, <1>13, StreamUntouched DEF ServerCommand, Cancel, HubRoom
<1> QED
  BY <1>2, <1>3, <1>4, <1>5, <1>7, <1>8, <1>9, <1>10, <1>11, <1>12, <1>13
     DEF Next, ClientStep, WriterStep

\* Every dispatched message reaches each live client it is for, in order, or cuts
\* that client off for good: the hub implements the fan-out promise.
THEOREM HubImplementsFanout == Spec => ImplementsFanout
<1>1. Init => Promise!Init
  <2> SUFFICES ASSUME Init PROVE Promise!Init
    OBVIOUS
  <2>1. Streams = [c \in Clients |-> <<>>]
    BY DEF Init, Stream, Streams
  <2> QED BY <2>1 DEF Init, Promise!Init, Streams
<1> QED
  BY <1>1, FanoutInvInit, FanoutInvNext, PromiseNext, PTL
     DEF Spec, ImplementsFanout, Promise!Spec
-----------------------------------------------------------------------------
(* What a connection asked for (module Membership). *)

\* Rooms are joined and left by the connections alone.
JoinsByClientsOnly == ServerCommands = {}

About(cmd, c, r) == cmd.client = c /\ cmd.room = r

\* The last command on its way decides; with none on its way, Client.rooms has decided.
LastOneDecides ==
    \A c \in Clients, r \in Rooms :
        /\ \A i \in 1 .. Len(roomCmd) :
             About(roomCmd[i], c, r) /\ (\A j \in i + 1 .. Len(roomCmd) : ~About(roomCmd[j], c, r))
                => (roomCmd[i].join <=> r \in wanted[c])
        /\ ~Pending(c, r) => (r \in joined[c] <=> r \in wanted[c])

\* Every command comes from a connection.
NoServerCommand == \A i \in 1 .. Len(roomCmd) : roomCmd[i].client \in Clients

\* A readPump is started once.
PumpsStartOnce == \A c \in Clients : handler[c] # "returned" => reader[c] = "none"

MemberInv ==
    /\ HubInv
    /\ PumpsStartOnce
    /\ wanted \in [Clients -> SUBSET Rooms]
    /\ NoServerCommand
    /\ LastOneDecides

LEMMA PumpsNext == TypeOK /\ PumpsStartOnce /\ [Next]_vars => PumpsStartOnce'
<1> SUFFICES ASSUME TypeOK, PumpsStartOnce, [Next]_vars PROVE PumpsStartOnce'
  OBVIOUS
<1> USE DEF TypeOK, PumpsStartOnce
<1>1. CASE UNCHANGED <<handler, reader>>
  BY <1>1
<1>2. ASSUME NEW c \in Clients, ClientStep(c) PROVE PumpsStartOnce'
  <2>1. CASE Connect(c) \/ HubRegister(c) \/ StartPumps(c)
    BY <2>1 DEF Connect, HubRegister, StartPumps
  <2>2. CASE ReadJoin(c) \/ ReadLeave(c) \/ ReadChat(c)
    BY <2>2 DEF ReadJoin, ReadLeave, ReadChat, ReadFrame
  <2>3. CASE SendCommand(c) \/ SendChat(c) \/ ReadFail(c) \/ ReaderClose(c) \/ HubUnregister(c)
    BY <2>3 DEF SendCommand, SendChat, ReadFail, ReaderClose, HubUnregister
  <2>4. CASE PeerFail(c) \/ WriterStep(c) \/ HubDeliver(c)
    BY <1>1, <2>4 DEF PeerFail, WriterStep, WriterTake, WriterSeesClose, WriterPingFails, HubDeliver
  <2> QED BY <1>2, <2>1, <2>2, <2>3, <2>4 DEF ClientStep
<1> QED
  BY <1>1, <1>2
     DEF Next, vars, ServerPublish, ServerCommand, Cancel, HubRoom, HubDispatch, HubStop

LEMMA MemberInitInv == MemberInit => MemberInv
<1> SUFFICES ASSUME MemberInit PROVE MemberInv
  OBVIOUS
<1>1. HubInv
  BY HubInvInit DEF MemberInit
<1>2. roomCmd = <<>> /\ joined = [c \in Clients |-> {}] /\ wanted = [c \in Clients |-> {}]
  BY DEF MemberInit, Init
<1>3. Len(roomCmd) = 0
  BY <1>2
<1>4. PumpsStartOnce
  BY DEF MemberInit, Init, PumpsStartOnce
<1> QED BY <1>1, <1>2, <1>3, <1>4 DEF MemberInv, NoServerCommand, LastOneDecides

\* A step that hands over no command and handles none.
LEMMA NothingAsked ==
    ASSUME MemberInv, Next, Remember, UNCHANGED <<roomCmd, joined>>,
           \A c \in Clients : ~Accepted(c)
    PROVE  MemberInv'
<1>1. HubInv' /\ PumpsStartOnce'
  BY HubInvNext, PumpsNext DEF MemberInv, HubInv
<1>2. wanted' = wanted
  BY DEF Remember, MemberInv
<1> QED BY <1>1, <1>2 DEF MemberInv, NoServerCommand, LastOneDecides, Pending

\* The command goes to the end of the queue and becomes its connection's last word.
LEMMA CommandAsked ==
    ASSUME MemberInv, Remember, NEW c \in Clients, Next, SendCommand(c)
    PROVE  MemberInv'
<1> USE DEF MemberInv
<1>0. TypeOK /\ HubInv' /\ PumpsStartOnce'
  BY HubInvNext, PumpsNext DEF HubInv
<1>1. PICK cmd \in Commands : cmd = inflight[c]
  BY <1>0 DEF SendCommand, TypeOK
<1>2. PICK n \in Nat : n = Len(roomCmd)
  BY <1>0 DEF TypeOK
<1>3. /\ Len(roomCmd') = n + 1 /\ roomCmd'[n + 1] = cmd
      /\ \A i \in 1 .. n : roomCmd'[i] = roomCmd[i]
  BY <1>0, <1>1, <1>2 DEF SendCommand, TypeOK
<1>4. cmd.client = c /\ cmd.room \in Rooms /\ cmd.join \in BOOLEAN
  BY <1>0, <1>1 DEF HubInv, CommandsAreOwn, SendCommand, Commands
<1>5. \A d \in Clients : Accepted(d) <=> d = c
  BY <1>0 DEF SendCommand, Accepted, TypeOK
<1>6. wanted' = [d \in Clients |->
                   IF d # c THEN wanted[d]
                   ELSE IF cmd.join THEN wanted[d] \union {cmd.room} ELSE wanted[d] \ {cmd.room}]
  BY <1>1, <1>5 DEF Remember, Asked
<1>7. wanted' \in [Clients -> SUBSET Rooms]
  BY <1>4, <1>6
<1>8. joined' = joined
  BY DEF SendCommand
<1>9. NoServerCommand'
  BY <1>2, <1>3, <1>4 DEF NoServerCommand
<1>10. ASSUME NEW d \in Clients, NEW r \in Rooms
       PROVE  /\ \A i \in 1 .. Len(roomCmd') :
                   About(roomCmd'[i], d, r)
                   /\ (\A j \in i + 1 .. Len(roomCmd') : ~About(roomCmd'[j], d, r))
                      => (roomCmd'[i].join <=> r \in wanted'[d])
              /\ (\A i \in 1 .. Len(roomCmd') : ~About(roomCmd'[i], d, r))
                   => (r \in joined'[d] <=> r \in wanted'[d])
  <2>1. CASE d = c /\ r = cmd.room
    <3>1. About(roomCmd'[n + 1], d, r)
      BY <1>3, <1>4, <2>1 DEF About
    <3>2. cmd.join <=> r \in wanted'[d]
      BY <1>4, <1>6, <2>1
    <3>3. \A i \in 1 .. n : n + 1 \in i + 1 .. n + 1
      OBVIOUS
    <3> QED BY <1>3, <3>1, <3>2, <3>3
  <2>2. CASE ~(d = c /\ r = cmd.room)
    <3>1. ~About(roomCmd'[n + 1], d, r)
      BY <1>3, <1>4, <2>2 DEF About
    <3>2. r \in wanted'[d] <=> r \in wanted[d]
      BY <1>4, <1>6, <2>2
    <3>3. ASSUME NEW i \in 1 .. n + 1, About(roomCmd'[i], d, r),
                 \A j \in i + 1 .. n + 1 : ~About(roomCmd'[j], d, r)
          PROVE  roomCmd'[i].join <=> r \in wanted'[d]
      <4>1. i \in 1 .. n
        BY <3>1, <3>3
      <4>2. \A j \in i + 1 .. n : ~About(roomCmd[j], d, r)
        BY <1>3, <3>3, <4>1
      <4> QED BY <1>2, <1>3, <3>2, <3>3, <4>1, <4>2 DEF LastOneDecides
    <3>4. ASSUME \A i \in 1 .. n + 1 : ~About(roomCmd'[i], d, r)
          PROVE  r \in joined'[d] <=> r \in wanted'[d]
      <4>1. \A i \in 1 .. n : ~About(roomCmd[i], d, r)
        BY <1>3, <3>4
      <4> QED BY <1>2, <1>8, <3>2, <4>1 DEF LastOneDecides, Pending, About
    <3> QED BY <1>3, <3>3, <3>4
  <2> QED BY <2>1, <2>2
<1>11. LastOneDecides'
  BY <1>10 DEF LastOneDecides, Pending, About
<1> QED BY <1>0, <1>7, <1>9, <1>11

\* The oldest command takes effect; whoever has another one on its way waits for it.
LEMMA CommandHandled ==
    ASSUME MemberInv, Remember, Next, HubRoom
    PROVE  MemberInv'
<1> USE DEF MemberInv
<1>0. TypeOK /\ HubInv' /\ PumpsStartOnce'
  BY HubInvNext, PumpsNext DEF HubInv
<1>1. PICK cmd \in Commands : cmd = Head(roomCmd)
  BY <1>0 DEF HubRoom, TypeOK
<1>2. PICK n \in Nat : n = Len(roomCmd) /\ n > 0
  BY <1>0 DEF HubRoom, TypeOK
<1>3. /\ roomCmd[1] = cmd /\ Len(roomCmd') = n - 1
      /\ \A i \in 1 .. n - 1 : roomCmd'[i] = roomCmd[i + 1]
  BY <1>0, <1>1, <1>2 DEF HubRoom, TypeOK
<1>4. cmd.client \in Clients /\ cmd.room \in Rooms /\ cmd.join \in BOOLEAN
  BY <1>1, <1>2, <1>3 DEF NoServerCommand, Commands
<1>5. wanted' = wanted
  BY DEF Remember, Accepted, HubRoom
<1>6. CommandTargets(cmd) = {cmd.client}
  BY <1>4, ClientsAssumption DEF CommandTargets
<1>7. joined' = [c \in Clients |->
                   IF c # cmd.client THEN joined[c]
                   ELSE IF cmd.join THEN joined[c] \union {cmd.room} ELSE joined[c] \ {cmd.room}]
  BY <1>1, <1>6 DEF HubRoom, HandleRoom
<1>8. NoServerCommand'
  BY <1>2, <1>3 DEF NoServerCommand
<1>9. ASSUME NEW d \in Clients, NEW r \in Rooms
      PROVE  /\ \A i \in 1 .. Len(roomCmd') :
                  About(roomCmd'[i], d, r)
                  /\ (\A j \in i + 1 .. Len(roomCmd') : ~About(roomCmd'[j], d, r))
                     => (roomCmd'[i].join <=> r \in wanted'[d])
             /\ (\A i \in 1 .. Len(roomCmd') : ~About(roomCmd'[i], d, r))
                  => (r \in joined'[d] <=> r \in wanted'[d])
  <2>1. ASSUME NEW i \in 1 .. n - 1, About(roomCmd'[i], d, r),
               \A j \in i + 1 .. n - 1 : ~About(roomCmd'[j], d, r)
        PROVE  roomCmd'[i].join <=> r \in wanted[d]
    <3>1. i + 1 \in 1 .. n /\ About(roomCmd[i + 1], d, r) /\ roomCmd'[i].join = roomCmd[i + 1].join
      BY <1>2, <1>3, <2>1
    <3>2. ASSUME NEW j \in (i + 1) + 1 .. n PROVE ~About(roomCmd[j], d, r)
      <4>1. j - 1 \in i + 1 .. n - 1 /\ j - 1 \in 1 .. n - 1 /\ (j - 1) + 1 = j
        BY <1>2, <2>1
      <4> QED BY <1>3, <2>1, <4>1
    <3> QED BY <1>2, <3>1, <3>2 DEF LastOneDecides
  <2>2. ASSUME \A i \in 1 .. n - 1 : ~About(roomCmd'[i], d, r)
        PROVE  r \in joined'[d] <=> r \in wanted[d]
    <3>1. ASSUME NEW j \in 2 .. n PROVE ~About(roomCmd[j], d, r)
      <4>1. j - 1 \in 1 .. n - 1 /\ (j - 1) + 1 = j
        BY <1>2
      <4> QED BY <1>3, <2>2, <4>1
    <3>2. CASE About(cmd, d, r)
      <4>1. cmd.join <=> r \in wanted[d]
        BY <1>2, <1>3, <3>1, <3>2 DEF LastOneDecides
      <4>2. r \in joined'[d] <=> cmd.join
        BY <1>4, <1>7, <3>2 DEF About
      <4> QED BY <4>1, <4>2
    <3>3. CASE ~About(cmd, d, r)
      <4>1. \A j \in 1 .. n : ~About(roomCmd[j], d, r)
        BY <1>2, <1>3, <3>1, <3>3
      <4>2. r \in joined[d] <=> r \in wanted[d]
        BY <1>2, <4>1 DEF LastOneDecides, Pending, About
      <4>3. r \in joined'[d] <=> r \in joined[d]
        BY <1>4, <1>7, <3>3 DEF About
      <4> QED BY <4>2, <4>3
    <3> QED BY <3>2, <3>3
  <2> QED BY <1>3, <1>5, <2>1, <2>2
<1>10. LastOneDecides'
  BY <1>9 DEF LastOneDecides, Pending, About
<1> QED BY <1>0, <1>5, <1>8, <1>10

LEMMA MemberInvNext ==
    ASSUME JoinsByClientsOnly
    PROVE  MemberInv /\ [MemberNext]_memberVars => MemberInv'
<1> SUFFICES ASSUME MemberInv, [MemberNext]_memberVars PROVE MemberInv'
  OBVIOUS
<1>1. CASE UNCHANGED memberVars
  <2>1. HubInv' /\ PumpsStartOnce'
    BY <1>1, HubInvNext, PumpsNext DEF MemberInv, HubInv, memberVars
  <2> QED BY <1>1, <2>1 DEF MemberInv, memberVars, vars, NoServerCommand, LastOneDecides, Pending
<1>2. CASE MemberNext
  <2>0. TypeOK
    BY DEF MemberInv, HubInv
  <2>1. ASSUME UNCHANGED <<roomCmd, joined>>, \A c \in Clients : ~Accepted(c) PROVE MemberInv'
    BY <1>2, <2>1, NothingAsked DEF MemberNext
  <2>2. CASE HubRoom
    BY <1>2, <2>2, CommandHandled DEF MemberNext
  <2>3. ASSUME NEW c \in Clients, ClientStep(c) PROVE MemberInv'
    <3>1. CASE SendCommand(c)
      BY <1>2, <3>1, CommandAsked DEF MemberNext
    <3>2. CASE StartPumps(c)
      BY <2>0, <2>1, <3>2 DEF StartPumps, Accepted, TypeOK, MemberInv, PumpsStartOnce
    <3>3. CASE ReadJoin(c) \/ ReadLeave(c) \/ ReadChat(c)
      BY <2>0, <2>1, <3>3 DEF ReadJoin, ReadLeave, ReadChat, ReadFrame, Accepted, TypeOK
    <3>4. CASE SendChat(c) \/ ReadFail(c) \/ ReaderClose(c) \/ HubUnregister(c)
      BY <2>0, <2>1, <3>4 DEF SendChat, ReadFail, ReaderClose, HubUnregister, Accepted, TypeOK
    <3>5. CASE Connect(c) \/ HubRegister(c) \/ PeerFail(c) \/ WriterStep(c) \/ HubDeliver(c)
      BY <2>1, <3>5
         DEF Connect, HubRegister, PeerFail, WriterStep, WriterTake, WriterSeesClose,
             WriterPingFails, HubDeliver, Accepted
    <3> QED BY <2>3, <3>1, <3>2, <3>3, <3>4, <3>5 DEF ClientStep
  <2>4. ~ServerCommand
    BY DEF ServerCommand, JoinsByClientsOnly
  <2>5. CASE ServerPublish \/ Cancel \/ HubDispatch \/ HubStop
    BY <2>1, <2>5 DEF ServerPublish, Cancel, HubDispatch, HubStop, Accepted
  <2> QED BY <1>2, <2>2, <2>3, <2>4, <2>5 DEF MemberNext, Next
<1> QED BY <1>1, <1>2

\* The hub takes each connection at its last word: joins and leaves of one connection
\* take effect in the order it sent them, however many others share the queue.
THEOREM LastWordCounts ==
    ASSUME JoinsByClientsOnly
    PROVE  MemberSpec => []LastWordHolds
<1>1. MemberInv => LastWordHolds
  BY DEF MemberInv, HubInv, IndexConsistent, LastOneDecides, LastWordHolds, TypeOK
<1> QED BY <1>1, MemberInitInv, MemberInvNext, PTL DEF MemberSpec
=============================================================================
