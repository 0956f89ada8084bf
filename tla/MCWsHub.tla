------------------------------- MODULE MCWsHub -------------------------------
(* Small instances of WsHub for TLC. *)
EXTENDS WsHub, TLC

CONSTANTS c1, c2, u1, u2, lobby

TwoClients == {c1, c2}
TwoUsers == {u1, u2}
OwnUser == c1 :> u1 @@ c2 :> u2
OneRoom == {lobby}

\* One connection uses the whole protocol, the other only talks.
MemberAndGuest == c1 :> {"join", "leave", "message"} @@ c2 :> {"message"}
MemberFails == {c1}
OneTalks == c1 :> {"message"} @@ c2 :> {}

\* A private message.
PrivateCalls == {ToUser(u1)}
NoCommands == {}

\* Calls of a server that manages the rooms itself.
RoomCalls == {ToRoom(lobby)}
ServerJoins == [client : {NoClient}, userID : {u1}, room : {lobby}, join : {TRUE}]
=============================================================================
