----------------------------- MODULE Membership -----------------------------
(***************************************************************************)
(* The hub with a memory of what each connection asked for: `wanted` are   *)
(* the rooms it would be in if every join and leave the hub has accepted   *)
(* from it had taken effect at once.  Commands in fact wait in `roomCmd`,  *)
(* between those of other connections, while clients are dropped, come and *)
(* go.                                                                     *)
(***************************************************************************)
EXTENDS WsHub

VARIABLE wanted  \* history: the rooms each connection asked to be in

memberVars == <<vars, wanted>>

\* The command a readPump handed over in this step has left its hand.
Accepted(c) == reader[c] = "commanding" /\ reader'[c] # "commanding"

Asked(c) ==
    IF inflight[c].join THEN wanted[c] \union {inflight[c].room}
    ELSE wanted[c] \ {inflight[c].room}

Remember == wanted' = [c \in Clients |-> IF Accepted(c) THEN Asked(c) ELSE wanted[c]]

MemberInit == Init /\ wanted = [c \in Clients |-> {}]
MemberNext == Next /\ Remember
MemberSpec == MemberInit /\ [][MemberNext]_memberVars

\* A command of connection c about room r is on its way to the hub.
Pending(c, r) == \E i \in 1 .. Len(roomCmd) : roomCmd[i].client = c /\ roomCmd[i].room = r

\* Where connections alone decide, each is in exactly the rooms it last asked for, as
\* soon as none of its commands about the room is on its way: a leave never overtakes
\* the join before it, whoever else is served in between.
LastWordHolds ==
    \A c \in clients, r \in Rooms : ~Pending(c, r) => (c \in rooms[r] <=> r \in wanted[c])
=============================================================================
