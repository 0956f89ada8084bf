---------------------------- MODULE MCMembership ----------------------------
(* A small instance of WsHub with its memory of joins and leaves, for TLC. *)
EXTENDS MCWsHub, Membership

\* Both connections use the whole protocol.
BothTalk == [c \in TwoClients |-> {"join", "leave", "message"}]
=============================================================================
