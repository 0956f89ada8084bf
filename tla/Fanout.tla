------------------------------- MODULE Fanout -------------------------------
(***************************************************************************)
(* What the hub of internal/modules/ws promises its users, without         *)
(* channels, buffers, indexes or goroutines: messages queue up, each is    *)
(* handed to the live clients it is for, and a client misses a message     *)
(* that was for it only by being cut off for good.                         *)
(***************************************************************************)
EXTENDS Naturals, Sequences

CONSTANTS Clients, UserOf, Messages, Empty, None

VARIABLES
    queue,   \* accepted messages not dispatched yet
    live,    \* clients the hub serves
    cur,     \* the message being handed out, or None
    todo,    \* live clients that still have to get `cur`
    stream   \* what each client has been handed, in order

vars == <<queue, live, cur, todo, stream>>

Init ==
    /\ queue = <<>>
    /\ live = {}
    /\ cur = None
    /\ todo = {}
    /\ stream = [c \in Clients |-> <<>>]

\* Who may be given m: a room is any set of live clients, a user all its live
\* connections, and otherwise everyone.
Audiences(m) ==
    IF m.to.room # Empty THEN SUBSET live
    ELSE IF m.to.userID # Empty THEN {{c \in live : UserOf[c] = m.to.userID}}
    ELSE {live}

Submit ==
    /\ \E m \in Messages : queue' = Append(queue, m)
    /\ UNCHANGED <<live, cur, todo, stream>>

Admit(c) ==
    /\ c \notin live
    /\ todo = {}
    /\ stream[c] = <<>>
    /\ live' = live \union {c}
    /\ UNCHANGED <<queue, cur, todo, stream>>

Dispatch ==
    /\ todo = {}
    /\ queue # <<>>
    /\ queue' = Tail(queue)
    /\ todo' \in Audiences(Head(queue))
    /\ cur' = IF todo' = {} THEN None ELSE Head(queue)
    /\ UNCHANGED <<live, stream>>

\* c is handed the message, or cut off; either way it owes no more attention.
Serve(c) ==
    /\ c \in todo
    /\ todo' = todo \ {c}
    /\ cur' = IF todo' = {} THEN None ELSE cur
    /\ \/ stream' = [stream EXCEPT ![c] = Append(@, cur)] /\ UNCHANGED live
       \/ live' = live \ {c} /\ UNCHANGED stream
    /\ UNCHANGED queue

\* Clients go away between messages.
Depart(S) ==
    /\ todo = {}
    /\ live' = live \ S
    /\ UNCHANGED <<queue, cur, todo, stream>>

Next ==
    \/ Submit \/ Dispatch
    \/ \E c \in Clients : Admit(c) \/ Serve(c)
    \/ \E S \in SUBSET live : Depart(S)

Spec == Init /\ [][Next]_vars
=============================================================================
