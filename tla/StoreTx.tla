------------------------------ MODULE StoreTx ------------------------------
(***************************************************************************)
(* Transactions: Store.Do of internal/shared/database, as one goroutine    *)
(* uses it (fn must not fan its context out).  The function given to Do    *)
(* may call Do again; the inner call is a savepoint of the outer one's     *)
(* transaction.  In between the function fails or panics, a context ends,  *)
(* a statement aborts the transaction, the connection breaks.              *)
(*                                                                         *)
(* pgx and PostgreSQL are external.  What Do relies on: a statement under  *)
(* a context that has ended is not sent; a connection cut off in mid       *)
(* statement is dead; a failed statement aborts the transaction until it   *)
(* rolls back to a savepoint; Commit and Rollback close the pgx.Tx whether *)
(* they succeed or not, and a closed one answers ErrTxClosed; an outermost *)
(* Commit or Rollback gives the connection back, and the server forgets    *)
(* what is not committed.                                                  *)
(***************************************************************************)
EXTENDS Naturals, Sequences

CONSTANTS
    Calls,      \* calls of Do, each made once
    Writes,     \* statements that write, each made once
    NoCall,     \* no call
    MaxDepth    \* bound on the nesting of calls

ASSUME NoCallAssumption == NoCall \notin Calls
ASSUME DepthAssumption == MaxDepth \in Nat

VARIABLES
    stack,    \* the calls the goroutine is inside of, innermost last
    mode,     \* where the innermost call stands; "idle" outside of Do
    conn,     \* the transaction's connection: "none", "ok", "aborted", "dead"
    pending,  \* writes of the transaction as the server has them
    mark,     \* for each savepoint, what was pending when it was set
    txClosed, \* calls whose pgx.Tx is closed
    ended,    \* calls whose context has ended
    outcome,  \* what each call has returned
    around,   \* history: the calls a call was made inside of
    writer,   \* history: the call each write was made in
    inDoubt,  \* history: calls whose Commit failed with nothing undone, or unanswered
    visible   \* writes that are committed

client == <<stack, mode, outcome>>
server == <<conn, pending>>
history == <<around, writer, inDoubt>>
vars == <<client, server, mark, txClosed, ended, history, visible>>

TypeOK ==
    /\ stack \in Seq(Calls)
    /\ mode \in {"idle", "running", "returned", "failed", "panicking"}
    /\ mode = "idle" <=> stack = <<>>
    /\ conn \in {"none", "ok", "aborted", "dead"}
    /\ pending \subseteq Writes /\ visible \subseteq Writes
    /\ mark \in [Calls -> SUBSET Writes]
    /\ txClosed \subseteq Calls /\ ended \subseteq Calls /\ inDoubt \subseteq Calls
    /\ outcome \in [Calls -> {"fresh", "open", "ok", "error", "panic"}]
    /\ around \in [Calls -> SUBSET Calls]
    /\ writer \in [Writes -> Calls \union {NoCall}]

Init ==
    /\ stack = <<>> /\ mode = "idle"
    /\ conn = "none" /\ pending = {} /\ visible = {}
    /\ mark = [c \in Calls |-> {}]
    /\ txClosed = {} /\ ended = {} /\ inDoubt = {}
    /\ outcome = [c \in Calls |-> "fresh"]
    /\ around = [c \in Calls |-> {}]
    /\ writer = [x \in Writes |-> NoCall]

-----------------------------------------------------------------------------
Depth == Len(stack)
Top == stack[Depth]
Inside == {stack[i] : i \in 1 .. Depth}

\* A statement the innermost call sends now reaches a healthy transaction.
Accepted == conn = "ok" /\ Top \notin ended

\* The connection goes back to the pool, and pgx closes the transaction.
Release == conn' = "none" /\ pending' = {}
CloseTx == txClosed' = txClosed \union {Top}

\* The innermost call returns r; the function around it, if any, goes on in mode m.
Return(r, m) ==
    /\ outcome' = [outcome EXCEPT ![Top] = r]
    /\ stack' = SubSeq(stack, 1, Depth - 1)
    /\ mode' = IF Depth = 1 THEN "idle" ELSE m

-----------------------------------------------------------------------------
(* begin: a transaction, or a savepoint when the context carries one. *)

Begin(c) ==
    /\ outcome[c] = "fresh"
    /\ Depth < MaxDepth
    /\ \/ mode = "idle" /\ conn' = "ok"
       \/ mode = "running" /\ Accepted /\ UNCHANGED conn
    /\ mark' = [mark EXCEPT ![c] = pending]
    /\ stack' = Append(stack, c)
    /\ mode' = "running"
    /\ outcome' = [outcome EXCEPT ![c] = "open"]
    /\ around' = [around EXCEPT ![c] = Inside]
    /\ UNCHANGED <<pending, txClosed, ended, writer, inDoubt, visible>>

\* No connection, or the savepoint is refused: Do returns before fn has run.
BeginFails(c) ==
    /\ mode \in {"idle", "running"}
    /\ outcome[c] = "fresh"
    /\ outcome' = [outcome EXCEPT ![c] = "error"]
    /\ around' = [around EXCEPT ![c] = Inside]
    /\ UNCHANGED <<stack, mode, server, mark, txClosed, ended, writer, inDoubt, visible>>

-----------------------------------------------------------------------------
(* The function that Do runs, and its context. *)

\* Repositories find the transaction in the context, whatever module they are in.
Write(x) ==
    /\ mode = "running" /\ Accepted
    /\ writer[x] = NoCall
    /\ pending' = pending \union {x}
    /\ writer' = [writer EXCEPT ![x] = Top]
    /\ UNCHANGED <<client, conn, mark, txClosed, ended, around, inDoubt, visible>>

\* A statement is refused by the server, or cut off; the function may ignore that.
StatementFails ==
    /\ mode = "running" /\ Accepted
    /\ conn' \in {"aborted", "dead"}
    /\ UNCHANGED <<client, pending, mark, txClosed, ended, history, visible>>

FnEnds ==
    /\ mode = "running"
    /\ mode' \in {"returned", "failed", "panicking"}
    /\ UNCHANGED <<stack, outcome, server, mark, txClosed, ended, history, visible>>

\* A deadline or cancellation ends the context of a call and those derived from it.
ContextEnds(i) ==
    /\ i \in 1 .. Depth
    /\ stack[i] \notin ended
    /\ ended' = ended \union {stack[j] : j \in i .. Depth}
    /\ UNCHANGED <<client, server, mark, txClosed, history, visible>>

-----------------------------------------------------------------------------
(* tx.Commit: COMMIT, or RELEASE SAVEPOINT in a nested call. *)

Commit ==
    /\ mode = "returned" /\ Accepted
    /\ IF Depth = 1 THEN Release /\ visible' = visible \union pending
                    ELSE UNCHANGED <<server, visible>>
    /\ CloseTx
    /\ Return("ok", "running")
    /\ UNCHANGED <<mark, ended, history>>

\* Not sent, refused, or answered by ROLLBACK as the transaction is aborted; or
\* sent and cut off, so that a COMMIT may have taken place.
CommitFails ==
    /\ mode = "returned"
    /\ mode' = "failed"
    /\ CloseTx
    /\ \/ /\ ~Accepted
          /\ IF Depth = 1 THEN Release ELSE UNCHANGED server
          /\ inDoubt' = IF Depth = 1 THEN inDoubt ELSE inDoubt \union {Top}
          /\ UNCHANGED visible
       \/ /\ Accepted
          /\ IF Depth = 1 THEN Release /\ visible' \in {visible, visible \union pending}
                          ELSE conn' = "dead" /\ UNCHANGED <<pending, visible>>
          /\ inDoubt' = inDoubt \union {Top}
    /\ UNCHANGED <<stack, outcome, mark, ended, around, writer>>

-----------------------------------------------------------------------------
(* The deferred function: roll back, then return the error or panic on. *)

\* ROLLBACK TO SAVEPOINT makes an aborted transaction healthy again.
UndoSavepoint ==
    \/ conn \in {"ok", "aborted"} /\ conn' = "ok" /\ pending' = mark[Top]
    \/ conn' = "dead" /\ UNCHANGED pending

\* Mutants: the rollback is sent under the call's own context; a nested failure
\* rolls the whole transaction back.
RollbackUnderContext ==
    IF Top \in txClosed THEN UNCHANGED server
    ELSE IF Depth = 1 THEN Release
    ELSE IF Top \in ended THEN UNCHANGED server ELSE UndoSavepoint

RollbackEverything ==
    IF Top \in txClosed THEN UNCHANGED server
    ELSE IF Depth = 1 THEN Release
    ELSE pending' = {} /\ UNCHANGED conn

\* rollback: sent without the context's cancellation; ErrTxClosed is no error, so
\* that nothing happens when the transaction or savepoint is closed already.
Rollback ==
    IF Top \in txClosed THEN UNCHANGED server
    ELSE IF Depth = 1 THEN Release
    ELSE UndoSavepoint

DoFails ==
    /\ mode = "failed"
    /\ Rollback /\ CloseTx
    /\ Return("error", "running")
    /\ UNCHANGED <<mark, ended, history, visible>>

\* Mutant: the deferred function does not look at a panic.
DoPanicsOn ==
    /\ mode = "panicking"
    /\ \E m \in {"running", "panicking"} : Return("panic", m)
    /\ UNCHANGED <<server, mark, txClosed, ended, history, visible>>

\* The panic goes on in the function around, which may recover from it.
DoPanics ==
    /\ mode = "panicking"
    /\ Rollback /\ CloseTx
    /\ \E m \in {"running", "panicking"} : Return("panic", m)
    /\ UNCHANGED <<mark, ended, history, visible>>

-----------------------------------------------------------------------------
Next ==
    \/ \E c \in Calls : Begin(c) \/ BeginFails(c)
    \/ \E x \in Writes : Write(x)
    \/ \E i \in 1 .. MaxDepth : ContextEnds(i)
    \/ StatementFails \/ FnEnds
    \/ Commit \/ CommitFails
    \/ DoFails \/ DoPanics

Spec == Init /\ [][Next]_vars

-----------------------------------------------------------------------------
(* Properties. *)

Failed(c) == outcome[c] \in {"error", "panic"}

\* The calls a write was made inside of, its own included.
Chain(x) == IF writer[x] = NoCall THEN {} ELSE {writer[x]} \union around[writer[x]]

\* All: when the outermost call returns nil, every write made in calls that all
\* returned nil is committed, whatever failed beside them in the same transaction.
SuccessIsKept ==
    \A x \in Writes :
        (Chain(x) # {} /\ \A c \in Chain(x) : outcome[c] = "ok") => x \in visible

\* Nothing: no write made in a call that failed, or in a call inside it, is ever
\* committed, even if the outer calls go on and succeed.  The exceptions are a
\* commit that nobody answered and a savepoint whose release failed.
FailureIsUndone ==
    \A x \in visible : \A c \in Chain(x) : Failed(c) => c \in inDoubt

\* However a call of Do was left, a goroutine outside of Do holds no connection.
NoConnectionLeak == stack = <<>> => conn = "none"

(* Refinement: each open call answers for what was added to the transaction *)
(* between its savepoint and the one set inside it.                         *)

Broken == stack # <<>> /\ conn \in {"dead", "none"}

\* What was in the transaction when the call inside the i-th one began.
Until(i) == IF i = Depth THEN pending ELSE mark[stack[i + 1]]

Held ==
    [c \in Calls |-> IF Broken THEN {}
                     ELSE UNION {Until(i) \ mark[c] : i \in {j \in 1 .. Depth : stack[j] = c}}]

Result ==
    [c \in Calls |-> CASE outcome[c] = "fresh" -> "none"
                       [] outcome[c] \in {"error", "panic"} -> "failed"
                       [] OTHER -> outcome[c]]

Nested == INSTANCE NestedTx WITH
    open <- stack, result <- Result, work <- Held, broken <- Broken, doubtful <- inDoubt

\* Do implements calls that hold their writes until they return: whatever contexts end,
\* statements fail, connections break and functions panic at whatever depth, success
\* hands the writes of a call outwards and failure takes exactly those with it.
ImplementsNestedTx == Nested!Spec

(* What the documentation says. *)

\* "an inner failure undoes only the inner work": a nested call that returned an
\* error leaves no write behind.
InnerFailureUndone ==
    \A x \in visible : \A c \in Chain(x) : around[c] # {} => ~Failed(c)
=============================================================================
