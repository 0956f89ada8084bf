------------------------------ MODULE NestedTx ------------------------------
(***************************************************************************)
(* What Store.Do promises: calls that nest, each holding the writes made   *)
(* in it until it returns.  A call that succeeds hands its writes to the   *)
(* call around it, the outermost one makes them visible; a call that fails *)
(* takes its own writes with it and nobody else's.  The transaction may    *)
(* break down under all of them, and an answer to the end of a call may    *)
(* get lost, after which that one call is in doubt.                        *)
(***************************************************************************)
EXTENDS Naturals, Sequences

CONSTANTS Calls, Writes

VARIABLES
    open,     \* the calls being made, innermost last
    result,   \* what has become of each call
    work,     \* the writes each call answers for
    broken,   \* nothing of the transaction can be kept any more
    doubtful, \* calls whose end was not confirmed
    visible   \* writes everybody sees

vars == <<open, result, work, broken, doubtful, visible>>

Init ==
    /\ open = <<>> /\ result = [c \in Calls |-> "none"]
    /\ work = [c \in Calls |-> {}] /\ broken = FALSE
    /\ doubtful = {} /\ visible = {}

-----------------------------------------------------------------------------
Depth == Len(open)
Innermost == open[Depth]
Around == open[Depth - 1]

Nothing == [c \in Calls |-> {}]
Discarded == [work EXCEPT ![Innermost] = {}]
HandedOn ==
    [c \in Calls |-> IF c = Innermost THEN {}
                     ELSE IF c = Around THEN work[c] \union work[Innermost]
                     ELSE work[c]]

Return(r) ==
    /\ open' = SubSeq(open, 1, Depth - 1)
    /\ result' = [result EXCEPT ![Innermost] = r]

Open(c) ==
    /\ result[c] = "none" /\ ~broken
    /\ open' = Append(open, c)
    /\ result' = [result EXCEPT ![c] = "open"]
    /\ UNCHANGED <<work, broken, doubtful, visible>>

Refuse(c) ==
    /\ result[c] = "none"
    /\ result' = [result EXCEPT ![c] = "failed"]
    /\ UNCHANGED <<open, work, broken, doubtful, visible>>

Write(x) ==
    /\ open # <<>> /\ ~broken
    /\ x \notin visible /\ \A c \in Calls : x \notin work[c]
    /\ work' = [work EXCEPT ![Innermost] = @ \union {x}]
    /\ UNCHANGED <<open, result, broken, doubtful, visible>>

Break ==
    /\ open # <<>>
    /\ broken' = TRUE /\ work' = Nothing
    /\ UNCHANGED <<open, result, doubtful, visible>>

Succeed ==
    /\ open # <<>> /\ ~broken
    /\ Return("ok")
    /\ \/ Depth = 1 /\ visible' = visible \union work[Innermost] /\ work' = Nothing
       \/ Depth > 1 /\ work' = HandedOn /\ UNCHANGED visible
    /\ UNCHANGED <<broken, doubtful>>

\* The writes of the outermost call became visible or did not; a nested call's are
\* still its own.  Either way the call is going to fail.
Doubt ==
    /\ open # <<>>
    /\ doubtful' = doubtful \union {Innermost}
    /\ \/ /\ Depth = 1 /\ ~broken
          /\ visible' \in {visible, visible \union work[Innermost]}
          /\ broken' = TRUE /\ work' = Nothing
       \/ /\ Depth > 1
          /\ \/ broken' = TRUE /\ work' = Nothing
             \/ UNCHANGED <<broken, work>>
          /\ UNCHANGED visible
    /\ UNCHANGED <<open, result>>

\* Only a call in doubt may fail and leave its writes to the call around it.
Fail ==
    /\ open # <<>>
    /\ Return("failed")
    /\ \/ Depth = 1 /\ broken' = FALSE /\ work' = Nothing
       \/ /\ Depth > 1
          /\ \/ work' = Discarded /\ UNCHANGED broken
             \/ work' = Nothing /\ broken' = TRUE
             \/ Innermost \in doubtful /\ work' = HandedOn /\ UNCHANGED broken
    /\ UNCHANGED <<doubtful, visible>>

Next ==
    \/ \E c \in Calls : Open(c) \/ Refuse(c)
    \/ \E x \in Writes : Write(x)
    \/ Break \/ Succeed \/ Doubt \/ Fail

Spec == Init /\ [][Next]_vars
=============================================================================
