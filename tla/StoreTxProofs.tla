--------------------------- MODULE StoreTxProofs ---------------------------
(* Theorems about Store.Do, for any calls, writes and nesting. *)
EXTENDS StoreTx, TLAPS

-----------------------------------------------------------------------------
(* Types. *)

LEMMA TypeInit == Init => TypeOK
  BY DEF Init, TypeOK

\* A prefix of a sequence.
LEMMA PrefixShape ==
  ASSUME NEW S, NEW s \in Seq(S), NEW n \in Nat, n <= Len(s)
  PROVE  LET t == SubSeq(s, 1, n)
         IN  t \in Seq(S) /\ Len(t) = n /\ \A i \in 1 .. n : t[i] = s[i]
  <1>1. SubSeq(s, 1, n) \in Seq(S)
    OBVIOUS
  <1>2. Len(SubSeq(s, 1, n)) = n
    OBVIOUS
  <1>3. \A i \in 1 .. n : SubSeq(s, 1, n)[i] = s[i]
    OBVIOUS
  <1>4. QED
    BY <1>1, <1>2, <1>3

\* What is left of the stack when the innermost call returns.
LEMMA PopShape ==
  ASSUME NEW s \in Seq(Calls), s # <<>>
  PROVE  LET t == SubSeq(s, 1, Len(s) - 1)
         IN  /\ t \in Seq(Calls)
             /\ Len(t) = Len(s) - 1
             /\ \A i \in 1 .. Len(s) - 1 : t[i] = s[i]
             /\ t = <<>> <=> Len(s) = 1
  <1> DEFINE n == Len(s) - 1
  <1>1. n \in Nat /\ n <= Len(s)
    OBVIOUS
  <1> HIDE DEF n
  <1>2. /\ SubSeq(s, 1, n) \in Seq(Calls)
        /\ Len(SubSeq(s, 1, n)) = n
        /\ \A i \in 1 .. n : SubSeq(s, 1, n)[i] = s[i]
    BY <1>1, PrefixShape
  <1>3. SubSeq(s, 1, n) = <<>> <=> n = 0
    BY <1>2
  <1>4. QED
    BY <1>2, <1>3 DEF n

LEMMA PushShape ==
  ASSUME NEW s \in Seq(Calls), NEW c \in Calls
  PROVE  LET t == Append(s, c)
         IN  /\ t \in Seq(Calls)
             /\ Len(t) = Len(s) + 1
             /\ \A i \in 1 .. Len(s) : t[i] = s[i]
             /\ t[Len(t)] = c
             /\ t # <<>>
  OBVIOUS

\* The innermost call is a call, unless there is none.
LEMMA TopShape ==
  ASSUME TypeOK, mode # "idle"
  PROVE  /\ stack # <<>> /\ Depth \in Nat /\ Depth >= 1
         /\ Top \in Calls /\ Top = stack[Depth] /\ Top \in Inside
         /\ Inside \subseteq Calls
  BY DEF TypeOK, Top, Depth, Inside

LEMMA ReturnTyped ==
  ASSUME TypeOK, mode # "idle", NEW r \in {"ok", "error", "panic"},
         NEW m \in {"running", "panicking"}, Return(r, m)
  PROVE  /\ stack' \in Seq(Calls)
         /\ mode' \in {"idle", "running", "panicking"}
         /\ mode' = "idle" <=> stack' = <<>>
         /\ outcome' \in [Calls -> {"fresh", "open", "ok", "error", "panic"}]
  <1>1. outcome' \in [Calls -> {"fresh", "open", "ok", "error", "panic"}]
    BY TopShape DEF TypeOK, Return
  <1>2. stack' \in Seq(Calls) /\ (stack' = <<>> <=> Len(stack) = 1)
    BY PopShape, TopShape DEF TypeOK, Return, Depth
  <1>3. QED
    BY <1>1, <1>2 DEF Return, Depth

LEMMA RollbackTyped ==
  ASSUME TypeOK, mode # "idle", Rollback
  PROVE  conn' \in {"none", "ok", "aborted", "dead"} /\ pending' \subseteq Writes
  BY TopShape DEF TypeOK, Rollback, Release, UndoSavepoint, server

LEMMA TypeNext == TypeOK /\ [Next]_vars => TypeOK'
  <1> SUFFICES ASSUME TypeOK, [Next]_vars PROVE TypeOK'
    OBVIOUS
  <1> Inside \subseteq Calls
    BY DEF TypeOK, Inside, Depth
  <1>1. ASSUME NEW c \in Calls, Begin(c) PROVE TypeOK'
    <2>1. stack' \in Seq(Calls) /\ stack' # <<>>
      BY <1>1, PushShape DEF TypeOK, Begin
    <2>2. QED
      BY <1>1, <2>1 DEF TypeOK, Begin
  <1>2. ASSUME NEW c \in Calls, BeginFails(c) PROVE TypeOK'
    BY <1>2 DEF TypeOK, BeginFails, server
  <1>3. ASSUME NEW x \in Writes, Write(x) PROVE TypeOK'
    BY <1>3, TopShape DEF TypeOK, Write, client
  <1>4. ASSUME NEW i \in 1 .. MaxDepth, ContextEnds(i) PROVE TypeOK'
    <2>1. \A j \in i .. Depth : stack[j] \in Calls
      BY <1>4 DEF TypeOK, ContextEnds, Depth
    <2>2. ended' \subseteq Calls
      BY <1>4, <2>1 DEF TypeOK, ContextEnds
    <2>3. QED
      BY <1>4, <2>2 DEF TypeOK, ContextEnds, client, server, history
  <1>5. CASE StatementFails
    BY <1>5 DEF TypeOK, StatementFails, client, history
  <1>6. CASE FnEnds
    BY <1>6 DEF TypeOK, FnEnds, server, history
  <1>7. CASE Commit
    BY <1>7, TopShape, ReturnTyped
    DEF TypeOK, Commit, CloseTx, Release, server, history
  <1>8. CASE CommitFails
    BY <1>8, TopShape DEF TypeOK, CommitFails, CloseTx, Release, server
  <1>9. CASE DoFails
    BY <1>9, TopShape, ReturnTyped, RollbackTyped DEF TypeOK, DoFails, CloseTx, history
  <1>10. CASE DoPanics
    BY <1>10, TopShape, ReturnTyped, RollbackTyped DEF TypeOK, DoPanics, CloseTx, history
  <1>11. CASE UNCHANGED vars
    BY <1>11 DEF TypeOK, vars, client, server, history
  <1>12. QED
    BY <1>1, <1>2, <1>3, <1>4, <1>5, <1>6, <1>7, <1>8, <1>9, <1>10, <1>11 DEF Next

\* Every variable keeps its type; outside of Do, and only there, the goroutine is
\* idle.
THEOREM TypeCorrect == Spec => []TypeOK
  BY TypeInit, TypeNext, PTL DEF Spec

-----------------------------------------------------------------------------
(* The inductive invariant. *)

\* The open calls are those on the stack, each inside those below it.
StackShape ==
    /\ \A i \in 1 .. Depth :
         /\ outcome[stack[i]] = "open"
         /\ around[stack[i]] = {stack[j] : j \in 1 .. (i - 1)}
    /\ \A i, j \in 1 .. Depth : stack[i] = stack[j] => i = j
    /\ \A c \in Calls : outcome[c] = "open" => c \in Inside

\* A call that has not been made has left no trace.
FreshShape ==
    \A c \in Calls : outcome[c] = "fresh" =>
        /\ c \notin txClosed /\ c \notin inDoubt
        /\ \A d \in Calls : c \notin around[d]
        /\ \A x \in Writes : writer[x] # c

\* Do holds a connection from begin to the end of its transaction; a pgx.Tx that
\* is closed under an open call is the innermost call's, whose Commit has failed.
ConnShape ==
    /\ conn = "none" => pending = {}
    /\ stack = <<>> => conn = "none"
    /\ (stack # <<>> /\ conn = "none") => Depth = 1 /\ mode = "failed" /\ Top \in txClosed
    /\ \A i \in 1 .. Depth : stack[i] \in txClosed =>
         /\ i = Depth /\ mode = "failed"
         /\ IF i = 1 THEN conn = "none" ELSE stack[i] \in inDoubt

\* A savepoint's mark tells the writes made before it from those made in its call.
MarkShape ==
    /\ \A x \in pending \union visible : writer[x] # NoCall
    /\ \A x \in pending : stack # <<>> /\ stack[1] \in Chain(x)
    /\ \A i \in 1 .. Depth : mark[stack[i]] \subseteq pending
    /\ \A i, j \in 1 .. Depth : i < j => mark[stack[i]] \subseteq mark[stack[j]]
    /\ \A x \in pending, c \in Inside : c \in Chain(x) <=> x \notin mark[c]

\* While the transaction can still commit, what failed calls wrote is not in it.
PendingSound ==
    conn # "dead" => \A x \in pending : \A c \in Chain(x) : Failed(c) => c \in inDoubt

VisibleSound ==
    \A x \in visible : \A c \in Chain(x) : outcome[c] # "ok" => c \in inDoubt

\* A write none of whose calls has failed is committed or still on its way.
Kept ==
    \A x \in Writes :
        (writer[x] # NoCall /\ \A c \in Chain(x) : outcome[c] \in {"open", "ok"}) =>
            \/ x \in visible
            \/ (\E c \in Chain(x) : outcome[c] = "open") /\ (x \in pending \/ conn = "none")

StoreInv ==
    /\ TypeOK
    /\ StackShape
    /\ FreshShape
    /\ ConnShape
    /\ MarkShape
    /\ PendingSound
    /\ VisibleSound
    /\ Kept

LEMMA StoreInvInit == Init => StoreInv
  <1> SUFFICES ASSUME Init PROVE StoreInv
    OBVIOUS
  <1>1. Depth = 0 /\ 1 .. Depth = {}
    BY DEF Init, Depth
  <1>2. StackShape
    BY <1>1 DEF Init, StackShape
  <1>3. FreshShape
    BY NoCallAssumption DEF Init, FreshShape
  <1>4. ConnShape /\ MarkShape
    BY <1>1 DEF Init, ConnShape, MarkShape
  <1>5. PendingSound /\ VisibleSound /\ Kept
    BY DEF Init, PendingSound, VisibleSound, Kept
  <1>6. QED
    BY <1>2, <1>3, <1>4, <1>5, TypeInit DEF StoreInv

\* What a return does to the stack.
LEMMA ReturnShape ==
  ASSUME TypeOK, StackShape, mode # "idle",
         NEW r, NEW m, Return(r, m)
  PROVE  /\ Depth' = Depth - 1
         /\ \A i \in 1 .. Depth' : stack'[i] = stack[i] /\ stack[i] # Top
         /\ Inside' = Inside \ {Top}
         /\ stack' = <<>> <=> Depth = 1
         /\ \A c \in Calls : outcome'[c] = IF c = Top THEN r ELSE outcome[c]
  <1>1. Depth' = Depth - 1 /\ \A i \in 1 .. Depth - 1 : stack'[i] = stack[i]
    BY PopShape, TopShape DEF TypeOK, Return, Depth
  <1>2. \A i \in 1 .. Depth - 1 : stack[i] # Top
    BY TopShape DEF StackShape
  <1>3. Inside' = {stack[i] : i \in 1 .. Depth - 1}
    BY <1>1 DEF Inside
  <1>4. Inside = {stack[i] : i \in 1 .. Depth - 1} \union {Top}
    BY TopShape DEF Inside
  <1>5. stack' = <<>> <=> Depth = 1
    BY PopShape, TopShape DEF TypeOK, Return, Depth
  <1>6. \A c \in Calls : outcome'[c] = IF c = Top THEN r ELSE outcome[c]
    BY DEF TypeOK, Return
  <1>7. QED
    BY <1>1, <1>2, <1>3, <1>4, <1>5, <1>6

LEMMA ReturnKeepsStack ==
  ASSUME TypeOK, StackShape, mode # "idle",
         NEW r \in {"ok", "error", "panic"}, NEW m, Return(r, m), UNCHANGED around
  PROVE  StackShape'
  <1>1. Depth \in Nat /\ \A i \in 1 .. Depth : stack[i] \in Calls
    BY DEF TypeOK, Depth
  <1>2. \A i \in 1 .. Depth' : /\ outcome'[stack'[i]] = "open"
                               /\ around'[stack'[i]] = {stack'[j] : j \in 1 .. (i - 1)}
    <2> SUFFICES ASSUME NEW i \in 1 .. Depth'
                 PROVE  /\ outcome'[stack'[i]] = "open"
                        /\ around'[stack'[i]] = {stack'[j] : j \in 1 .. (i - 1)}
      OBVIOUS
    <2>1. i \in 1 .. Depth /\ stack'[i] = stack[i] /\ stack[i] # Top /\ stack[i] \in Calls
      BY <1>1, ReturnShape
    <2>2. outcome'[stack'[i]] = "open"
      BY <2>1, ReturnShape DEF StackShape
    <2>3. \A j \in 1 .. (i - 1) : j \in 1 .. Depth' /\ stack'[j] = stack[j]
      BY <1>1, <2>1, ReturnShape
    <2>4. around'[stack'[i]] = {stack[j] : j \in 1 .. (i - 1)}
      BY <2>1 DEF StackShape
    <2>5. {stack[j] : j \in 1 .. (i - 1)} = {stack'[j] : j \in 1 .. (i - 1)}
      BY <2>3
    <2>6. QED
      BY <2>2, <2>4, <2>5
  <1>3. \A i, j \in 1 .. Depth' : stack'[i] = stack'[j] => i = j
    BY <1>1, ReturnShape, TopShape DEF StackShape
  <1>4. \A c \in Calls : outcome'[c] = "open" => c \in Inside'
    BY ReturnShape DEF StackShape
  <1>5. QED
    BY <1>2, <1>3, <1>4 DEF StackShape

\* A call that returns was open, so the fresh ones are still fresh.
LEMMA ReturnKeepsFresh ==
  ASSUME TypeOK, StackShape, FreshShape, mode # "idle",
         NEW r \in {"ok", "error", "panic"}, NEW m, Return(r, m), CloseTx,
         UNCHANGED history
  PROVE  FreshShape'
  <1>1. \A c \in Calls : outcome'[c] = "fresh" => outcome[c] = "fresh" /\ c # Top
    BY ReturnShape, TopShape
  <1>2. QED
    BY <1>1 DEF FreshShape, CloseTx, history

\* The calls of a write: known ones, if any.
LEMMA ChainShape ==
  ASSUME TypeOK, NEW x \in Writes
  PROVE  /\ Chain(x) \subseteq Calls
         /\ Chain(x) = {} <=> writer[x] = NoCall
  BY NoCallAssumption DEF TypeOK, Chain

LEMMA ChainKept ==
  ASSUME UNCHANGED <<around, writer>>, NEW x
  PROVE  Chain(x)' = Chain(x)
  BY DEF Chain

-----------------------------------------------------------------------------
(* The steps. *)

\* DoFails and DoPanics: roll back if there is something to roll back, and return.
LEMMA FailureKeepsInv ==
  ASSUME StoreInv, TypeOK', mode \in {"failed", "panicking"},
         NEW r \in {"error", "panic"}, NEW m \in {"running", "panicking"},
         Rollback, CloseTx, Return(r, m),
         UNCHANGED <<mark, ended, history, visible>>
  PROVE  StoreInv'
  <1> USE DEF StoreInv, server, history
  <1>1. StackShape' /\ FreshShape'
    BY ReturnKeepsStack, ReturnKeepsFresh
  <1>2. Depth = 1 => conn' = "none" /\ pending' = {}
    BY TopShape DEF Rollback, Release, ConnShape
  <1>3. Depth > 1 => conn # "none" /\ conn' # "none"
    BY TopShape DEF Rollback, UndoSavepoint, ConnShape
  <1>4. ConnShape'
    <2>1. CASE Depth = 1
      BY <2>1, <1>2, ReturnShape DEF ConnShape
    <2>2. CASE Depth > 1
      <3>1. \A i \in 1 .. Depth' : stack'[i] \notin txClosed'
        BY <2>2, ReturnShape, TopShape DEF ConnShape, CloseTx
      <3>2. QED
        BY <2>2, <3>1, <1>3, ReturnShape DEF ConnShape
    <2>3. QED
      BY <2>1, <2>2, TopShape
  <1>5. Depth > 1 =>
          \/ UNCHANGED pending
          \/ pending' = mark[Top] /\ conn # "dead"
    BY DEF Rollback, UndoSavepoint
  <1>6. \A i \in 1 .. Depth : stack[i] \in Calls
    BY DEF TypeOK, Depth
  <1>7. Depth > 1 => pending' \subseteq pending /\ \A i \in 1 .. Depth' : mark[stack[i]] \subseteq pending'
    BY <1>5, ReturnShape, TopShape DEF MarkShape
  <1>8. MarkShape'
    <2>1. CASE Depth = 1
      BY <2>1, <1>2, ReturnShape DEF MarkShape
    <2>2. CASE Depth > 1
      <3>1. \A x : Chain(x)' = Chain(x)
        BY ChainKept
      <3>2. 1 \in 1 .. Depth' /\ stack'[1] = stack[1] /\ stack' # <<>>
        BY <2>2, ReturnShape, TopShape
      <3>3. \A i, j \in 1 .. Depth' : i < j => mark[stack'[i]] \subseteq mark[stack'[j]]
        BY ReturnShape, TopShape DEF MarkShape
      <3>4. QED
        BY <2>2, <3>1, <3>2, <3>3, <1>7, ReturnShape DEF MarkShape
    <2>3. QED
      BY <2>1, <2>2, TopShape
  <1>9. PendingSound'
    <2>1. CASE Depth = 1
      BY <2>1, <1>2 DEF PendingSound
    <2>2. CASE Depth > 1
      <3> SUFFICES ASSUME conn' # "dead", NEW x \in pending', NEW c \in Chain(x), Failed(c)'
                   PROVE  c \in inDoubt
        BY ChainKept DEF PendingSound
      <3>1. x \in pending /\ x \in Writes /\ c \in Calls /\ conn # "dead"
        BY <2>2, <1>7, ChainShape DEF TypeOK, Rollback, UndoSavepoint
      <3>2. CASE c # Top
        BY <3>1, <3>2, ReturnShape DEF PendingSound, Failed
      <3>3. CASE c = Top /\ Top \in txClosed
        BY <2>2, <3>3, TopShape DEF ConnShape
      <3>4. CASE c = Top /\ Top \notin txClosed
        <4>1. pending' = mark[Top]
          BY <2>2, <3>4 DEF Rollback, UndoSavepoint
        <4>2. QED
          BY <3>1, <3>4, <4>1, TopShape DEF MarkShape
      <3>5. QED
        BY <3>2, <3>3, <3>4
    <2>3. QED
      BY <2>1, <2>2, TopShape
  <1>10. VisibleSound'
    <2> SUFFICES ASSUME NEW x \in visible, NEW c \in Chain(x), outcome'[c] # "ok"
                 PROVE  c \in inDoubt
      BY ChainKept DEF VisibleSound
    <2>1. x \in Writes /\ c \in Calls
      BY ChainShape DEF TypeOK
    <2>2. outcome[Top] = "open"
      BY TopShape DEF StackShape
    <2>3. outcome[c] # "ok"
      BY <2>1, <2>2, ReturnShape
    <2>4. QED
      BY <2>3 DEF VisibleSound
  <1>11. Kept'
    <2> SUFFICES ASSUME NEW x \in Writes, writer[x] # NoCall,
                        \A c \in Chain(x) : outcome'[c] \in {"open", "ok"}
                 PROVE  \/ x \in visible
                        \/ (\E c \in Chain(x) : outcome'[c] = "open") /\ (x \in pending' \/ conn' = "none")
      BY ChainKept DEF Kept
    <2>1. Chain(x) \subseteq Calls
      BY ChainShape
    <2>2. Top \notin Chain(x)
      BY <2>1, ReturnShape
    <2>3. \A c \in Chain(x) : outcome'[c] = outcome[c]
      BY <2>1, <2>2, ReturnShape
    <2>4. CASE x \in visible
      BY <2>4
    <2>5. CASE x \notin visible
      <3>1. PICK c \in Chain(x) : outcome[c] = "open"
        BY <2>3, <2>5 DEF Kept
      <3>2. c \in Inside /\ c # Top
        BY <2>1, <2>2, <3>1 DEF StackShape
      <3>3. Depth > 1
        BY <3>2, TopShape DEF Inside
      <3>4. x \in pending
        BY <2>3, <2>5, <3>3, <1>3 DEF Kept
      <3>5. x \in mark[Top]
        BY <2>2, <3>4, TopShape DEF MarkShape
      <3>6. QED
        BY <2>3, <3>1, <3>3, <3>4, <3>5, <1>5
    <2>6. QED
      BY <2>4, <2>5
  <1>12. QED
    BY <1>1, <1>4, <1>8, <1>9, <1>10, <1>11

\* A call that begins, or fails to: it is inside no write's chain and not on the
\* stack, so every chain stays what it was.
LEMMA FreshCall ==
  ASSUME StoreInv, NEW c \in Calls, outcome[c] = "fresh",
         NEW r \in {"open", "error"}, outcome' = [outcome EXCEPT ![c] = r],
         around' = [around EXCEPT ![c] = Inside],
         UNCHANGED <<txClosed, writer, inDoubt>>
  PROVE  /\ \A x \in Writes : Chain(x)' = Chain(x) /\ c \notin Chain(x)
         /\ c \notin Inside
         /\ \A d \in Calls : d # c => outcome'[d] = outcome[d] /\ around'[d] = around[d]
         /\ outcome'[c] = r /\ around'[c] = Inside
         /\ FreshShape'
  <1> USE DEF StoreInv
  <1>1. \A d \in Calls : d # c => outcome'[d] = outcome[d] /\ around'[d] = around[d]
    BY DEF TypeOK
  <1>2. outcome'[c] = r /\ around'[c] = Inside
    BY DEF TypeOK
  <1>3. \A d \in Inside : d \in Calls /\ outcome[d] = "open"
    BY DEF TypeOK, StackShape, Inside, Depth
  <1>4. c \notin Inside
    BY <1>3
  <1>5. ASSUME NEW x \in Writes PROVE Chain(x)' = Chain(x) /\ c \notin Chain(x)
    <2>1. CASE writer[x] = NoCall
      BY <2>1 DEF Chain
    <2>2. CASE writer[x] # NoCall
      <3>1. writer[x] \in Calls /\ writer[x] # c /\ c \notin around[writer[x]]
        BY <2>2 DEF TypeOK, FreshShape
      <3>2. QED
        BY <3>1, <1>1 DEF Chain
    <2>3. QED
      BY <2>1, <2>2
  <1>6. FreshShape'
    <2> SUFFICES ASSUME NEW d \in Calls, outcome'[d] = "fresh"
                 PROVE  /\ d \notin txClosed /\ d \notin inDoubt
                        /\ \A e \in Calls : d \notin around'[e]
                        /\ \A x \in Writes : writer[x] # d
      BY DEF FreshShape
    <2>1. d # c /\ outcome[d] = "fresh"
      BY <1>1, <1>2
    <2>2. \A e \in Calls : d \notin around'[e]
      BY <2>1, <1>1, <1>2, <1>3 DEF FreshShape
    <2>3. QED
      BY <2>1, <2>2 DEF FreshShape
  <1>7. QED
    BY <1>1, <1>2, <1>4, <1>5, <1>6

LEMMA BeginKeepsInv ==
  ASSUME StoreInv, TypeOK', NEW c \in Calls, Begin(c)
  PROVE  StoreInv'
  <1> USE DEF StoreInv
  <1>1. /\ \A x \in Writes : Chain(x)' = Chain(x) /\ c \notin Chain(x)
        /\ c \notin Inside
        /\ \A d \in Calls : d # c => outcome'[d] = outcome[d] /\ around'[d] = around[d]
        /\ outcome'[c] = "open" /\ around'[c] = Inside
        /\ FreshShape'
    BY FreshCall DEF Begin
  <1>2. /\ Depth \in Nat /\ Depth' = Depth + 1
        /\ \A i \in 1 .. Depth : stack'[i] = stack[i] /\ stack[i] \in Calls /\ stack[i] # c
        /\ stack'[Depth'] = c /\ stack' # <<>>
    BY <1>1, PushShape DEF TypeOK, Begin, Depth, Inside
  <1>3. 1 .. Depth' = (1 .. Depth) \union {Depth'}
    BY <1>2
  <1>4. Inside' = Inside \union {c}
    BY <1>2, <1>3 DEF Inside
  <1>5. StackShape'
    <2>1. ASSUME NEW i \in 1 .. Depth'
          PROVE  /\ outcome'[stack'[i]] = "open"
                 /\ around'[stack'[i]] = {stack'[j] : j \in 1 .. (i - 1)}
      <3>1. {stack'[j] : j \in 1 .. (i - 1)} = {stack[j] : j \in 1 .. (i - 1)}
        BY <1>2
      <3>2. CASE i = Depth'
        BY <3>1, <3>2, <1>1, <1>2 DEF Inside
      <3>3. CASE i # Depth'
        <4>1. i \in 1 .. Depth /\ stack'[i] = stack[i] /\ stack[i] \in Calls /\ stack[i] # c
          BY <3>3, <1>2, <1>3
        <4>2. outcome'[stack'[i]] = "open" /\ around'[stack'[i]] = around[stack[i]]
          BY <4>1, <1>1 DEF StackShape
        <4>3. around[stack[i]] = {stack[j] : j \in 1 .. (i - 1)}
          BY <4>1 DEF StackShape
        <4>4. QED
          BY <4>2, <4>3, <3>1
      <3>4. QED
        BY <3>2, <3>3
    <2>2. \A i, j \in 1 .. Depth' : stack'[i] = stack'[j] => i = j
      BY <1>2, <1>3 DEF StackShape
    <2>3. \A d \in Calls : outcome'[d] = "open" => d \in Inside'
      BY <1>1, <1>4 DEF StackShape
    <2>4. QED
      BY <2>1, <2>2, <2>3 DEF StackShape
  <1>6. conn' = "ok" /\ UNCHANGED pending /\ (conn # "ok" => pending = {} /\ stack = <<>>)
    BY DEF Begin, Accepted, TypeOK, ConnShape
  <1>7. ConnShape'
    <2>1. \A i \in 1 .. Depth : stack[i] \notin txClosed
      BY DEF Begin, ConnShape, TypeOK, Depth
    <2>2. \A i \in 1 .. Depth' : stack'[i] \notin txClosed'
      BY <2>1, <1>2, <1>3 DEF Begin, FreshShape
    <2>3. QED
      BY <2>2, <1>2, <1>6 DEF ConnShape
  <1>8. MarkShape'
    <2>1. mark'[c] = pending /\ \A d \in Calls : d # c => mark'[d] = mark[d]
      BY DEF Begin, TypeOK
    <2>2. \A x \in pending' \union visible' : x \in Writes /\ writer'[x] # NoCall
      BY DEF Begin, MarkShape, TypeOK
    <2>3. \A x \in pending' : stack' # <<>> /\ stack'[1] \in Chain(x)'
      <3> SUFFICES ASSUME NEW x \in pending PROVE stack'[1] \in Chain(x)'
        BY <1>2, <1>6
      <3>1. stack # <<>> /\ stack[1] \in Chain(x) /\ x \in Writes
        BY DEF MarkShape, TypeOK
      <3>2. 1 \in 1 .. Depth
        BY <3>1 DEF TypeOK, Depth
      <3>3. QED
        BY <3>1, <3>2, <1>1, <1>2
    <2>4. \A i \in 1 .. Depth' : mark'[stack'[i]] \subseteq pending'
      BY <2>1, <1>2, <1>3, <1>6 DEF MarkShape
    <2>5. \A i, j \in 1 .. Depth' : i < j => mark'[stack'[i]] \subseteq mark'[stack'[j]]
      BY <2>1, <1>2, <1>3 DEF MarkShape
    <2>6. ASSUME NEW x \in pending', NEW d \in Inside'
          PROVE  d \in Chain(x)' <=> x \notin mark'[d]
      <3>1. x \in pending /\ x \in Writes
        BY <1>6 DEF TypeOK
      <3>2. CASE d = c
        BY <3>1, <3>2, <2>1, <1>1
      <3>3. CASE d # c
        BY <3>1, <3>3, <2>1, <1>1, <1>2, <1>4 DEF MarkShape, Inside
      <3>4. QED
        BY <3>2, <3>3
    <2>7. QED
      BY <2>2, <2>3, <2>4, <2>5, <2>6 DEF MarkShape
  <1>9. PendingSound'
    <2> SUFFICES ASSUME NEW x \in pending, NEW d \in Chain(x)', Failed(d)'
                 PROVE  d \in inDoubt
      BY <1>6 DEF PendingSound, Begin
    <2>1. x \in Writes /\ d \in Chain(x) /\ d # c /\ d \in Calls /\ conn = "ok"
      BY <1>1, <1>6, ChainShape DEF TypeOK
    <2>2. QED
      BY <2>1, <1>1 DEF PendingSound, Failed
  <1>10. VisibleSound'
    <2> SUFFICES ASSUME NEW x \in visible, NEW d \in Chain(x)', outcome'[d] # "ok"
                 PROVE  d \in inDoubt
      BY DEF VisibleSound, Begin
    <2>1. x \in Writes /\ d \in Chain(x) /\ d # c /\ d \in Calls
      BY <1>1, ChainShape DEF TypeOK
    <2>2. QED
      BY <2>1, <1>1 DEF VisibleSound
  <1>11. Kept'
    <2> SUFFICES ASSUME NEW x \in Writes, writer[x] # NoCall, x \notin visible,
                        \A d \in Chain(x)' : outcome'[d] \in {"open", "ok"}
                 PROVE  (\E d \in Chain(x)' : outcome'[d] = "open") /\ x \in pending'
      BY DEF Kept, Begin
    <2>1. Chain(x)' = Chain(x) /\ Chain(x) \subseteq Calls /\ c \notin Chain(x)
      BY <1>1, ChainShape
    <2>2. PICK d \in Chain(x) : outcome[d] = "open" /\ (x \in pending \/ conn = "none")
      BY <2>1, <1>1 DEF Kept
    <2>3. d \in Inside /\ d \in Calls
      BY <2>1, <2>2 DEF StackShape
    <2>4. stack # <<>>
      BY <2>3 DEF Inside, Depth
    <2>5. QED
      BY <2>1, <2>2, <2>3, <2>4, <1>1, <1>6
  <1>12. QED
    BY <1>1, <1>5, <1>7, <1>8, <1>9, <1>10, <1>11

LEMMA BeginFailsKeepsInv ==
  ASSUME StoreInv, TypeOK', NEW c \in Calls, BeginFails(c)
  PROVE  StoreInv'
  <1> USE DEF StoreInv, server
  <1>1. /\ \A x \in Writes : Chain(x)' = Chain(x) /\ c \notin Chain(x)
        /\ c \notin Inside
        /\ \A d \in Calls : d # c => outcome'[d] = outcome[d] /\ around'[d] = around[d]
        /\ outcome'[c] = "error"
        /\ FreshShape'
    BY FreshCall DEF BeginFails
  <1>2. UNCHANGED <<stack, mode, conn, pending, mark, txClosed, writer, inDoubt, visible>>
    BY DEF BeginFails
  <1>3. Depth' = Depth /\ Inside' = Inside /\ Top' = Top
    BY <1>2 DEF Depth, Inside, Top
  <1>4. \A i \in 1 .. Depth : stack[i] \in Calls /\ stack[i] # c
    BY <1>1 DEF TypeOK, Depth, Inside
  <1>5. StackShape'
    <2>1. ASSUME NEW i \in 1 .. Depth
          PROVE  /\ outcome'[stack[i]] = "open"
                 /\ around'[stack[i]] = {stack[j] : j \in 1 .. (i - 1)}
      <3>1. outcome'[stack[i]] = "open" /\ around'[stack[i]] = around[stack[i]]
        BY <1>1, <1>4 DEF StackShape
      <3>2. around[stack[i]] = {stack[j] : j \in 1 .. (i - 1)}
        BY DEF StackShape
      <3>3. QED
        BY <3>1, <3>2
    <2>2. \A i, j \in 1 .. Depth : stack[i] = stack[j] => i = j
      BY DEF StackShape
    <2>3. \A d \in Calls : outcome'[d] = "open" => d \in Inside
      BY <1>1 DEF StackShape
    <2>4. QED
      BY <2>1, <2>2, <2>3, <1>2, <1>3 DEF StackShape
  <1>6. ConnShape'
    BY <1>2, <1>3 DEF ConnShape
  <1>7. MarkShape'
    BY <1>1, <1>2, <1>3 DEF MarkShape, TypeOK
  <1>8. PendingSound'
    BY <1>1, <1>2, ChainShape DEF PendingSound, Failed, TypeOK
  <1>9. VisibleSound'
    BY <1>1, <1>2, ChainShape DEF VisibleSound, TypeOK
  <1>10. Kept'
    BY <1>1, <1>2, ChainShape DEF Kept
  <1>11. QED
    BY <1>1, <1>5, <1>6, <1>7, <1>8, <1>9, <1>10

\* In the running function nothing is closed and the transaction has its connection.
LEMMA RunningShape ==
  ASSUME StoreInv, mode \in {"running", "returned", "panicking"}
  PROVE  /\ conn # "none"
         /\ \A i \in 1 .. Depth : stack[i] \in Calls /\ stack[i] \notin txClosed
  BY TopShape DEF StoreInv, ConnShape, TypeOK, Depth

LEMMA WriteKeepsInv ==
  ASSUME StoreInv, TypeOK', NEW x \in Writes, Write(x)
  PROVE  StoreInv'
  <1> USE DEF StoreInv, client
  <1>1. /\ UNCHANGED <<stack, mode, conn, mark, txClosed, outcome, around, inDoubt, visible>>
        /\ mode = "running" /\ conn = "ok" /\ writer[x] = NoCall
        /\ pending' = pending \union {x}
    BY DEF Write, Accepted
  <1>2. Depth' = Depth /\ Inside' = Inside /\ Top' = Top
    BY <1>1 DEF Depth, Inside, Top
  <1>3. Top \in Calls /\ Depth \in Nat /\ Depth >= 1 /\ stack # <<>> /\ outcome[Top] = "open"
    BY <1>1, TopShape DEF StackShape
  <1>4. writer'[x] = Top /\ \A y \in Writes : y # x => writer'[y] = writer[y]
    BY DEF Write, TypeOK
  <1>5. \A y \in Writes : y # x => Chain(y)' = Chain(y)
    BY <1>1, <1>4 DEF Chain
  <1>6. Chain(x)' = Inside
    <2>1. around[Top] = {stack[j] : j \in 1 .. (Depth - 1)}
      <3>1. Depth \in 1 .. Depth /\ Top = stack[Depth]
        BY <1>3 DEF Top
      <3>2. \A i \in 1 .. Depth : around[stack[i]] = {stack[j] : j \in 1 .. (i - 1)}
        BY DEF StackShape
      <3>3. around[stack[Depth]] = {stack[j] : j \in 1 .. (Depth - 1)}
        BY <3>1, <3>2
      <3>4. QED
        BY <3>1, <3>3
    <2>2. Inside = {stack[j] : j \in 1 .. (Depth - 1)} \union {Top}
      BY <1>3 DEF Inside, Top
    <2>3. Top # NoCall
      BY <1>3, NoCallAssumption
    <2>4. QED
      BY <1>1, <1>4, <2>1, <2>2, <2>3 DEF Chain
  <1>7. \A c \in Inside : c \in Calls /\ outcome[c] = "open"
    BY DEF Inside, StackShape, TypeOK, Depth
  <1>8. x \notin pending /\ x \notin visible
    BY <1>1 DEF MarkShape
  <1>9. StackShape'
    BY <1>1, <1>2 DEF StackShape
  <1>10. FreshShape'
    BY <1>1, <1>3, <1>4 DEF FreshShape
  <1>11. ConnShape'
    BY <1>1, <1>2 DEF ConnShape
  <1>12. MarkShape'
    <2>1. \A i \in 1 .. Depth : x \notin mark[stack[i]]
      BY <1>8 DEF MarkShape
    <2>2. \A y \in pending' \union visible' : writer'[y] # NoCall
      BY <1>1, <1>3, <1>4, NoCallAssumption DEF MarkShape, TypeOK
    <2>3. \A y \in pending' : stack[1] \in Chain(y)'
      <3>1. stack[1] \in Inside
        BY <1>3 DEF Inside
      <3>2. QED
        BY <3>1, <1>1, <1>5, <1>6 DEF MarkShape, TypeOK
    <2>4. \A y \in pending', c \in Inside : c \in Chain(y)' <=> y \notin mark[c]
      <3>1. \A c \in Inside : x \notin mark[c]
        BY <2>1 DEF Inside
      <3>2. QED
        BY <3>1, <1>1, <1>5, <1>6 DEF MarkShape, TypeOK
    <2>5. QED
      BY <2>1, <2>2, <2>3, <2>4, <1>1, <1>2, <1>3 DEF MarkShape
  <1>13. PendingSound'
    BY <1>1, <1>5, <1>6, <1>7 DEF PendingSound, Failed, TypeOK
  <1>14. VisibleSound'
    BY <1>1, <1>5, <1>8 DEF VisibleSound, TypeOK
  <1>15. Kept'
    <2>1. Top \in Chain(x)'
      BY <1>3, <1>6 DEF Inside, Top
    <2>2. QED
      BY <2>1, <1>1, <1>3, <1>4, <1>5 DEF Kept
  <1>16. QED
    BY <1>9, <1>10, <1>11, <1>12, <1>13, <1>14, <1>15

\* ContextEnds, StatementFails and FnEnds: no call returns, and no write is made
\* or lost.
LEMMA QuietKeepsInv ==
  ASSUME StoreInv, TypeOK', mode # "idle",
         UNCHANGED <<stack, outcome, pending, mark, txClosed, around, writer, inDoubt, visible>>,
         \/ UNCHANGED <<mode, conn>>
         \/ mode = "running" /\ UNCHANGED mode /\ conn = "ok" /\ conn' # "none"
         \/ mode = "running" /\ UNCHANGED conn
  PROVE  StoreInv'
  <1> USE DEF StoreInv
  <1>1. Depth' = Depth /\ Inside' = Inside /\ Top' = Top
    BY DEF Depth, Inside, Top
  <1>2. \A x : Chain(x)' = Chain(x)
    BY ChainKept
  <1>3. StackShape' /\ FreshShape'
    BY <1>1 DEF StackShape, FreshShape
  <1>4. ConnShape'
    BY <1>1, RunningShape, TopShape DEF ConnShape
  <1>5. MarkShape'
    BY <1>1, <1>2 DEF MarkShape
  <1>6. PendingSound'
    BY <1>2 DEF PendingSound, Failed
  <1>7. VisibleSound'
    BY <1>2 DEF VisibleSound
  <1>8. conn' = "none" => conn = "none"
    OBVIOUS
  <1>9. Kept'
    BY <1>2, RunningShape DEF Kept
  <1>10. QED
    BY <1>3, <1>4, <1>5, <1>6, <1>7, <1>9

\* What a transaction that still has its connection would make visible is sound.
LEMMA CommitSound ==
  ASSUME StoreInv, mode # "idle", Accepted, Depth = 1
  PROVE  \A x \in pending : \A c \in Chain(x) :
           c # Top /\ outcome[c] # "ok" => c \in inDoubt
  <1> USE DEF StoreInv
  <1> SUFFICES ASSUME NEW x \in pending, NEW c \in Chain(x), c # Top, outcome[c] # "ok"
               PROVE  c \in inDoubt
    OBVIOUS
  <1>1. x \in Writes /\ c \in Calls /\ writer[x] \in Calls /\ c \in {writer[x]} \union around[writer[x]]
    BY ChainShape, NoCallAssumption DEF TypeOK, Chain, MarkShape
  <1>2. outcome[c] # "fresh"
    BY <1>1 DEF FreshShape
  <1>3. outcome[c] # "open"
    BY <1>1 DEF StackShape, Inside, Top
  <1>4. QED
    BY <1>1, <1>2, <1>3 DEF PendingSound, Failed, Accepted, TypeOK

LEMMA CommitKeepsInv ==
  ASSUME StoreInv, TypeOK', Commit
  PROVE  StoreInv'
  <1> USE DEF StoreInv, server, history
  <1>1. /\ mode = "returned" /\ conn = "ok" /\ Return("ok", "running") /\ CloseTx
        /\ UNCHANGED <<mark, around, writer, inDoubt>>
    BY DEF Commit, Accepted
  <1>2. StackShape' /\ FreshShape'
    BY <1>1, ReturnKeepsStack, ReturnKeepsFresh
  <1>3. \A x : Chain(x)' = Chain(x)
    BY <1>1, ChainKept
  <1>4. Depth \in Nat /\ Depth >= 1 /\ Top \in Calls /\ outcome[Top] = "open" /\ Top = stack[Depth]
    BY <1>1, TopShape DEF StackShape
  <1>5. \A c \in Calls : outcome'[c] = IF c = Top THEN "ok" ELSE outcome[c]
    BY <1>1, ReturnShape
  <1>6. /\ Depth' = Depth - 1 /\ Inside' = Inside \ {Top}
        /\ \A i \in 1 .. Depth' : stack'[i] = stack[i] /\ stack[i] # Top
        /\ stack' = <<>> <=> Depth = 1
    BY <1>1, ReturnShape
  <1>7. CASE Depth = 1
    <2>1. conn' = "none" /\ pending' = {} /\ visible' = visible \union pending
      BY <1>7 DEF Commit, Release
    <2>2. ConnShape' /\ MarkShape' /\ PendingSound'
      BY <1>1, <1>4, <1>6, <1>7, <2>1, RunningShape DEF ConnShape, MarkShape, PendingSound
    <2>3. VisibleSound'
      <3> SUFFICES ASSUME NEW x \in visible', NEW c \in Chain(x), outcome'[c] # "ok"
                   PROVE  c \in inDoubt
        BY <1>1, <1>3 DEF VisibleSound
      <3>1. x \in Writes /\ c \in Calls
        BY <2>1, ChainShape DEF TypeOK
      <3>2. c # Top /\ outcome[c] # "ok"
        BY <3>1, <1>5
      <3>3. QED
        BY <3>2, <2>1, <1>1, <1>7, CommitSound DEF VisibleSound, Commit
    <2>4. Kept'
      <3> SUFFICES ASSUME NEW x \in Writes, writer[x] # NoCall,
                          \A c \in Chain(x) : outcome'[c] \in {"open", "ok"}
                   PROVE  x \in visible'
        BY <1>1, <1>3 DEF Kept
      <3>1. \A c \in Chain(x) : outcome[c] \in {"open", "ok"}
        BY <1>4, <1>5, ChainShape
      <3>2. QED
        BY <3>1, <2>1, <1>1 DEF Kept
    <2>5. QED
      BY <1>2, <2>2, <2>3, <2>4
  <1>8. CASE Depth > 1
    <2>1. UNCHANGED <<conn, pending, visible>>
      BY <1>8 DEF Commit
    <2>2. ConnShape'
      BY <1>1, <1>4, <1>6, <1>8, <2>1, RunningShape DEF ConnShape, CloseTx
    <2>3. 1 \in 1 .. Depth' /\ stack'[1] = stack[1] /\ stack[1] # Top /\ stack' # <<>>
      BY <1>4, <1>6, <1>8
    <2>4. MarkShape'
      <3>1. \A i \in 1 .. Depth' : i \in 1 .. Depth
        BY <1>4, <1>6
      <3>2. \A i, j \in 1 .. Depth' : i < j => mark[stack'[i]] \subseteq mark[stack'[j]]
        BY <3>1, <1>6 DEF MarkShape
      <3>3. QED
        BY <3>1, <3>2, <2>1, <2>3, <1>1, <1>3, <1>6 DEF MarkShape
    <2>5. PendingSound' /\ VisibleSound'
      <3>1. \A x \in Writes : Chain(x) \subseteq Calls
        BY ChainShape
      <3>2. \A c \in Calls : (Failed(c)' => Failed(c)) /\ (outcome'[c] # "ok" => outcome[c] # "ok")
        BY <1>4, <1>5 DEF Failed
      <3>3. QED
        BY <3>1, <3>2, <2>1, <1>1, <1>3 DEF PendingSound, VisibleSound, TypeOK
    <2>6. Kept'
      <3> SUFFICES ASSUME NEW x \in Writes, writer[x] # NoCall, x \notin visible,
                          \A c \in Chain(x) : outcome'[c] \in {"open", "ok"}
                   PROVE  x \in pending /\ \E c \in Chain(x) : outcome'[c] = "open"
        BY <1>1, <1>3, <2>1 DEF Kept
      <3>1. \A c \in Chain(x) : outcome[c] \in {"open", "ok"}
        BY <1>4, <1>5, ChainShape
      <3>2. x \in pending
        BY <3>1, <1>1 DEF Kept
      <3>3. stack[1] \in Chain(x) /\ outcome[stack[1]] = "open" /\ stack[1] \in Calls
        BY <3>2, <1>4 DEF MarkShape, StackShape, TypeOK, Depth
      <3>4. QED
        BY <3>2, <3>3, <2>3, <1>5
    <2>7. QED
      BY <1>2, <2>2, <2>4, <2>5, <2>6
  <1>9. QED
    BY <1>4, <1>7, <1>8

LEMMA CommitFailsKeepsInv ==
  ASSUME StoreInv, TypeOK', CommitFails
  PROVE  StoreInv'
  <1> USE DEF StoreInv, server
  <1>1. /\ mode = "returned" /\ mode' = "failed" /\ txClosed' = txClosed \union {Top}
        /\ UNCHANGED <<stack, outcome, mark, around, writer>>
        /\ inDoubt \subseteq inDoubt' /\ inDoubt' \subseteq inDoubt \union {Top}
    BY DEF CommitFails, CloseTx
  <1>2. Depth' = Depth /\ Inside' = Inside /\ Top' = Top
    BY <1>1 DEF Depth, Inside, Top
  <1>3. \A x : Chain(x)' = Chain(x)
    BY <1>1, ChainKept
  <1>4. /\ Depth \in Nat /\ Depth >= 1 /\ stack # <<>>
        /\ Top \in Calls /\ outcome[Top] = "open" /\ Top = stack[Depth]
    BY <1>1, TopShape DEF StackShape
  <1>5. Depth = 1 => conn' = "none" /\ pending' = {}
    BY DEF CommitFails, Release
  <1>6. Depth > 1 => conn' # "none" /\ Top \in inDoubt' /\ UNCHANGED <<pending, visible>>
    BY <1>1, RunningShape DEF CommitFails
  <1>7. conn' # "dead" => pending' \subseteq pending /\ (conn = "dead" => pending' = {})
    BY DEF CommitFails, Release, Accepted
  <1>8. StackShape'
    BY <1>1, <1>2 DEF StackShape
  <1>9. FreshShape'
    BY <1>1, <1>4 DEF FreshShape
  <1>10. ConnShape'
    <2>1. \A i \in 1 .. Depth : stack[i] \in txClosed' => i = Depth
      BY <1>1, <1>4, RunningShape DEF StackShape
    <2>2. QED
      BY <2>1, <1>1, <1>2, <1>4, <1>5, <1>6 DEF ConnShape
  <1>11. MarkShape'
    <2>1. pending' \union visible' \subseteq pending \union visible
      BY <1>5, <1>6 DEF CommitFails, Release
    <2>2. CASE Depth = 1
      <3>1. Top \in Inside /\ stack[1] = Top
        BY <2>2, <1>4 DEF Inside
      <3>2. mark[Top] = {}
        BY <3>1, <1>4 DEF MarkShape, Inside
      <3>3. \A i \in 1 .. Depth : stack[i] = Top
        BY <2>2, <3>1
      <3>4. \A x \in pending' \union visible' : writer[x] # NoCall
        BY <2>1 DEF MarkShape
      <3>5. \A i \in 1 .. Depth' : mark'[stack'[i]] = {}
        BY <3>2, <3>3, <1>1, <1>2
      <3>6. \A x \in pending' \union visible' : writer'[x] # NoCall
        BY <3>4, <1>1
      <3>7. pending' = {}
        BY <2>2, <1>5
      <3>8. QED
        BY <3>5, <3>6, <3>7 DEF MarkShape
    <2>3. CASE Depth > 1
      BY <2>1, <2>3, <1>1, <1>2, <1>3, <1>6 DEF MarkShape
    <2>4. QED
      BY <2>2, <2>3, <1>4
  <1>12. PendingSound'
    BY <1>1, <1>3, <1>7 DEF PendingSound, Failed
  <1>13. VisibleSound'
    <2> SUFFICES ASSUME NEW x \in visible', NEW c \in Chain(x), outcome[c] # "ok"
                 PROVE  c \in inDoubt'
      BY <1>1, <1>3 DEF VisibleSound
    <2>1. CASE x \in visible
      BY <2>1, <1>1 DEF VisibleSound
    <2>2. CASE x \notin visible
      <3>1. Depth = 1 /\ Accepted /\ x \in pending /\ Top \in inDoubt'
        BY <2>2, <1>4, <1>6 DEF CommitFails
      <3>2. QED
        BY <3>1, <1>1, CommitSound
    <2>3. QED
      BY <2>1, <2>2
  <1>14. Kept'
    <2>1. visible \subseteq visible'
      BY <1>6 DEF CommitFails
    <2>2. conn # "none"
      BY <1>1, RunningShape
    <2>3. QED
      BY <2>1, <2>2, <1>1, <1>3, <1>4, <1>5, <1>6 DEF Kept
  <1>15. QED
    BY <1>8, <1>9, <1>10, <1>11, <1>12, <1>13, <1>14

LEMMA StoreInvNext == StoreInv /\ [Next]_vars => StoreInv'
  <1> SUFFICES ASSUME StoreInv, [Next]_vars PROVE StoreInv'
    OBVIOUS
  <1> TypeOK'
    BY TypeNext DEF StoreInv
  <1>1. ASSUME NEW c \in Calls, Begin(c) PROVE StoreInv'
    BY <1>1, BeginKeepsInv
  <1>2. ASSUME NEW c \in Calls, BeginFails(c) PROVE StoreInv'
    BY <1>2, BeginFailsKeepsInv
  <1>3. ASSUME NEW x \in Writes, Write(x) PROVE StoreInv'
    BY <1>3, WriteKeepsInv
  <1>4. ASSUME NEW i \in 1 .. MaxDepth, ContextEnds(i) PROVE StoreInv'
    <2>1. mode # "idle"
      BY <1>4 DEF ContextEnds, StoreInv, TypeOK, Depth
    <2>2. QED
      BY <1>4, <2>1, QuietKeepsInv DEF ContextEnds, client, server, history
  <1>5. CASE StatementFails
    BY <1>5, QuietKeepsInv DEF StatementFails, Accepted, client, history
  <1>6. CASE FnEnds
    BY <1>6, QuietKeepsInv DEF FnEnds, server, history
  <1>7. CASE Commit
    BY <1>7, CommitKeepsInv
  <1>8. CASE CommitFails
    BY <1>8, CommitFailsKeepsInv
  <1>9. CASE DoFails
    BY <1>9, FailureKeepsInv DEF DoFails
  <1>10. CASE DoPanics
    BY <1>10, FailureKeepsInv DEF DoPanics
  <1>11. CASE UNCHANGED vars
    <2>1. UNCHANGED <<stack, mode, outcome, conn, pending, mark, txClosed, ended, around, writer,
                      inDoubt, visible>>
      BY <1>11 DEF vars, client, server, history
    <2>2. Depth' = Depth /\ Inside' = Inside /\ Top' = Top /\ \A x : Chain(x)' = Chain(x)
      BY <2>1, ChainKept DEF Depth, Inside, Top
    <2>3. StackShape' /\ FreshShape'
      BY <2>1, <2>2 DEF StoreInv, StackShape, FreshShape
    <2>4. ConnShape'
      BY <2>1, <2>2 DEF StoreInv, ConnShape
    <2>5. MarkShape'
      BY <2>1, <2>2 DEF StoreInv, MarkShape
    <2>6. PendingSound' /\ VisibleSound' /\ Kept'
      BY <2>1, <2>2 DEF StoreInv, PendingSound, VisibleSound, Kept, Failed
    <2>7. QED
      BY <2>3, <2>4, <2>5, <2>6 DEF StoreInv
  <1>12. QED
    BY <1>1, <1>2, <1>3, <1>4, <1>5, <1>6, <1>7, <1>8, <1>9, <1>10, <1>11 DEF Next

-----------------------------------------------------------------------------
(* What Do promises. *)

\* The inductive invariant: which writes a transaction holds, which a savepoint
\* would undo, and which are committed.
THEOREM StoreInvariant == Spec => []StoreInv
  BY StoreInvInit, StoreInvNext, PTL DEF Spec

\* All: a write whose calls have all returned nil is committed.
THEOREM SuccessfulCallsAreKept == Spec => []SuccessIsKept
  <1>1. StoreInv => SuccessIsKept
    BY ChainShape DEF StoreInv, Kept, SuccessIsKept
  <1>2. QED
    BY <1>1, StoreInvariant, PTL

\* Nothing: what a failed call wrote, or a call inside it, is never committed, but
\* for the commits that nobody answered and the savepoints whose release failed.
THEOREM FailedCallsAreUndone == Spec => []FailureIsUndone
  <1>1. StoreInv => FailureIsUndone
    BY DEF StoreInv, VisibleSound, FailureIsUndone, Failed
  <1>2. QED
    BY <1>1, StoreInvariant, PTL

\* A goroutine outside of Do holds no connection, however its calls were left.
THEOREM ConnectionsComeBack == Spec => []NoConnectionLeak
  <1>1. StoreInv => NoConnectionLeak
    BY DEF StoreInv, ConnShape, NoConnectionLeak
  <1>2. QED
    BY <1>1, StoreInvariant, PTL

-----------------------------------------------------------------------------
(* Refinement: Do implements calls that hold their writes until they       *)
(* return.                                                                 *)

\* What a call on the stack holds, position by position.
HeldShape ==
    /\ \A c \in Calls : Broken \/ c \notin Inside => Held[c] = {}
    /\ ~Broken => \A i \in 1 .. Depth : Held[stack[i]] = Until(i) \ mark[stack[i]]

LEMMA HeldPositions == TypeOK /\ StackShape => HeldShape
  <1> SUFFICES ASSUME TypeOK, StackShape PROVE HeldShape
    OBVIOUS
  <1>1. ASSUME NEW c \in Calls, Broken \/ c \notin Inside PROVE Held[c] = {}
    <2>1. CASE Broken
      BY <2>1 DEF Held
    <2>2. CASE c \notin Inside
      <3>1. {j \in 1 .. Depth : stack[j] = c} = {}
        BY <2>2 DEF Inside
      <3>2. UNION {Until(i) \ mark[c] : i \in {j \in 1 .. Depth : stack[j] = c}} = {}
        BY <3>1
      <3>3. QED
        BY <3>2 DEF Held
    <2>3. QED
      BY <1>1, <2>1, <2>2
  <1>2. ASSUME ~Broken, NEW i \in 1 .. Depth PROVE Held[stack[i]] = Until(i) \ mark[stack[i]]
    <2>1. stack[i] \in Calls
      BY DEF TypeOK, Depth
    <2>2. {j \in 1 .. Depth : stack[j] = stack[i]} = {i}
      BY DEF StackShape
    <2>3. Held[stack[i]] = UNION {Until(k) \ mark[stack[i]] : k \in {i}}
      BY <1>2, <2>1, <2>2 DEF Held
    <2>4. QED
      BY <2>3
  <1>3. QED
    BY <1>1, <1>2 DEF HeldShape

LEMMA HeldPositionsNext == (TypeOK /\ StackShape)' => HeldShape'
  BY HeldPositions, PTL

\* Equal as sets of writes means equal: both are functions on the calls.
LEMMA HeldIs ==
  ASSUME NEW f, f = [c \in Calls |-> f[c]], \A c \in Calls : Held'[c] = f[c]
  PROVE  Held' = f
  BY DEF Held

\* The abstract names for the innermost call and the one around it.
LEMMA Names ==
  /\ Nested!Depth = Depth
  /\ Nested!Innermost = Top
  /\ Nested!Around = stack[Depth - 1]
  BY DEF Nested!Depth, Nested!Innermost, Nested!Around, Depth, Top

\* Steps that leave stack, marks, pending and the state of the connection alone.
LEMMA HeldKept ==
  ASSUME UNCHANGED <<stack, mark, pending, conn>>
  PROVE  Held' = Held /\ Broken' = Broken
  BY DEF Held, Broken, Until, Depth

LEMMA NestedInit == Init => Nested!Init
  <1> SUFFICES ASSUME Init PROVE Nested!Init
    OBVIOUS
  <1>1. Result = [c \in Calls |-> "none"]
    BY DEF Init, Result
  <1>2. 1 .. Depth = {} /\ ~Broken
    BY DEF Init, Depth, Broken
  <1>3. Held = [c \in Calls |-> {}]
    BY <1>2 DEF Held
  <1>4. QED
    BY <1>1, <1>2, <1>3 DEF Init, Nested!Init

LEMMA NestedBegin ==
  ASSUME StoreInv, StoreInv', NEW c \in Calls, Begin(c)
  PROVE  Nested!Open(c)
  <1> USE DEF StoreInv
  <1>1. c \notin Inside /\ outcome[c] = "fresh"
    BY DEF Begin, StackShape, Inside, TypeOK, Depth
  <1>2. /\ Depth \in Nat /\ Depth' = Depth + 1
        /\ \A i \in 1 .. Depth : stack'[i] = stack[i] /\ stack[i] \in Calls /\ stack[i] # c
        /\ stack'[Depth'] = c /\ stack' # <<>>
    BY <1>1, PushShape DEF TypeOK, Begin, Depth, Inside
  <1>3. Inside' = Inside \union {c}
    <2>1. 1 .. Depth' = (1 .. Depth) \union {Depth'}
      BY <1>2
    <2>2. QED
      BY <1>2, <2>1 DEF Inside
  <1>4. ~Broken /\ ~Broken'
    <2>1. mode = "idle" => stack = <<>>
      BY DEF TypeOK
    <2>2. QED
      BY <2>1 DEF Broken, Begin, Accepted
  <1>5. Result[c] = "none" /\ Result' = [Result EXCEPT ![c] = "open"]
    BY <1>1 DEF Begin, Result, TypeOK
  <1>6. HeldShape /\ HeldShape'
    BY HeldPositions, HeldPositionsNext
  <1>7. /\ mark'[c] = pending /\ pending' = pending
        /\ \A d \in Calls : d # c => mark'[d] = mark[d]
    BY DEF Begin, TypeOK
  <1>8. ASSUME NEW d \in Calls PROVE Held'[d] = Held[d]
    <2>1. CASE d \notin Inside'
      BY <2>1, <1>3, <1>6 DEF HeldShape
    <2>2. CASE d = c
      <3> PICK k \in 1 .. Depth' : k = Depth'
        BY <1>2
      <3>1. Held'[d] = (Until(k))' \ mark'[d]
        BY <2>2, <1>2, <1>4, <1>6 DEF HeldShape
      <3>2. (Until(k))' = pending
        BY <1>7 DEF Until
      <3>3. QED
        BY <2>2, <1>1, <1>6, <1>7, <3>1, <3>2 DEF HeldShape
    <2>3. CASE d \in Inside
      <3>1. PICK i \in 1 .. Depth : d = stack[i]
        BY <2>3 DEF Inside
      <3>2. i \in 1 .. Depth' /\ d = stack'[i] /\ d # c /\ i # Depth' /\ i \in Nat
        BY <3>1, <1>2
      <3>3. (Until(i))' = Until(i)
        <4>1. CASE i = Depth
          BY <4>1, <1>2, <1>7 DEF Until
        <4>2. CASE i # Depth
          <5>1. i + 1 \in 1 .. Depth
            BY <4>2, <3>1, <1>2
          <5>2. QED
            BY <5>1, <4>2, <3>2, <1>2, <1>7 DEF Until
        <4>3. QED
          BY <4>1, <4>2
      <3>4. Held'[d] = (Until(i))' \ mark'[d]
        BY <3>2, <1>4, <1>6 DEF HeldShape
      <3>5. Held[d] = Until(i) \ mark[d]
        BY <3>1, <1>4, <1>6 DEF HeldShape
      <3>6. QED
        BY <3>2, <3>3, <3>4, <3>5, <1>7
    <2>4. QED
      BY <2>1, <2>2, <2>3, <1>3
  <1>9. Held' = Held
    BY <1>8 DEF Held
  <1>10. Broken' = Broken
    BY <1>4 DEF Broken
  <1>11. QED
    BY <1>4, <1>5, <1>9, <1>10 DEF Nested!Open, Begin

LEMMA NestedRefuse ==
  ASSUME StoreInv, NEW c \in Calls, BeginFails(c)
  PROVE  Nested!Refuse(c)
  <1>1. Result[c] = "none" /\ Result' = [Result EXCEPT ![c] = "failed"]
    BY DEF StoreInv, BeginFails, Result, TypeOK
  <1>2. Held' = Held /\ Broken' = Broken
    BY HeldKept DEF BeginFails, server
  <1>3. QED
    BY <1>1, <1>2 DEF BeginFails, Nested!Refuse

LEMMA NestedWrite ==
  ASSUME StoreInv, StoreInv', NEW x \in Writes, Write(x)
  PROVE  Nested!Write(x)
  <1> USE DEF StoreInv
  <1>1. /\ mode = "running" /\ conn = "ok" /\ writer[x] = NoCall
        /\ pending' = pending \union {x}
        /\ UNCHANGED <<stack, outcome, conn, mark, inDoubt, visible>>
    BY DEF Write, Accepted, client
  <1>2. /\ stack # <<>> /\ Depth \in Nat /\ Depth >= 1 /\ Top \in Calls /\ Top = stack[Depth]
        /\ Depth' = Depth /\ Inside' = Inside
    BY <1>1, TopShape DEF Depth, Inside
  <1>3. ~Broken /\ ~Broken'
    BY <1>1 DEF Broken
  <1>4. HeldShape /\ HeldShape'
    BY HeldPositions, HeldPositionsNext
  <1>5. x \notin pending /\ x \notin visible
    BY <1>1 DEF MarkShape
  <1>6. x \notin mark[Top]
    BY <1>2, <1>5, TopShape, <1>1 DEF MarkShape
  <1>7. \A i \in 1 .. Depth : stack[i] \in Calls /\ stack'[i] = stack[i] /\ mark[stack[i]] \subseteq pending
    BY <1>1 DEF MarkShape, TypeOK, Depth
  <1>8. \A i \in 1 .. Depth : Until(i) \subseteq pending
    BY <1>2, <1>7 DEF Until
  <1>9. \A c \in Calls : x \notin Held[c]
    BY <1>3, <1>4, <1>5, <1>8 DEF HeldShape, Inside
  <1>10. ASSUME NEW d \in Calls
         PROVE  Held'[d] = IF d = Top THEN Held[d] \union {x} ELSE Held[d]
    <2>1. CASE d \notin Inside
      BY <2>1, <1>2, <1>4, TopShape, <1>1 DEF HeldShape
    <2>2. CASE d \in Inside
      <3>1. PICK i \in 1 .. Depth : d = stack[i]
        BY <2>2 DEF Inside
      <3>2. Held[d] = Until(i) \ mark[d]
        BY <3>1, <1>3, <1>4 DEF HeldShape
      <3>3. Held'[d] = (Until(i))' \ mark[d]
        BY <3>1, <1>1, <1>2, <1>3, <1>4 DEF HeldShape
      <3>4. d = Top <=> i = Depth
        BY <3>1, <1>2 DEF StackShape
      <3>5. (Until(i))' = IF i = Depth THEN pending \union {x} ELSE Until(i)
        BY <1>1, <1>2 DEF Until
      <3>6. i = Depth => Until(i) = pending
        BY DEF Until
      <3>7. QED
        BY <3>2, <3>3, <3>4, <3>5, <3>6, <1>6
    <2>3. QED
      BY <2>1, <2>2
  <1>11. Held' = [Held EXCEPT ![Top] = @ \union {x}]
    BY <1>10, <1>2 DEF Held
  <1>12. Result' = Result
    BY <1>1 DEF Result
  <1>13. Broken' = Broken
    BY <1>3 DEF Broken
  <1>14. QED
    BY <1>1, <1>2, <1>3, <1>5, <1>9, <1>11, <1>12, <1>13, Names DEF Nested!Write

\* The steps that the abstract calls do not see, or see as the transaction breaking down.
LEMMA NestedQuiet ==
  ASSUME StoreInv,
         \/ StatementFails \/ FnEnds
         \/ \E i \in 1 .. MaxDepth : ContextEnds(i)
         \/ UNCHANGED vars
  PROVE  Nested!Break \/ UNCHANGED Nested!vars
  <1>1. /\ UNCHANGED <<stack, outcome, mark, pending, inDoubt, visible>>
        /\ \/ UNCHANGED conn
           \/ stack # <<>> /\ conn = "ok" /\ conn' \in {"aborted", "dead"}
    <2>1. CASE StatementFails
      BY <2>1, TopShape DEF StoreInv, StatementFails, client, history, Accepted
    <2>2. CASE FnEnds \/ UNCHANGED vars
      BY <2>2 DEF FnEnds, vars, client, server, history
    <2>3. ASSUME NEW i \in 1 .. MaxDepth, ContextEnds(i)
          PROVE  UNCHANGED <<stack, outcome, mark, pending, inDoubt, visible, conn>>
      BY <2>3 DEF ContextEnds, client, server, history
    <2>4. QED
      BY <2>1, <2>2, <2>3
  <1>2. Result' = Result
    BY <1>1 DEF Result
  <1>3. CASE UNCHANGED conn \/ conn' = "aborted"
    <2>1. Broken' = Broken
      BY <1>1, <1>3 DEF Broken
    <2>2. Held' = Held
      BY <1>1, <2>1 DEF Held, Until, Depth
    <2>3. QED
      BY <1>1, <1>2, <2>1, <2>2 DEF Nested!vars
  <1>4. CASE stack # <<>> /\ conn' = "dead"
    <2>1. Broken' = TRUE
      BY <1>1, <1>4 DEF Broken
    <2>2. Held' = Nested!Nothing
      BY <2>1 DEF Held, Nested!Nothing
    <2>3. QED
      BY <1>1, <1>2, <1>4, <2>1, <2>2 DEF Nested!Break
  <1>5. QED
    BY <1>1, <1>3, <1>4

\* What is held once the innermost call has returned.
LEMMA PopHeld ==
  ASSUME StoreInv, StoreInv', mode # "idle", NEW r, NEW m, Return(r, m), UNCHANGED mark
  PROVE  /\ Depth = 1 => Held' = Nested!Nothing /\ Broken' = FALSE
         /\ Broken' => Held' = Nested!Nothing
         /\ (Depth > 1 /\ ~Broken /\ ~Broken' /\ pending' = mark[Top]) => Held' = Nested!Discarded
         /\ (Depth > 1 /\ ~Broken /\ ~Broken' /\ pending' = pending) => Held' = Nested!HandedOn
  <1> USE DEF StoreInv
  <1>1. /\ Depth \in Nat /\ Depth >= 1 /\ Top \in Calls /\ Top = stack[Depth] /\ Top \in Inside
        /\ \A i \in 1 .. Depth : stack[i] \in Calls
    BY TopShape DEF TypeOK, Depth
  <1>2. /\ Depth' = Depth - 1 /\ Inside' = Inside \ {Top}
        /\ \A i \in 1 .. Depth' : stack'[i] = stack[i] /\ stack[i] # Top
        /\ stack' = <<>> <=> Depth = 1
    BY ReturnShape
  <1>3. HeldShape /\ HeldShape'
    BY HeldPositions, HeldPositionsNext
  <1>4. Broken' => Held' = Nested!Nothing
    BY DEF Held, Nested!Nothing
  <1>5. Depth = 1 => Held' = Nested!Nothing /\ Broken' = FALSE
    <2> SUFFICES ASSUME Depth = 1 PROVE Held' = Nested!Nothing /\ Broken' = FALSE
      OBVIOUS
    <2>1. Broken' = FALSE
      BY <1>2 DEF Broken
    <2>2. Inside' = {}
      BY <1>1, <1>2 DEF Inside
    <2>3. \A c \in Calls : Held'[c] = {}
      BY <2>2, <1>3 DEF HeldShape
    <2>4. QED
      BY <2>1, <2>3 DEF Held, Nested!Nothing
  <1>6. ASSUME Depth > 1, ~Broken, ~Broken'
        PROVE  /\ pending' = mark[Top] => Held' = Nested!Discarded
               /\ pending' = pending => Held' = Nested!HandedOn
    <2> DEFINE under == stack[Depth - 1]
    <2>1. /\ Depth - 1 \in 1 .. Depth /\ Depth - 1 \in Nat /\ under \in Calls /\ under # Top
          /\ Depth - 1 \in 1 .. Depth'
      BY <1>1, <1>2, <1>6
    <2>2. mark[under] \subseteq mark[Top] /\ mark[Top] \subseteq pending
      BY <1>1, <2>1 DEF MarkShape
    <2>3. Held[Top] = pending \ mark[Top] /\ Held'[Top] = {}
      BY <1>1, <1>2, <1>3, <1>6 DEF HeldShape, Until
    <2>4. Held[under] = mark[Top] \ mark[under]
      <3>1. Until(Depth - 1) = mark[Top]
        BY <1>1, <2>1 DEF Until
      <3>2. QED
        BY <2>1, <3>1, <1>3, <1>6 DEF HeldShape
    <2>5. Held'[under] = pending' \ mark[under]
      <3> PICK k \in 1 .. Depth' : k = Depth - 1
        BY <2>1
      <3>1. (Until(k))' = pending'
        BY <1>2 DEF Until
      <3>2. stack'[k] = under
        BY <1>2
      <3>3. QED
        BY <3>1, <3>2, <1>3, <1>6 DEF HeldShape
    <2>6. ASSUME NEW c \in Calls, c # Top, c # under PROVE Held'[c] = Held[c]
      <3>1. CASE c \notin Inside
        BY <3>1, <1>2, <1>3 DEF HeldShape
      <3>2. CASE c \in Inside
        <4>1. PICK i \in 1 .. Depth : c = stack[i]
          BY <3>2 DEF Inside
        <4>2. i # Depth /\ i # Depth - 1
          BY <4>1, <2>6, <1>1
        <4>3. i \in 1 .. Depth' /\ i + 1 \in 1 .. Depth' /\ i # Depth'
          BY <4>2, <1>1, <1>2
        <4>4. (Until(i))' = Until(i)
          BY <4>2, <4>3, <1>2 DEF Until
        <4>5. Held'[c] = (Until(i))' \ mark'[c]
          BY <4>1, <4>3, <1>2, <1>3, <1>6 DEF HeldShape
        <4>6. Held[c] = Until(i) \ mark[c]
          BY <4>1, <1>3, <1>6 DEF HeldShape
        <4>7. QED
          BY <4>4, <4>5, <4>6
      <3>3. QED
        BY <3>1, <3>2
    <2>7. ASSUME pending' = mark[Top] PROVE Held' = Nested!Discarded
      <3>1. \A c \in Calls : Held'[c] = IF c = Top THEN {} ELSE Held[c]
        BY <2>3, <2>4, <2>5, <2>6, <2>7
      <3>2. Nested!Discarded = [Held EXCEPT ![Top] = {}]
        BY Names DEF Nested!Discarded
      <3>3. QED
        BY <3>1, <3>2, <1>1 DEF Held
    <2>8. ASSUME pending' = pending PROVE Held' = Nested!HandedOn
      <3>1. \A c \in Calls : Held'[c] = IF c = Top THEN {}
                                       ELSE IF c = under THEN Held[c] \union Held[Top]
                                       ELSE Held[c]
        BY <2>1, <2>2, <2>3, <2>4, <2>5, <2>6, <2>8
      <3>2. Nested!HandedOn = [c \in Calls |-> IF c = Top THEN {}
                                             ELSE IF c = under THEN Held[c] \union Held[Top]
                                             ELSE Held[c]]
        BY Names DEF Nested!HandedOn
      <3>3. QED
        BY <3>1, <3>2 DEF Held
    <2>9. QED
      BY <2>7, <2>8
  <1>7. QED
    BY <1>4, <1>5, <1>6

LEMMA NestedReturn ==
  ASSUME StoreInv, mode # "idle", NEW r \in {"ok", "error", "panic"}, NEW m, Return(r, m)
  PROVE  Nested!Return(IF r = "ok" THEN "ok" ELSE "failed")
  <1>1. Top \in Calls
    BY TopShape DEF StoreInv
  <1>2. outcome' = [outcome EXCEPT ![Top] = r] /\ stack' = SubSeq(stack, 1, Depth - 1)
    BY DEF Return
  <1>3. Result' = [Result EXCEPT ![Top] = IF r = "ok" THEN "ok" ELSE "failed"]
    BY <1>1, <1>2 DEF Result, StoreInv, TypeOK
  <1>4. QED
    BY <1>2, <1>3, Names DEF Nested!Return

\* The outermost call answers for the whole transaction.
LEMMA OutermostHolds ==
  ASSUME StoreInv, mode # "idle", Depth = 1, ~Broken
  PROVE  Held[Top] = pending
  <1> USE DEF StoreInv
  <1>1. Top \in Calls /\ Top = stack[1] /\ Top \in Inside /\ stack # <<>>
    BY TopShape
  <1>2. Held[Top] = pending \ mark[Top]
    BY <1>1, HeldPositions DEF HeldShape, Until
  <1>3. \A x \in pending : Top \in Chain(x)
    BY <1>1 DEF MarkShape
  <1>4. mark[Top] \subseteq pending
    BY <1>1 DEF MarkShape
  <1>5. \A x \in mark[Top] : FALSE
    BY <1>1, <1>3, <1>4 DEF MarkShape
  <1>6. QED
    BY <1>2, <1>5

LEMMA NestedCommit ==
  ASSUME StoreInv, StoreInv', Commit
  PROVE  Nested!Succeed
  <1> USE DEF StoreInv
  <1>1. /\ mode = "returned" /\ conn = "ok" /\ Return("ok", "running")
        /\ UNCHANGED <<mark, inDoubt>>
    BY DEF Commit, Accepted, history
  <1>2. /\ stack # <<>> /\ Depth \in Nat /\ Depth >= 1 /\ Top \in Calls /\ Top = stack[Depth]
        /\ ~Broken
    BY <1>1, TopShape DEF Broken
  <1>3. Nested!Return("ok")
    BY <1>1, NestedReturn
  <1>4. CASE Depth = 1
    <2>1. visible' = visible \union pending /\ Held' = Nested!Nothing /\ Broken' = FALSE
      BY <1>1, <1>4, PopHeld DEF Commit
    <2>2. Held[Top] = pending
      BY <1>1, <1>2, <1>4, OutermostHolds
    <2>3. Broken' = Broken
      BY <1>2, <2>1 DEF Broken
    <2>4. QED
      BY <1>1, <1>2, <1>3, <1>4, <2>1, <2>2, <2>3, Names DEF Nested!Succeed
  <1>5. CASE Depth > 1
    <2>1. UNCHANGED <<conn, pending, visible>>
      BY <1>5 DEF Commit, server
    <2>2. Broken' = Broken /\ ~Broken'
      BY <1>1, <1>2, <2>1 DEF Broken
    <2>3. Held' = Nested!HandedOn
      BY <1>1, <1>2, <1>5, <2>1, <2>2, PopHeld
    <2>4. QED
      BY <1>1, <1>2, <1>3, <1>5, <2>1, <2>2, <2>3, Names DEF Nested!Succeed
  <1>6. QED
    BY <1>2, <1>4, <1>5

\* DoFails and DoPanics.
LEMMA NestedFailure ==
  ASSUME StoreInv, StoreInv', mode \in {"failed", "panicking"},
         NEW r \in {"error", "panic"}, NEW m, Rollback, Return(r, m),
         UNCHANGED <<mark, history, visible>>
  PROVE  Nested!Fail
  <1> USE DEF StoreInv
  <1>1. /\ stack # <<>> /\ Depth \in Nat /\ Depth >= 1 /\ Top \in Calls /\ Top = stack[Depth]
        /\ UNCHANGED inDoubt
    BY TopShape DEF history
  <1>2. Nested!Return("failed")
    BY NestedReturn
  <1>3. CASE Depth = 1
    <2>1. Held' = Nested!Nothing /\ Broken' = FALSE
      BY <1>3, PopHeld
    <2>2. QED
      BY <1>1, <1>2, <1>3, <2>1, Names DEF Nested!Fail
  <1>4. CASE Depth > 1
    <2>1. stack' # <<>>
      BY <1>4, ReturnShape
    <2>2. conn # "none"
      BY <1>1, <1>4 DEF ConnShape
    <2>3. CASE Top \in txClosed
      <3>1. UNCHANGED <<conn, pending>> /\ Top \in inDoubt
        BY <1>1, <1>4, <2>3 DEF Rollback, server, ConnShape
      <3>2. Broken' = Broken
        BY <1>1, <2>1, <3>1 DEF Broken
      <3>3. CASE Broken
        <4>1. Held' = Nested!Nothing /\ Broken' = TRUE
          <5>1. Broken'
            BY <3>2, <3>3
          <5>2. QED
            BY <5>1, PopHeld DEF Broken
        <4>2. QED
          BY <1>1, <1>2, <1>4, <4>1, Names DEF Nested!Fail
      <3>4. CASE ~Broken
        <4>1. ~Broken'
          BY <3>2, <3>4
        <4>2. Held' = Nested!HandedOn
          BY <1>4, <3>1, <3>4, <4>1, PopHeld
        <4>3. QED
          BY <1>1, <1>2, <1>4, <3>1, <3>2, <4>2, Names DEF Nested!Fail
      <3>5. QED
        BY <3>3, <3>4
    <2>4. CASE Top \notin txClosed /\ conn' = "dead"
      <3>1. Broken' = TRUE /\ Held' = Nested!Nothing
        <4>1. Broken'
          BY <2>1, <2>4 DEF Broken
        <4>2. QED
          BY <4>1, PopHeld DEF Broken
      <3>2. QED
        BY <1>1, <1>2, <1>4, <3>1, Names DEF Nested!Fail
    <2>5. CASE Top \notin txClosed /\ conn' # "dead"
      <3>1. conn \in {"ok", "aborted"} /\ conn' = "ok" /\ pending' = mark[Top]
        BY <1>1, <1>4, <2>5 DEF Rollback, UndoSavepoint
      <3>2. ~Broken /\ ~Broken'
        BY <3>1 DEF Broken
      <3>3. Broken' = Broken
        BY <3>2 DEF Broken
      <3>4. Held' = Nested!Discarded
        BY <1>4, <3>1, <3>2, PopHeld
      <3>5. QED
        BY <1>1, <1>2, <1>4, <3>3, <3>4, Names DEF Nested!Fail
    <2>6. QED
      BY <2>3, <2>4, <2>5
  <1>5. QED
    BY <1>1, <1>3, <1>4

LEMMA NestedDoubt ==
  ASSUME StoreInv, CommitFails
  PROVE  Nested!Doubt \/ Nested!Break \/ UNCHANGED Nested!vars
  <1> USE DEF StoreInv
  <1>1. /\ stack # <<>> /\ Depth \in Nat /\ Depth >= 1 /\ Top \in Calls /\ Top = stack[Depth]
        /\ conn # "none" /\ stack' = stack /\ mark' = mark
    BY TopShape, RunningShape DEF CommitFails
  <1>2. Result' = Result
    BY DEF CommitFails, Result
  <1>3. Broken' => Held' = Nested!Nothing
    BY DEF Held, Nested!Nothing
  <1>4. CASE Depth = 1 /\ ~Accepted
    <2>1. conn' = "none" /\ UNCHANGED <<inDoubt, visible>>
      BY <1>4 DEF CommitFails, Release
    <2>2. Broken' = TRUE
      BY <1>1, <2>1 DEF Broken
    <2>3. QED
      BY <1>1, <1>2, <1>3, <2>1, <2>2 DEF Nested!Break
  <1>5. CASE Depth > 1 /\ ~Accepted
    <2>1. UNCHANGED <<conn, pending, visible>> /\ inDoubt' = inDoubt \union {Top}
      BY <1>5 DEF CommitFails, server
    <2>2. Held' = Held /\ Broken' = Broken
      BY <1>1, <2>1, HeldKept
    <2>3. QED
      BY <1>1, <1>2, <1>5, <2>1, <2>2, Names DEF Nested!Doubt
  <1>6. CASE Depth = 1 /\ Accepted
    <2>1. /\ conn' = "none" /\ inDoubt' = inDoubt \union {Top}
          /\ visible' \in {visible, visible \union pending}
      BY <1>6 DEF CommitFails, Release
    <2>2. Broken' = TRUE
      BY <1>1, <2>1 DEF Broken
    <2>3. ~Broken
      BY <1>6 DEF Broken, Accepted
    <2>4. Held[Top] = pending
      BY <1>6, <2>3, OutermostHolds DEF CommitFails
    <2>5. QED
      BY <1>1, <1>2, <1>3, <1>6, <2>1, <2>2, <2>3, <2>4, Names DEF Nested!Doubt
  <1>7. CASE Depth > 1 /\ Accepted
    <2>1. conn' = "dead" /\ inDoubt' = inDoubt \union {Top} /\ visible' = visible
      BY <1>7 DEF CommitFails
    <2>2. Broken' = TRUE
      BY <1>1, <2>1 DEF Broken
    <2>3. QED
      BY <1>1, <1>2, <1>3, <1>7, <2>1, <2>2, Names DEF Nested!Doubt
  <1>8. QED
    BY <1>1, <1>4, <1>5, <1>6, <1>7

LEMMA NestedNext ==
  StoreInv /\ StoreInv' /\ [Next]_vars => [Nested!Next]_(Nested!vars)
  <1> SUFFICES ASSUME StoreInv, StoreInv', [Next]_vars
               PROVE  Nested!Next \/ UNCHANGED Nested!vars
    OBVIOUS
  <1>1. ASSUME NEW c \in Calls, Begin(c) PROVE Nested!Next
    BY <1>1, NestedBegin DEF Nested!Next
  <1>2. ASSUME NEW c \in Calls, BeginFails(c) PROVE Nested!Next
    BY <1>2, NestedRefuse DEF Nested!Next
  <1>3. ASSUME NEW x \in Writes, Write(x) PROVE Nested!Next
    BY <1>3, NestedWrite DEF Nested!Next
  <1>4. CASE Commit
    BY <1>4, NestedCommit DEF Nested!Next
  <1>5. CASE CommitFails
    BY <1>5, NestedDoubt DEF Nested!Next
  <1>6. CASE DoFails
    BY <1>6, NestedFailure DEF DoFails, Nested!Next
  <1>7. CASE DoPanics
    <2>1. PICK m \in {"running", "panicking"} : Return("panic", m)
      BY <1>7 DEF DoPanics
    <2>2. QED
      BY <1>7, <2>1, NestedFailure DEF DoPanics, Nested!Next
  <1>8. CASE StatementFails \/ FnEnds \/ (\E i \in 1 .. MaxDepth : ContextEnds(i)) \/ UNCHANGED vars
    BY <1>8, NestedQuiet DEF Nested!Next
  <1>9. QED
    BY <1>1, <1>2, <1>3, <1>4, <1>5, <1>6, <1>7, <1>8 DEF Next

\* Do implements nested calls, for any calls, writes and depth: what failed contexts,
\* statements and connections and lost answers can do is in NestedTx, and nothing else
\* happens.
THEOREM DoImplementsNestedTx == Spec => ImplementsNestedTx
  BY StoreInvariant, NestedInit, NestedNext, PTL DEF Spec, ImplementsNestedTx, Nested!Spec
=============================================================================
