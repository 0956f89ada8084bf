------------------------------ MODULE Listing ------------------------------
(***************************************************************************)
(* GET /users: Handler.List, Usecase.List and the two statements ListUsers *)
(* and CountUsers, called page after page by an administrator's client     *)
(* while accounts are created, deleted and renamed.  Each statement sees   *)
(* the table as of its own moment.  A rename may bring an account into the *)
(* result of the search or take it out.                                    *)
(*                                                                         *)
(* The client asks with one limit throughout, advances by the limit the    *)
(* response states and stops when it is past the total.                    *)
(***************************************************************************)
EXTENDS Integers, FiniteSets

CONSTANTS
    Ids,           \* accounts
    Times,         \* values of created_at
    None,          \* no row
    Junk,          \* a query parameter that is not a number
    Raws,          \* query parameters the client sends: numbers and Junk
    DefaultLimit, MaxLimit,  \* 20 and 100
    MaxInt,        \* the largest int32
    MaxChanges     \* bound on changes to the table

Row == [at : Times, match : BOOLEAN]

ASSUME LimitAssumption ==
    MaxInt \in Nat /\ MaxLimit \in 1 .. MaxInt /\ DefaultLimit \in 1 .. MaxLimit

ASSUME InputAssumption ==
    MaxChanges \in Nat /\ Times \subseteq Int /\ Raws \ {Junk} \subseteq Int /\ None \notin Row
ASSUME JunkAssumption == Junk \notin Int
\* An offset is an int32, so only that many accounts can be reached at all.
ASSUME TableAssumption == IsFiniteSet(Ids) /\ Cardinality(Ids) <= MaxInt

VARIABLES
    table,       \* id -> row, or None
    pc,          \* "idle", "called", "listed", "counted", "done" or "failed"
    limit,       \* the limit the client sends, as parsed and as echoed
    rawOffset,   \* the offset it sends
    page,        \* the rows of the current response
    total,       \* its total
    first,       \* history: the offset of the walk's first request
    got,         \* history: the rows the walk has been shown
    throughout,  \* history: rows in the result since the walk began
    shrunk,      \* history: a row left the result since ListUsers ran
    disturbed,   \* history: during the walk a row left, or two share a created_at
    changes

request == <<limit, rawOffset, first>>
vars == <<table, pc, request, page, total, got, throughout, shrunk, disturbed, changes>>

Least(a, b) == IF a < b THEN a ELSE b
Result == {i \in Ids : table[i] # None /\ table[i].match}
Tied == \E i, j \in Result : i # j /\ table[i].at = table[j].at

\* Mutant: the parameter is parsed with 64 bits and cut down to 32.
ParseWrapping(raw) ==
    IF raw = Junk THEN 0 ELSE ((raw + MaxInt + 1) % (2 * MaxInt + 2)) - MaxInt - 1

\* strconv.ParseInt(_, 10, 32) with its error ignored: the nearest int32, or zero.
Parse(raw) ==
    IF raw = Junk THEN 0
    ELSE IF raw > MaxInt THEN MaxInt ELSE IF raw < -MaxInt - 1 THEN -MaxInt - 1 ELSE raw

\* Mutant: offsets are counted from one.
ClampOffsetFromOne(o) == IF o <= 0 THEN 0 ELSE o - 1

ClampLimit(l) == IF l <= 0 \/ l > MaxLimit THEN DefaultLimit ELSE l
ClampOffset(o) == IF o < 0 THEN 0 ELSE o

\* Pages are no longer than the maximum; the walk's histories fit together.
TypeOK ==
    /\ table \in [Ids -> Row \union {None}]
    /\ pc \in {"idle", "called", "listed", "counted", "done", "failed"}
    /\ limit \in -MaxInt - 1 .. MaxInt /\ rawOffset \in Int \union {Junk}
    /\ first \in -MaxInt - 1 .. MaxInt
    /\ page \subseteq Ids /\ Cardinality(page) <= MaxLimit /\ total \in 0 .. Cardinality(Ids)
    /\ got \subseteq Ids /\ page \subseteq got
    /\ throughout \subseteq Result
    /\ shrunk \in BOOLEAN /\ disturbed \in BOOLEAN /\ changes \in 0 .. MaxChanges

Init ==
    /\ table \in [Ids -> Row \union {None}] /\ ~Tied
    /\ pc = "idle" /\ limit = 0 /\ rawOffset = 0 /\ first = 0
    /\ page = {} /\ total = 0 /\ got = {} /\ throughout = {}
    /\ shrunk = FALSE /\ disturbed = FALSE /\ changes = 0

-----------------------------------------------------------------------------
(* The client and the handler. *)

StartWalk(rawLimit, raw) ==
    /\ pc = "idle"
    /\ pc' = "called"
    /\ limit' = Parse(rawLimit) /\ rawOffset' = raw /\ first' = Parse(raw)
    /\ throughout' = Result /\ disturbed' = Tied
    /\ UNCHANGED <<table, page, total, got, shrunk, changes>>

\* ORDER BY created_at DESC LIMIT l OFFSET o: rows of one created_at come in any order.
Pages(o, l) ==
    {P \in SUBSET Result : \E Before \in SUBSET (Result \ P) :
        LET After == Result \ (Before \union P) IN
        /\ Cardinality(Before) = Least(o, Cardinality(Result))
        /\ Cardinality(P) = Least(l, Cardinality(Result) - Cardinality(Before))
        /\ \A b \in Before, r \in P \union After : table[b].at >= table[r].at
        /\ \A p \in P, a \in After : table[p].at >= table[a].at}

ListUsers ==
    /\ pc = "called"
    /\ pc' = "listed"
    /\ page' \in Pages(ClampOffset(Parse(rawOffset)), ClampLimit(limit))
    /\ got' = got \union page'
    /\ shrunk' = FALSE
    /\ UNCHANGED <<table, request, total, throughout, disturbed, changes>>

\* Mutant: the total is the length of the page.
CountPage ==
    /\ pc = "listed"
    /\ pc' = "counted"
    /\ total' = Cardinality(page)
    /\ UNCHANGED <<table, request, page, got, throughout, shrunk, disturbed, changes>>

CountUsers ==
    /\ pc = "listed"
    /\ pc' = "counted"
    /\ total' = Cardinality(Result)
    /\ UNCHANGED <<table, request, page, got, throughout, shrunk, disturbed, changes>>

\* Either statement fails: 500, and the client gives up.
QueryFails ==
    /\ pc \in {"called", "listed"}
    /\ pc' = "failed"
    /\ UNCHANGED <<table, request, page, total, got, throughout, shrunk, disturbed, changes>>

\* The response echoes limit and offset as parsed, not as clamped.
Respond ==
    LET next == Parse(rawOffset) + limit IN
    /\ pc = "counted"
    /\ pc' = IF next < total /\ limit > 0 THEN "called" ELSE "done"
    /\ rawOffset' = next
    /\ UNCHANGED <<table, limit, first, page, total, got, throughout, shrunk, disturbed, changes>>

-----------------------------------------------------------------------------
(* Other requests change the table. *)

Change(i, row) ==
    /\ changes < MaxChanges
    /\ changes' = changes + 1
    /\ table' = [table EXCEPT ![i] = row]
    /\ LET left == i \in Result /\ i \notin Result'
       IN  /\ throughout' = throughout \ (IF left THEN {i} ELSE {})
           /\ shrunk' = (shrunk \/ left)
           /\ disturbed' = (disturbed \/ left \/ Tied')
    /\ UNCHANGED <<pc, request, page, total, got>>

\* created_at is the start of the inserting transaction: rows may appear out of order.
Create(i) == table[i] = None /\ \E row \in Row : Change(i, row)

Delete(i) == table[i] # None /\ Change(i, None)

\* PATCH /users/me may make a row match the search, or no longer.
Rename(i) == table[i] # None /\ Change(i, [table[i] EXCEPT !.match = ~@])

-----------------------------------------------------------------------------
Next ==
    \/ \E l, o \in Raws : StartWalk(l, o)
    \/ ListUsers \/ CountUsers \/ QueryFails \/ Respond
    \/ \E i \in Ids : Create(i) \/ Delete(i) \/ Rename(i)

Spec == Init /\ [][Next]_vars

-----------------------------------------------------------------------------
(* Properties. *)

\* Count runs after List: unless a row left in between, the total covers the page,
\* so a client never sees items beyond the end.  No offset, however large, wraps.
TotalCoversPage ==
    pc = "counted" /\ ~shrunk /\ page # {} =>
        total >= (IF rawOffset = Junk THEN 0 ELSE rawOffset) + Cardinality(page)

\* A walk that ran to its end with a limit the server honours shows every account that
\* was in the result all along, whatever was created or came in meanwhile, provided
\* nothing left the result and no two of its rows share a created_at.
WalkMissesNobody ==
    pc = "done" /\ ~disturbed /\ first <= 0 /\ limit \in 1 .. MaxLimit => throughout \subseteq got

\* While the result stands as it stood when the walk began, without ties, no page shows an
\* account that an earlier page has shown.  The walk must begin at a real row: below zero
\* the client would advance from the number it sent, not from where its page began.
WalkRepeatsNobody ==
    [][(/\ pc = "called" /\ pc' = "listed"
        /\ ~disturbed /\ throughout = Result
        /\ first >= 0 /\ limit \in 1 .. MaxLimit) => page' \cap got = {}]_vars
=============================================================================
