--------------------------- MODULE ListingProofs ---------------------------
(***************************************************************************)
(* Proofs about Listing, for any number of accounts, times, changes and    *)
(* limits: pages are well formed, the total covers the page, and a walk    *)
(* through an undisturbed result shows every account that stayed in it,    *)
(* and nobody twice.                                                       *)
(*                                                                         *)
(* The walk's argument counts.  In a result without ties the place of a    *)
(* row is the number of rows Above it, and that number never falls while   *)
(* no row leaves.  A row not shown yet has at least as many rows above it  *)
(* as the next request skips.                                              *)
(***************************************************************************)
EXTENDS Listing, FiniteSetTheorems, TLAPS

Off == ClampOffset(Parse(rawOffset))
Above(r) == {j \in Result : table[j].at > table[r].at}

-----------------------------------------------------------------------------
(* The request's numbers. *)

\* A parsed parameter is an int32, below the number sent unless that is too small for one.
LEMMA Parsed ==
    ASSUME NEW raw \in Int \union {Junk}
    PROVE  /\ Parse(raw) \in -MaxInt - 1 .. MaxInt
           /\ raw # Junk /\ raw >= -MaxInt - 1 => Parse(raw) <= raw
           /\ raw # Junk /\ raw <= MaxInt => raw <= Parse(raw)
           /\ raw = Junk => Parse(raw) = 0
           /\ raw # Junk /\ raw > MaxInt => Parse(raw) = MaxInt
BY LimitAssumption DEF Parse

\* Every row of the table is None or has a time and a verdict of the search.
LEMMA RowShape ==
    ASSUME table \in [Ids -> Row \union {None}]
    PROVE  \A i \in Result : i \in Ids /\ table[i] \in Row /\ table[i].at \in Int
BY InputAssumption DEF Result, Row

\* The result is finite and small enough for an offset.
LEMMA ResultSize ==
    ASSUME NEW S \in SUBSET Ids
    PROVE  /\ IsFiniteSet(S) /\ Cardinality(S) \in Nat
           /\ Cardinality(S) <= Cardinality(Ids) /\ Cardinality(Ids) \in Nat
           /\ Cardinality(S) <= MaxInt
<1>1. IsFiniteSet(S) /\ Cardinality(S) <= Cardinality(Ids)
  BY TableAssumption, FS_Subset
<1>2. Cardinality(S) \in Nat /\ Cardinality(Ids) \in Nat
  BY <1>1, TableAssumption, FS_CardinalityType
<1> QED
  BY <1>1, <1>2, TableAssumption, LimitAssumption

LEMMA ResultInIds == Result \in SUBSET Ids
BY DEF Result

\* Subsets of the accounts count no more than what they are part of.
LEMMA Monotone ==
    ASSUME NEW T \in SUBSET Ids, NEW S \in SUBSET T
    PROVE  Cardinality(S) <= Cardinality(T)
BY ResultSize, FS_Subset

\* Two sets of accounts without a common member count together what they count apart.
LEMMA Disjoint ==
    ASSUME NEW S \in SUBSET Ids, NEW T \in SUBSET Ids, S \cap T = {}
    PROVE  Cardinality(S \union T) = Cardinality(S) + Cardinality(T)
<1>1. IsFiniteSet(S) /\ IsFiniteSet(T) /\ Cardinality(S) \in Nat /\ Cardinality(T) \in Nat
  BY ResultSize
<1>2. Cardinality(S \union T) = Cardinality(S) + Cardinality(T) - Cardinality(S \cap T)
  BY <1>1, FS_Union
<1>3. Cardinality(S \cap T) = 0
  BY FS_EmptySet
<1> QED
  BY <1>1, <1>2, <1>3

-----------------------------------------------------------------------------
(* What a page is. *)

\* A page is cut from the result; behind it are the rows the offset skips.
LEMMA PageShape ==
    ASSUME NEW o \in Nat, NEW l \in Nat, NEW P \in Pages(o, l)
    PROVE  /\ P \subseteq Result /\ Cardinality(P) <= l
           /\ P # {} => Cardinality(Result) >= o + Cardinality(P)
<1>1. PICK Before \in SUBSET (Result \ P) :
        /\ Cardinality(Before) = Least(o, Cardinality(Result))
        /\ Cardinality(P) = Least(l, Cardinality(Result) - Cardinality(Before))
  BY DEF Pages
<1>2. P \in SUBSET Ids /\ Before \in SUBSET Ids /\ P \subseteq Result
  BY ResultInIds DEF Pages
<1>3. Cardinality(P) \in Nat /\ Cardinality(Before) \in Nat /\ Cardinality(Result) \in Nat
  BY <1>2, ResultInIds, ResultSize
<1>4. Cardinality(P) <= l
  BY <1>1, <1>3 DEF Least
<1>5. ASSUME P # {}
      PROVE  Cardinality(Result) >= o + Cardinality(P)
  <2>1. Cardinality(P) # 0
    BY <1>2, <1>5, ResultSize, FS_EmptySet
  <2> QED
    BY <1>1, <1>3, <2>1 DEF Least
<1> QED
  BY <1>2, <1>4, <1>5

\* A row the page leaves out, with as many rows above it as the offset skips, has the
\* whole page above it as well.
LEMMA PageGoesByPlace ==
    ASSUME table \in [Ids -> Row \union {None}], ~Tied,
           NEW o \in Nat, NEW l \in Nat, NEW P \in Pages(o, l),
           NEW r \in Result, r \notin P, Cardinality(Above(r)) >= o
    PROVE  Cardinality(Above(r)) >= o + l
<1>1. PICK Before \in SUBSET (Result \ P) :
        LET After == Result \ (Before \union P) IN
        /\ Cardinality(Before) = Least(o, Cardinality(Result))
        /\ Cardinality(P) = Least(l, Cardinality(Result) - Cardinality(Before))
        /\ \A b \in Before, x \in P \union After : table[b].at >= table[x].at
        /\ \A p \in P, a \in After : table[p].at >= table[a].at
  BY DEF Pages
<1> DEFINE After == Result \ (Before \union P)
<1>2. /\ P \in SUBSET Ids /\ Before \in SUBSET Ids /\ Above(r) \in SUBSET Ids
      /\ P \subseteq Result /\ Result \in SUBSET Ids /\ Result \ {r} \in SUBSET Ids
  BY ResultInIds DEF Pages, Above
<1>3. /\ Cardinality(P) \in Nat /\ Cardinality(Before) \in Nat /\ Cardinality(Result) \in Nat
      /\ Cardinality(Above(r)) \in Nat /\ IsFiniteSet(Result) /\ IsFiniteSet(Before)
  BY <1>2, ResultSize
<1>4. Cardinality(Result \ {r}) = Cardinality(Result) - 1
  BY <1>3, FS_RemoveElement
<1>5. \A j \in Result : table[j].at \in Int
  BY RowShape
<1>6. Cardinality(Above(r)) <= Cardinality(Result) - 1
  <2>1. Above(r) \subseteq Result \ {r}
    BY <1>5 DEF Above
  <2> QED
    BY <1>2, <1>4, <2>1, Monotone
<1>7. Cardinality(Before) = o
  BY <1>1, <1>3, <1>6 DEF Least
<1>8. r \notin Before
  <2>1. SUFFICES ASSUME r \in Before PROVE FALSE
    OBVIOUS
  <2>2. Above(r) \subseteq Before \ {r}
    BY <1>1, <1>5, <2>1 DEF Above
  <2>3. Cardinality(Before \ {r}) = Cardinality(Before) - 1
    BY <1>3, <2>1, FS_RemoveElement
  <2>4. Before \ {r} \in SUBSET Ids
    BY <1>2
  <2> QED
    BY <1>3, <1>7, <2>2, <2>3, <2>4, Monotone
<1>9. Cardinality(Before \union P) = o + Cardinality(P)
  BY <1>2, <1>7, Disjoint
<1>10. Cardinality(P) = l
  <2>1. Before \union P \in SUBSET (Result \ {r})
    BY <1>2, <1>8
  <2>2. o + Cardinality(P) <= Cardinality(Result) - 1
    BY <1>2, <1>4, <1>9, <2>1, Monotone
  <2> QED
    BY <1>1, <1>3, <1>7, <2>2 DEF Least
<1>11. Before \union P \in SUBSET Above(r)
  <2>1. r \in After
    BY <1>8
  <2>2. \A j \in Before \union P : j \in Result /\ table[j].at >= table[r].at /\ j # r
    BY <1>1, <1>2, <1>8, <2>1
  <2> QED
    BY <1>5, <2>2 DEF Above, Tied
<1> QED
  BY <1>2, <1>9, <1>10, <1>11, Monotone

\* A row on a page has as many rows above it as the page skips, and fewer than page and
\* skipped rows together.
LEMMA PageHasItsPlaces ==
    ASSUME table \in [Ids -> Row \union {None}], ~Tied,
           NEW o \in Nat, NEW l \in Nat, NEW P \in Pages(o, l), NEW r \in P
    PROVE  Cardinality(Above(r)) >= o /\ Cardinality(Above(r)) < o + l
<1>1. PICK Before \in SUBSET (Result \ P) :
        LET After == Result \ (Before \union P) IN
        /\ Cardinality(Before) = Least(o, Cardinality(Result))
        /\ Cardinality(P) = Least(l, Cardinality(Result) - Cardinality(Before))
        /\ \A b \in Before, x \in P \union After : table[b].at >= table[x].at
        /\ \A p \in P, a \in After : table[p].at >= table[a].at
  BY DEF Pages
<1> DEFINE After == Result \ (Before \union P)
<1>2. /\ P \in SUBSET Ids /\ Before \in SUBSET Ids /\ Above(r) \in SUBSET Ids
      /\ P \subseteq Result /\ Result \in SUBSET Ids /\ P \ {r} \in SUBSET Ids
  BY ResultInIds DEF Pages, Above
<1>3. /\ Cardinality(P) \in Nat /\ Cardinality(Before) \in Nat /\ Cardinality(Result) \in Nat
      /\ Cardinality(Above(r)) \in Nat /\ IsFiniteSet(P)
  BY <1>2, ResultSize
<1>4. Cardinality(P \ {r}) = Cardinality(P) - 1 /\ Cardinality(P) >= 1
  <2>1. Cardinality(P \ {r}) = Cardinality(P) - 1 /\ Cardinality(P \ {r}) \in Nat
    BY <1>2, <1>3, FS_RemoveElement, ResultSize
  <2> QED BY <1>3, <2>1
<1>5. \A j \in Result : table[j].at \in Int
  BY RowShape
<1>6. Cardinality(Before) = o /\ Cardinality(P) <= l
  BY <1>1, <1>3, <1>4 DEF Least
<1>7. Before \in SUBSET Above(r)
  <2>1. \A b \in Before : b \in Result /\ b # r /\ table[b].at >= table[r].at
    BY <1>1
  <2> QED
    BY <1>2, <1>5, <2>1 DEF Above, Tied
<1>8. Above(r) \in SUBSET (Before \union (P \ {r}))
  <2>1. \A a \in After : table[r].at >= table[a].at
    BY <1>1
  <2> QED
    BY <1>2, <1>5, <2>1 DEF Above
<1>9. Cardinality(Before \union (P \ {r})) = o + (Cardinality(P) - 1)
  BY <1>2, <1>4, <1>6, Disjoint
<1>10. Cardinality(Above(r)) >= o
  BY <1>2, <1>6, <1>7, Monotone
<1>11. Cardinality(Above(r)) <= o + (Cardinality(P) - 1)
  <2>1. Before \union (P \ {r}) \in SUBSET Ids
    BY <1>2
  <2> QED
    BY <1>8, <1>9, <2>1, Monotone
<1> QED
  BY <1>3, <1>6, <1>10, <1>11

-----------------------------------------------------------------------------
(* What the table's changes leave alone. *)

\* No row leaves the result, and those in it stay as they are.
Grows == Result \subseteq Result' /\ \A j \in Result : table'[j] = table[j]

LEMMA ChangeKeeps ==
    ASSUME TypeOK, NEW i \in Ids, Create(i) \/ Delete(i) \/ Rename(i)
    PROVE  /\ table' \in [Ids -> Row \union {None}] /\ changes' \in 0 .. MaxChanges
           /\ UNCHANGED <<pc, limit, rawOffset, first, page, total, got>>
           /\ throughout' \subseteq throughout /\ throughout' \subseteq Result'
           /\ shrunk' \in BOOLEAN /\ disturbed' \in BOOLEAN
           /\ ~shrunk' => ~shrunk /\ Grows
           /\ ~disturbed' => ~disturbed /\ ~Tied' /\ Grows
<1>1. PICK row \in Row \union {None} :
        Change(i, row) /\ (i \in Result => ~(row # None /\ row.match))
  <2>1. CASE Create(i)
    BY <2>1 DEF Create, Result
  <2>2. CASE Delete(i)
    BY <2>2 DEF Delete
  <2>3. CASE Rename(i)
    <3>1. table[i] \in Row
      BY <2>3 DEF Rename, TypeOK
    <3> DEFINE flipped == [table[i] EXCEPT !.match = ~@]
    <3>2. flipped \in Row /\ (table[i].match => ~flipped.match)
      BY <3>1 DEF Row
    <3>3. Change(i, flipped)
      BY <2>3 DEF Rename
    <3>4. i \in Result => ~flipped.match
      BY <3>2 DEF Result
    <3> HIDE DEF flipped
    <3>5. flipped \in Row \union {None}
      BY <3>2
    <3> QED
      BY <3>3, <3>4, <3>5, Zenon
  <2> QED
    BY <2>1, <2>2, <2>3
<1> DEFINE left == i \in Result /\ i \notin Result'
<1>2. /\ changes < MaxChanges /\ changes' = changes + 1
      /\ table' = [table EXCEPT ![i] = row]
      /\ throughout' = throughout \ (IF left THEN {i} ELSE {})
      /\ shrunk' = (shrunk \/ left)
      /\ disturbed' = (disturbed \/ left \/ Tied')
      /\ UNCHANGED <<pc, limit, rawOffset, first, page, total, got>>
  BY <1>1 DEF Change, request
<1>3. table' \in [Ids -> Row \union {None}] /\ changes' \in 0 .. MaxChanges
  BY <1>2, InputAssumption DEF TypeOK
<1>4. \A j \in Ids : j # i => table'[j] = table[j] /\ (j \in Result <=> j \in Result')
  BY <1>2 DEF Result, TypeOK
<1>5. ~left => Grows
  <2>1. table'[i] = row
    BY <1>2 DEF TypeOK
  <2>2. i \in Result => i \notin Result'
    BY <1>1, <2>1 DEF Result
  <2> QED
    BY <1>4, <2>2 DEF Grows, Result
<1>6. throughout' \subseteq throughout /\ throughout' \subseteq Result'
  BY <1>2, <1>4 DEF TypeOK, Result
<1>7. shrunk' \in BOOLEAN /\ disturbed' \in BOOLEAN
  BY <1>2
<1>8. /\ ~shrunk' => ~shrunk /\ ~left
      /\ ~disturbed' => ~disturbed /\ ~Tied' /\ ~left
  BY <1>2
<1> QED
  BY <1>2, <1>3, <1>5, <1>6, <1>7, <1>8

\* The number of rows above a row does not fall while the result grows.
LEMMA PlacesHold ==
    ASSUME TypeOK, table' \in [Ids -> Row \union {None}], Grows, NEW r \in Result
    PROVE  Cardinality(Above(r)') >= Cardinality(Above(r))
<1>1. Above(r) \subseteq Above(r)'
  BY DEF Grows, Above
<1>2. Above(r)' \in SUBSET Ids
  BY DEF Above, Result
<1> QED
  BY <1>1, <1>2, Monotone, ResultSize

-----------------------------------------------------------------------------
(* Types. *)

LEMMA OffType ==
    ASSUME TypeOK
    PROVE  /\ Parse(rawOffset) \in -MaxInt - 1 .. MaxInt /\ Off \in 0 .. MaxInt
           /\ ClampLimit(limit) \in 1 .. MaxLimit
           /\ Off \in Nat /\ limit \in Int /\ MaxInt \in Nat
<1>1. Parse(rawOffset) \in -MaxInt - 1 .. MaxInt
  BY Parsed DEF TypeOK
<1> QED
  BY <1>1, LimitAssumption DEF Off, ClampOffset, ClampLimit, TypeOK

LEMMA TypeStep == TypeOK /\ [Next]_vars => TypeOK'
<1> SUFFICES ASSUME TypeOK, [Next]_vars PROVE TypeOK'
  OBVIOUS
<1>1. ASSUME NEW l \in Raws, NEW o \in Raws, StartWalk(l, o)
      PROVE  TypeOK'
  <2>1. l \in Int \union {Junk} /\ o \in Int \union {Junk}
    BY InputAssumption
  <2>2. Parse(l) \in -MaxInt - 1 .. MaxInt /\ Parse(o) \in -MaxInt - 1 .. MaxInt
    BY <2>1, Parsed
  <2> QED
    BY <1>1, <2>1, <2>2 DEF StartWalk, TypeOK, Result, Tied
<1>2. CASE ListUsers
  <2>1. PICK P \in Pages(Off, ClampLimit(limit)) : page' = P
    BY <1>2 DEF ListUsers, Off
  <2>2. P \subseteq Result /\ Cardinality(P) <= ClampLimit(limit)
    BY <2>1, OffType, PageShape, LimitAssumption
  <2>3. Cardinality(P) <= MaxLimit
    <3>1. Cardinality(P) \in Nat
      BY <2>2, ResultInIds, ResultSize
    <3> QED
      BY <2>2, <3>1, OffType, LimitAssumption
  <2> QED
    BY <1>2, <2>1, <2>2, <2>3 DEF ListUsers, request, TypeOK, Result
<1>3. CASE CountUsers
  <2>1. Cardinality(Result) \in 0 .. Cardinality(Ids)
    BY ResultInIds, ResultSize
  <2> QED
    BY <1>3, <2>1 DEF CountUsers, request, TypeOK, Result
<1>4. CASE QueryFails
  BY <1>4 DEF QueryFails, request, TypeOK, Result
<1>5. CASE Respond
  <2>1. Parse(rawOffset) + limit \in Int
    BY OffType
  <2> QED
    BY <1>5, <2>1 DEF Respond, TypeOK, Result
<1>6. ASSUME NEW i \in Ids, Create(i) \/ Delete(i) \/ Rename(i)
      PROVE  TypeOK'
  BY <1>6, ChangeKeeps DEF TypeOK
<1>7. CASE UNCHANGED vars
  BY <1>7 DEF vars, request, TypeOK, Result
<1> QED
  BY <1>1, <1>2, <1>3, <1>4, <1>5, <1>6, <1>7 DEF Next

\* Pages, totals and histories have the types that TypeOK states, for all constants.
THEOREM TypeCorrect == Spec => []TypeOK
<1>1. Init => TypeOK
  <2> SUFFICES ASSUME Init PROVE TypeOK
    OBVIOUS
  <2>1. Cardinality({}) = 0 /\ Cardinality(Ids) \in Nat
    BY FS_EmptySet, ResultSize
  <2>2. changes \in 0 .. MaxChanges /\ limit \in -MaxInt - 1 .. MaxInt /\ first \in -MaxInt - 1 .. MaxInt
    BY LimitAssumption, InputAssumption DEF Init
  <2>3. Cardinality(page) <= MaxLimit /\ total \in 0 .. Cardinality(Ids)
    BY <2>1, LimitAssumption DEF Init
  <2>4. page = {} /\ got = {} /\ throughout = {} /\ rawOffset \in Int
    BY DEF Init
  <2> QED
    BY <2>2, <2>3, <2>4 DEF Init, TypeOK
<1> QED
  BY <1>1, TypeStep, PTL DEF Spec

-----------------------------------------------------------------------------
(* The total covers the page. *)

\* While nothing leaves the result, it reaches to the end of the page, and so does its count.
CoverInv ==
    ~shrunk /\ page # {} =>
        /\ pc = "listed" => Cardinality(Result) >= Off + Cardinality(page)
        /\ pc = "counted" => total >= Off + Cardinality(page)

LEMMA CoverStep == TypeOK /\ CoverInv /\ [Next]_vars => CoverInv'
<1> SUFFICES ASSUME TypeOK, CoverInv, [Next]_vars PROVE CoverInv'
  OBVIOUS
<1>1. ASSUME NEW l \in Raws, NEW o \in Raws, StartWalk(l, o)
      PROVE  CoverInv'
  BY <1>1 DEF StartWalk, CoverInv
<1>2. CASE ListUsers
  <2>1. PICK P \in Pages(Off, ClampLimit(limit)) : page' = P
    BY <1>2 DEF ListUsers, Off
  <2>2. P # {} => Cardinality(Result) >= Off + Cardinality(P)
    BY <2>1, OffType, PageShape, LimitAssumption
  <2>3. Result' = Result /\ Off' = Off /\ pc' = "listed"
    BY <1>2 DEF ListUsers, request, Result, Off
  <2> QED
    BY <2>1, <2>2, <2>3 DEF CoverInv
<1>3. CASE CountUsers
  BY <1>3 DEF CountUsers, request, CoverInv, Off
<1>4. CASE QueryFails
  BY <1>4 DEF QueryFails, CoverInv
<1>5. CASE Respond
  BY <1>5 DEF Respond, CoverInv
<1>6. ASSUME NEW i \in Ids, Create(i) \/ Delete(i) \/ Rename(i)
      PROVE  CoverInv'
  <2>1. /\ UNCHANGED <<pc, rawOffset, page, total>>
        /\ ~shrunk' => ~shrunk /\ Result \subseteq Result'
    BY <1>6, ChangeKeeps DEF Grows
  <2>2. Off' = Off
    BY <2>1 DEF Off
  <2>3. /\ Result' \in SUBSET Ids /\ Result \in SUBSET Ids
        /\ Cardinality(Result) \in Nat /\ Cardinality(Result') \in Nat
    BY ResultSize DEF Result
  <2>4. Cardinality(page) \in Nat
    BY ResultSize DEF TypeOK
  <2>5. Result \subseteq Result' => Cardinality(Result) <= Cardinality(Result')
    BY <2>3, Monotone
  <2> QED
    BY <2>1, <2>2, <2>3, <2>4, <2>5, OffType DEF CoverInv
<1>7. CASE UNCHANGED vars
  BY <1>7 DEF vars, request, CoverInv, Result, Off
<1> QED
  BY <1>1, <1>2, <1>3, <1>4, <1>5, <1>6, <1>7 DEF Next

LEMMA CoverSuffices == TypeOK /\ CoverInv => TotalCoversPage
<1> SUFFICES ASSUME TypeOK, CoverInv, pc = "counted", ~shrunk, page # {}
             PROVE  total >= (IF rawOffset = Junk THEN 0 ELSE rawOffset) + Cardinality(page)
  BY DEF TotalCoversPage
<1>1. page \in SUBSET Ids /\ total \in Nat /\ total <= Cardinality(Ids)
  BY ResultSize, TableAssumption DEF TypeOK
<1>2. Cardinality(page) \in Nat /\ Cardinality(page) >= 1
  BY <1>1, ResultSize, FS_EmptySet
<1>3. total >= Off + Cardinality(page) /\ Off \in Nat
  BY OffType DEF CoverInv
<1>4. total <= MaxInt
  BY <1>1, ResultSize, TableAssumption, LimitAssumption
<1>5. CASE rawOffset = Junk
  BY <1>1, <1>2, <1>3, <1>5
<1>6. CASE rawOffset # Junk
  <2>1. rawOffset \in Int
    BY <1>6 DEF TypeOK
  <2>2. Off # MaxInt
    BY <1>1, <1>2, <1>3, <1>4, LimitAssumption
  <2>3. rawOffset <= MaxInt
    BY <1>6, <2>1, <2>2, Parsed, LimitAssumption DEF Off, ClampOffset
  <2>4. rawOffset <= Off
    BY <1>6, <2>1, <2>3, Parsed, LimitAssumption DEF Off, ClampOffset
  <2> QED
    BY <1>1, <1>2, <1>3, <1>6, <2>1, <2>4
<1> QED
  BY <1>5, <1>6

\* CountUsers after ListUsers: unless a row left in between, the total the client reads
\* covers the page beside it, whatever offset it sent.
THEOREM TotalsCoverPages == Spec => []TotalCoversPage
<1>1. Init => CoverInv
  BY DEF Init, CoverInv
<1> QED
  BY <1>1, TypeCorrect, CoverStep, CoverSuffices, PTL DEF Spec

-----------------------------------------------------------------------------
(* The walk. *)

Missing == throughout \ got
Honoured == ~disturbed /\ first <= 0 /\ limit \in 1 .. MaxLimit

\* A row the walk still owes is at or behind the next offset; once the page is read it is
\* behind the page, and then the total says that there is more.
WalkInv ==
    /\ ~disturbed => ~Tied
    /\ Honoured =>
        /\ pc = "called" => \A r \in Missing : Cardinality(Above(r)) >= Off
        /\ pc \in {"listed", "counted"} =>
            \A r \in Missing : Cardinality(Above(r)) >= Off + limit
        /\ pc = "counted" /\ Missing # {} => total > Off + limit
        /\ pc = "done" => Missing = {}

\* Above, the places and the offsets mean the same when the table and the request stand.
LEMMA TableStands ==
    ASSUME UNCHANGED table
    PROVE  Result' = Result /\ Tied' = Tied /\ \A r : Above(r)' = Above(r)
BY DEF Result, Tied, Above

LEMMA WalkStep == TypeOK /\ TypeOK' /\ WalkInv /\ [Next]_vars => WalkInv'
<1> SUFFICES ASSUME TypeOK, TypeOK', WalkInv, [Next]_vars PROVE WalkInv'
  OBVIOUS
<1>0. /\ Off \in Nat /\ limit \in Int /\ MaxInt \in Nat /\ total \in Nat
      /\ \A r : Cardinality(Above(r)) \in Nat
  <2>1. \A r : Above(r) \in SUBSET Ids
    BY DEF Above, Result
  <2> QED
    BY <2>1, OffType, ResultSize DEF TypeOK
<1>1. ASSUME NEW l \in Raws, NEW o \in Raws, StartWalk(l, o)
      PROVE  WalkInv'
  <2>1. Tied' = Tied /\ disturbed' = Tied /\ pc' = "called"
    BY <1>1 DEF StartWalk, Tied, Result
  <2>2. first' <= 0 => Off' = 0
    <3>1. first' = Parse(o) /\ rawOffset' = o
      BY <1>1 DEF StartWalk
    <3>2. Off' = ClampOffset(Parse(o))
      BY <3>1 DEF Off
    <3>3. first' \in Int
      BY <1>0 DEF TypeOK
    <3> QED
      BY <3>1, <3>2, <3>3 DEF ClampOffset
  <2>3. \A r : Cardinality(Above(r)') \in Nat
    BY <1>0, <1>1, TableStands DEF StartWalk
  <2> QED
    BY <2>1, <2>2, <2>3 DEF WalkInv, Honoured
<1>2. CASE ListUsers
  <2>1. PICK P \in Pages(Off, ClampLimit(limit)) : page' = P /\ got' = got \union P
    BY <1>2 DEF ListUsers, Off
  <2>2. /\ pc = "called" /\ pc' = "listed" /\ Off' = Off
        /\ UNCHANGED <<table, limit, first, throughout, disturbed>>
    BY <1>2 DEF ListUsers, request, Off
  <2>3. ASSUME Honoured, NEW r \in Missing'
        PROVE  Cardinality(Above(r)) >= Off + limit
    <3>1. r \in Missing /\ r \notin P /\ r \in Result
      BY <2>1, <2>2, <2>3 DEF Missing, TypeOK
    <3>2. ClampLimit(limit) = limit /\ limit \in Nat
      BY <2>3, LimitAssumption DEF Honoured, ClampLimit
    <3>3. Cardinality(Above(r)) >= Off /\ ~Tied
      BY <2>2, <2>3, <3>1 DEF WalkInv, Honoured
    <3> QED
      BY <1>0, <2>1, <3>1, <3>2, <3>3, PageGoesByPlace DEF TypeOK
  <2> QED
    BY <2>2, <2>3, TableStands DEF WalkInv, Honoured
<1>3. CASE CountUsers
  <2>1. /\ pc = "listed" /\ pc' = "counted" /\ total' = Cardinality(Result)
        /\ Off' = Off /\ Missing' = Missing
        /\ UNCHANGED <<table, limit, first, disturbed>>
    BY <1>3 DEF CountUsers, request, Off, Missing
  <2>2. ASSUME NEW r \in Result
        PROVE  Cardinality(Result) > Cardinality(Above(r))
    <3>1. Above(r) \subseteq Result \ {r}
      BY RowShape DEF Above, TypeOK
    <3>2. Cardinality(Result \ {r}) = Cardinality(Result) - 1 /\ Cardinality(Result) \in Nat
      BY ResultInIds, ResultSize, FS_RemoveElement
    <3>3. Result \ {r} \in SUBSET Ids
      BY ResultInIds
    <3> QED
      BY <1>0, <3>1, <3>2, <3>3, Monotone
  <2>3. Missing \subseteq Result
    BY DEF Missing, TypeOK
  <2>4. Cardinality(Result) \in Nat
    BY ResultInIds, ResultSize
  <2>5. Honoured => \A r \in Missing : Cardinality(Above(r)) >= Off + limit
    BY <2>1 DEF WalkInv
  <2>6. Honoured /\ Missing # {} => total' > Off + limit
    BY <1>0, <2>1, <2>2, <2>3, <2>4, <2>5
  <2> QED
    BY <2>1, <2>5, <2>6, TableStands DEF WalkInv, Honoured
<1>4. CASE QueryFails
  BY <1>4, TableStands DEF QueryFails, request, WalkInv, Honoured
<1>5. CASE Respond
  <2> DEFINE next == Parse(rawOffset) + limit
  <2>1. /\ pc = "counted" /\ rawOffset' = next
        /\ pc' = IF next < total /\ limit > 0 THEN "called" ELSE "done"
        /\ Missing' = Missing
        /\ UNCHANGED <<table, limit, first, total, disturbed>>
    BY <1>5 DEF Respond, Missing
  <2>2. Parse(rawOffset) \in -MaxInt - 1 .. MaxInt /\ next \in Int
    BY OffType
  <2>3. ASSUME Honoured
        PROVE  next <= Off + limit /\ Off' <= Off + limit /\ Off' \in Nat
    <3>1. Parse(rawOffset) <= Off
      BY <2>2 DEF Off, ClampOffset
    <3>2. next >= -MaxInt /\ limit >= 1
      BY <2>2, <2>3, LimitAssumption DEF Honoured
    <3>3. Off' = ClampOffset(Parse(next))
      BY <2>1 DEF Off
    <3>4. Parse(next) \in Int /\ (next # Junk => Parse(next) <= next) /\ (next = Junk => Parse(next) = 0)
      BY <1>0, <2>2, <3>2, Parsed
    <3> QED
      BY <1>0, <2>2, <3>1, <3>2, <3>3, <3>4 DEF ClampOffset
  <2>4. Honoured => \A r \in Missing : Cardinality(Above(r)) >= Off + limit
    BY <2>1 DEF WalkInv
  <2>5. ASSUME Honoured, pc' = "called"
        PROVE  \A r \in Missing : Cardinality(Above(r)) >= Off'
    BY <1>0, <2>3, <2>4, <2>5
  <2>6. ASSUME Honoured, pc' = "done"
        PROVE  Missing = {}
    <3>1. limit > 0 /\ next >= total
      BY <1>0, <2>1, <2>2, <2>6, LimitAssumption DEF Honoured
    <3>2. Missing # {} => total > Off + limit
      BY <2>1, <2>6 DEF WalkInv
    <3> QED
      BY <1>0, <2>2, <2>3, <2>6, <3>1, <3>2
  <2> QED
    BY <2>1, <2>5, <2>6, TableStands DEF WalkInv, Honoured
<1>6. ASSUME NEW i \in Ids, Create(i) \/ Delete(i) \/ Rename(i)
      PROVE  WalkInv'
  <2>1. /\ table' \in [Ids -> Row \union {None}]
        /\ UNCHANGED <<pc, limit, rawOffset, first, total, got>>
        /\ throughout' \subseteq throughout
        /\ ~disturbed' => ~disturbed /\ ~Tied' /\ Grows
    BY <1>6, ChangeKeeps
  <2>2. Off' = Off /\ Missing' \subseteq Missing /\ Missing \subseteq Result
    BY <2>1 DEF Off, Missing, TypeOK
  <2>3. Honoured' => Honoured /\ Grows
    BY <2>1 DEF Honoured
  <2>4. ASSUME Grows, NEW r \in Result
        PROVE  Cardinality(Above(r)') >= Cardinality(Above(r)) /\ Cardinality(Above(r)') \in Nat
    <3>1. Above(r)' \in SUBSET Ids
      BY DEF Above, Result
    <3> QED
      BY <2>1, <2>4, <3>1, PlacesHold, ResultSize
  <2>5. ASSUME Honoured', pc' = "called", NEW r \in Missing'
        PROVE  Cardinality(Above(r)') >= Off'
    <3>1. Cardinality(Above(r)) >= Off
      BY <2>1, <2>2, <2>3, <2>5 DEF WalkInv
    <3> QED
      BY <1>0, <2>2, <2>3, <2>4, <2>5, <3>1
  <2>6. ASSUME Honoured', pc' \in {"listed", "counted"}, NEW r \in Missing'
        PROVE  Cardinality(Above(r)') >= Off' + limit'
    <3>1. Cardinality(Above(r)) >= Off + limit
      BY <2>1, <2>2, <2>3, <2>6 DEF WalkInv
    <3> QED
      BY <1>0, <2>1, <2>2, <2>3, <2>4, <2>6, <3>1
  <2>7. ASSUME Honoured', pc' = "counted", Missing' # {}
        PROVE  total' > Off' + limit'
    BY <2>1, <2>2, <2>3, <2>7 DEF WalkInv
  <2>8. ASSUME Honoured', pc' = "done"
        PROVE  Missing' = {}
    BY <2>1, <2>2, <2>3, <2>8 DEF WalkInv
  <2> QED
    BY <2>1, <2>5, <2>6, <2>7, <2>8 DEF WalkInv
<1>7. CASE UNCHANGED vars
  BY <1>7, TableStands DEF vars, request, WalkInv, Honoured, Missing, Off
<1> QED
  BY <1>1, <1>2, <1>3, <1>4, <1>5, <1>6, <1>7 DEF Next

\* A client that starts at the front with a limit the server honours has seen, when it is
\* told to stop, every account that stayed in an undisturbed result.
THEOREM WalksMissNobody == Spec => []WalkMissesNobody
<1>1. Init => WalkInv
  BY DEF Init, WalkInv
<1>2. WalkInv => WalkMissesNobody
  BY DEF WalkInv, WalkMissesNobody, Honoured, Missing
<1> QED
  BY <1>1, <1>2, TypeCorrect, WalkStep, PTL DEF Spec

-----------------------------------------------------------------------------
(* Nobody is shown twice. *)

Walking == pc \in {"called", "listed", "counted"}
Steady == ~disturbed /\ throughout = Result /\ first >= 0 /\ limit \in 1 .. MaxLimit

\* What the walk has shown is still in the result, above the next offset, or above the end
\* of the page that was just read; the client's own number is the offset in use.
RepeatInv ==
    /\ pc = "idle" => got = {}
    /\ Walking /\ ~disturbed => got \subseteq Result /\ ~Tied
    /\ Walking /\ first >= 0 => Parse(rawOffset) >= 0
    /\ Walking /\ Steady =>
        \A g \in got : Cardinality(Above(g)) < IF pc = "called" THEN Off ELSE Off + limit

LEMMA RepeatStep == TypeOK /\ TypeOK' /\ RepeatInv /\ [Next]_vars => RepeatInv'
<1> SUFFICES ASSUME TypeOK, TypeOK', RepeatInv, [Next]_vars PROVE RepeatInv'
  OBVIOUS
<1>0. /\ Off \in Nat /\ limit \in Int /\ MaxInt \in Nat /\ total \in Nat /\ total <= MaxInt
      /\ \A r : Cardinality(Above(r)) \in Nat
  <2>1. \A r : Above(r) \in SUBSET Ids
    BY DEF Above, Result
  <2>2. total \in Nat /\ total <= MaxInt
    BY TableAssumption, LimitAssumption, ResultSize DEF TypeOK
  <2> QED
    BY <2>1, <2>2, OffType, ResultSize
<1>1. ASSUME NEW l \in Raws, NEW o \in Raws, StartWalk(l, o)
      PROVE  RepeatInv'
  <2>1. /\ pc = "idle" /\ pc' = "called" /\ got' = {} /\ first' = Parse(o) /\ rawOffset' = o
        /\ disturbed' = Tied /\ UNCHANGED table
    BY <1>1 DEF StartWalk, RepeatInv
  <2>2. first' >= 0 => Parse(rawOffset') >= 0
    BY <2>1
  <2> QED
    BY <2>1, <2>2, TableStands DEF RepeatInv, Walking
<1>2. CASE ListUsers
  <2>1. PICK P \in Pages(Off, ClampLimit(limit)) : page' = P /\ got' = got \union P
    BY <1>2 DEF ListUsers, Off
  <2>2. /\ pc = "called" /\ pc' = "listed" /\ Off' = Off
        /\ UNCHANGED <<table, limit, rawOffset, first, throughout, disturbed>>
    BY <1>2 DEF ListUsers, request, Off
  <2>3. P \subseteq Result
    BY <2>1 DEF Pages
  <2>4. ASSUME Steady, NEW g \in got \union P
        PROVE  Cardinality(Above(g)) < Off + limit
    <3>1. ClampLimit(limit) = limit /\ limit \in Nat /\ limit >= 1
      BY <2>4, LimitAssumption DEF Steady, ClampLimit
    <3>2. CASE g \in got
      <4>1. Cardinality(Above(g)) < Off
        BY <2>2, <2>4, <3>2 DEF RepeatInv, Walking
      <4> QED BY <1>0, <3>1, <4>1
    <3>3. CASE g \in P
      <4>1. ~Tied
        BY <2>2, <2>4 DEF RepeatInv, Walking, Steady
      <4> QED BY <1>0, <2>1, <3>1, <3>3, <4>1, PageHasItsPlaces DEF TypeOK
    <3> QED BY <2>4, <3>2, <3>3
  <2>5. Steady' = Steady
    BY <2>2, TableStands DEF Steady
  <2> QED
    BY <2>1, <2>2, <2>3, <2>4, <2>5, TableStands DEF RepeatInv, Walking
<1>3. CASE CountUsers
  <2>1. /\ pc = "listed" /\ pc' = "counted" /\ Off' = Off
        /\ UNCHANGED <<table, limit, rawOffset, first, got, throughout, disturbed>>
    BY <1>3 DEF CountUsers, request, Off
  <2> QED
    BY <2>1, TableStands DEF RepeatInv, Walking, Steady
<1>4. CASE QueryFails
  BY <1>4 DEF QueryFails, RepeatInv, Walking
<1>5. CASE Respond
  <2> DEFINE next == Parse(rawOffset) + limit
  <2>1. /\ pc = "counted" /\ rawOffset' = next
        /\ pc' = IF next < total /\ limit > 0 THEN "called" ELSE "done"
        /\ UNCHANGED <<table, limit, first, got, throughout, disturbed>>
    BY <1>5 DEF Respond
  <2>2. Parse(rawOffset) \in -MaxInt - 1 .. MaxInt /\ next \in Int
    BY OffType
  <2>3. ASSUME pc' = "called", first >= 0
        PROVE  Parse(rawOffset') = next /\ next >= 0 /\ Off' = Off + limit
    <3>1. Parse(rawOffset) >= 0 /\ limit > 0 /\ next < total
      BY <2>1, <2>3 DEF RepeatInv, Walking
    <3>2. next >= 0 /\ next <= MaxInt /\ Off = Parse(rawOffset)
      BY <1>0, <2>2, <3>1 DEF Off, ClampOffset
    <3>3. Parse(next) = next
      BY <1>0, <2>2, <3>2, JunkAssumption DEF Parse
    <3>4. Off' = ClampOffset(Parse(next))
      BY <2>1 DEF Off
    <3> QED BY <2>1, <2>2, <3>2, <3>3, <3>4 DEF ClampOffset
  <2>4. Steady' = Steady
    BY <2>1, TableStands DEF Steady
  <2>5. Walking' => pc' = "called"
    BY <2>1 DEF Walking
  <2>6. ASSUME Walking', Steady', NEW g \in got'
        PROVE  Cardinality(Above(g)') < Off'
    <3>1. Cardinality(Above(g)) < Off + limit
      BY <2>1, <2>4, <2>6 DEF RepeatInv, Walking
    <3> QED BY <2>1, <2>3, <2>4, <2>5, <2>6, <3>1, TableStands DEF Steady
  <2>7. Walking' /\ first' >= 0 => Parse(rawOffset)' >= 0
    BY <2>1, <2>3, <2>5
  <2>8. Walking' /\ ~disturbed' => got' \subseteq Result' /\ ~Tied'
    BY <2>1, TableStands DEF RepeatInv, Walking
  <2>9. pc' # "idle"
    BY <2>1
  <2> QED BY <2>5, <2>6, <2>7, <2>8, <2>9 DEF RepeatInv
<1>6. ASSUME NEW i \in Ids, Create(i) \/ Delete(i) \/ Rename(i)
      PROVE  RepeatInv'
  <2>1. /\ table' \in [Ids -> Row \union {None}]
        /\ UNCHANGED <<pc, limit, rawOffset, first, got>>
        /\ throughout' \subseteq throughout
        /\ ~disturbed' => ~disturbed /\ ~Tied' /\ Grows
    BY <1>6, ChangeKeeps
  <2>2. Off' = Off /\ Walking' = Walking /\ Parse(rawOffset)' = Parse(rawOffset)
    BY <2>1 DEF Off, Walking
  \* A result that is what it was at the start has not changed now either.
  <2>3. ASSUME Steady'
        PROVE  Steady /\ Grows /\ Result' = Result
    <3>1. Result' = throughout' /\ Grows /\ ~disturbed
      BY <2>1, <2>3 DEF Steady
    <3>2. throughout \subseteq Result /\ Result \subseteq Result'
      BY <3>1 DEF Grows, TypeOK
    <3> QED BY <2>1, <2>3, <3>1, <3>2 DEF Steady
  <2>4. ASSUME Walking, Steady', NEW g \in got
        PROVE  Above(g)' = Above(g)
    <3>1. g \in Result
      BY <2>3, <2>4 DEF RepeatInv, Steady
    <3> QED BY <2>3, <2>4, <3>1 DEF Above, Grows
  <2>5. Walking' /\ ~disturbed' => got' \subseteq Result' /\ ~Tied'
    BY <2>1, <2>2 DEF RepeatInv, Grows
  <2>6. ASSUME Walking', Steady', NEW g \in got'
        PROVE  Cardinality(Above(g)') < IF pc' = "called" THEN Off' ELSE Off' + limit'
    BY <2>1, <2>2, <2>3, <2>4, <2>6 DEF RepeatInv
  <2> QED BY <2>1, <2>2, <2>5, <2>6 DEF RepeatInv
<1>7. CASE UNCHANGED vars
  BY <1>7, TableStands DEF vars, request, RepeatInv, Walking, Steady, Off
<1> QED
  BY <1>1, <1>2, <1>3, <1>4, <1>5, <1>6, <1>7 DEF Next

\* A client that starts at a real row, with a limit the server honours, is shown no account
\* twice while the result stands.
THEOREM WalksRepeatNobody == Spec => WalkRepeatsNobody
<1> DEFINE Once == (/\ pc = "called" /\ pc' = "listed"
                    /\ ~disturbed /\ throughout = Result
                    /\ first >= 0 /\ limit \in 1 .. MaxLimit) => page' \cap got = {}
<1>1. Init => RepeatInv
  BY DEF Init, RepeatInv, Walking
<1>2. TypeOK /\ RepeatInv /\ [Next]_vars => [Once]_vars
  <2> SUFFICES ASSUME TypeOK, RepeatInv, Next, pc = "called", pc' = "listed", Steady
               PROVE  page' \cap got = {}
    BY DEF Steady
  <2>1. ListUsers
    <3>1. ASSUME NEW i \in Ids, Create(i) \/ Delete(i) \/ Rename(i) PROVE FALSE
      BY <3>1, ChangeKeeps
    <3> QED BY <3>1 DEF Next, StartWalk, CountUsers, QueryFails, Respond
  <2>2. page' \in Pages(Off, limit)
    BY <2>1, LimitAssumption DEF ListUsers, Off, Steady, ClampLimit
  <2>3. ~Tied /\ \A g \in got : Cardinality(Above(g)) < Off
    BY DEF RepeatInv, Walking, Steady
  <2>4. \A r \in page' : Cardinality(Above(r)) >= Off
    BY <2>2, <2>3, OffType, PageHasItsPlaces, LimitAssumption DEF TypeOK, Steady
  <2>5. \A r : Cardinality(Above(r)) \in Nat
    <3>1. \A r : Above(r) \in SUBSET Ids
      BY DEF Above, Result
    <3> QED BY <3>1, ResultSize
  <2> QED BY <2>3, <2>4, <2>5, OffType
<1> QED
  BY <1>1, <1>2, TypeCorrect, RepeatStep, PTL DEF Spec, WalkRepeatsNobody
=============================================================================
