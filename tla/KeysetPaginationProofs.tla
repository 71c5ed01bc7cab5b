----------------------- MODULE KeysetPaginationProofs -----------------------
(***************************************************************************)
(* The guarantees of a page walk for any table, any clock and any limits.  *)
(* The invariant: everything shown is at or above the cursor, and a row    *)
(* that matched all along is shown, still to come below the cursor, or     *)
(* caught between the cursor, cut down to its millisecond, and the row     *)
(* that it was cut from.                                                   *)
(***************************************************************************)
EXTENDS KeysetPagination, FiniteSetTheorems, TLAPS

\* A walk under way has a cursor; one that has not begun has shown nothing.
WalkFollows ==
    /\ walk = "idle" => page = {} /\ shown = {} /\ ends = {}
    /\ walk = "walking" => cursor # Null

\* The next page starts below all that was shown.
ShownIsAbove ==
    walk = "walking" => \A i \in shown \cup page : ~ After(i, cursor)

Caught(i) == \E e \in ends : stamp[e].ms = stamp[i].ms /\ Newer(e, i)

\* A row that matched all along and is not shown is to come or was caught.
RestIsBelow ==
    walk = "walking" =>
        \A i \in stable \ (shown \cup page) : After(i, cursor) \/ Caught(i)

IInv ==
    /\ TypeOK
    /\ WalkFollows
    /\ PagesDescend
    /\ ShownIsAbove
    /\ RestIsBelow
    /\ SkipsOnlyInsideAMillisecond

\* An empty table and a client that has not asked.
LEMMA InitIInv == Init => IInv
<1> SUFFICES ASSUME Init PROVE IInv
  OBVIOUS
<1>1. Cardinality({}) = 0
  BY FS_EmptySet
<1> QED
  BY <1>1, NumbersAssumption
     DEF Init, IInv, TypeOK, Times, WalkFollows, PagesDescend, ShownIsAbove,
         RestIsBelow, SkipsOnlyInsideAMillisecond

----------------------------------------------------------------------------
(* The table's steps.                                                      *)

\* A step of the table keeps the times of visible rows and the client's walk,
\* and adds nothing to what matched all along.
LEMMA TableKeeps ==
    ASSUME IInv,
           \/ ClockTicks
           \/ \E i \in Ids : InsertBegins(i) \/ InsertCommits(i) \/ StatusMoves(i)
    PROVE  IInv'
<1> USE DEF IInv
<1>1. /\ \A i \in visible : stamp'[i] = stamp[i]
      /\ visible \subseteq visible' /\ stable' \subseteq stable
      /\ UNCHANGED client
  BY DEF TypeOK, ClockTicks, InsertBegins, InsertCommits, StatusMoves, rows
<1>2. TypeOK'
  BY NullAssumption
     DEF TypeOK, ClockTicks, InsertBegins, InsertCommits, StatusMoves, rows, client
<1>3. \A i, j \in visible : Newer(i, j)' = Newer(i, j)
  BY <1>1 DEF Newer, Earlier
<1>4. \A i \in visible : After(i, cursor)' = After(i, cursor)
  BY <1>1 DEF After, Earlier, client
<1>5. \A i \in visible : Caught(i)' = Caught(i)
  BY <1>1, <1>3 DEF Caught, TypeOK, client
<1>6. WalkFollows' /\ PagesDescend' /\ ShownIsAbove'
  BY <1>1, <1>3, <1>4 DEF TypeOK, client, WalkFollows, PagesDescend, ShownIsAbove
<1>7. RestIsBelow'
  BY <1>1, <1>4, <1>5 DEF TypeOK, client, RestIsBelow
<1>8. SkipsOnlyInsideAMillisecond'
  BY <1>1, <1>5 DEF TypeOK, client, SkipsOnlyInsideAMillisecond, Caught
<1> QED
  BY <1>2, <1>6, <1>7, <1>8

----------------------------------------------------------------------------
(* The client's steps.                                                     *)

\* Times are totally ordered.
LEMMA EarlierIsAnOrder ==
    ASSUME NEW s \in Times, NEW t \in Times, NEW u \in Times
    PROVE  /\ Earlier(s, t) => ~ Earlier(t, s) /\ s # t
           /\ Earlier(s, t) /\ Earlier(t, u) => Earlier(s, u)
           /\ Earlier(s, t) \/ Earlier(t, s) \/ s = t
  BY NumbersAssumption DEF Times, Earlier

\* What is below a cursor is older than what is not.
LEMMA BelowIsOlder ==
    ASSUME NEW i \in Ids, NEW j \in Ids, stamp[i] \in Times, stamp[j] \in Times,
           NEW c \in [at : Times, id : Ids], After(i, c), ~ After(j, c)
    PROVE  Newer(j, i)
<1>1. c # Null
  BY NullAssumption
<1>2. i \in Nat /\ j \in Nat /\ c.id \in Nat /\ c.at \in Times
  BY NumbersAssumption
<1> QED
  BY <1>1, <1>2, EarlierIsAnOrder DEF After, Newer

\* A row below the one that a cursor was made from, and not below the cursor,
\* is of the same millisecond.
LEMMA CutRowsAreCaught ==
    ASSUME NEW i \in Ids, NEW e \in Ids, stamp[i] \in Times, stamp[e] \in Times,
           Newer(e, i), ~ After(i, CursorOf(e))
    PROVE  stamp[e].ms = stamp[i].ms
  BY NumbersAssumption, NullAssumption DEF Times, Newer, After, Earlier, CursorOf

\* Rows at or above the one a cursor was made from are not below the cursor.
LEMMA CursorIsBelow ==
    ASSUME NEW i \in Ids, NEW e \in Ids, stamp[i] \in Times, stamp[e] \in Times,
           i = e \/ Newer(i, e)
    PROVE  /\ CursorOf(e) \in [at : Times, id : Ids]
           /\ ~ After(i, CursorOf(e))
<1>1. CursorOf(e) \in [at : Times, id : Ids]
  BY NumbersAssumption DEF Times, CursorOf
<1>2. CursorOf(e) # Null
  BY <1>1, NullAssumption
<1> QED
  BY <1>1, <1>2, NumbersAssumption DEF Times, Newer, After, Earlier, CursorOf

\* A page of rows that are older than all shown before, taken from a set that
\* holds every row that matched all along and was neither shown nor caught.
LEMMA PageKeeps ==
    ASSUME IInv, NEW found \in SUBSET matching, NEW P \in SUBSET found,
           NEW asked \in Asked,
           IsPage(P, found, EffectiveLimit(asked)),
           TakesPage(P, EffectiveLimit(asked)),
           \A i \in P, j \in shown \cup page : Newer(j, i),
           \A i \in stable' \ (shown \cup page) : i \in found \/ Caught(i),
           stable' \subseteq matching,
           UNCHANGED <<clock, rows, matching>>
    PROVE  IInv'
<1> USE DEF IInv
<1>1. /\ P \subseteq Ids /\ ends \subseteq Ids /\ shown \cup page \subseteq Ids
      /\ matching \subseteq Ids
      /\ \A i \in visible : stamp[i] \in Times
      /\ P \subseteq visible /\ shown \cup page \subseteq visible
      /\ matching \subseteq visible /\ UNCHANGED <<stamp, visible>>
  BY DEF TypeOK, rows
<1>2. shown' = shown \cup page /\ page' = P
  BY DEF TakesPage
<1>3. Cardinality(P) <= MaxLimit
  <2>1. IsFiniteSet(P) /\ Cardinality(P) \in Nat
    BY <1>1, NumbersAssumption, FS_Subset, FS_CardinalityType
  <2> QED
    BY <2>1, NumbersAssumption DEF IsPage, EffectiveLimit
<1>4. PagesDescend'
  BY <1>1, <1>2 DEF PagesDescend, Newer
<1>5. CASE MayHaveMore(P, EffectiveLimit(asked)) /\ walk' = "walking"
  <2>1. PICK last \in P :
              /\ \A i \in P \ {last} : Newer(i, last)
              /\ cursor' = CursorOf(last)
              /\ ends' = ends \cup {last}
    BY <1>5 DEF TakesPage
  <2>2. CursorOf(last)' = CursorOf(last)
    BY <1>1 DEF CursorOf
  <2>3. cursor' \in [at : Times, id : Ids] /\ cursor' # Null
    BY <1>1, <2>1, CursorIsBelow, NullAssumption
  <2>4. TypeOK' /\ WalkFollows'
    BY <1>1, <1>2, <1>3, <1>5, <2>1, <2>3 DEF TypeOK, WalkFollows, rows
  <2>5. ASSUME NEW i \in shown' \cup page' PROVE ~ After(i, cursor)'
    <3>1. i = last \/ Newer(i, last)
      BY <1>2, <2>1, <2>5
    <3>2. ~ After(i, CursorOf(last))
      BY <1>1, <1>2, <3>1, CursorIsBelow
    <3> QED
      BY <1>1, <2>1, <3>2 DEF After
  <2>6. ASSUME NEW i \in stable' \ (shown' \cup page')
        PROVE  After(i, cursor)' \/ Caught(i)'
    <3>1. CASE Caught(i)
      BY <1>1, <2>1, <3>1 DEF Caught, Newer
    <3>2. CASE i \in found
      <4>1. Newer(last, i)
        BY <1>2, <2>1, <2>6, <3>2 DEF IsPage
      <4>2. CASE After(i, CursorOf(last))
        BY <1>1, <2>1, <4>2 DEF After
      <4>3. CASE ~ After(i, CursorOf(last))
        BY <1>1, <2>1, <3>2, <4>1, <4>3, CutRowsAreCaught DEF Caught, Newer
      <4> QED
        BY <4>2, <4>3
    <3> QED
      BY <1>2, <2>6, <3>1, <3>2
  <2> QED
    BY <1>4, <1>5, <2>4, <2>5, <2>6
       DEF ShownIsAbove, RestIsBelow, SkipsOnlyInsideAMillisecond
<1>6. CASE ~ MayHaveMore(P, EffectiveLimit(asked)) /\ walk' = "done"
           /\ UNCHANGED <<cursor, ends>>
  <2>1. P = found
    BY <1>6 DEF IsPage, MayHaveMore
  <2>2. TypeOK' /\ WalkFollows'
    BY <1>1, <1>2, <1>3, <1>6 DEF TypeOK, WalkFollows, rows
  <2>3. SkipsOnlyInsideAMillisecond'
    BY <1>1, <1>2, <1>6, <2>1 DEF SkipsOnlyInsideAMillisecond, Caught, Newer
  <2> QED
    BY <1>4, <1>6, <2>2, <2>3 DEF ShownIsAbove, RestIsBelow
<1> QED
  BY <1>5, <1>6 DEF TakesPage

\* Every step preserves the invariant.
LEMMA NextIInv == IInv /\ [Next]_vars => IInv'
<1> SUFFICES ASSUME IInv, [Next]_vars PROVE IInv'
  OBVIOUS
<1>1. ASSUME NEW asked \in Asked, FirstPage(asked) PROVE IInv'
  <2>1. PICK P \in SUBSET matching :
              /\ IsPage(P, matching, EffectiveLimit(asked))
              /\ TakesPage(P, EffectiveLimit(asked))
    BY <1>1 DEF FirstPage
  <2>2. shown \cup page = {}
    BY <1>1 DEF FirstPage, IInv, WalkFollows
  <2> QED
    BY <1>1, <2>1, <2>2, PageKeeps DEF FirstPage
<1>2. ASSUME NEW asked \in Asked, NextPage(asked) PROVE IInv'
  <2> DEFINE found == {i \in matching : After(i, cursor)}
  <2>1. PICK P \in SUBSET found :
              /\ IsPage(P, found, EffectiveLimit(asked))
              /\ TakesPage(P, EffectiveLimit(asked))
    BY <1>2 DEF NextPage
  <2>2. cursor \in [at : Times, id : Ids] /\ walk = "walking"
    BY <1>2 DEF NextPage, IInv, TypeOK, WalkFollows
  <2>3. \A i \in P, j \in shown \cup page : Newer(j, i)
    BY <2>2, BelowIsOlder DEF IInv, TypeOK, ShownIsAbove
  <2>4. \A i \in stable' \ (shown \cup page) : i \in found \/ Caught(i)
    BY <1>2, <2>2 DEF NextPage, IInv, TypeOK, RestIsBelow
  <2>5. stable' \subseteq matching /\ UNCHANGED <<clock, rows, matching>>
    BY <1>2 DEF NextPage, IInv, TypeOK
  <2> QED
    BY <2>1, <2>3, <2>4, <2>5, PageKeeps
<1>3. CASE UNCHANGED vars
  BY <1>3
     DEF vars, rows, client, IInv, TypeOK, WalkFollows, PagesDescend, ShownIsAbove,
         RestIsBelow, SkipsOnlyInsideAMillisecond, Caught, Newer, After
<1> QED
  BY <1>1, <1>2, <1>3, TableKeeps DEF Next

\* The invariant holds in every reachable state.
THEOREM Invariance == Spec => []IInv
  BY InitIInv, NextIInv, PTL DEF Spec

\* TypeOK: in particular, no page is longer than the house limit.
THEOREM TypeCorrect == Spec => []TypeOK
  BY Invariance, PTL DEF IInv

\* PagesDescend: no walk shows a row twice or out of order, for any table and
\* whatever is inserted or moved meanwhile.
THEOREM DescentCorrect == Spec => []PagesDescend
  BY Invariance, PTL DEF IInv

\* SkipsOnlyInsideAMillisecond: the cursor's precision is the only thing that
\* costs a walk a row.
THEOREM SkipsCorrect == Spec => []SkipsOnlyInsideAMillisecond
  BY Invariance, PTL DEF IInv

\* Among the rows that matched all along, those that share their millisecond
\* with no other row.
LoneRowsAreListed ==
    walk = "done" =>
        \A i \in stable :
            (\A e \in visible : stamp[e].ms = stamp[i].ms => e = i)
                => i \in shown \cup page

\* A row alone in its millisecond is never lost: what the source says of every
\* row of a walk holds of these.
THEOREM LoneRowsCorrect == Spec => []LoneRowsAreListed
<1>1. IInv => LoneRowsAreListed
  <2> SUFFICES ASSUME IInv, walk = "done", NEW i \in stable,
                      \A e \in visible : stamp[e].ms = stamp[i].ms => e = i
               PROVE  i \in shown \cup page
    BY DEF LoneRowsAreListed
  <2>1. ~ Newer(i, i)
    BY NumbersAssumption, EarlierIsAnOrder DEF IInv, TypeOK, Newer
  <2> QED
    BY <2>1 DEF IInv, TypeOK, SkipsOnlyInsideAMillisecond
<1> QED
  BY <1>1, Invariance, PTL
=============================================================================
