-------------------------- MODULE KeysetPagination --------------------------
(***************************************************************************)
(* GET /prompts and GET /evaluations: a client walks a list page by page   *)
(* with the cursors it is handed, newest first, while rows are inserted    *)
(* and evaluations move into and out of the status the list is filtered by *)
(* (promptService.listPrompts, evaluationService.list, their repositories  *)
(* and application/pagination.ts).                                         *)
(*                                                                         *)
(* created_at is PostgreSQL's now(), in microseconds; a JavaScript Date,   *)
(* and so a cursor, holds milliseconds only.  A time is a record of both   *)
(* parts.  Ids are random UUIDs: numbers here, given in any order.         *)
(***************************************************************************)
EXTENDS Naturals, FiniteSets

CONSTANTS Ids,        \* ids of the rows of the table
          MaxMs,      \* bound on the clock: milliseconds ...
          MaxUs,      \* ... and microseconds within one (999 in PostgreSQL)
          Asked,      \* values of ?limit= a client may send with a page
          MaxLimit,   \* MAX_LIMIT of application/pagination.ts
          Null

ASSUME NumbersAssumption ==
    /\ Ids \subseteq Nat /\ IsFiniteSet(Ids)
    /\ MaxMs \in Nat /\ MaxUs \in Nat
    /\ Asked \subseteq Nat \ {0} /\ MaxLimit \in Nat \ {0}

Times == [ms : 0..MaxMs, us : 0..MaxUs]

ASSUME NullAssumption == Null \notin Times /\ Null \notin [at : Times, id : Ids]

VARIABLES
    clock,       \* the database's clock
    stamp,       \* stamp[i]: created_at of row i, Null before its insert
    visible,     \* rows whose insert has committed
    matching,    \* visible rows that satisfy the list's filter
    walk,        \* "idle", "walking" or "done": the client's walk
    cursor,      \* the cursor of the last page, Null on the first
    page,        \* rows of the last page
    shown,       \* rows of the pages before it
    ends,        \* rows that ended a full page
    stable       \* rows that matched since the walk began

rows == <<stamp, visible>>
client == <<walk, cursor, page, shown, ends>>
vars == <<clock, stamp, visible, matching, walk, cursor, page, shown, ends, stable>>

Earlier(s, t) == s.ms < t.ms \/ (s.ms = t.ms /\ s.us < t.us)

----------------------------------------------------------------------------
Init ==
    /\ clock = [ms |-> 0, us |-> 0]
    /\ stamp = [i \in Ids |-> Null]
    /\ visible = {} /\ matching = {}
    /\ walk = "idle" /\ cursor = Null
    /\ page = {} /\ shown = {} /\ ends = {}
    /\ stable = {}

----------------------------------------------------------------------------
(* The table, while the client walks.                                      *)

ClockTicks ==
    /\ clock' \in Times
    /\ Earlier(clock, clock')
    /\ UNCHANGED <<rows, matching, client, stable>>

\* now() is the start of the inserting transaction; the row shows up when that
\* commits, perhaps after rows with later times.
InsertBegins(i) ==
    /\ stamp[i] = Null
    /\ stamp' = [stamp EXCEPT ![i] = clock]
    /\ UNCHANGED <<clock, visible, matching, client, stable>>

InsertCommits(i) ==
    /\ stamp[i] # Null /\ i \notin visible
    /\ visible' = visible \cup {i}
    /\ matching' \in {matching, matching \cup {i}}
    /\ UNCHANGED <<clock, stamp, client, stable>>

\* An evaluation enters or leaves the status the list asks for.
StatusMoves(i) ==
    /\ i \in visible
    /\ matching' = IF i \in matching THEN matching \ {i} ELSE matching \cup {i}
    /\ stable' = stable \ {i}
    /\ UNCHANGED <<clock, rows, client>>

----------------------------------------------------------------------------
(* A page: list() in the repository, then the service's cursor.            *)

\* ORDER BY created_at DESC, id DESC puts i before j.
Newer(i, j) == Earlier(stamp[j], stamp[i]) \/ (stamp[i] = stamp[j] /\ j < i)

\* The cursor compared with "lte": it matches its own row again.
AfterOrAt(i, c) ==
    c = Null \/ Earlier(stamp[i], c.at) \/ (stamp[i] = c.at /\ i <= c.id)

\* The WHERE clause of a page.
After(i, c) ==
    c = Null \/ Earlier(stamp[i], c.at) \/ (stamp[i] = c.at /\ i < c.id)

\* The limit the client sent, unchecked.
LimitAsAsked(asked) == asked

EffectiveLimit(asked) == IF asked < MaxLimit THEN asked ELSE MaxLimit

\* P is what ORDER BY ... LIMIT n returns of the rows in M.
IsPage(P, M, n) ==
    /\ P \subseteq M
    /\ \A i \in P, j \in M \ P : Newer(i, j)
    /\ Cardinality(P) <= n
    /\ P = M \/ Cardinality(P) = n

\* createdAt is a Date: the microseconds are gone.
CursorOf(i) == [at |-> [ms |-> stamp[i].ms, us |-> 0], id |-> i]

\* A full page taken for the last one.
NeverMore(P, n) == Cardinality(P) > n

\* rows.length === limit: there may be more.
MayHaveMore(P, n) == Cardinality(P) = n

\* The client keeps the page and asks for the next with its cursor, or is done.
TakesPage(P, n) ==
    /\ shown' = shown \cup page
    /\ page' = P
    /\ \/ /\ MayHaveMore(P, n)
          /\ \E last \in P :
                /\ \A i \in P \ {last} : Newer(i, last)
                /\ cursor' = CursorOf(last)
                /\ ends' = ends \cup {last}
          /\ walk' = "walking"
       \/ /\ ~ MayHaveMore(P, n)
          /\ walk' = "done"
          /\ UNCHANGED <<cursor, ends>>

FirstPage(asked) ==
    /\ walk = "idle"
    /\ \E P \in SUBSET matching :
          /\ IsPage(P, matching, EffectiveLimit(asked))
          /\ TakesPage(P, EffectiveLimit(asked))
    /\ stable' = matching
    /\ UNCHANGED <<clock, rows, matching>>

NextPage(asked) ==
    /\ walk = "walking"
    /\ LET found == {i \in matching : After(i, cursor)} IN
       \E P \in SUBSET found :
          /\ IsPage(P, found, EffectiveLimit(asked))
          /\ TakesPage(P, EffectiveLimit(asked))
    /\ UNCHANGED <<clock, rows, matching, stable>>

Next ==
    \/ ClockTicks
    \/ \E i \in Ids : InsertBegins(i) \/ InsertCommits(i) \/ StatusMoves(i)
    \/ \E asked \in Asked : FirstPage(asked) \/ NextPage(asked)

Spec == Init /\ [][Next]_vars

----------------------------------------------------------------------------
(* Properties.                                                             *)

\* Every variable keeps its type, and no page is longer than the house limit.
TypeOK ==
    /\ clock \in Times
    /\ stamp \in [Ids -> Times \cup {Null}]
    /\ visible \subseteq {i \in Ids : stamp[i] # Null}
    /\ matching \subseteq visible
    /\ walk \in {"idle", "walking", "done"}
    /\ cursor \in [at : Times, id : Ids] \cup {Null}
    /\ page \subseteq visible /\ shown \subseteq visible /\ ends \subseteq visible
    /\ stable \subseteq matching
    /\ Cardinality(page) <= MaxLimit

\* The walk goes down the list: whatever is inserted, committed late or moved
\* between two pages, a row of the last page is older than every row shown
\* before, so nothing is shown twice or out of order.
PagesDescend == \A i \in page, j \in shown : Newer(j, i)

\* The walk loses a row that matched all along only to the cursor's precision:
\* the row is of the same millisecond as one that ended a page, and older.
SkipsOnlyInsideAMillisecond ==
    walk = "done" =>
        \A i \in stable \ (shown \cup page) :
            \E e \in ends : stamp[e].ms = stamp[i].ms /\ Newer(e, i)

----------------------------------------------------------------------------
(* What the source says and the walk does not keep.                        *)

\* promptRepository.ts: keyset pagination is stable under inserts and tie-safe,
\* so a walk lists every row that was there all along.
StableRowsAreListed == walk = "done" => stable \subseteq shown \cup page
=============================================================================
