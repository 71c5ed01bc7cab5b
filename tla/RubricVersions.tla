--------------------------- MODULE RubricVersions ---------------------------
(***************************************************************************)
(* Rubrics and their versions: creating a rubric, publishing the next      *)
(* version of one while others publish too, reading a rubric with all its  *)
(* versions, and starting an evaluation that pins the latest version       *)
(* (rubricService.ts, rubricRepository.ts, the start of evaluations).      *)
(*                                                                         *)
(* A publish is a PostgreSQL transaction at READ COMMITTED of three        *)
(* statements, one action each: every statement sees what is committed     *)
(* when it runs, and the unique index on (rubric, version) is all that     *)
(* keeps two publishes apart.  An insert whose key another open            *)
(* transaction holds waits for that one to end.                            *)
(*                                                                         *)
(* A rubric is named by the request that created it, a version by the      *)
(* request that published it.  Requests refused with 400 or 404 change     *)
(* nothing and are left out.                                               *)
(***************************************************************************)
EXTENDS Naturals, FiniteSets

CONSTANTS Requests,      \* POST /rubrics and POST /rubrics/:id/versions calls
          Readers,       \* GET /rubrics/:id calls in flight
          Evaluations,   \* starts of evaluations
          Null

ASSUME NullAssumption == Null \notin Requests

VARIABLES
    at,          \* at[p]: where request p is
    rubric,      \* rubric[p]: the rubric p creates or publishes a version of
    number,      \* number[p]: the version number p computed
    published,   \* requests whose transaction committed: the visible versions
    criteria,    \* requests whose rubric_criteria rows are inserted
    unread,      \* unread[g]: versions reader g saw and has yet to hydrate
    bare,        \* bare[g]: versions reader g found without criteria
    eval         \* eval[e]: the start of evaluation e

writes == <<at, rubric, number, published, criteria>>
reads == <<unread, bare>>
vars == <<at, rubric, number, published, criteria, unread, bare, eval>>

\* "lost": the transaction committed and its answer did not arrive; "refused":
\* the unique index rejected the insert, answered as a 500.
Points == {"idle", "found", "numbered", "inserted", "filled",
           "answered", "lost", "refused", "failed"}

NotStarted == [at |-> "idle", on |-> Null, floor |-> {}, pin |-> Null]

----------------------------------------------------------------------------
Init ==
    /\ at = [p \in Requests |-> "idle"]
    /\ rubric = [p \in Requests |-> Null]
    /\ number = [p \in Requests |-> 0]
    /\ published = {}
    /\ criteria = {}
    /\ unread = [g \in Readers |-> {}]
    /\ bare = [g \in Readers |-> {}]
    /\ eval = [e \in Evaluations |-> NotStarted]

VersionsOf(r) == {p \in published : rubric[p] = r}

IsRubric(r) == r \in published /\ rubric[r] = r

\* SELECT ... ORDER BY version ASC.
IsOldest(p) ==
    /\ p \in published
    /\ \A q \in VersionsOf(rubric[p]) : number[p] <= number[q]

\* SELECT ... WHERE rubric_id ORDER BY version DESC LIMIT 1.
IsLatest(p) ==
    /\ p \in published
    /\ \A q \in VersionsOf(rubric[p]) : number[q] <= number[p]

\* Requests that have the unique key of p in the index, committed or not.
Rivals(p) ==
    {q \in Requests \ {p} :
        /\ q \in published \/ at[q] \in {"inserted", "filled"}
        /\ rubric[q] = rubric[p] /\ number[q] = number[p]}

----------------------------------------------------------------------------
(* createRubric: the rubric, its version 1 and its criteria, under keys    *)
(* nobody else can hold, so the transaction is one step.                   *)

CreateRubric(p) ==
    /\ at[p] = "idle"
    /\ \E end \in {"answered", "lost"} : at' = [at EXCEPT ![p] = end]
    /\ rubric' = [rubric EXCEPT ![p] = p]
    /\ number' = [number EXCEPT ![p] = 1]
    /\ published' = published \cup {p}
    /\ criteria' = criteria \cup {p}
    /\ UNCHANGED <<reads, eval>>

----------------------------------------------------------------------------
(* publishVersion: the rubric is looked up, then three statements and the  *)
(* commit.                                                                 *)

PublishFindsRubric(p, r) ==
    /\ at[p] = "idle"
    /\ IsRubric(r)
    /\ at' = [at EXCEPT ![p] = "found"]
    /\ rubric' = [rubric EXCEPT ![p] = r]
    /\ UNCHANGED <<number, published, criteria, reads, eval>>

ReadsLatest(p) ==
    /\ at[p] = "found"
    /\ \E q \in VersionsOf(rubric[p]) :
          /\ IsLatest(q)
          /\ number' = [number EXCEPT ![p] = number[q] + 1]
    /\ at' = [at EXCEPT ![p] = "numbered"]
    /\ UNCHANGED <<rubric, published, criteria, reads, eval>>

\* A table without uq_rubric_version.
InsertIgnoresRivals(p) ==
    /\ at[p] = "numbered"
    /\ at' = [at EXCEPT ![p] = "inserted"]
    /\ UNCHANGED <<rubric, number, published, criteria, reads, eval>>

\* The inserts outside a transaction: the version is visible at once.
InsertAutocommits(p) ==
    /\ at[p] = "numbered"
    /\ Rivals(p) = {}
    /\ at' = [at EXCEPT ![p] = "inserted"]
    /\ published' = published \cup {p}
    /\ UNCHANGED <<rubric, number, criteria, reads, eval>>

\* Waits while an open transaction holds the key; a committed one refuses it.
InsertVersion(p) ==
    /\ at[p] = "numbered"
    /\ Rivals(p) \subseteq published
    /\ at' = [at EXCEPT ![p] = IF Rivals(p) = {} THEN "inserted" ELSE "refused"]
    /\ UNCHANGED <<rubric, number, published, criteria, reads, eval>>

InsertCriteria(p) ==
    /\ at[p] = "inserted"
    /\ at' = [at EXCEPT ![p] = "filled"]
    /\ criteria' = criteria \cup {p}
    /\ UNCHANGED <<rubric, number, published, reads, eval>>

Commits(p) ==
    /\ at[p] = "filled"
    /\ \E end \in {"answered", "lost"} : at' = [at EXCEPT ![p] = end]
    /\ published' = published \cup {p}
    /\ UNCHANGED <<rubric, number, criteria, reads, eval>>

\* What was inserted before the failure stays.
FailsHalfway(p) ==
    /\ at[p] \in {"idle", "found", "numbered", "inserted", "filled"}
    /\ at' = [at EXCEPT ![p] = "failed"]
    /\ UNCHANGED <<rubric, number, published, criteria, reads, eval>>

\* A statement fails or the API dies: the open transaction rolls back.
RequestFails(p) ==
    /\ at[p] \in {"idle", "found", "numbered", "inserted", "filled"}
    /\ at' = [at EXCEPT ![p] = "failed"]
    /\ criteria' = criteria \ {p}
    /\ UNCHANGED <<rubric, number, published, reads, eval>>

----------------------------------------------------------------------------
(* GET /rubrics/:id: one statement lists the versions, one per version     *)
(* reads its criteria; they share no snapshot.                             *)

ReadVersions(g, r) ==
    /\ unread[g] = {}
    /\ IsRubric(r)
    /\ unread' = [unread EXCEPT ![g] = VersionsOf(r)]
    /\ bare' = [bare EXCEPT ![g] = {}]
    /\ UNCHANGED <<writes, eval>>

ReadCriteria(g, p) ==
    /\ p \in unread[g]
    /\ unread' = [unread EXCEPT ![g] = @ \ {p}]
    /\ bare' = [bare EXCEPT ![g] = IF p \in published \cap criteria
                                   THEN @ ELSE @ \cup {p}]
    /\ UNCHANGED <<writes, eval>>

----------------------------------------------------------------------------
(* startEvaluation: the latest version is read, then the evaluation is     *)
(* inserted with it; publishes may commit between the two.                 *)

\* The client asks, knowing of the versions answered so far.
StartBegins(e, r) ==
    /\ eval[e].at = "idle"
    /\ IsRubric(r)
    /\ eval' = [eval EXCEPT
                  ![e] = [at |-> "begun", on |-> r, pin |-> Null,
                          floor |-> {p \in VersionsOf(r) : at[p] = "answered"}]]
    /\ UNCHANGED <<writes, reads>>

StartReadsLatest(e) ==
    /\ eval[e].at = "begun"
    /\ \E p \in VersionsOf(eval[e].on) :
          /\ IsLatest(p)
          /\ eval' = [eval EXCEPT ![e].at = "read", ![e].pin = p]
    /\ UNCHANGED <<writes, reads>>

StartCreates(e) ==
    /\ eval[e].at = "read"
    /\ \E end \in {"created", "failed"} : eval' = [eval EXCEPT ![e].at = end]
    /\ UNCHANGED <<writes, reads>>

----------------------------------------------------------------------------
PublishStep(p) ==
    ReadsLatest(p) \/ InsertVersion(p) \/ InsertCriteria(p) \/ Commits(p)

Next ==
    \/ \E p \in Requests :
          \/ CreateRubric(p) \/ PublishStep(p) \/ RequestFails(p)
          \/ \E r \in Requests : PublishFindsRubric(p, r)
    \/ \E g \in Readers, p \in Requests : ReadVersions(g, p) \/ ReadCriteria(g, p)
    \/ \E e \in Evaluations :
          \/ \E r \in Requests : StartBegins(e, r)
          \/ StartReadsLatest(e) \/ StartCreates(e)

Spec == Init /\ [][Next]_vars

----------------------------------------------------------------------------
(* Properties.                                                             *)

\* Every variable keeps its type, and a version has criteria rows only inside
\* its transaction or after its commit: a failed publish leaves none behind.
TypeOK ==
    /\ at \in [Requests -> Points]
    /\ rubric \in [Requests -> Requests \cup {Null}]
    /\ number \in [Requests -> Nat]
    /\ published \subseteq {p \in Requests : at[p] \in {"answered", "lost"}}
    /\ criteria \subseteq {p \in Requests : at[p] \in {"filled", "answered", "lost"}}
    /\ unread \in [Readers -> SUBSET Requests]
    /\ bare \in [Readers -> SUBSET Requests]
    /\ eval \in [Evaluations ->
                   [at : {"idle", "begun", "read", "created", "failed"},
                    on : Requests \cup {Null}, floor : SUBSET Requests,
                    pin : Requests \cup {Null}]]

\* The versions of a rubric are numbered 1, 2, ... without a gap or a repeat,
\* however many publishes overlap, fail or lose their answers.
VersionsAreContiguous ==
    \A p \in published :
        /\ number[p] > 0
        /\ \A q \in VersionsOf(rubric[p]) : number[q] = number[p] => q = p
        /\ \A k \in 1..number[p] : \E q \in VersionsOf(rubric[p]) : number[q] = k

\* Commit order is version order: what a publish commits becomes the latest
\* version, although it computed its number before others committed.
PublishBecomesLatest ==
    [][\A p \in published' \ published :
          \A q \in published : rubric[q] = rubric'[p] => number[q] < number'[p]]_vars

\* Nobody reads a version without its criteria, although a reader lists the
\* versions and reads their criteria in separate statements.
ReadersSeeWholeVersions == \A g \in Readers : bare[g] = {}

\* An evaluation is scored against a published version of its rubric that is
\* no older than any version answered before the evaluation was requested.
PinnedVersionIsFresh ==
    \A e \in Evaluations :
        eval[e].pin # Null =>
            /\ eval[e].pin \in published \cap criteria
            /\ rubric[eval[e].pin] = eval[e].on
            /\ \A p \in eval[e].floor : number[p] <= number[eval[e].pin]

\* The transactions implement the abstract log of versions, although a publish
\* reads, computes and inserts in separate statements and may fail after each.
Versions == {[rubric |-> rubric[p], number |-> number[p], by |-> p] : p \in published}

Pinned ==
    [e \in Evaluations |->
        LET p == eval[e].pin IN
        IF p = Null THEN Null
        ELSE [rubric |-> rubric[p], number |-> number[p], by |-> p]]

Log == INSTANCE VersionLog
           WITH Publishers <- Requests, versions <- Versions, pinned <- Pinned

ImplementsVersionLog == Log!Spec
=============================================================================
