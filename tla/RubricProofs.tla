---------------------------- MODULE RubricProofs ----------------------------
(***************************************************************************)
(* Safety of RubricVersions for any number of requests, readers and        *)
(* evaluations, and of RubricCriteria for every list of criteria.          *)
(*                                                                         *)
(* The point of the invariant of RubricVersions: a request that computed   *)
(* its number read the version just below it, and nobody skips a number,   *)
(* so one who holds a key in the index is above all that is published, and *)
(* two open transactions of one rubric never both hold one.                *)
(*                                                                         *)
(* For the criteria: the checks of the service agree with the constraints  *)
(* of the table, and rounding moves no weight far.                         *)
(***************************************************************************)
EXTENDS RubricVersions, RubricCriteria, TLAPS

Open == {"inserted", "filled"}

\* A request works on a rubric that exists.
RubricsExist ==
    \A p \in Requests :
        /\ rubric[p] # Null => rubric[p] \in published
        /\ p \in published \/ at[p] \in {"found", "numbered", "inserted", "filled"}
              => rubric[p] \in Requests

\* A request past its read knows the version just below its own.
KnowsPredecessor ==
    \A p \in Requests :
        at[p] \in {"numbered", "inserted", "filled"}
            => \E q \in VersionsOf(rubric[p]) : number[p] = number[q] + 1

\* A transaction that holds a key is ahead of everything published, and alone.
HolderIsAhead ==
    \A p \in Requests :
        at[p] \in Open =>
            /\ \A q \in VersionsOf(rubric[p]) : number[q] < number[p]
            /\ \A q \in Requests :
                  at[q] \in Open /\ rubric[q] = rubric[p] => q = p

\* Criteria come with the transaction that inserted them.
CriteriaFollow ==
    /\ published \subseteq criteria
    /\ \A p \in Requests : at[p] = "filled" => p \in criteria

ReadersFollow ==
    \A g \in Readers : unread[g] \subseteq published

EvaluationsFollow ==
    \A e \in Evaluations :
        /\ eval[e].floor \subseteq VersionsOf(eval[e].on)
        /\ eval[e].pin # Null => eval[e].at \notin {"idle", "begun"}

IInv ==
    /\ TypeOK
    /\ VersionsAreContiguous
    /\ RubricsExist
    /\ KnowsPredecessor
    /\ HolderIsAhead
    /\ CriteriaFollow
    /\ ReadersFollow
    /\ ReadersSeeWholeVersions
    /\ EvaluationsFollow
    /\ PinnedVersionIsFresh

\* Nothing is published and nobody has asked.
LEMMA InitIInv == Init => IInv
  BY NullAssumption
     DEF Init, IInv, TypeOK, Points, VersionsAreContiguous, VersionsOf,
         RubricsExist, KnowsPredecessor, HolderIsAhead, Open, CriteriaFollow,
         ReadersFollow,
         ReadersSeeWholeVersions, EvaluationsFollow, PinnedVersionIsFresh,
         NotStarted

----------------------------------------------------------------------------
(* What is published stays as it is, and so does what rests on it.         *)

WritesInv ==
    /\ at \in [Requests -> Points]
    /\ rubric \in [Requests -> Requests \cup {Null}]
    /\ number \in [Requests -> Nat]
    /\ published \subseteq {p \in Requests : at[p] \in {"answered", "lost"}}
    /\ criteria \subseteq {p \in Requests : at[p] \in {"filled", "answered", "lost"}}
    /\ VersionsAreContiguous
    /\ RubricsExist
    /\ KnowsPredecessor
    /\ HolderIsAhead
    /\ CriteriaFollow

\* Published versions are kept, with their rubric, number and criteria.
Grows ==
    /\ published \subseteq published'
    /\ \A p \in published : rubric'[p] = rubric[p] /\ number'[p] = number[p]
    /\ criteria \cap published \subseteq criteria'

\* A reader and an evaluation keep what they rely on while versions are added.
LEMMA ReadsKept ==
    ASSUME IInv, Grows, UNCHANGED <<reads, eval>>
    PROVE  /\ ReadersFollow' /\ ReadersSeeWholeVersions'
           /\ EvaluationsFollow' /\ PinnedVersionIsFresh'
<1>1. ReadersFollow' /\ ReadersSeeWholeVersions'
  BY DEF IInv, Grows, reads, ReadersFollow, ReadersSeeWholeVersions
<1>2. EvaluationsFollow'
  BY DEF IInv, Grows, EvaluationsFollow, VersionsOf
<1>3. PinnedVersionIsFresh'
  BY DEF IInv, Grows, EvaluationsFollow, PinnedVersionIsFresh, VersionsOf
<1> QED
  BY <1>1, <1>2, <1>3

\* The step of a request keeps what is published.
LEMMA RequestsGrow ==
    ASSUME IInv, NEW p \in Requests,
           \/ CreateRubric(p) \/ PublishStep(p) \/ RequestFails(p)
           \/ \E r \in Requests : PublishFindsRubric(p, r)
    PROVE  Grows
  BY DEF IInv, TypeOK, Grows, PublishStep, CreateRubric, ReadsLatest, InsertVersion,
         InsertCriteria, Commits, RequestFails, PublishFindsRubric

----------------------------------------------------------------------------
(* The requests.                                                           *)

\* createRubric starts a rubric of one version that nobody can contend for.
LEMMA CreateKeeps ==
    ASSUME WritesInv, NEW p \in Requests, CreateRubric(p)
    PROVE  WritesInv'
<1> USE NullAssumption DEF WritesInv, CreateRubric
<1>1. p \notin published /\ p \notin criteria
  OBVIOUS
<1>2. \A q \in Requests : rubric[q] # p
  BY <1>1 DEF RubricsExist
<1>3. \A q \in Requests \ {p} : VersionsOf(rubric[q])' = VersionsOf(rubric[q])
  BY <1>1, <1>2 DEF VersionsOf
<1>4. VersionsOf(rubric[p])' = {p}
  BY <1>2 DEF VersionsOf
<1>5. VersionsAreContiguous'
  <2>1. ASSUME NEW q \in published', q # p
        PROVE  /\ number'[q] > 0
               /\ \A o \in VersionsOf(rubric[q])' : number'[o] = number'[q] => o = q
               /\ \A k \in 1..number'[q] :
                     \E o \in VersionsOf(rubric[q])' : number'[o] = k
    <3>1. q \in published /\ number'[q] = number[q] /\ q \in Requests
      BY <2>1
    <3>2. \A o \in VersionsOf(rubric[q]) : number'[o] = number[o]
      BY <1>1 DEF VersionsOf
    <3> QED
      BY <3>1, <3>2, <2>1, <1>3 DEF VersionsAreContiguous
  <2>2. /\ number'[p] > 0
        /\ \A o \in VersionsOf(rubric[p])' : number'[o] = number'[p] => o = p
        /\ \A k \in 1..number'[p] :
              \E o \in VersionsOf(rubric[p])' : number'[o] = k
    BY <1>4
  <2> QED
    BY <2>1, <2>2 DEF VersionsAreContiguous
<1>6. RubricsExist'
  BY <1>1 DEF RubricsExist
<1>7. KnowsPredecessor'
  BY <1>1, <1>3 DEF KnowsPredecessor, VersionsOf
<1>8. HolderIsAhead'
  BY <1>1, <1>3 DEF HolderIsAhead, Open, VersionsOf
<1>9. CriteriaFollow'
  BY DEF CriteriaFollow
<1> QED
  BY <1>5, <1>6, <1>7, <1>8, <1>9 DEF Points

\* A step that publishes nothing and renames nothing that is published.
LEMMA UnpublishedKeeps ==
    ASSUME WritesInv, NEW p \in Requests \ published, UNCHANGED published,
           \A q \in Requests \ {p} : rubric'[q] = rubric[q] /\ number'[q] = number[q]
    PROVE  /\ \A r : VersionsOf(r)' = VersionsOf(r)
           /\ VersionsAreContiguous'
<1>1. \A r : VersionsOf(r)' = VersionsOf(r)
  BY DEF WritesInv, VersionsOf
<1> QED
  BY <1>1 DEF WritesInv, VersionsAreContiguous, VersionsOf

\* The lookup of the rubric.
LEMMA FindKeeps ==
    ASSUME WritesInv, NEW p \in Requests, NEW r \in Requests, PublishFindsRubric(p, r)
    PROVE  WritesInv'
<1> USE NullAssumption DEF WritesInv, PublishFindsRubric, IsRubric
<1>1. (\A o : VersionsOf(o)' = VersionsOf(o)) /\ VersionsAreContiguous'
  BY UnpublishedKeeps
<1>2. RubricsExist' /\ CriteriaFollow'
  BY DEF RubricsExist, CriteriaFollow
<1>3. KnowsPredecessor'
  BY <1>1 DEF KnowsPredecessor
<1>4. HolderIsAhead'
  BY <1>1 DEF HolderIsAhead, Open, VersionsOf
<1> QED
  BY <1>1, <1>2, <1>3, <1>4 DEF Points

\* The read of the latest version.
LEMMA ReadKeeps ==
    ASSUME WritesInv, NEW p \in Requests, ReadsLatest(p)
    PROVE  WritesInv'
<1> USE NullAssumption DEF WritesInv, ReadsLatest
<1>1. (\A o : VersionsOf(o)' = VersionsOf(o)) /\ VersionsAreContiguous'
  BY UnpublishedKeeps
<1>2. RubricsExist' /\ CriteriaFollow'
  BY DEF RubricsExist, CriteriaFollow
<1>3. KnowsPredecessor'
  BY <1>1 DEF KnowsPredecessor, VersionsOf
<1>4. HolderIsAhead'
  BY <1>1 DEF HolderIsAhead, Open, VersionsOf
<1> QED
  BY <1>1, <1>2, <1>3, <1>4 DEF Points, VersionsOf

\* The insert of the version: with no rival in the index, the number just above
\* a published version is above all of them.
LEMMA InsertKeeps ==
    ASSUME WritesInv, NEW p \in Requests, InsertVersion(p)
    PROVE  WritesInv'
<1> USE NullAssumption DEF WritesInv, InsertVersion
<1>1. (\A o : VersionsOf(o)' = VersionsOf(o)) /\ VersionsAreContiguous'
  BY UnpublishedKeeps
<1>2. RubricsExist' /\ CriteriaFollow'
  BY DEF RubricsExist, CriteriaFollow
<1>3. KnowsPredecessor'
  BY <1>1 DEF KnowsPredecessor
<1>4. ASSUME Rivals(p) = {}
      PROVE  /\ \A q \in VersionsOf(rubric[p]) : number[q] < number[p]
             /\ \A q \in Requests : at[q] \in Open => rubric[q] # rubric[p]
  <2>1. ASSUME NEW q \in VersionsOf(rubric[p]) PROVE number[q] < number[p]
    <3>1. SUFFICES ASSUME number[p] <= number[q] PROVE FALSE
      BY <2>1 DEF VersionsOf
    <3>2. number[p] \in 1..number[q]
      BY <3>1 DEF KnowsPredecessor, VersionsOf
    <3>3. PICK o \in VersionsOf(rubric[p]) : number[o] = number[p]
      BY <2>1, <3>2 DEF VersionsAreContiguous, VersionsOf
    <3>4. o \in Rivals(p)
      BY <3>3 DEF Rivals, VersionsOf
    <3> QED
      BY <3>4, <1>4
  <2>2. ASSUME NEW q \in Requests, at[q] \in Open, rubric[q] = rubric[p]
        PROVE  FALSE
    <3>1. PICK o \in VersionsOf(rubric[p]) : number[p] = number[o] + 1
      BY DEF KnowsPredecessor
    <3>2. PICK u \in VersionsOf(rubric[p]) : number[q] = number[u] + 1
      BY <2>2 DEF KnowsPredecessor, Open
    <3>3. number[o] < number[q] /\ number[u] < number[p]
      BY <2>1, <2>2, <3>1, <3>2 DEF HolderIsAhead
    <3>4. number[q] = number[p]
      BY <3>1, <3>2, <3>3 DEF VersionsOf
    <3>5. q \in Rivals(p)
      BY <2>2, <3>4 DEF Rivals, Open
    <3> QED
      BY <3>5, <1>4
  <2> QED
    BY <2>1, <2>2
<1>5. HolderIsAhead'
  BY <1>1, <1>4 DEF HolderIsAhead, Open, VersionsOf
<1> QED
  BY <1>1, <1>2, <1>3, <1>5 DEF Points

\* The insert of the criteria, and a failure: the versions stay as they are.
LEMMA OthersKeep ==
    ASSUME WritesInv, NEW p \in Requests, InsertCriteria(p) \/ RequestFails(p)
    PROVE  WritesInv'
<1> USE NullAssumption DEF WritesInv, InsertCriteria, RequestFails
<1>1. (\A o : VersionsOf(o)' = VersionsOf(o)) /\ VersionsAreContiguous'
  BY UnpublishedKeeps
<1>2. RubricsExist' /\ CriteriaFollow'
  BY DEF RubricsExist, CriteriaFollow
<1>3. KnowsPredecessor'
  BY <1>1 DEF KnowsPredecessor
<1>4. HolderIsAhead'
  BY <1>1 DEF HolderIsAhead, Open, VersionsOf
<1> QED
  BY <1>1, <1>2, <1>3, <1>4 DEF Points

\* The commit: the one holder of the rubric adds the number after the latest.
LEMMA CommitKeeps ==
    ASSUME WritesInv, NEW p \in Requests, Commits(p)
    PROVE  WritesInv'
<1> USE NullAssumption DEF WritesInv, Commits
<1>1. /\ p \notin published /\ rubric[p] \in Requests
      /\ UNCHANGED <<rubric, number>>
  BY DEF RubricsExist
<1>2. /\ \A r : r # rubric[p] => VersionsOf(r)' = VersionsOf(r)
      /\ VersionsOf(rubric[p])' = VersionsOf(rubric[p]) \cup {p}
  BY <1>1 DEF VersionsOf
<1>3. \A q \in VersionsOf(rubric[p]) : number[q] < number[p]
  BY DEF HolderIsAhead, Open
<1>4. PICK o \in VersionsOf(rubric[p]) : number[p] = number[o] + 1
  BY DEF KnowsPredecessor
<1>5. VersionsAreContiguous'
  <2>1. ASSUME NEW q \in published
        PROVE  /\ number[q] > 0
               /\ \A u \in VersionsOf(rubric[q])' : number[u] = number[q] => u = q
               /\ \A k \in 1..number[q] :
                     \E u \in VersionsOf(rubric[q])' : number[u] = k
    BY <1>1, <1>2, <1>3, <2>1 DEF VersionsAreContiguous, VersionsOf
  <2>2. /\ number[p] > 0
        /\ \A u \in VersionsOf(rubric[p])' : number[u] = number[p] => u = p
    BY <1>1, <1>2, <1>3, <1>4 DEF VersionsOf
  <2>3. ASSUME NEW k \in 1..number[p]
        PROVE  \E u \in VersionsOf(rubric[p])' : number[u] = k
    <3>1. CASE k = number[p]
      BY <3>1, <1>2
    <3>2. CASE k # number[p]
      <4>1. k \in 1..number[o] /\ o \in published /\ rubric[o] = rubric[p]
        BY <3>2, <1>4 DEF VersionsOf
      <4> QED
        BY <4>1, <1>2 DEF VersionsAreContiguous
    <3> QED
      BY <3>1, <3>2
  <2> QED
    BY <1>1, <2>1, <2>2, <2>3 DEF VersionsAreContiguous
<1>6. RubricsExist' /\ CriteriaFollow'
  BY <1>1 DEF RubricsExist, CriteriaFollow
<1>7. KnowsPredecessor'
  BY <1>1, <1>2 DEF KnowsPredecessor
<1>8. HolderIsAhead'
  BY <1>1, <1>2 DEF HolderIsAhead, Open
<1> QED
  BY <1>1, <1>5, <1>6, <1>7, <1>8 DEF Points

----------------------------------------------------------------------------
(* The whole invariant.                                                    *)

\* Each request's step keeps the rows and all who read them.
LEMMA RequestKeeps ==
    ASSUME IInv, NEW p \in Requests,
           \/ CreateRubric(p) \/ PublishStep(p) \/ RequestFails(p)
           \/ \E r \in Requests : PublishFindsRubric(p, r)
    PROVE  IInv'
<1>1. WritesInv
  BY DEF IInv, TypeOK, WritesInv
<1>2. WritesInv'
  BY <1>1, CreateKeeps, FindKeeps, ReadKeeps, InsertKeeps, OthersKeep, CommitKeeps
     DEF PublishStep
<1>3. UNCHANGED <<reads, eval>>
  BY DEF PublishStep, CreateRubric, ReadsLatest, InsertVersion, InsertCriteria,
         Commits, RequestFails, PublishFindsRubric
<1>4. /\ ReadersFollow' /\ ReadersSeeWholeVersions'
      /\ EvaluationsFollow' /\ PinnedVersionIsFresh'
  BY <1>3, RequestsGrow, ReadsKept
<1>5. TypeOK'
  BY <1>2, <1>3 DEF IInv, TypeOK, WritesInv, reads
<1> QED
  BY <1>2, <1>4, <1>5 DEF IInv, WritesInv

\* A step that only reads keeps the rows.
LEMMA WritesFrame ==
    WritesInv /\ UNCHANGED writes => WritesInv'
<1> SUFFICES ASSUME WritesInv, UNCHANGED writes PROVE WritesInv'
  OBVIOUS
<1>1. \A r : VersionsOf(r)' = VersionsOf(r)
  BY DEF writes, VersionsOf
<1> QED
  BY <1>1 DEF writes, WritesInv, VersionsAreContiguous, RubricsExist,
     KnowsPredecessor, HolderIsAhead, CriteriaFollow

\* Every step preserves the invariant.
LEMMA NextIInv == IInv /\ [Next]_vars => IInv'
<1> SUFFICES ASSUME IInv, [Next]_vars PROVE IInv'
  OBVIOUS
<1>1. WritesInv
  BY DEF IInv, TypeOK, WritesInv
<1>2. ASSUME UNCHANGED writes, ReadersFollow', ReadersSeeWholeVersions',
             EvaluationsFollow', PinnedVersionIsFresh', TypeOK'
      PROVE  IInv'
  BY <1>1, <1>2, WritesFrame DEF IInv, WritesInv
<1>3. ASSUME NEW g \in Readers, NEW p \in Requests,
             ReadVersions(g, p) \/ ReadCriteria(g, p)
      PROVE  IInv'
  <2> USE <1>3 DEF IInv, ReadVersions, ReadCriteria, writes
  <2>1. ReadersFollow' /\ ReadersSeeWholeVersions'
    <3>1. CASE ReadVersions(g, p)
      BY <3>1 DEF TypeOK, ReadersFollow, ReadersSeeWholeVersions, VersionsOf
    <3>2. CASE ReadCriteria(g, p)
      BY <3>2 DEF TypeOK, ReadersFollow, ReadersSeeWholeVersions, CriteriaFollow
    <3> QED
      BY <3>1, <3>2
  <2>2. EvaluationsFollow' /\ PinnedVersionIsFresh'
    BY DEF EvaluationsFollow, PinnedVersionIsFresh, VersionsOf
  <2>3. TypeOK'
    BY DEF TypeOK, VersionsOf
  <2> QED
    BY <1>2, <2>1, <2>2, <2>3
<1>4. ASSUME NEW e \in Evaluations,
             \/ \E r \in Requests : StartBegins(e, r)
             \/ StartReadsLatest(e) \/ StartCreates(e)
      PROVE  IInv'
  <2> USE <1>4, NullAssumption
      DEF IInv, StartBegins, StartReadsLatest, StartCreates, writes
  <2>1. ReadersFollow' /\ ReadersSeeWholeVersions'
    BY DEF reads, ReadersFollow, ReadersSeeWholeVersions
  <2>2. EvaluationsFollow'
    BY DEF TypeOK, EvaluationsFollow, VersionsOf
  <2>3. PinnedVersionIsFresh'
    BY DEF TypeOK, EvaluationsFollow, PinnedVersionIsFresh, VersionsOf, IsLatest,
           CriteriaFollow
  <2>4. TypeOK'
    BY DEF TypeOK, VersionsOf, reads
  <2> QED
    BY <1>2, <2>1, <2>2, <2>3, <2>4
<1>5. CASE UNCHANGED vars
  <2> USE <1>5 DEF vars, IInv
  <2>1. ReadersFollow' /\ ReadersSeeWholeVersions' /\ TypeOK'
    BY DEF ReadersFollow, ReadersSeeWholeVersions, TypeOK
  <2>2. EvaluationsFollow' /\ PinnedVersionIsFresh'
    BY DEF EvaluationsFollow, PinnedVersionIsFresh, VersionsOf
  <2> QED
    BY <1>2, <2>1, <2>2 DEF writes
<1> QED
  BY <1>3, <1>4, <1>5, RequestKeeps DEF Next

\* The invariant holds in every reachable state, whatever overlaps.
THEOREM Invariance == Spec => []IInv
  BY InitIInv, NextIInv, PTL DEF Spec

\* TypeOK: in particular, a publish that failed leaves no criteria behind.
THEOREM TypeCorrect == Spec => []TypeOK
  BY Invariance, PTL DEF IInv

\* VersionsAreContiguous: the versions of a rubric are 1, 2, ... without a gap
\* or a repeat, for any number of overlapping publishes.
THEOREM ContiguousCorrect == Spec => []VersionsAreContiguous
  BY Invariance, PTL DEF IInv

\* ReadersSeeWholeVersions: no reader finds a version without its criteria.
THEOREM ReadersCorrect == Spec => []ReadersSeeWholeVersions
  BY Invariance, PTL DEF IInv

\* PinnedVersionIsFresh: an evaluation pins a whole version of its rubric that
\* is no older than what its client had been told of.
THEOREM PinCorrect == Spec => []PinnedVersionIsFresh
  BY Invariance, PTL DEF IInv

\* PublishBecomesLatest: commit order is version order.
THEOREM LatestCorrect == Spec => PublishBecomesLatest
<1>1. IInv /\ [Next]_vars
        => [\A p \in published' \ published :
              \A q \in published : rubric[q] = rubric'[p] => number[q] < number'[p]]_vars
  <2> SUFFICES ASSUME IInv, Next, NEW p \in published' \ published,
                      NEW q \in published, rubric[q] = rubric'[p]
               PROVE  number[q] < number'[p]
    OBVIOUS
  <2>1. CASE \E c \in Requests : CreateRubric(c)
    <3>1. rubric[q] = p /\ p \notin published
      BY <2>1 DEF IInv, TypeOK, CreateRubric
    <3> QED
      BY <3>1, NullAssumption DEF IInv, TypeOK, RubricsExist
  <2>2. CASE \E c \in Requests : Commits(c)
    <3>1. /\ at[p] = "filled" /\ p \in Requests
          /\ UNCHANGED <<rubric, number>>
      BY <2>2 DEF Commits
    <3> QED
      BY <3>1 DEF IInv, HolderIsAhead, Open, VersionsOf
  <2>3. CASE UNCHANGED published
    BY <2>3
  <2> QED
    BY <2>1, <2>2, <2>3
       DEF Next, PublishStep, ReadsLatest, InsertVersion, InsertCriteria,
           RequestFails, PublishFindsRubric, ReadVersions, ReadCriteria,
           StartBegins, StartReadsLatest, StartCreates, writes
<1> QED
  BY <1>1, Invariance, PTL DEF Spec, PublishBecomesLatest

----------------------------------------------------------------------------
(* The refinement of VersionLog.                                           *)

LogRow(p) == [rubric |-> rubric[p], number |-> number[p], by |-> p]

\* What is published keeps its row.
LEMMA RowsKept ==
    ASSUME Grows, NEW p \in published
    PROVE  LogRow(p)' = LogRow(p)
  BY DEF Grows, LogRow

\* A step that publishes nothing leaves the log alone.
LEMMA LogKept ==
    ASSUME Grows, published' = published
    PROVE  Versions' = Versions
<1>1. Versions = {LogRow(p) : p \in published} /\ Versions' = {LogRow(p)' : p \in published}
  BY DEF Versions, LogRow
<1> QED
  BY <1>1, RowsKept

\* One that publishes p adds its row.
LEMMA LogGrows ==
    ASSUME Grows, NEW p, published' = published \cup {p}
    PROVE  Versions' = Versions \cup {LogRow(p)'}
<1>1. /\ Versions = {LogRow(q) : q \in published}
      /\ Versions' = {LogRow(q)' : q \in published \cup {p}}
  BY DEF Versions, LogRow
<1> QED
  BY <1>1, RowsKept

\* A pinned version is published, so a pin keeps its row.
LEMMA PinsKept ==
    ASSUME IInv, Grows, UNCHANGED eval
    PROVE  Pinned' = Pinned
<1>1. ASSUME NEW e \in Evaluations, eval[e].pin # Null
      PROVE  LogRow(eval[e].pin)' = LogRow(eval[e].pin)
  BY <1>1, RowsKept DEF IInv, PinnedVersionIsFresh
<1>2. /\ Pinned = [e \in Evaluations |->
                      IF eval[e].pin = Null THEN Null ELSE LogRow(eval[e].pin)]
      /\ Pinned' = [e \in Evaluations |->
                      IF eval[e].pin = Null THEN Null ELSE LogRow(eval[e].pin)']
  BY DEF Pinned, LogRow
<1> QED
  BY <1>1, <1>2

\* The version a rubric's query finds is the latest of the log.
LEMMA LatestInLog ==
    ASSUME NEW p, IsLatest(p)
    PROVE  LogRow(p) \in Versions /\ Log!Latest(LogRow(p))
  BY DEF IsLatest, VersionsOf, Versions, LogRow, Log!Latest

\* A creation is a Create of the log.
LEMMA CreateRefines ==
    ASSUME IInv, NEW p \in Requests, CreateRubric(p)
    PROVE  Log!Create(p)
<1>1. Grows
  BY RequestsGrow
<1>2. LogRow(p)' = Log!Version(p, 1, p)
  BY DEF CreateRubric, IInv, TypeOK, LogRow, Log!Version
<1>3. Versions' = Versions \cup {Log!Version(p, 1, p)}
  BY <1>1, <1>2, LogGrows DEF CreateRubric
<1>4. p \notin published
  BY DEF CreateRubric, IInv, TypeOK
<1>5. \A q \in published : rubric[q] # p
  BY <1>4, NullAssumption DEF IInv, TypeOK, RubricsExist
<1>6. \A v \in Versions : v.rubric # p
  BY <1>5 DEF Versions
<1>7. Pinned' = Pinned
  BY <1>1, PinsKept DEF CreateRubric
<1> QED
  BY <1>3, <1>6, <1>7 DEF Log!Create

\* A commit is a Publish of the log: the version its transaction read below its
\* own is still the latest.
LEMMA CommitRefines ==
    ASSUME IInv, NEW p \in Requests, Commits(p)
    PROVE  Log!Next
<1>1. Grows
  BY RequestsGrow DEF PublishStep
<1>2. PICK q \in VersionsOf(rubric[p]) : number[p] = number[q] + 1
  BY DEF Commits, IInv, KnowsPredecessor
<1>3. \A r \in VersionsOf(rubric[p]) : number[r] < number[p]
  BY DEF Commits, IInv, HolderIsAhead, Open
<1>4. /\ q \in published /\ rubric[q] = rubric[p]
      /\ \A r \in published : number[r] \in Nat
  BY <1>2 DEF VersionsOf, IInv, TypeOK
<1>5. IsLatest(q)
  BY <1>2, <1>3, <1>4 DEF IsLatest, VersionsOf
<1>6. LogRow(p)' = Log!Version(LogRow(q).rubric, LogRow(q).number + 1, p)
  BY <1>2, <1>4 DEF Commits, LogRow, Log!Version
<1>7. Versions' = Versions \cup {Log!Version(LogRow(q).rubric, LogRow(q).number + 1, p)}
  BY <1>1, <1>6, LogGrows DEF Commits
<1>8. Pinned' = Pinned
  BY <1>1, PinsKept DEF Commits
<1>9. LogRow(q) \in Versions /\ Log!Publish(p, LogRow(q))
  BY <1>5, <1>7, <1>8, LatestInLog DEF Log!Publish
<1> QED
  BY <1>9 DEF Log!Next

\* What the start of an evaluation reads is a Pin of the log.
LEMMA PinRefines ==
    ASSUME IInv, NEW e \in Evaluations, StartReadsLatest(e)
    PROVE  Log!Next
<1>1. PICK p \in VersionsOf(eval[e].on) :
         /\ IsLatest(p)
         /\ eval' = [eval EXCEPT ![e].at = "read", ![e].pin = p]
  BY DEF StartReadsLatest
<1>2. UNCHANGED writes /\ p \in Requests /\ eval[e].at = "begun"
  BY <1>1 DEF StartReadsLatest, VersionsOf, IInv, TypeOK
<1>3. Versions' = Versions
  BY <1>2 DEF writes, Versions
<1>4. Pinned = [f \in Evaluations |->
                   IF eval[f].pin = Null THEN Null ELSE LogRow(eval[f].pin)]
  BY DEF Pinned, LogRow
<1>5. Pinned' = [f \in Evaluations |->
                   IF eval'[f].pin = Null THEN Null ELSE LogRow(eval'[f].pin)]
  BY <1>2 DEF Pinned, LogRow, writes
<1>6. eval[e].pin = Null
  BY <1>2 DEF IInv, EvaluationsFollow
<1>7. /\ eval'[e].pin = p
      /\ \A f \in Evaluations : f # e => eval'[f].pin = eval[f].pin
  BY <1>1 DEF IInv, TypeOK
<1>8. Pinned[e] = Null
  BY <1>4, <1>6
<1>9. Pinned' = [Pinned EXCEPT ![e] = LogRow(p)]
  BY <1>2, <1>4, <1>5, <1>7, NullAssumption
<1>10. LogRow(p) \in Versions /\ Log!Pin(e, LogRow(p))
  BY <1>1, <1>3, <1>8, <1>9, LatestInLog DEF Log!Pin
<1> QED
  BY <1>10 DEF Log!Next

\* Every step is a step of the log or leaves it alone.
LEMMA NextRefines ==
    ASSUME IInv, [Next]_vars
    PROVE  [Log!Next]_Log!vars
<1>1. ASSUME Grows, published' = published, UNCHANGED eval
      PROVE  UNCHANGED Log!vars
  BY <1>1, LogKept, PinsKept DEF Log!vars
<1>2. ASSUME UNCHANGED writes PROVE Grows /\ published' = published
  BY <1>2 DEF writes, Grows
<1>3. CASE \E p \in Requests : CreateRubric(p)
  BY <1>3, CreateRefines DEF Log!Next
<1>4. CASE \E p \in Requests : Commits(p)
  BY <1>4, CommitRefines
<1>5. ASSUME NEW p \in Requests,
             \/ ReadsLatest(p) \/ InsertVersion(p) \/ InsertCriteria(p)
             \/ RequestFails(p) \/ \E r \in Requests : PublishFindsRubric(p, r)
      PROVE  UNCHANGED Log!vars
  <2>1. Grows
    BY <1>5, RequestsGrow DEF PublishStep
  <2>2. published' = published /\ UNCHANGED eval
    BY <1>5 DEF ReadsLatest, InsertVersion, InsertCriteria, RequestFails,
                PublishFindsRubric
  <2> QED
    BY <1>1, <2>1, <2>2
<1>6. CASE \E g \in Readers, p \in Requests : ReadVersions(g, p) \/ ReadCriteria(g, p)
  BY <1>1, <1>2, <1>6 DEF ReadVersions, ReadCriteria
<1>7. CASE \E e \in Evaluations : StartReadsLatest(e)
  BY <1>7, PinRefines
<1>8. ASSUME NEW e \in Evaluations,
             (\E r \in Requests : StartBegins(e, r)) \/ StartCreates(e)
      PROVE  UNCHANGED Log!vars
  <2>1. Versions' = Versions
    BY <1>8 DEF StartBegins, StartCreates, writes, Versions
  <2>2. eval[e].at = "idle" => eval[e].pin = Null
    BY DEF IInv, EvaluationsFollow
  <2>3. \A f \in Evaluations : eval'[f].pin = eval[f].pin
    BY <1>8, <2>2 DEF StartBegins, StartCreates, IInv, TypeOK
  <2>4. Pinned' = Pinned
    BY <1>8, <2>3 DEF Pinned, StartBegins, StartCreates, writes
  <2> QED
    BY <2>1, <2>4 DEF Log!vars
<1>9. CASE UNCHANGED vars
  BY <1>1, <1>2, <1>9 DEF vars, writes
<1> QED
  BY <1>3, <1>4, <1>5, <1>6, <1>7, <1>8, <1>9 DEF Next, PublishStep

\* ImplementsVersionLog: the statements of any number of overlapping creations,
\* publishes and starts implement the abstract log of versions.
THEOREM VersionLogCorrect == Spec => ImplementsVersionLog
<1>1. Init => Log!Init
  BY DEF Init, NotStarted, Log!Init, Versions, Pinned
<1>2. IInv /\ [Next]_vars => [Log!Next]_Log!vars
  BY NextRefines
<1> QED
  BY <1>1, <1>2, Invariance, PTL DEF Spec, ImplementsVersionLog, Log!Spec

----------------------------------------------------------------------------
(* The criteria of a version.                                              *)

\* Rounding to hundredths is off by half a hundredth at most.
LEMMA RoundingIsClose ==
    ASSUME NEW w \in Int, w > 0
    PROVE  /\ Hundredths(w) \in Nat
           /\ 10 * Hundredths(w) - w \in -4..5
    BY DEF Hundredths

\* A rounded weight is 0 below half a hundredth, and too large for its column
\* from the value that rounds to 1000.00.
LEMMA RoundingAtTheEdges ==
    ASSUME NEW w \in Int, w > 0
    PROVE  /\ Hundredths(w) = 0 <=> w < 5
           /\ Hundredths(w) < 100000 <=> w < 999995
    BY RoundingIsClose DEF Hundredths

\* Rounding keeps the order of two weights.
LEMMA RoundingIsMonotonic ==
    ASSUME NEW v \in Int, NEW w \in Int, v > 0, v <= w
    PROVE  Hundredths(v) <= Hundredths(w)
    <1>1. 10 * Hundredths(v) - v \in -4..5 /\ 10 * Hundredths(w) - w \in -4..5
        BY RoundingIsClose
    <1>2. Hundredths(v) \in Int /\ Hundredths(w) \in Int
        BY RoundingIsClose
    <1> QED BY <1>1, <1>2 DEF Hundredths

\* The criteria of a parsed body have integer bounds, defaults included.
LEMMA ParsedHasBounds ==
    ASSUME NEW body \in Bodies
    PROVE  /\ DOMAIN Parsed(body) = DOMAIN body
           /\ \A i \in DOMAIN body :
                 /\ Parsed(body)[i].key \in Keys
                 /\ Parsed(body)[i].weight \in Int
                 /\ Parsed(body)[i].scaleMin \in Int
                 /\ Parsed(body)[i].scaleMax \in Int
    <1>1. body \in Seq(Criteria)
        BY BodiesAssumption
    <1>2. ASSUME NEW i \in DOMAIN body
          PROVE  body[i] \in Criteria
        BY <1>1
    <1>3. ASSUME NEW bound \in Scales, NEW default \in Int
          PROVE  OrDefault(bound, default) \in Int
        BY DEF OrDefault, Scales
    <1>4. ASSUME NEW i \in DOMAIN body
          PROVE  /\ Parsed(body)[i].key \in Keys
                 /\ Parsed(body)[i].weight \in Int
                 /\ Parsed(body)[i].scaleMin \in Int
                 /\ Parsed(body)[i].scaleMax \in Int
        <2>1. Parsed(body)[i] = CriterionInput(body[i])
            BY <1>4 DEF Parsed
        <2> QED BY <1>2, <1>3, <1>4, <2>1 DEF CriterionInput, Criteria
    <1> QED BY <1>4 DEF Parsed

\* The columns hold a row exactly when nothing in its criterion is too large.
LEMMA FitsUnlessOversize ==
    ASSUME NEW c \in [key : Keys, weight : Int, scaleMin : Int, scaleMax : Int],
           c.weight > 0, c.scaleMin < c.scaleMax
    PROVE  Fits(Row(c)) <=> ~ Oversize(c)
    <1>1. /\ Row(c).weight = Hundredths(c.weight)
          /\ Row(c).scaleMin = c.scaleMin /\ Row(c).scaleMax = c.scaleMax
        BY DEF Row
    <1>2. Hundredths(c.weight) < 100000 <=> c.weight < 999995
        BY RoundingAtTheEdges
    <1> QED BY <1>1, <1>2, IntegerAssumption DEF Fits, Oversize

\* An answer tells whether the list passed the checks and the table took it.
LEMMA AnswerTells ==
    ASSUME NEW body
    PROVE  /\ Answer(body) = 500 => /\ Parses(body) /\ AssertCriteria(Parsed(body))
                                   /\ ~ Insertable(Rows(Parsed(body)))
           /\ Answer(body) = 201 => /\ Parses(body) /\ AssertCriteria(Parsed(body))
                                   /\ Insertable(Rows(Parsed(body)))
    BY DEF Answer

\* A list that passed the checks has one row per key, and each row is its
\* criterion with the weight rounded.
LEMMA CheckedRows ==
    ASSUME NEW body \in Bodies, Parses(body), AssertCriteria(Parsed(body)),
           NEW sent, NEW rows, sent = Parsed(body), rows = Rows(sent)
    PROVE  /\ DOMAIN rows = DOMAIN sent
           /\ OneRowPerKey(rows)
           /\ \A i \in DOMAIN sent :
                 /\ Fits(rows[i]) <=> ~ Oversize(sent[i])
                 /\ rows[i].scaleMin < rows[i].scaleMax
                 /\ 10 * rows[i].weight - sent[i].weight \in -4..5
                 /\ rows[i].weight = 0 <=> sent[i].weight < 5
           /\ \A i, j \in DOMAIN sent :
                 sent[i].weight <= sent[j].weight => rows[i].weight <= rows[j].weight
    <1>1. \A i \in DOMAIN sent :
             /\ sent[i] \in [key : Keys, weight : Int, scaleMin : Int, scaleMax : Int]
             /\ sent[i].weight > 0 /\ sent[i].scaleMin < sent[i].scaleMax
        <2>1. \A i \in DOMAIN sent : sent[i] = CriterionInput(body[i])
            BY DEF Parsed
        <2> QED BY <2>1, ParsedHasBounds DEF CriterionInput, AssertCriteria
    <1>2. /\ DOMAIN rows = DOMAIN sent
          /\ \A i \in DOMAIN sent : rows[i] = Row(sent[i])
        BY DEF Rows
    <1>3. \A i \in DOMAIN sent : /\ rows[i].key = sent[i].key
                                 /\ rows[i].weight = Hundredths(sent[i].weight)
                                 /\ rows[i].scaleMin = sent[i].scaleMin
                                 /\ rows[i].scaleMax = sent[i].scaleMax
        BY <1>1, <1>2 DEF Row
    <1>4. OneRowPerKey(rows)
        BY <1>2, <1>3 DEF AssertCriteria, OneRowPerKey
    <1>5. \A i \in DOMAIN sent :
             /\ Fits(rows[i]) <=> ~ Oversize(sent[i])
             /\ rows[i].scaleMin < rows[i].scaleMax
             /\ 10 * rows[i].weight - sent[i].weight \in -4..5
             /\ rows[i].weight = 0 <=> sent[i].weight < 5
        <2> SUFFICES ASSUME NEW i \in DOMAIN sent
                     PROVE  /\ Fits(rows[i]) <=> ~ Oversize(sent[i])
                            /\ rows[i].scaleMin < rows[i].scaleMax
                            /\ 10 * rows[i].weight - sent[i].weight \in -4..5
                            /\ rows[i].weight = 0 <=> sent[i].weight < 5
            OBVIOUS
        <2>1. Fits(rows[i]) <=> ~ Oversize(sent[i])
            BY <1>1, <1>2, FitsUnlessOversize
        <2>2. sent[i].weight \in Int /\ sent[i].weight > 0
            BY <1>1
        <2> QED BY <1>1, <1>3, <2>1, <2>2, RoundingIsClose, RoundingAtTheEdges
    <1>6. \A i, j \in DOMAIN sent :
             sent[i].weight <= sent[j].weight => rows[i].weight <= rows[j].weight
        BY <1>1, <1>3, RoundingIsMonotonic
    <1> QED BY <1>2, <1>4, <1>5, <1>6

\* The checks of the service and the constraints of the table agree on every
\* list of criteria, and what is stored is what was sent, rounded.
THEOREM CriteriaCorrect == CheckedCriteriaAreStored
    <1> SUFFICES ASSUME NEW body \in Bodies
                 PROVE  LET sent == Parsed(body)
                            rows == Rows(sent) IN
                        /\ Answer(body) = 500 => \E i \in DOMAIN sent : Oversize(sent[i])
                        /\ Answer(body) = 201 =>
                              /\ OneRowPerKey(rows)
                              /\ \A i \in DOMAIN sent :
                                    /\ ~ Oversize(sent[i])
                                    /\ rows[i].scaleMin < rows[i].scaleMax
                                    /\ 10 * rows[i].weight - sent[i].weight \in -4..5
                                    /\ rows[i].weight = 0 <=> sent[i].weight < 5
                              /\ \A i, j \in DOMAIN sent :
                                    sent[i].weight <= sent[j].weight =>
                                        rows[i].weight <= rows[j].weight
        BY DEF CheckedCriteriaAreStored
    <1> DEFINE sent == Parsed(body)
               rows == Rows(sent)
    <1>1. CASE Answer(body) = 500
        <2>1. ~ Insertable(rows) /\ Parses(body) /\ AssertCriteria(Parsed(body))
            BY <1>1, AnswerTells
        <2>2. /\ DOMAIN rows = DOMAIN sent /\ OneRowPerKey(rows)
              /\ \A i \in DOMAIN sent : Fits(rows[i]) <=> ~ Oversize(sent[i])
            BY <2>1, CheckedRows
        <2>3. \E i \in DOMAIN sent : Oversize(sent[i])
            BY <2>1, <2>2 DEF Insertable
        <2> QED BY <1>1, <2>3
    <1>2. CASE Answer(body) = 201
        <2>1. Insertable(rows) /\ Parses(body) /\ AssertCriteria(Parsed(body))
            BY <1>2, AnswerTells
        <2>2. DOMAIN rows = DOMAIN sent /\ \A i \in DOMAIN rows : Fits(rows[i])
            BY <2>1, CheckedRows DEF Insertable
        <2>3. /\ OneRowPerKey(rows)
              /\ \A i \in DOMAIN sent :
                    /\ Fits(rows[i]) <=> ~ Oversize(sent[i])
                    /\ rows[i].scaleMin < rows[i].scaleMax
                    /\ 10 * rows[i].weight - sent[i].weight \in -4..5
                    /\ rows[i].weight = 0 <=> sent[i].weight < 5
              /\ \A i, j \in DOMAIN sent :
                    sent[i].weight <= sent[j].weight => rows[i].weight <= rows[j].weight
            BY <2>1, CheckedRows
        <2>4. \A i \in DOMAIN sent : ~ Oversize(sent[i])
            BY <2>2, <2>3
        <2>5. Answer(body) # 500
            BY <1>2
        <2> QED BY <2>3, <2>4, <2>5
    <1>3. CASE Answer(body) \notin {201, 500}
        BY <1>3
    <1> QED BY <1>1, <1>2, <1>3
=============================================================================
