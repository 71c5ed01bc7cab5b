----------------------- MODULE EvaluationTransactions -----------------------
(***************************************************************************)
(* The transactions of evaluationRepository.ts, statement by statement, as *)
(* PostgreSQL runs them at READ COMMITTED: BEGIN fixes now(), the default  *)
(* of evaluation_events.occurred_at; the UPDATE takes the row's lock or    *)
(* waits for it; the event draws the next serial id when it is inserted;   *)
(* everything becomes visible at the COMMIT.                               *)
(*                                                                         *)
(* EvaluationPipeline takes such a transaction as one step.  This module   *)
(* justifies that (it implements the same abstract EvaluationLifecycle)    *)
(* and adds what only shows between the statements: the order in which     *)
(* listHistory returns the events, and transactions that wait.             *)
(*                                                                         *)
(* The database's clock may stand still between two transactions but is    *)
(* never set back.                                                         *)
(***************************************************************************)
EXTENDS EvaluationStateMachine, Naturals, Sequences

CONSTANTS Evaluations,
          Users,         \* requests that create or cancel, one of each user
          Slots,         \* worker slots that run the automated checks
          Report,        \* the result of runStaticChecks
          Null,          \* SQL NULL
          MaxTime,       \* bound on the clock
          MaxLostIds     \* bound on the ids drawn when an insert is undone

ASSUME BoundsAssumption == MaxTime \in Nat /\ MaxLostIds \in Nat

ASSUME NullAssumption ==
    /\ Null \notin EvaluationStatuses \cup Evaluations \cup Users \cup Slots
    /\ Report # Null

ASSUME CallersAssumption == Users \cap Slots = {}

VARIABLES
    status, results,     \* the committed row
    log,                 \* its committed events, in the order of the commits
    lock,                \* lock[e]: the caller whose transaction wrote the row
    lastId,              \* the sequence behind evaluation_events.id
    now,                 \* the database's clock
    call                 \* call[c]: the repository call of c and its transaction

rows == <<status, results, log>>
vars == <<status, results, log, lock, lastId, now, call>>

Callers == Users \cup Slots

\* A call is decided, then its transaction is open, has written the row, has
\* inserted the event.
Points == {"idle", "decided", "open", "written", "logged"}

Idle == [at |-> "idle", on |-> Null, from |-> Null, to |-> Null,
         stamp |-> 0, id |-> 0]

Actor(c) == IF c \in Users THEN c ELSE Null

Event(c) == [from |-> call[c].from, to |-> call[c].to, actor |-> Actor(c),
             occurredAt |-> call[c].stamp, id |-> call[c].id]

InTransaction(c) == call[c].at \in {"open", "written", "logged"}

----------------------------------------------------------------------------
Init ==
    /\ status = [e \in Evaluations |-> Null]
    /\ results = [e \in Evaluations |-> Null]
    /\ log = [e \in Evaluations |-> <<>>]
    /\ lock = [e \in Evaluations |-> Null]
    /\ lastId = 0
    /\ now = 0
    /\ call = [c \in Callers |-> Idle]

Tick ==
    /\ now < MaxTime
    /\ now' = now + 1
    /\ UNCHANGED <<rows, lock, lastId, call>>

----------------------------------------------------------------------------
(* What the service decides before it calls the repository.                *)

Decided(e, from, to) ==
    [Idle EXCEPT !.at = "decided", !.on = e, !.from = from, !.to = to]

Decides(c, e, from, to) ==
    /\ call[c].at = "idle"
    /\ call' = [call EXCEPT ![c] = Decided(e, from, to)]
    /\ UNCHANGED <<rows, lock, lastId, now>>

\* startEvaluation: the row gets an id of its own.
DecideCreate(u, e) ==
    /\ status[e] = Null
    /\ \A c \in Callers : call[c].on # e
    /\ Decides(u, e, Null, "PENDING")

\* cancel: findById, assertTransition.
DecideCancel(u, e) ==
    /\ status[e] # Null
    /\ CanTransition(status[e], "CANCELLED")
    /\ Decides(u, e, status[e], "CANCELLED")

\* runAutomatedChecks: findById; anything past the checks is a no-op.
DecideChecks(w, e) ==
    \/ status[e] = "PENDING" /\ Decides(w, e, "PENDING", "RUNNING_CHECKS")
    \/ status[e] = "RUNNING_CHECKS"
         /\ Decides(w, e, "RUNNING_CHECKS", "AWAITING_REVIEW")

----------------------------------------------------------------------------
(* The transaction.                                                        *)

Begin(c) ==
    /\ call[c].at = "decided"
    /\ call' = [call EXCEPT ![c] = [@ EXCEPT !.at = "open", !.stamp = now]]
    /\ UNCHANGED <<rows, lock, lastId, now>>

\* The UPDATE without its "AND status = from".
WriteUnguarded(c) ==
    /\ call[c].at = "open"
    /\ lock[call[c].on] = Null
    /\ lock' = [lock EXCEPT ![call[c].on] = c]
    /\ call' = [call EXCEPT ![c].at = "written"]
    /\ UNCHANGED <<rows, lastId, now>>

\* UPDATE ... WHERE id AND status = from, or the INSERT of the row.  A row that
\* matches and is locked is waited for, and then matched again.
Write(c) ==
    /\ call[c].at = "open"
    /\ status[call[c].on] = call[c].from
    /\ lock[call[c].on] = Null
    /\ lock' = [lock EXCEPT ![call[c].on] = c]
    /\ call' = [call EXCEPT ![c].at = "written"]
    /\ UNCHANGED <<rows, lastId, now>>

\* No row matches: ConflictError, and the transaction rolls back.
Conflicts(c) ==
    /\ call[c].at = "open"
    /\ status[call[c].on] # call[c].from
    /\ call' = [call EXCEPT ![c] = Idle]
    /\ UNCHANGED <<rows, lock, lastId, now>>

LogEvent(c) ==
    /\ call[c].at = "written"
    /\ lastId' = lastId + 1
    /\ call' = [call EXCEPT ![c] = [@ EXCEPT !.at = "logged", !.id = lastId + 1]]
    /\ UNCHANGED <<rows, lock, now>>

\* runAutomatedChecks goes on to its second transition.
Continues(c) ==
    IF call[c].to = "RUNNING_CHECKS"
    THEN Decided(call[c].on, "RUNNING_CHECKS", "AWAITING_REVIEW")
    ELSE Idle

\* The answer of the commit may be lost, and then the handler throws.
Commit(c) ==
    /\ call[c].at = "logged"
    /\ LET e == call[c].on IN
       /\ status' = [status EXCEPT ![e] = call[c].to]
       /\ results' = IF call[c].to = "AWAITING_REVIEW"
                     THEN [results EXCEPT ![e] = Report]
                     ELSE results
       /\ log' = [log EXCEPT ![e] = Append(@, Event(c))]
       /\ lock' = [lock EXCEPT ![e] = Null]
    /\ \E next \in {Continues(c), Idle} : call' = [call EXCEPT ![c] = next]
    /\ UNCHANGED <<lastId, now>>

\* A failed statement whose connection goes back to the pool without ROLLBACK.
FailsHoldingTheRow(c) ==
    /\ call[c].at # "idle"
    /\ call[c].at = "logged" => lastId <= MaxLostIds
    /\ call' = [call EXCEPT ![c] = Idle]
    /\ UNCHANGED <<rows, lock, lastId, now>>

\* A statement fails, the connection is lost or the process dies: the
\* transaction rolls back, and an id it drew is never used.
Fails(c) ==
    /\ call[c].at # "idle"
    /\ call[c].at = "logged" => lastId <= MaxLostIds
    /\ call' = [call EXCEPT ![c] = Idle]
    /\ lock' = [e \in Evaluations |-> IF lock[e] = c THEN Null ELSE lock[e]]
    /\ UNCHANGED <<rows, lastId, now>>

Statement(c) ==
    Begin(c) \/ Write(c) \/ Conflicts(c) \/ LogEvent(c) \/ Commit(c)

Next ==
    \/ Tick
    \/ \E u \in Users, e \in Evaluations : DecideCreate(u, e) \/ DecideCancel(u, e)
    \/ \E w \in Slots, e \in Evaluations : DecideChecks(w, e)
    \/ \E c \in Callers : Statement(c) \/ Fails(c)

Spec == Init /\ [][Next]_vars

\* A transaction goes on by itself.  Strong fairness, because the lock of a row
\* is granted to those who wait for it in turn, whatever others do meanwhile.
FairSpec == Spec /\ \A c \in Callers : SF_vars(Statement(c))

----------------------------------------------------------------------------
(* listHistory, ORDER BY occurred_at ASC, id ASC.                          *)

\* ORDER BY occurred_at alone.
PrecedesByTime(a, b) == a.occurredAt < b.occurredAt

Precedes(a, b) ==
    \/ a.occurredAt < b.occurredAt
    \/ a.occurredAt = b.occurredAt /\ a.id < b.id

Listed(h) ==
    [i \in 1..Len(h) |-> [from |-> h[i].from, to |-> h[i].to, actor |-> h[i].actor]]

Listing == [e \in Evaluations |-> Listed(log[e])]

----------------------------------------------------------------------------
(* Properties.                                                             *)

Calls == [at : Points, on : Evaluations \cup {Null},
          from : EvaluationStatuses \cup {Null},
          to : EvaluationStatuses \cup {Null}, stamp : 0..MaxTime, id : Nat]

LoggedEvents == [from : EvaluationStatuses \cup {Null}, to : EvaluationStatuses,
                 actor : Users \cup {Null}, occurredAt : 0..MaxTime, id : Nat]

\* Every variable keeps its type, and the lock of a row belongs to the one
\* transaction that wrote it: one that ended, however it ended, holds nothing.
TypeOK ==
    /\ status \in [Evaluations -> EvaluationStatuses \cup {Null}]
    /\ results \in [Evaluations -> {Null, Report}]
    /\ log \in [Evaluations -> Seq(LoggedEvents)]
    /\ lock \in [Evaluations -> Callers \cup {Null}]
    /\ lastId \in Nat
    /\ now \in 0..MaxTime
    /\ call \in [Callers -> Calls]
    /\ \A e \in Evaluations, c \in Callers :
          lock[e] = c <=> call[c].on = e /\ call[c].at \in {"written", "logged"}

\* listHistory returns the events in the order the transitions happened,
\* although an event carries the time its transaction began and transactions
\* may overlap, wait for each other and be tied: whoever may still write has
\* read the status it starts from before its BEGIN, and no status comes back.
HistoryListsInOrder ==
    \A e \in Evaluations :
        \A i, j \in 1..Len(log[e]) : i < j => Precedes(log[e][i], log[e][j])

\* The transactions implement the abstract lifecycle: what is committed moves
\* as if each of them ran alone and in one step.
Lifecycle == INSTANCE EvaluationLifecycle WITH Actors <- Users, history <- Listing

ImplementsLifecycle == Lifecycle!Spec

\* A transaction that has begun ends: none waits for a row for ever.
TransactionsEnd ==
    \A c \in Callers : InTransaction(c) ~> ~InTransaction(c)
=============================================================================
