------------------------ MODULE EvaluationPipeline ------------------------
(***************************************************************************)
(* From POST /evaluations to AWAITING_REVIEW: the API handler that inserts *)
(* the evaluation and then enqueues its automated-check job, the BullMQ    *)
(* queue that delivers the job at least once, the worker slots that run    *)
(* runAutomatedChecks, and the admins that cancel meanwhile.               *)
(*                                                                         *)
(* A database transaction is one step.  Between two store calls of one     *)
(* handler anything else may happen: that is where an await is.  A call to *)
(* a store may also fail, or take effect and lose its acknowledgement; a   *)
(* slot may die at any await; a lock may expire under a slot that still    *)
(* runs, so two slots may run the same job.                                *)
(***************************************************************************)
EXTENDS EvaluationStateMachine, Naturals, Sequences

CONSTANTS Evaluations,   \* one per POST /evaluations (every POST makes a row)
          Submitters,    \* users that start evaluations
          Admins,        \* users that cancel; one request of each in flight
          Workers,       \* processor slots: worker processes x concurrency
          MaxAttempts,   \* job option "attempts" (3 in the code)
          MaxStalls,     \* BullMQ maxStalledCount (its default, 1)
          Report,        \* the result of runStaticChecks on the submission
          Null           \* SQL NULL; also "no slot", "no evaluation"

ASSUME BoundsAssumption == MaxAttempts \in Nat \ {0} /\ MaxStalls \in Nat

ASSUME NullAssumption ==
    /\ Null \notin EvaluationStatuses \cup Evaluations \cup Workers
    /\ Null \notin Submitters \cup Admins
    /\ Report # Null

VARIABLES
    status, results, history,      \* PostgreSQL: the row and its events
    start,                         \* start[e]: the POST handler of e
    job, attemptsMade, stalls,     \* Redis: the job "eval:<e>:automated",
    lockOwner,                     \*   its counters and who holds its lock
    run, task,                     \* run[w]: where slot w is, on job task[w]
    cancel                         \* cancel[a]: admin a's cancel request

dbVars == <<status, results, history>>
queueVars == <<job, attemptsMade, stalls, lockOwner>>
slotVars == <<run, task>>
vars == <<status, results, history, start, job, attemptsMade, stalls,
          lockOwner, run, task, cancel>>

Users == Submitters \cup Admins

JobStates == {"none", "wait", "active", "delayed", "completed", "failed"}

\* Where a slot is: before the findById, the first or the second transition of
\* runAutomatedChecks, or with its promise settled and not yet reported.
RunPoints == {"idle", "read", "begin", "check", "returned", "threw"}

NoRequest == [at |-> "idle", on |-> Null, seen |-> Null]

----------------------------------------------------------------------------
(* evaluationRepository: each operation is one transaction.                *)

Event(from, to, actor) == [from |-> from, to |-> to, actor |-> actor]

InsertEvaluation(e, actor) ==
    /\ status[e] = Null
    /\ status' = [status EXCEPT ![e] = "PENDING"]
    /\ history' = [history EXCEPT ![e] = Append(@, Event(Null, "PENDING", actor))]
    /\ UNCHANGED results

\* The UPDATE without its "AND status = from".
UnguardedTransition(e, from, to, actor, report) ==
    /\ status' = [status EXCEPT ![e] = to]
    /\ results' = IF report = Null THEN results
                                   ELSE [results EXCEPT ![e] = report]
    /\ history' = [history EXCEPT ![e] = Append(@, Event(from, to, actor))]

\* The event insert outside the transaction, lost.
TransitionWithoutEvent(e, from, to, actor, report) ==
    /\ status[e] = from
    /\ status' = [status EXCEPT ![e] = to]
    /\ results' = IF report = Null THEN results
                                   ELSE [results EXCEPT ![e] = report]
    /\ UNCHANGED history

\* automatedResults dropped from the SET clause.
TransitionWithoutResults(e, from, to, actor, report) ==
    /\ status[e] = from
    /\ status' = [status EXCEPT ![e] = to]
    /\ history' = [history EXCEPT ![e] = Append(@, Event(from, to, actor))]
    /\ UNCHANGED results

\* UPDATE ... WHERE id = e AND status = from, and the event, in one transaction.
Transition(e, from, to, actor, report) ==
    /\ status[e] = from
    /\ status' = [status EXCEPT ![e] = to]
    /\ results' = IF report = Null THEN results
                                   ELSE [results EXCEPT ![e] = report]
    /\ history' = [history EXCEPT ![e] = Append(@, Event(from, to, actor))]

\* No row in `from`: ConflictError, and the transaction rolls back.
Conflicts(e, from) ==
    /\ status[e] # from
    /\ UNCHANGED dbVars

----------------------------------------------------------------------------
Init ==
    /\ status = [e \in Evaluations |-> Null]
    /\ results = [e \in Evaluations |-> Null]
    /\ history = [e \in Evaluations |-> <<>>]
    /\ start = [e \in Evaluations |-> "idle"]
    /\ job = [e \in Evaluations |-> "none"]
    /\ attemptsMade = [e \in Evaluations |-> 0]
    /\ stalls = [e \in Evaluations |-> 0]
    /\ lockOwner = [e \in Evaluations |-> Null]
    /\ run = [w \in Workers |-> "idle"]
    /\ task = [w \in Workers |-> Null]
    /\ cancel = [a \in Admins |-> NoRequest]

----------------------------------------------------------------------------
(* startEvaluation: POST /evaluations.  The 404 paths change nothing and   *)
(* are left out.                                                           *)

CreateEvaluation(e, u) ==
    /\ start[e] = "idle"
    /\ InsertEvaluation(e, u)
    /\ start' = [start EXCEPT ![e] = "created"]
    /\ UNCHANGED <<queueVars, slotVars, cancel>>

\* The insert fails (a 500), or commits and the answer is lost on the way.
CreateFails(e, u) ==
    /\ start[e] = "idle"
    /\ InsertEvaluation(e, u) \/ UNCHANGED dbVars
    /\ start' = [start EXCEPT ![e] = "failed"]
    /\ UNCHANGED <<queueVars, slotVars, cancel>>

\* Queue.add under a deterministic jobId: no effect if the job exists.
AddJob(e) == job' = IF job[e] = "none" THEN [job EXCEPT ![e] = "wait"] ELSE job

Enqueue(e) ==
    /\ start[e] = "created"
    /\ AddJob(e)
    /\ start' = [start EXCEPT ![e] = "accepted"]
    /\ UNCHANGED <<dbVars, attemptsMade, stalls, lockOwner, slotVars, cancel>>

\* The API process dies between its two store calls, or Queue.add fails or
\* loses its answer: the client gets a 500 and the row stays.
EnqueueFails(e) ==
    /\ start[e] = "created"
    /\ AddJob(e) \/ UNCHANGED job
    /\ start' = [start EXCEPT ![e] = "failed"]
    /\ UNCHANGED <<dbVars, attemptsMade, stalls, lockOwner, slotVars, cancel>>

----------------------------------------------------------------------------
(* The queue's side of a job: delivery, backoff, stalls.                   *)

Reserve(w, e) ==
    /\ run[w] = "idle"
    /\ job[e] = "wait"
    /\ job' = [job EXCEPT ![e] = "active"]
    /\ lockOwner' = [lockOwner EXCEPT ![e] = w]
    /\ run' = [run EXCEPT ![w] = "read"]
    /\ task' = [task EXCEPT ![w] = e]
    /\ UNCHANGED <<dbVars, start, attemptsMade, stalls, cancel>>

BackoffElapses(e) ==
    /\ job[e] = "delayed"
    /\ job' = [job EXCEPT ![e] = "wait"]
    /\ UNCHANGED <<dbVars, start, attemptsMade, stalls, lockOwner, slotVars, cancel>>

\* A job found without its lock goes back to wait, MaxStalls times, then fails.
AfterStall(stalledBefore) == IF stalledBefore < MaxStalls THEN "wait" ELSE "failed"

\* The lock of an active job expires: its slot died, or it lives and could not
\* renew the lock in time (a blocked event loop, a lost Redis connection).
LockExpires(e) ==
    /\ job[e] = "active"
    /\ lockOwner[e] # Null
    /\ job' = [job EXCEPT ![e] = AfterStall(stalls[e])]
    /\ stalls' = [stalls EXCEPT ![e] = @ + 1]
    /\ lockOwner' = [lockOwner EXCEPT ![e] = Null]
    /\ UNCHANGED <<dbVars, start, attemptsMade, slotVars, cancel>>

Frees(w) ==
    /\ run' = [run EXCEPT ![w] = "idle"]
    /\ task' = [task EXCEPT ![w] = Null]

\* The processor returned: the job completes, if this slot still holds the lock.
JobCompletes(w) ==
    /\ run[w] = "returned"
    /\ LET e == task[w] IN
       IF lockOwner[e] = w
       THEN /\ job' = [job EXCEPT ![e] = "completed"]
            /\ lockOwner' = [lockOwner EXCEPT ![e] = Null]
       ELSE UNCHANGED <<job, lockOwner>>
    /\ Frees(w)
    /\ UNCHANGED <<dbVars, start, attemptsMade, stalls, cancel>>

RetriesOnceTooOften(made) == IF made > MaxAttempts THEN "failed" ELSE "delayed"

\* After `made` attempts: back off and retry, or dead-letter (kept, removeOnFail
\* false).  worker.on('failed') logs and touches nothing else.
AfterFailure(made) == IF made < MaxAttempts THEN "delayed" ELSE "failed"

JobFails(w) ==
    /\ run[w] = "threw"
    /\ LET e == task[w] IN
       IF lockOwner[e] = w
       THEN /\ attemptsMade' = [attemptsMade EXCEPT ![e] = @ + 1]
            /\ job' = [job EXCEPT ![e] = AfterFailure(attemptsMade[e] + 1)]
            /\ lockOwner' = [lockOwner EXCEPT ![e] = Null]
       ELSE UNCHANGED <<attemptsMade, job, lockOwner>>
    /\ Frees(w)
    /\ UNCHANGED <<dbVars, start, stalls, cancel>>

\* The slot's process dies: nothing is reported, the lock stays until it expires.
SlotCrashes(w) ==
    /\ run[w] # "idle"
    /\ Frees(w)
    /\ UNCHANGED <<dbVars, start, queueVars, cancel>>

----------------------------------------------------------------------------
(* runAutomatedChecks in slot w, one action per await.                     *)

\* The resume from RUNNING_CHECKS forgotten: anything but PENDING is a no-op.
AfterReadWithoutResume(found) == IF found = "PENDING" THEN "begin" ELSE "returned"

AfterRead(found) ==
    CASE found = "PENDING"        -> "begin"
      [] found = "RUNNING_CHECKS" -> "check"
      [] OTHER                    -> "returned"

ReadEvaluation(w) ==
    /\ run[w] = "read"
    /\ run' = [run EXCEPT ![w] = AfterRead(status[task[w]])]
    /\ UNCHANGED <<dbVars, start, queueVars, task, cancel>>

\* The commit may lose its answer, and then the processor throws.
BeginChecks(w) ==
    /\ run[w] = "begin"
    /\ \/ /\ Transition(task[w], "PENDING", "RUNNING_CHECKS", Null, Null)
          /\ \E next \in {"check", "threw"} : run' = [run EXCEPT ![w] = next]
       \/ /\ Conflicts(task[w], "PENDING")
          /\ run' = [run EXCEPT ![w] = "threw"]
    /\ UNCHANGED <<start, queueVars, task, cancel>>

\* Load the submission (its row never changes), run the pure checks, record them.
CompleteChecks(w) ==
    /\ run[w] = "check"
    /\ \/ /\ Transition(task[w], "RUNNING_CHECKS", "AWAITING_REVIEW", Null, Report)
          /\ \E next \in {"returned", "threw"} : run' = [run EXCEPT ![w] = next]
       \/ /\ Conflicts(task[w], "RUNNING_CHECKS")
          /\ run' = [run EXCEPT ![w] = "threw"]
    /\ UNCHANGED <<start, queueVars, task, cancel>>

\* A run that catches the error of a database call and starts over, for as long as
\* calls fail, without giving the attempt back.
StoreFailsAndRereads(w) ==
    /\ run[w] \in {"read", "begin", "check"}
    /\ run' = [run EXCEPT ![w] = "read"]
    /\ UNCHANGED <<dbVars, start, queueVars, task, cancel>>

\* A database call of the run fails and changes nothing.
StoreFails(w) ==
    /\ run[w] \in {"read", "begin", "check"}
    /\ run' = [run EXCEPT ![w] = "threw"]
    /\ UNCHANGED <<dbVars, start, queueVars, task, cancel>>

----------------------------------------------------------------------------
(* cancel: POST /evaluations/:id/cancel, a read and a guarded write.       *)

CancelReads(a, e) ==
    /\ cancel[a].at = "idle"
    /\ status[e] # Null
    /\ CanTransition(status[e], "CANCELLED")
    /\ cancel' = [cancel EXCEPT
                    ![a] = [at |-> "decided", on |-> e, seen |-> status[e]]]
    /\ UNCHANGED <<dbVars, start, queueVars, slotVars>>

\* 200, or 500 when the answer of the commit is lost.
CancelCommits(a) ==
    /\ cancel[a].at = "decided"
    /\ Transition(cancel[a].on, cancel[a].seen, "CANCELLED", a, Null)
    /\ \E reply \in {[cancel[a] EXCEPT !.at = "ok"], NoRequest} :
          cancel' = [cancel EXCEPT ![a] = reply]
    /\ UNCHANGED <<start, queueVars, slotVars>>

\* The write failed and the handler answers 200 all the same.
CancelSwallowsConflict(a) ==
    /\ cancel[a].at = "decided"
    /\ Conflicts(cancel[a].on, cancel[a].seen)
    /\ cancel' = [cancel EXCEPT ![a].at = "ok"]
    /\ UNCHANGED <<start, queueVars, slotVars>>

\* 409: the status moved since it was read.
CancelConflicts(a) ==
    /\ cancel[a].at = "decided"
    /\ Conflicts(cancel[a].on, cancel[a].seen)
    /\ cancel' = [cancel EXCEPT ![a] = NoRequest]
    /\ UNCHANGED <<start, queueVars, slotVars>>

\* 500: the write failed and changed nothing.
CancelFails(a) ==
    /\ cancel[a].at = "decided"
    /\ cancel' = [cancel EXCEPT ![a] = NoRequest]
    /\ UNCHANGED <<dbVars, start, queueVars, slotVars>>

----------------------------------------------------------------------------
ApiStep(e) ==
    \/ \E u \in Submitters : CreateEvaluation(e, u) \/ CreateFails(e, u)
    \/ Enqueue(e)
    \/ EnqueueFails(e)

QueueStep(e) == BackoffElapses(e) \/ LockExpires(e)

\* What a live slot does next with the job it took.
RunStep(w) ==
    \/ ReadEvaluation(w)
    \/ BeginChecks(w)
    \/ CompleteChecks(w)
    \/ JobCompletes(w)
    \/ JobFails(w)

CancelStep(a) ==
    \/ \E e \in Evaluations : CancelReads(a, e)
    \/ CancelCommits(a)
    \/ CancelConflicts(a)
    \/ CancelFails(a)

Next ==
    \/ \E e \in Evaluations : ApiStep(e) \/ QueueStep(e)
    \/ \E w \in Workers :
          \/ \E e \in Evaluations : Reserve(w, e)
          \/ RunStep(w)
          \/ StoreFails(w)
          \/ SlotCrashes(w)
    \/ \E a \in Admins : CancelStep(a)

Spec == Init /\ [][Next]_vars

OwnerIsGone(e) ==
    \A w \in Workers : lockOwner[e] = w => task[w] # e

(***************************************************************************)
(* Fairness: what keeps running on its own.  An API handler past its       *)
(* insert reaches its enqueue unless it dies; a live slot takes waiting    *)
(* jobs and its run goes on until it settles; BullMQ promotes delayed jobs *)
(* and its stalled check finds the jobs of dead slots.  Nothing obliges a  *)
(* client, an admin or a fault to happen.                                  *)
(***************************************************************************)
Fairness ==
    /\ \A e \in Evaluations :
          /\ WF_vars(Enqueue(e))
          /\ WF_vars(\E w \in Workers : Reserve(w, e))
          /\ WF_vars(BackoffElapses(e))
          /\ WF_vars(OwnerIsGone(e) /\ LockExpires(e))
    /\ \A w \in Workers : WF_vars(RunStep(w))

FairSpec == Spec /\ Fairness

----------------------------------------------------------------------------
(* Properties.                                                             *)

Events == [from : EvaluationStatuses \cup {Null}, to : EvaluationStatuses,
           actor : Users \cup {Null}]

Requests == [at : {"idle", "decided", "ok"}, on : Evaluations \cup {Null},
             seen : EvaluationStatuses \cup {Null}]

\* Every variable keeps its type; the counters of a job stay within the
\* attempts and stalls the queue's options allow, and a job is locked exactly
\* while it is active, so the stalled check can find it.
TypeOK ==
    /\ status \in [Evaluations -> EvaluationStatuses \cup {Null}]
    /\ results \in [Evaluations -> {Null, Report}]
    /\ history \in [Evaluations -> Seq(Events)]
    /\ start \in [Evaluations -> {"idle", "created", "accepted", "failed"}]
    /\ job \in [Evaluations -> JobStates]
    /\ attemptsMade \in [Evaluations -> 0..MaxAttempts]
    /\ stalls \in [Evaluations -> 0..(MaxStalls + 1)]
    /\ lockOwner \in [Evaluations -> Workers \cup {Null}]
    /\ run \in [Workers -> RunPoints]
    /\ task \in [Workers -> Evaluations \cup {Null}]
    /\ cancel \in [Admins -> Requests]
    /\ \A e \in Evaluations : job[e] = "active" <=> lockOwner[e] # Null

\* The history of an evaluation is the full story of its status: it starts with
\* the creation, each event starts where the one before ended and is a
\* transition of the lifecycle, and the last one ends in the row's status.
\* Slots that run the same job and admins that cancel from a stale read write to
\* the same row.
HistoryExplainsStatus ==
    \A e \in Evaluations :
        LET h == history[e] IN
        IF status[e] = Null
        THEN h = <<>>
        ELSE /\ h # <<>>
             /\ h[1].from = Null /\ h[1].to = "PENDING"
             /\ h[Len(h)].to = status[e]
             /\ \A i \in 2..Len(h) :
                   /\ h[i].from = h[i - 1].to
                   /\ CanTransition(h[i].from, h[i].to)

\* The paths through the lifecycle that the code of this phase can take.
Paths ==
    {<<>>,
     <<"PENDING">>,
     <<"PENDING", "CANCELLED">>,
     <<"PENDING", "RUNNING_CHECKS">>,
     <<"PENDING", "RUNNING_CHECKS", "AWAITING_REVIEW">>,
     <<"PENDING", "RUNNING_CHECKS", "AWAITING_REVIEW", "CANCELLED">>}

Took(h, p) == Len(h) = Len(p) /\ \A i \in 1..Len(p) : h[i].to = p[i]

\* Redelivery has one effect: however many slots run the job and whoever cancels
\* meanwhile, the history is one of six paths, so each status is entered once,
\* and the automated results are there exactly when the checks were recorded as
\* completed (a cancel after the checks keeps them).
ChecksTakeEffectOnce ==
    \A e \in Evaluations :
        LET h == history[e] IN
        /\ \E p \in Paths : Took(h, p)
        /\ results[e] # Null <=> \E i \in 1..Len(h) : h[i].to = "AWAITING_REVIEW"

\* An evaluation whose checks are outstanding is accounted for: its job will be
\* delivered or was dead-lettered, or it never got one, and then its POST handler
\* is between its two calls or failed there, and nobody was told 201.  No crash,
\* stall, retry or late report of a slot that lost its lock loses a job.
UncheckedEvaluationKeepsItsJob ==
    \A e \in Evaluations :
        status[e] \in {"PENDING", "RUNNING_CHECKS"} =>
            \/ job[e] \in {"wait", "active", "delayed", "failed"}
            \/ /\ job[e] = "none" /\ status[e] = "PENDING"
               /\ start[e] \in {"created", "failed"}

\* What is left of a job: the deliveries that the attempts and stalls allow it,
\* and how far the one that is going on has come.
DeliveriesLeft(e) == (MaxAttempts - attemptsMade[e]) + (MaxStalls + 1 - stalls[e])

StepsLeft(point) ==
    CASE point = "read" -> 5 [] point = "begin" -> 4 [] point = "check" -> 3
      [] OTHER -> 2

Position(e) ==
    CASE job[e] = "delayed" -> 7
      [] job[e] = "wait"    -> 6
      [] job[e] = "active"  -> IF OwnerIsGone(e) THEN 1 ELSE StepsLeft(run[lockOwner[e]])
      [] OTHER              -> 0

Settled(e) == job[e] \in {"completed", "failed"}

Distance(e) == IF Settled(e) THEN 0 ELSE 8 * DeliveriesLeft(e) + Position(e)

\* Every step that touches a job, in the queue or in the slot that holds its
\* lock, brings it nearer to its end: a retry and a redelivery are paid for with
\* an attempt or a stall, a slot never goes back, and a job that was completed or
\* dead-lettered stays as it is, whatever a slot that lost its lock reports late.
JobsOnlyMoveOn ==
    [][\A e \in Evaluations :
          job[e] # "none" =>
              \/ Distance(e)' < Distance(e)
              \/ /\ UNCHANGED <<job[e], attemptsMade[e], stalls[e], lockOwner[e]>>
                 /\ Position(e)' = Position(e)]_vars

\* A cancel that was answered with 200 stands: the evaluation is CANCELLED, by
\* that admin, from the status that admin saw.  Two admins never both succeed.
AcknowledgedCancelStands ==
    \A a \in Admins :
        cancel[a].at = "ok" =>
            LET e == cancel[a].on IN
            /\ status[e] = "CANCELLED"
            /\ history[e][Len(history[e])] = Event(cancel[a].seen, "CANCELLED", a)

\* Nothing brings an evaluation back from a terminal status, and its history and
\* results are closed with it: a run that read the row before the cancel ends in
\* a conflict, not in a write.
TerminalIsForever ==
    [][\A e \in Evaluations :
          status[e] \in TerminalStatuses =>
              /\ status'[e] = status[e]
              /\ results'[e] = results[e]
              /\ history'[e] = history[e]]_vars

\* The pipeline implements the abstract lifecycle: handlers, slots and the queue
\* are invisible behind the row, its results and its events.
Lifecycle == INSTANCE EvaluationLifecycle WITH Actors <- Users

ImplementsLifecycle == Lifecycle!Spec

\* Every evaluation whose start was accepted is checked, cancelled, or has its
\* job dead-lettered: it is never silently left behind.
AcceptedEvaluationSettles ==
    \A e \in Evaluations :
        start[e] = "accepted" ~>
            \/ status[e] \in {"AWAITING_REVIEW", "CANCELLED"}
            \/ job[e] = "failed"

\* Every job that was added is eventually completed or dead-lettered, whatever
\* slots die or lose their lock over it.
JobSettles ==
    \A e \in Evaluations :
        job[e] # "none" ~> job[e] \in {"completed", "failed"}

----------------------------------------------------------------------------
(* What the documents say and the code does not do.                        *)

\* docs/architecture/evaluation-lifecycle.md: a check job that exhausts its
\* retries goes to the dead-letter queue and its evaluation to FAILED.
DeadLetterEndsTheChecks ==
    \A e \in Evaluations :
        (job[e] = "failed" /\ status[e] = "RUNNING_CHECKS")
            ~> status[e] # "RUNNING_CHECKS"

\* ADR 0003: the database is the source of truth and jobs are reconstructable,
\* so an evaluation that was created has a job sooner or later.
CreatedEvaluationIsQueued ==
    \A e \in Evaluations :
        status[e] = "PENDING" ~> (job[e] # "none" \/ status[e] # "PENDING")
=============================================================================
