--------------------- MODULE EvaluationPipelineProofs ---------------------
(***************************************************************************)
(* Safety of EvaluationPipeline for any number of evaluations, slots,      *)
(* admins, attempts and stalls.  The argument has three layers:            *)
(*                                                                         *)
(*   1. TypeInv: the types, with what keeps them: a busy slot has a task,  *)
(*      a decided cancel has a target it may cancel, a job is locked while *)
(*      active and has attempts left until it has settled;                 *)
(*   2. LegalWrites: hence every step either leaves the database alone or  *)
(*      is one of four legal writes;                                       *)
(*   3. so the abstract lifecycle is implemented, and what is proved of it *)
(*      holds of the rows and their histories; the other properties of the *)
(*      row follow from the four writes.                                   *)
(*                                                                         *)
(* Beside them: no job is lost, every job moves on by a measure, and the   *)
(* two states the documents deny are traps.                                *)
(***************************************************************************)
EXTENDS EvaluationPipeline, TLAPS

(***************************************************************************)
(* TypeInv, one part per store or process.                                 *)
(***************************************************************************)
DbTyped ==
    /\ status \in [Evaluations -> EvaluationStatuses \cup {Null}]
    /\ results \in [Evaluations -> {Null, Report}]
    /\ history \in [Evaluations -> Seq(Events)]

StartTyped ==
    start \in [Evaluations -> {"idle", "created", "accepted", "failed"}]

\* A job is locked exactly while active, and has attempts left until settled.
QueueInv ==
    /\ job \in [Evaluations -> JobStates]
    /\ attemptsMade \in [Evaluations -> 0..MaxAttempts]
    /\ stalls \in [Evaluations -> 0..(MaxStalls + 1)]
    /\ lockOwner \in [Evaluations -> Workers \cup {Null}]
    /\ \A e \in Evaluations : job[e] = "active" <=> lockOwner[e] # Null
    /\ \A e \in Evaluations :
          job[e] \in {"none", "wait", "active", "delayed"} =>
              attemptsMade[e] < MaxAttempts /\ stalls[e] <= MaxStalls

\* A slot has a task exactly while it is busy.
SlotInv ==
    /\ run \in [Workers -> RunPoints]
    /\ task \in [Workers -> Evaluations \cup {Null}]
    /\ \A w \in Workers : run[w] # "idle" <=> task[w] \in Evaluations

\* A cancel that passed its check has a target and a status it may cancel from.
CancelInv ==
    /\ cancel \in [Admins -> Requests]
    /\ \A a \in Admins :
          cancel[a].at # "idle" =>
              /\ cancel[a].on \in Evaluations
              /\ cancel[a].seen \in EvaluationStatuses
              /\ CanTransition(cancel[a].seen, "CANCELLED")

TypeInv == DbTyped /\ StartTyped /\ QueueInv /\ SlotInv /\ CancelInv

----------------------------------------------------------------------------
(* Layer 1.                                                                *)

\* A guarded transition keeps the rows, results and events well typed.
LEMMA TransitionTyped ==
    ASSUME DbTyped,
           NEW e \in Evaluations,
           NEW from \in EvaluationStatuses,
           NEW to \in EvaluationStatuses,
           NEW actor \in Users \cup {Null},
           NEW report \in {Null, Report},
           Transition(e, from, to, actor, report)
    PROVE  DbTyped'
<1>1. Event(from, to, actor) \in Events
  BY DEF Event, Events
<1>2. Append(history[e], Event(from, to, actor)) \in Seq(Events)
  BY <1>1 DEF DbTyped
<1> QED
  BY <1>2 DEF Transition, DbTyped

\* So does the insert of an evaluation with its first event.
LEMMA InsertTyped ==
    ASSUME DbTyped,
           NEW e \in Evaluations,
           NEW u \in Submitters,
           InsertEvaluation(e, u)
    PROVE  DbTyped'
<1>1. "PENDING" \in EvaluationStatuses
  BY DEF EvaluationStatuses
<1>2. Event(Null, "PENDING", u) \in Events
  BY <1>1 DEF Event, Events, Users
<1>3. Append(history[e], Event(Null, "PENDING", u)) \in Seq(Events)
  BY <1>2 DEF DbTyped
<1> QED
  BY <1>1, <1>3 DEF InsertEvaluation, DbTyped

\* What a step leaves alone keeps its part of the invariant.
LEMMA DbFrame == DbTyped /\ UNCHANGED dbVars => DbTyped'
  BY DEF DbTyped, dbVars

\* The same for the POST handlers ...
LEMMA StartFrame == StartTyped /\ UNCHANGED start => StartTyped'
  BY DEF StartTyped

\* ... for the jobs and their locks ...
LEMMA QueueFrame == QueueInv /\ UNCHANGED queueVars => QueueInv'
  BY DEF QueueInv, queueVars

\* ... for the worker slots ...
LEMMA SlotFrame == SlotInv /\ UNCHANGED slotVars => SlotInv'
  BY DEF SlotInv, slotVars

\* ... and for the cancel requests.
LEMMA CancelFrame == CancelInv /\ UNCHANGED cancel => CancelInv'
  BY DEF CancelInv

\* A busy slot moves on with the same task, or becomes free.
LEMMA SlotMoves ==
    ASSUME SlotInv, NEW w \in Workers, NEW point \in RunPoints \ {"idle"},
           run[w] # "idle",
           run' = [run EXCEPT ![w] = point], UNCHANGED task
    PROVE  SlotInv'
  BY DEF SlotInv

\* A slot that reported or died holds no task.
LEMMA SlotFreed ==
    ASSUME SlotInv, NEW w \in Workers, Frees(w)
    PROVE  SlotInv'
  BY NullAssumption DEF SlotInv, Frees, RunPoints

\* A job that is not active changes its state and stays unlocked and unsettled.
LEMMA JobMoves ==
    ASSUME QueueInv, NEW e \in Evaluations, NEW to \in {"wait", "delayed"},
           job[e] \in {"none", "delayed"},
           job' = [job EXCEPT ![e] = to],
           UNCHANGED <<attemptsMade, stalls, lockOwner>>
    PROVE  QueueInv'
  BY DEF QueueInv, JobStates

\* A cancel that ends in an error leaves its admin with no request.
LEMMA CancelEnds ==
    ASSUME CancelInv, NEW a \in Admins,
           cancel' = [cancel EXCEPT ![a] = NoRequest]
    PROVE  CancelInv'
<1>1. NoRequest \in Requests /\ NoRequest.at = "idle"
  BY DEF NoRequest, Requests
<1> QED
  BY <1>1 DEF CancelInv

\* The empty stores satisfy the first layer.
LEMMA InitTypeInv == Init => TypeInv
<1> SUFFICES ASSUME Init PROVE TypeInv
  OBVIOUS
<1> USE BoundsAssumption, NullAssumption
<1>1. DbTyped /\ StartTyped
  BY DEF Init, DbTyped, StartTyped
<1>2. QueueInv /\ SlotInv
  BY DEF Init, QueueInv, SlotInv, JobStates, RunPoints
<1>3. CancelInv
  BY DEF Init, CancelInv, NoRequest, Requests
<1> QED
  BY <1>1, <1>2, <1>3 DEF TypeInv

\* Every step preserves it: one case per action, one conjunct per store.
LEMMA NextTypeInv == TypeInv /\ [Next]_vars => TypeInv'
<1> SUFFICES ASSUME TypeInv, [Next]_vars PROVE TypeInv'
  OBVIOUS
<1> USE BoundsAssumption, NullAssumption DEF TypeInv
<1>0. {"PENDING", "RUNNING_CHECKS", "AWAITING_REVIEW", "CANCELLED"}
         \subseteq EvaluationStatuses
  BY DEF EvaluationStatuses
<1>1. ASSUME NEW e \in Evaluations, NEW u \in Submitters,
             CreateEvaluation(e, u) \/ CreateFails(e, u)
      PROVE  TypeInv'
  <2>1. DbTyped'
    BY <1>1, InsertTyped, DbFrame DEF CreateEvaluation, CreateFails
  <2>2. StartTyped'
    BY <1>1 DEF CreateEvaluation, CreateFails, StartTyped
  <2>3. QueueInv' /\ SlotInv' /\ CancelInv'
    BY <1>1, QueueFrame, SlotFrame, CancelFrame DEF CreateEvaluation, CreateFails
  <2> QED
    BY <2>1, <2>2, <2>3
<1>2. ASSUME NEW e \in Evaluations, Enqueue(e) \/ EnqueueFails(e)
      PROVE  TypeInv'
  <2>1. StartTyped'
    BY <1>2 DEF Enqueue, EnqueueFails, StartTyped
  <2>2. QueueInv'
    <3>1. CASE UNCHANGED job
      BY <1>2, <3>1, QueueFrame DEF Enqueue, EnqueueFails, queueVars
    <3>2. CASE job[e] = "none" /\ job' = [job EXCEPT ![e] = "wait"]
      BY <1>2, <3>2, JobMoves DEF Enqueue, EnqueueFails
    <3> QED
      BY <1>2, <3>1, <3>2 DEF Enqueue, EnqueueFails, AddJob
  <2>3. DbTyped' /\ SlotInv' /\ CancelInv'
    BY <1>2, DbFrame, SlotFrame, CancelFrame DEF Enqueue, EnqueueFails
  <2> QED
    BY <2>1, <2>2, <2>3
<1>3. ASSUME NEW e \in Evaluations, BackoffElapses(e) PROVE TypeInv'
  <2>1. QueueInv'
    BY <1>3, JobMoves DEF BackoffElapses
  <2> QED
    BY <1>3, <2>1, DbFrame, StartFrame, SlotFrame, CancelFrame
       DEF BackoffElapses
<1>4. ASSUME NEW e \in Evaluations, LockExpires(e) PROVE TypeInv'
  <2>1. QueueInv'
    BY <1>4 DEF LockExpires, AfterStall, QueueInv, JobStates
  <2> QED
    BY <1>4, <2>1, DbFrame, StartFrame, SlotFrame, CancelFrame DEF LockExpires
<1>5. ASSUME NEW w \in Workers, NEW e \in Evaluations, Reserve(w, e)
      PROVE  TypeInv'
  <2>1. QueueInv'
    BY <1>5 DEF Reserve, QueueInv, JobStates
  <2>2. SlotInv'
    BY <1>5 DEF Reserve, SlotInv, RunPoints
  <2> QED
    BY <1>5, <2>1, <2>2, DbFrame, StartFrame, CancelFrame DEF Reserve
<1>6. ASSUME NEW w \in Workers, ReadEvaluation(w) \/ StoreFails(w)
      PROVE  TypeInv'
  <2>1. PICK point \in RunPoints \ {"idle"} : run' = [run EXCEPT ![w] = point]
    BY <1>6 DEF ReadEvaluation, StoreFails, AfterRead, RunPoints
  <2>2. SlotInv'
    BY <1>6, <2>1, SlotMoves DEF ReadEvaluation, StoreFails
  <2> QED
    BY <1>6, <2>2, DbFrame, StartFrame, QueueFrame, CancelFrame
       DEF ReadEvaluation, StoreFails
<1>7. ASSUME NEW w \in Workers, BeginChecks(w) PROVE TypeInv'
  <2>1. task[w] \in Evaluations
    BY <1>7 DEF BeginChecks, SlotInv
  <2>2. DbTyped'
    BY <1>0, <1>7, <2>1, TransitionTyped, DbFrame DEF BeginChecks, Conflicts
  <2>3. PICK point \in RunPoints \ {"idle"} : run' = [run EXCEPT ![w] = point]
    BY <1>7 DEF BeginChecks, RunPoints
  <2>4. SlotInv'
    BY <1>7, <2>3, SlotMoves DEF BeginChecks
  <2> QED
    BY <1>7, <2>2, <2>4, StartFrame, QueueFrame, CancelFrame DEF BeginChecks
<1>8. ASSUME NEW w \in Workers, CompleteChecks(w) PROVE TypeInv'
  <2>1. task[w] \in Evaluations
    BY <1>8 DEF CompleteChecks, SlotInv
  <2>2. DbTyped'
    BY <1>0, <1>8, <2>1, TransitionTyped, DbFrame DEF CompleteChecks, Conflicts
  <2>3. PICK point \in RunPoints \ {"idle"} : run' = [run EXCEPT ![w] = point]
    BY <1>8 DEF CompleteChecks, RunPoints
  <2>4. SlotInv'
    BY <1>8, <2>3, SlotMoves DEF CompleteChecks
  <2> QED
    BY <1>8, <2>2, <2>4, StartFrame, QueueFrame, CancelFrame DEF CompleteChecks
<1>9. ASSUME NEW w \in Workers, JobCompletes(w) PROVE TypeInv'
  <2>1. task[w] \in Evaluations
    BY <1>9 DEF JobCompletes, SlotInv
  <2>2. QueueInv'
    <3>1. CASE lockOwner[task[w]] = w
      BY <1>9, <2>1, <3>1 DEF JobCompletes, QueueInv, JobStates
    <3>2. CASE lockOwner[task[w]] # w
      BY <1>9, <3>2, QueueFrame DEF JobCompletes, queueVars
    <3> QED
      BY <3>1, <3>2
  <2> QED
    BY <1>9, <2>2, SlotFreed, DbFrame, StartFrame, CancelFrame DEF JobCompletes
<1>10. ASSUME NEW w \in Workers, JobFails(w) PROVE TypeInv'
  <2>1. task[w] \in Evaluations
    BY <1>10 DEF JobFails, SlotInv
  <2>2. QueueInv'
    <3>1. CASE lockOwner[task[w]] = w
      <4>1. job[task[w]] = "active" /\ attemptsMade[task[w]] < MaxAttempts
        BY <2>1, <3>1 DEF QueueInv
      <4> QED
        BY <1>10, <2>1, <3>1, <4>1
           DEF JobFails, AfterFailure, QueueInv, JobStates
    <3>2. CASE lockOwner[task[w]] # w
      BY <1>10, <3>2, QueueFrame DEF JobFails, queueVars
    <3> QED
      BY <3>1, <3>2
  <2> QED
    BY <1>10, <2>2, SlotFreed, DbFrame, StartFrame, CancelFrame DEF JobFails
<1>11. ASSUME NEW w \in Workers, SlotCrashes(w) PROVE TypeInv'
  BY <1>11, SlotFreed, DbFrame, StartFrame, QueueFrame, CancelFrame
     DEF SlotCrashes
<1>12. ASSUME NEW a \in Admins, NEW e \in Evaluations, CancelReads(a, e)
       PROVE  TypeInv'
  <2>1. status[e] \in EvaluationStatuses
    BY <1>12 DEF CancelReads, DbTyped
  <2>2. CancelInv'
    BY <1>12, <2>1 DEF CancelReads, CancelInv, Requests
  <2> QED
    BY <1>12, <2>2, DbFrame, StartFrame, QueueFrame, SlotFrame DEF CancelReads
<1>13. ASSUME NEW a \in Admins, CancelCommits(a) PROVE TypeInv'
  <2>1. cancel[a].on \in Evaluations /\ cancel[a].seen \in EvaluationStatuses
    BY <1>13 DEF CancelCommits, CancelInv
  <2>2. DbTyped'
    BY <1>0, <1>13, <2>1, TransitionTyped DEF CancelCommits, Users
  <2>3. CancelInv'
    <3>1. CASE cancel' = [cancel EXCEPT ![a] = NoRequest]
      BY <3>1, CancelEnds
    <3>2. CASE cancel' = [cancel EXCEPT ![a] = [cancel[a] EXCEPT !.at = "ok"]]
      BY <1>13, <2>1, <3>2 DEF CancelCommits, CancelInv, Requests
    <3> QED
      BY <1>13, <3>1, <3>2 DEF CancelCommits
  <2> QED
    BY <1>13, <2>2, <2>3, StartFrame, QueueFrame, SlotFrame DEF CancelCommits
<1>14. ASSUME NEW a \in Admins, CancelConflicts(a) \/ CancelFails(a)
       PROVE  TypeInv'
  BY <1>14, CancelEnds, DbFrame, StartFrame, QueueFrame, SlotFrame
     DEF CancelConflicts, CancelFails, Conflicts
<1>15. CASE UNCHANGED vars
  BY <1>15, DbFrame, StartFrame, QueueFrame, SlotFrame, CancelFrame
     DEF vars, dbVars, queueVars, slotVars
<1> QED
  BY <1>1, <1>2, <1>3, <1>4, <1>5, <1>6, <1>7, <1>8, <1>9, <1>10, <1>11,
     <1>12, <1>13, <1>14, <1>15
     DEF Next, ApiStep, QueueStep, RunStep, CancelStep

\* The first layer of the invariant holds in every reachable state.
THEOREM TypeInvariance == Spec => []TypeInv
  BY InitTypeInv, NextTypeInv, PTL DEF Spec

\* Type correctness of the pipeline, for any instance.
THEOREM TypeCorrect == Spec => []TypeOK
<1>1. TypeInv => TypeOK
  BY DEF TypeInv, DbTyped, StartTyped, QueueInv, SlotInv, CancelInv, TypeOK
<1> QED
  BY <1>1, TypeInvariance, PTL

----------------------------------------------------------------------------
(* Layer 2: what a step writes to the database.                            *)

CancelsLegally(e, a) ==
    \E from \in EvaluationStatuses :
        /\ CanTransition(from, "CANCELLED")
        /\ Transition(e, from, "CANCELLED", a, Null)

LegalWrite(e) ==
    \/ \E u \in Submitters : InsertEvaluation(e, u)
    \/ Transition(e, "PENDING", "RUNNING_CHECKS", Null, Null)
    \/ Transition(e, "RUNNING_CHECKS", "AWAITING_REVIEW", Null, Report)
    \/ \E a \in Admins : CancelsLegally(e, a)

\* Every step of the pipeline leaves the database alone or writes, in one
\* transaction, a creation or one of three moves of one evaluation.
LEMMA LegalWrites ==
    ASSUME TypeInv, [Next]_vars
    PROVE  UNCHANGED dbVars \/ \E e \in Evaluations : LegalWrite(e)
<1> USE DEF TypeInv
<1>1. ASSUME NEW e \in Evaluations, ApiStep(e) \/ QueueStep(e)
      PROVE  UNCHANGED dbVars \/ LegalWrite(e)
  BY <1>1 DEF ApiStep, QueueStep, CreateEvaluation, CreateFails, Enqueue,
              EnqueueFails, BackoffElapses, LockExpires, LegalWrite
<1>2. ASSUME NEW w \in Workers, BeginChecks(w) \/ CompleteChecks(w)
      PROVE  UNCHANGED dbVars \/ \E e \in Evaluations : LegalWrite(e)
  <2>1. task[w] \in Evaluations
    BY <1>2 DEF BeginChecks, CompleteChecks, SlotInv
  <2> QED
    BY <1>2, <2>1 DEF BeginChecks, CompleteChecks, Conflicts, LegalWrite
<1>3. ASSUME NEW w \in Workers,
             \/ \E e \in Evaluations : Reserve(w, e)
             \/ ReadEvaluation(w) \/ StoreFails(w) \/ SlotCrashes(w)
             \/ JobCompletes(w) \/ JobFails(w)
      PROVE  UNCHANGED dbVars
  BY <1>3 DEF Reserve, ReadEvaluation, StoreFails, SlotCrashes, JobCompletes,
              JobFails
<1>4. ASSUME NEW a \in Admins, CancelCommits(a)
      PROVE  \E e \in Evaluations : LegalWrite(e)
  <2>1. /\ cancel[a].on \in Evaluations
        /\ cancel[a].seen \in EvaluationStatuses
        /\ CanTransition(cancel[a].seen, "CANCELLED")
    BY <1>4 DEF CancelCommits, CancelInv
  <2>2. CancelsLegally(cancel[a].on, a)
    BY <1>4, <2>1 DEF CancelCommits, CancelsLegally
  <2> QED
    BY <2>1, <2>2 DEF LegalWrite
<1>5. ASSUME NEW a \in Admins,
             \/ \E e \in Evaluations : CancelReads(a, e)
             \/ CancelConflicts(a) \/ CancelFails(a)
      PROVE  UNCHANGED dbVars
  BY <1>5 DEF CancelReads, CancelConflicts, CancelFails, Conflicts
<1>6. CASE UNCHANGED vars
  BY <1>6 DEF vars, dbVars
<1> QED
  BY <1>1, <1>2, <1>3, <1>4, <1>5, <1>6 DEF Next, RunStep, CancelStep

\* The facts about the transition table that the four writes rest on.
LEMMA Table ==
    /\ CanTransition("PENDING", "RUNNING_CHECKS")
    /\ CanTransition("RUNNING_CHECKS", "AWAITING_REVIEW")
    /\ \A from \in EvaluationStatuses :
          CanTransition(from, "CANCELLED") =>
              from \notin TerminalStatuses \cup {"RUNNING_CHECKS"}
    /\ \A from \in TerminalStatuses, to \in EvaluationStatuses :
          ~ CanTransition(from, to)
  BY DEF CanTransition, Transitions, EvaluationStatuses, TerminalStatuses

\* The four writes seen as one: the status moves and its event is appended.
Moves(e, to, actor) ==
    /\ status' = [status EXCEPT ![e] = to]
    /\ results' = IF to = "AWAITING_REVIEW"
                  THEN [results EXCEPT ![e] = Report] ELSE results
    /\ history' = [history EXCEPT ![e] = Append(@, Event(status[e], to, actor))]

MayMove(e, to, actor) ==
    /\ to = "PENDING" <=> status[e] = Null
    /\ to = "RUNNING_CHECKS" <=> status[e] = "PENDING" /\ actor = Null
    /\ to = "AWAITING_REVIEW" <=> status[e] = "RUNNING_CHECKS"
    /\ status[e] # Null => CanTransition(status[e], to)
    /\ actor # Null <=> to \in {"PENDING", "CANCELLED"}
    /\ Event(status[e], to, actor) \in Events

Entered == {"PENDING", "RUNNING_CHECKS", "AWAITING_REVIEW", "CANCELLED"}

\* Each of the four writes is a move of the lifecycle to a status the code enters.
LEMMA WritesMove ==
    ASSUME DbTyped, NEW e \in Evaluations, LegalWrite(e)
    PROVE  \E to \in Entered, actor \in Users \cup {Null} :
              Moves(e, to, actor) /\ MayMove(e, to, actor)
<1> USE NullAssumption
<1>0. /\ {"PENDING", "RUNNING_CHECKS", "AWAITING_REVIEW", "CANCELLED"}
            \subseteq EvaluationStatuses
      /\ Null \notin EvaluationStatuses
  BY DEF EvaluationStatuses
<1>1. ASSUME NEW u \in Submitters, InsertEvaluation(e, u)
      PROVE  Moves(e, "PENDING", u) /\ MayMove(e, "PENDING", u)
  BY <1>0, <1>1 DEF InsertEvaluation, Moves, MayMove, Events, Event, Users
<1>2. ASSUME Transition(e, "PENDING", "RUNNING_CHECKS", Null, Null)
      PROVE  Moves(e, "RUNNING_CHECKS", Null) /\ MayMove(e, "RUNNING_CHECKS", Null)
  BY <1>0, <1>2, Table DEF Transition, Moves, MayMove, Events, Event
<1>3. ASSUME Transition(e, "RUNNING_CHECKS", "AWAITING_REVIEW", Null, Report)
      PROVE  Moves(e, "AWAITING_REVIEW", Null) /\ MayMove(e, "AWAITING_REVIEW", Null)
  BY <1>0, <1>3, Table DEF Transition, Moves, MayMove, Events, Event
<1>4. ASSUME NEW a \in Admins, CancelsLegally(e, a)
      PROVE  Moves(e, "CANCELLED", a) /\ MayMove(e, "CANCELLED", a)
  <2>1. PICK from \in EvaluationStatuses :
           /\ CanTransition(from, "CANCELLED")
           /\ Transition(e, from, "CANCELLED", a, Null)
    BY <1>4 DEF CancelsLegally
  <2>2. Moves(e, "CANCELLED", a)
    BY <2>1 DEF Transition, Moves
  <2>3. status[e] = from /\ from # "RUNNING_CHECKS" /\ a # Null /\ from # Null
    BY <1>0, <2>1, Table DEF Transition
  <2>4. Event(from, "CANCELLED", a) \in Events
    BY <1>0 DEF Events, Event, Users
  <2> QED
    BY <2>1, <2>2, <2>3, <2>4 DEF MayMove
<1> QED
  BY <1>1, <1>2, <1>3, <1>4 DEF LegalWrite, Users, Entered

----------------------------------------------------------------------------
(* Layer 3: the row and its history.                                       *)

\* What Append does to the elements, the length and the last element.
LEMMA Appended ==
    ASSUME NEW S, NEW h \in Seq(S), NEW x \in S
    PROVE  /\ Append(h, x) \in Seq(S)
           /\ Len(Append(h, x)) = Len(h) + 1
           /\ \A i \in 1..Len(h) : Append(h, x)[i] = h[i]
           /\ Append(h, x)[Len(h) + 1] = x
           /\ Len(h) \in Nat
  OBVIOUS

\* ImplementsLifecycle: the pipeline, with its queue, slots and handlers hidden,
\* is the abstract lifecycle.
THEOREM Refinement == Spec => ImplementsLifecycle
<1>1. Init => Lifecycle!Init
  BY DEF Init, Lifecycle!Init
<1>2. TypeInv /\ [Next]_vars => [Lifecycle!Next]_(Lifecycle!vars)
  <2> SUFFICES ASSUME TypeInv, [Next]_vars
               PROVE  [Lifecycle!Next]_(Lifecycle!vars)
    OBVIOUS
  <2>1. CASE UNCHANGED dbVars
    BY <2>1 DEF dbVars, Lifecycle!vars
  <2>2. ASSUME NEW e \in Evaluations, LegalWrite(e)
        PROVE  Lifecycle!Next
    <3>1. PICK to \in Entered, actor \in Users \cup {Null} :
             Moves(e, to, actor) /\ MayMove(e, to, actor)
      BY <2>2, WritesMove DEF TypeInv
    <3>2. CASE status[e] = Null
      <4>1. to = "PENDING" /\ actor \in Users
        BY <3>1, <3>2 DEF MayMove
      <4>2. Lifecycle!Create(e, actor)
        BY <3>1, <3>2, <4>1
           DEF Moves, Lifecycle!Create, Lifecycle!Event, Event
      <4> QED
        BY <4>1, <4>2 DEF Lifecycle!Next
    <3>3. CASE status[e] # Null
      <4>1. /\ CanTransition(status[e], to)
            /\ to = "CANCELLED" => actor # Null
            /\ to \in {"RUNNING_CHECKS", "AWAITING_REVIEW"} => actor = Null
            /\ to \in EvaluationStatuses
        BY <3>1, <3>3 DEF MayMove, Entered, EvaluationStatuses
      <4>2. Lifecycle!Move(e, to, actor)
        BY <3>1, <3>3, <4>1
           DEF Moves, Lifecycle!Move, Lifecycle!Event, Event,
               Lifecycle!CanTransition, Lifecycle!Transitions,
               CanTransition, Transitions
      <4> QED
        BY <4>1, <4>2 DEF Lifecycle!Next, Lifecycle!EvaluationStatuses,
                          EvaluationStatuses
    <3> QED
      BY <3>2, <3>3
  <2> QED
    BY <2>1, <2>2, LegalWrites
<1> QED
  BY <1>1, <1>2, TypeInvariance, PTL DEF Spec, ImplementsLifecycle, Lifecycle!Spec

\* What the lifecycle promises, and EvaluationLifecycleProofs proves of it, read
\* as statements about the pipeline's rows and histories.
Promise == INSTANCE EvaluationLifecycleProofs WITH Actors <- Users

\* SQL NULL is no status, no user and no report.
LEMMA PromiseNull == Promise!NullIsApart
  BY NullAssumption DEF Promise!NullIsApart, Promise!EvaluationStatuses, Users,
                        EvaluationStatuses

\* The same refinement, for the instance that has the theorems.
LEMMA PromiseKept == Spec => Promise!Spec
  BY Refinement
     DEF ImplementsLifecycle, Lifecycle!Spec, Promise!Spec,
         Lifecycle!Init, Promise!Init, Lifecycle!vars, Promise!vars,
         Lifecycle!Next, Promise!Next, Lifecycle!Create, Promise!Create,
         Lifecycle!Move, Promise!Move, Lifecycle!Event, Promise!Event,
         Lifecycle!CanTransition, Promise!CanTransition,
         Lifecycle!Transitions, Promise!Transitions,
         Lifecycle!EvaluationStatuses, Promise!EvaluationStatuses

\* HistoryExplainsStatus for any number of slots and admins: the events of an
\* evaluation are a legal path through the lifecycle that ends in its status.
THEOREM HistoryCorrect == Spec => []HistoryExplainsStatus
<1>1. Spec => []Promise!HistoryIsAPath
  BY PromiseKept, PromiseNull, Promise!PathCorrect
<1>2. Promise!HistoryIsAPath => HistoryExplainsStatus
  BY DEF Promise!HistoryIsAPath, HistoryExplainsStatus,
         Promise!CanTransition, Promise!Transitions, CanTransition, Transitions
<1> QED
  BY <1>1, <1>2, PTL

\* Whatever slots and admins do, no status is entered twice, the results are
\* there exactly when the checks were recorded as completed, and each creation
\* and cancellation is recorded under a user, each step of the checks under none.
THEOREM PromisesCorrect ==
    Spec => /\ []Promise!StatusesAreEnteredOnce
            /\ []Promise!ResultsAreExplained
            /\ []Promise!ActorsAreRecorded
  BY PromiseKept, PromiseNull, Promise!OnceCorrect, Promise!ResultsCorrect,
     Promise!ActorsCorrect

\* The history of an evaluation is append-only: no retry, stalled job or late
\* cancel rewrites an event.
THEOREM GrowthCorrect == Spec => Promise!HistoryOnlyGrows
  BY PromiseKept, PromiseNull, Promise!GrowthCorrect

\* A terminal row is never written again.
LEMMA TerminalStep ==
    ASSUME TypeInv, [Next]_vars, NEW f \in Evaluations,
           status[f] \in TerminalStatuses
    PROVE  /\ status'[f] = status[f]
           /\ results'[f] = results[f]
           /\ history'[f] = history[f]
<1>1. CASE UNCHANGED dbVars
  BY <1>1 DEF dbVars
<1>2. ASSUME NEW e \in Evaluations, LegalWrite(e)
      PROVE  /\ status'[f] = status[f]
             /\ results'[f] = results[f]
             /\ history'[f] = history[f]
  <2>1. PICK to \in Entered, actor \in Users \cup {Null} :
           Moves(e, to, actor) /\ MayMove(e, to, actor)
    BY <1>2, WritesMove DEF TypeInv
  <2>2. e # f
    BY <2>1, Table, NullAssumption
       DEF MayMove, Entered, EvaluationStatuses, TerminalStatuses
  <2> QED
    BY <2>1, <2>2 DEF Moves, TypeInv, DbTyped
<1> QED
  BY <1>1, <1>2, LegalWrites

\* TerminalIsForever: no interleaving of slots and admins writes to an
\* evaluation whose status is terminal.
THEOREM TerminalCorrect == Spec => TerminalIsForever
<1>1. TypeInv /\ [Next]_vars
        => [\A e \in Evaluations :
              status[e] \in TerminalStatuses =>
                  /\ status'[e] = status[e]
                  /\ results'[e] = results[e]
                  /\ history'[e] = history[e]]_vars
  BY TerminalStep
<1> QED
  BY <1>1, TypeInvariance, PTL DEF Spec, TerminalIsForever

\* Every step preserves AcknowledgedCancelStands: CANCELLED is terminal, so no
\* write follows the one that was acknowledged.
LEMMA AcknowledgedCancelStep ==
    ASSUME TypeInv, AcknowledgedCancelStands, [Next]_vars
    PROVE  AcknowledgedCancelStands'
<1> USE DEF TypeInv
<1> SUFFICES ASSUME NEW a \in Admins, cancel'[a].at = "ok"
             PROVE  LET e == cancel'[a].on
                        h == history'[e]
                    IN  /\ status'[e] = "CANCELLED"
                        /\ h[Len(h)] = Event(cancel'[a].seen, "CANCELLED", a)
  BY DEF AcknowledgedCancelStands
<1>1. CASE cancel'[a] = cancel[a]
  <2> DEFINE e == cancel[a].on
  <2>1. /\ e \in Evaluations
        /\ status[e] = "CANCELLED"
        /\ history[e][Len(history[e])] = Event(cancel[a].seen, "CANCELLED", a)
    BY <1>1 DEF AcknowledgedCancelStands, CancelInv
  <2>2. status'[e] = status[e] /\ history'[e] = history[e]
    BY <2>1, TerminalStep DEF TerminalStatuses
  <2> QED
    BY <1>1, <2>1, <2>2
<1>2. CASE CancelCommits(a)
  <2> DEFINE e == cancel[a].on
             x == Event(cancel[a].seen, "CANCELLED", a)
  <2>1. e \in Evaluations /\ cancel[a].seen \in EvaluationStatuses
    BY <1>2 DEF CancelCommits, CancelInv
  <2>2. /\ status' = [status EXCEPT ![e] = "CANCELLED"]
        /\ history' = [history EXCEPT ![e] = Append(@, x)]
    BY <1>2 DEF CancelCommits, Transition
  <2>3. /\ status'[e] = "CANCELLED" /\ history'[e] = Append(history[e], x)
        /\ history[e] \in Seq(Events)
    BY <2>1, <2>2 DEF DbTyped
  <2>4. x \in Events
    BY <2>1 DEF Event, Events, Users, EvaluationStatuses
  <2>5. history'[e][Len(history'[e])] = x
    BY <2>3, <2>4, Appended
  <2>6. cancel[a] \in Requests /\ cancel \in [Admins -> Requests]
    BY DEF CancelInv
  <2>7. cancel'[a].on = e /\ cancel'[a].seen = cancel[a].seen
    BY <1>2, <2>6 DEF CancelCommits, NoRequest, Requests
  <2> QED
    BY <2>3, <2>5, <2>7
<1>3. ASSUME NEW b \in Admins, CancelStep(b), ~ CancelCommits(a)
      PROVE  cancel'[a] = cancel[a]
  <2>1. cancel \in [Admins -> Requests]
    BY DEF CancelInv
  <2>2. CASE b = a
    BY <1>3, <2>1, <2>2 DEF CancelStep, CancelReads, CancelConflicts, CancelFails,
                            NoRequest
  <2>3. CASE b # a
    BY <1>3, <2>1, <2>3 DEF CancelStep, CancelReads, CancelCommits,
                            CancelConflicts, CancelFails
  <2> QED
    BY <2>2, <2>3
<1>4. CASE UNCHANGED cancel
  BY <1>1, <1>4
<1>5. UNCHANGED cancel \/ \E b \in Admins : CancelStep(b)
  BY DEF Next, ApiStep, QueueStep, RunStep, vars, CreateEvaluation, CreateFails,
         Enqueue, EnqueueFails, BackoffElapses, LockExpires, Reserve,
         ReadEvaluation, BeginChecks, CompleteChecks, JobCompletes, JobFails,
         StoreFails, SlotCrashes
<1> QED
  BY <1>1, <1>2, <1>3, <1>4, <1>5

\* AcknowledgedCancelStands: a 200 to a cancel is never undone nor overtaken by
\* the checks or by another admin.
THEOREM CancelCorrect == Spec => []AcknowledgedCancelStands
<1>1. Init => AcknowledgedCancelStands
  BY DEF Init, AcknowledgedCancelStands, NoRequest
<1>2. TypeInv /\ AcknowledgedCancelStands /\ [Next]_vars
        => AcknowledgedCancelStands'
  BY AcknowledgedCancelStep
<1> QED
  BY <1>1, <1>2, TypeInvariance, PTL DEF Spec

----------------------------------------------------------------------------
(* Redelivery has one effect.                                              *)

\* The paths that end in a status.
PathsTo(s) ==
    CASE s = Null -> {<<>>}
      [] s = "PENDING" -> {<<"PENDING">>}
      [] s = "RUNNING_CHECKS" -> {<<"PENDING", "RUNNING_CHECKS">>}
      [] s = "AWAITING_REVIEW" ->
            {<<"PENDING", "RUNNING_CHECKS", "AWAITING_REVIEW">>}
      [] s = "CANCELLED" ->
            {<<"PENDING", "CANCELLED">>,
             <<"PENDING", "RUNNING_CHECKS", "AWAITING_REVIEW", "CANCELLED">>}
      [] OTHER -> {}

\* What one evaluation's history is at a status: one of the paths to it, with
\* results if it came past the completion of the checks.
Once(h, s, r) ==
    /\ s \in Entered \cup {Null}
    /\ \E p \in PathsTo(s) : Took(h, p)
    /\ r # Null <=> \E i \in 1..Len(h) : h[i].to = "AWAITING_REVIEW"

\* Path q is path p and one status more.
Extends(q, p, to) ==
    /\ Len(q) = Len(p) + 1 /\ q[Len(q)] = to
    /\ \A i \in 1..Len(p) : q[i] = p[i]

\* A path is taken one event at a time.
LEMMA TookAppend ==
    ASSUME NEW h \in Seq(Events), NEW p, NEW q, NEW x \in Events,
           Took(h, p), Extends(q, p, x.to)
    PROVE  Took(Append(h, x), q)
<1>1. /\ Len(Append(h, x)) = Len(h) + 1 /\ Append(h, x)[Len(h) + 1] = x
      /\ \A i \in 1..Len(h) : Append(h, x)[i] = h[i]
      /\ Len(h) \in Nat
  BY Appended
<1> QED
  BY <1>1 DEF Took, Extends

\* A legal event leads from a path to one status to a path to the next.
LEMMA PathsExtend ==
    ASSUME NEW s, NEW p \in PathsTo(s), NEW to \in Entered,
           to = "PENDING" <=> s = Null,
           to = "RUNNING_CHECKS" => s = "PENDING",
           to = "AWAITING_REVIEW" <=> s = "RUNNING_CHECKS",
           s # "CANCELLED"
    PROVE  \E q \in PathsTo(to) : Extends(q, p, to)
<1> USE NullAssumption DEF PathsTo, Entered, EvaluationStatuses
<1>1. CASE to = "PENDING"
  <2>1. Extends(<<"PENDING">>, <<>>, "PENDING")
    BY DEF Extends
  <2> QED
    BY <1>1, <2>1
<1>2. CASE to = "RUNNING_CHECKS"
  <2>1. Extends(<<"PENDING", "RUNNING_CHECKS">>, <<"PENDING">>, "RUNNING_CHECKS")
    BY DEF Extends
  <2> QED
    BY <1>2, <2>1
<1>3. CASE to = "AWAITING_REVIEW"
  <2>1. Extends(<<"PENDING", "RUNNING_CHECKS", "AWAITING_REVIEW">>,
                <<"PENDING", "RUNNING_CHECKS">>, "AWAITING_REVIEW")
    BY DEF Extends
  <2> QED
    BY <1>3, <2>1
<1>4. CASE to = "CANCELLED"
  <2>1. s \in {"PENDING", "AWAITING_REVIEW"}
    BY <1>4
  <2>2. Extends(<<"PENDING", "CANCELLED">>, <<"PENDING">>, "CANCELLED")
    BY DEF Extends
  <2>3. Extends(<<"PENDING", "RUNNING_CHECKS", "AWAITING_REVIEW", "CANCELLED">>,
                <<"PENDING", "RUNNING_CHECKS", "AWAITING_REVIEW">>, "CANCELLED")
    BY DEF Extends
  <2> QED
    BY <1>4, <2>1, <2>2, <2>3
<1> QED
  BY <1>1, <1>2, <1>3, <1>4

\* A move of the code keeps the history on one of the paths, and the results
\* with the completion of the checks.
LEMMA OnceAppend ==
    ASSUME NEW h \in Seq(Events), NEW s, NEW r, NEW x \in Events, Once(h, s, r),
           x.to \in Entered,
           x.to = "PENDING" <=> s = Null,
           x.to = "RUNNING_CHECKS" => s = "PENDING",
           x.to = "AWAITING_REVIEW" <=> s = "RUNNING_CHECKS",
           s # "CANCELLED"
    PROVE  Once(Append(h, x), x.to, IF x.to = "AWAITING_REVIEW" THEN Report ELSE r)
<1> DEFINE g == Append(h, x)
           n == Len(h)
           q == IF x.to = "AWAITING_REVIEW" THEN Report ELSE r
<1>1. /\ n \in Nat /\ Len(g) = n + 1 /\ g[n + 1] = x
      /\ \A i \in 1..n : g[i] = h[i]
  BY Appended
<1>2. \E p \in PathsTo(x.to) : Took(g, p)
  <2>1. PICK p \in PathsTo(s) : Took(h, p)
    BY DEF Once
  <2>2. PICK longer \in PathsTo(x.to) : Extends(longer, p, x.to)
    BY PathsExtend
  <2> QED
    BY <2>1, <2>2, TookAppend
<1> HIDE DEF g, n, q
<1>3. \A i \in 1..(n + 1) : i \in 1..n \/ i = n + 1
  BY <1>1
<1>4. q # Null <=> \E i \in 1..Len(g) : g[i].to = "AWAITING_REVIEW"
  <2>1. CASE x.to = "AWAITING_REVIEW"
    BY <1>1, <2>1, NullAssumption DEF q
  <2>2. CASE x.to # "AWAITING_REVIEW"
    <3>1. q # Null <=> \E i \in 1..n : h[i].to = "AWAITING_REVIEW"
      BY <2>2 DEF Once, q, n
    <3>2. (\E i \in 1..n : h[i].to = "AWAITING_REVIEW")
             <=> \E i \in 1..Len(g) : g[i].to = "AWAITING_REVIEW"
      BY <1>1, <1>3, <2>2
    <3> QED
      BY <3>1, <3>2
  <2> QED
    BY <2>1, <2>2
<1>5. Once(g, x.to, q)
  BY <1>2, <1>4 DEF Once
<1> QED
  BY <1>5 DEF g, q

OnceInv == \A e \in Evaluations : Once(history[e], status[e], results[e])

\* Every step keeps every evaluation on one of the paths.
LEMMA OnceStep ==
    ASSUME TypeInv, OnceInv, [Next]_vars
    PROVE  OnceInv'
<1> SUFFICES ASSUME NEW f \in Evaluations
             PROVE  Once(history'[f], status'[f], results'[f])
  BY DEF OnceInv, Once
<1>1. Once(history[f], status[f], results[f])
  BY DEF OnceInv
<1>2. CASE UNCHANGED dbVars
  BY <1>1, <1>2 DEF dbVars
<1>3. ASSUME NEW e \in Evaluations, LegalWrite(e)
      PROVE  Once(history'[f], status'[f], results'[f])
  <2>1. PICK to \in Entered, actor \in Users \cup {Null} :
           Moves(e, to, actor) /\ MayMove(e, to, actor)
    BY <1>3, WritesMove DEF TypeInv
  <2>2. CASE e # f
    BY <1>1, <2>1, <2>2 DEF Moves, TypeInv, DbTyped
  <2>3. CASE e = f
    <3> DEFINE x == Event(status[f], to, actor)
    <3>1. /\ history[f] \in Seq(Events)
          /\ history'[f] = Append(history[f], x)
          /\ status'[f] = to
          /\ results'[f] = IF to = "AWAITING_REVIEW" THEN Report ELSE results[f]
      BY <2>1, <2>3 DEF Moves, TypeInv, DbTyped
    <3>2. x \in Events /\ x.to = to
      BY <2>1, <2>3 DEF MayMove, Event
    <3>3. /\ to = "PENDING" <=> status[f] = Null
          /\ to = "RUNNING_CHECKS" => status[f] = "PENDING"
          /\ to = "AWAITING_REVIEW" <=> status[f] = "RUNNING_CHECKS"
      BY <2>1, <2>3 DEF MayMove
    <3>4. status[f] # "CANCELLED"
      BY <2>1, <2>3, Table, NullAssumption
         DEF MayMove, Entered, EvaluationStatuses, TerminalStatuses
    <3> QED
      BY <1>1, <3>1, <3>2, <3>3, <3>4, OnceAppend
  <2> QED
    BY <2>2, <2>3
<1> QED
  BY <1>2, <1>3, LegalWrites

\* ChecksTakeEffectOnce: however often the job is delivered, and to however many
\* slots at once, the history is one of six paths, so each status is entered
\* once, and the results are recorded with the completion of the checks alone.
THEOREM EffectOnce == Spec => []ChecksTakeEffectOnce
<1>1. Init => OnceInv
  <2> SUFFICES ASSUME Init, NEW e \in Evaluations
               PROVE  Once(history[e], status[e], results[e])
    BY DEF OnceInv
  <2>1. history[e] = <<>> /\ status[e] = Null /\ results[e] = Null
    BY DEF Init
  <2>2. Took(history[e], <<>>)
    BY <2>1 DEF Took
  <2>3. PathsTo(status[e]) = {<<>>}
    BY <2>1, NullAssumption DEF PathsTo, EvaluationStatuses
  <2>4. ~ \E i \in 1..Len(history[e]) : history[e][i].to = "AWAITING_REVIEW"
    BY <2>1
  <2> QED
    BY <2>1, <2>2, <2>3, <2>4 DEF Once
<1>2. TypeInv /\ OnceInv /\ [Next]_vars => OnceInv'
  BY OnceStep
<1>3. OnceInv => ChecksTakeEffectOnce
  BY DEF OnceInv, Once, ChecksTakeEffectOnce, PathsTo, Paths
<1> QED
  BY <1>1, <1>2, <1>3, TypeInvariance, PTL DEF Spec

----------------------------------------------------------------------------
(* The queue never forgets an accepted evaluation.                         *)

Checked(e) == status[e] \notin {Null, "PENDING", "RUNNING_CHECKS"}

\* What a slot's position and a job's state say about the row: a job and a
\* handler past its insert have a row, and only a run that found or left the
\* evaluation past its checks returns, so only such a job completes.
JobInv ==
    /\ \A e \in Evaluations :
          /\ start[e] \in {"created", "accepted"} => status[e] # Null
          /\ start[e] = "accepted" => job[e] # "none"
          /\ job[e] # "none" => status[e] # Null
          /\ job[e] = "completed" => Checked(e)
    /\ \A w \in Workers :
          /\ run[w] # "idle" => status[task[w]] # Null
          /\ run[w] = "returned" => Checked(task[w])

\* Where a row and its status come from: a row has a POST handler that inserted
\* it, a run has a job, and so have checks that began.
OriginInv ==
    /\ \A e \in Evaluations :
          /\ start[e] = "idle" => status[e] = Null
          /\ status[e] = "RUNNING_CHECKS" => job[e] # "none"
    /\ \A w \in Workers : run[w] # "idle" => job[task[w]] # "none"

\* No step deletes a row or brings one back before its checks.
LEMMA RowsOnlyAdvance ==
    ASSUME TypeInv, [Next]_vars, NEW f \in Evaluations
    PROVE  /\ status[f] # Null => status'[f] # Null
           /\ Checked(f) => Checked(f)'
<1>1. CASE UNCHANGED dbVars
  BY <1>1 DEF dbVars, Checked
<1>2. ASSUME NEW e \in Evaluations, LegalWrite(e)
      PROVE  /\ status[f] # Null => status'[f] # Null
             /\ Checked(f) => Checked(f)'
  <2>1. PICK to \in Entered, actor \in Users \cup {Null} :
           Moves(e, to, actor) /\ MayMove(e, to, actor)
    BY <1>2, WritesMove DEF TypeInv
  <2>2. to # Null
    BY NullAssumption DEF Entered, EvaluationStatuses
  <2>3. Checked(e) => to = "CANCELLED"
    BY <2>1 DEF MayMove, Entered, Checked
  <2>4. status'[f] = IF f = e THEN to ELSE status[f]
    BY <2>1 DEF Moves, TypeInv, DbTyped
  <2> QED
    BY <2>2, <2>3, <2>4, NullAssumption DEF Checked, EvaluationStatuses
<1> QED
  BY <1>1, <1>2, LegalWrites

\* Every step keeps a live or dead-lettered job behind an unchecked evaluation.
LEMMA JobStep ==
    ASSUME TypeInv, JobInv, [Next]_vars
    PROVE  JobInv'
<1> USE RowsOnlyAdvance DEF TypeInv, JobInv
<1>0. \A w \in Workers : run[w] # "idle" => task[w] \in Evaluations
  BY DEF SlotInv
<1>1. ASSUME NEW e \in Evaluations, NEW u \in Submitters,
             CreateEvaluation(e, u) \/ CreateFails(e, u)
      PROVE  JobInv'
  <2>1. start' \in {[start EXCEPT ![e] = "failed"], [start EXCEPT ![e] = "created"]}
    BY <1>1 DEF CreateEvaluation, CreateFails
  <2>2. start'[e] = "created" => status'[e] # Null
    BY <1>1, NullAssumption
       DEF CreateEvaluation, CreateFails, InsertEvaluation, StartTyped, DbTyped,
           EvaluationStatuses
  <2>3. UNCHANGED <<job, run, task>>
    BY <1>1 DEF CreateEvaluation, CreateFails, queueVars, slotVars
  <2> QED
    BY <1>0, <2>1, <2>2, <2>3 DEF StartTyped, Checked
<1>2. ASSUME NEW e \in Evaluations, Enqueue(e) \/ EnqueueFails(e)
      PROVE  JobInv'
  BY <1>0, <1>2 DEF Enqueue, EnqueueFails, AddJob, slotVars, StartTyped, QueueInv
<1>3. ASSUME NEW e \in Evaluations, BackoffElapses(e) \/ LockExpires(e)
      PROVE  JobInv'
  BY <1>0, <1>3 DEF BackoffElapses, LockExpires, AfterStall, slotVars, QueueInv
<1>4. ASSUME NEW w \in Workers, NEW e \in Evaluations, Reserve(w, e)
      PROVE  JobInv'
  BY <1>0, <1>4 DEF Reserve, QueueInv, SlotInv
<1>5. ASSUME NEW w \in Workers, ReadEvaluation(w) \/ StoreFails(w)
      PROVE  JobInv'
  <2>1. PICK point \in RunPoints :
           /\ run' = [run EXCEPT ![w] = point]
           /\ point = "returned" => Checked(task[w])
    <3>1. CASE ReadEvaluation(w)
      <4>1. AfterRead(status[task[w]]) = "returned" => Checked(task[w])
        BY <1>0, <3>1 DEF ReadEvaluation, AfterRead, Checked
      <4> QED
        BY <3>1, <4>1 DEF ReadEvaluation, AfterRead, RunPoints
    <3>2. CASE StoreFails(w)
      BY <3>2, "threw" \in RunPoints DEF StoreFails, RunPoints
    <3> QED
      BY <1>5, <3>1, <3>2
  <2>2. run[w] # "idle" /\ UNCHANGED <<dbVars, start, queueVars, task>>
    BY <1>5 DEF ReadEvaluation, StoreFails
  <2> QED
    BY <1>0, <2>1, <2>2 DEF SlotInv, dbVars, queueVars, Checked
<1>6. ASSUME NEW w \in Workers, BeginChecks(w) \/ CompleteChecks(w)
      PROVE  JobInv'
  <2>1. /\ run[w] # "idle" /\ UNCHANGED <<start, queueVars, task>>
        /\ task[w] \in Evaluations
    BY <1>0, <1>6 DEF BeginChecks, CompleteChecks
  <2>2. PICK point \in RunPoints :
           /\ run' = [run EXCEPT ![w] = point]
           /\ point = "returned" => Checked(task[w])'
    <3>1. CASE BeginChecks(w)
      BY <3>1 DEF BeginChecks, RunPoints
    <3>2. CASE CompleteChecks(w) /\ run' = [run EXCEPT ![w] = "threw"]
      BY <3>2, "threw" \in RunPoints DEF RunPoints
    <3>3. CASE CompleteChecks(w) /\ run' = [run EXCEPT ![w] = "returned"]
      <4>1. run'[w] = "returned"
        BY <3>3 DEF SlotInv
      <4>2. status' = [status EXCEPT ![task[w]] = "AWAITING_REVIEW"]
        BY <3>3, <4>1 DEF CompleteChecks, Transition, SlotInv
      <4>3. Checked(task[w])'
        BY <2>1, <4>2, NullAssumption DEF Checked, DbTyped, EvaluationStatuses
      <4> QED
        BY <3>3, <4>3 DEF RunPoints
    <3> QED
      BY <1>6, <3>1, <3>2, <3>3 DEF CompleteChecks
  <2> QED
    BY <1>0, <2>1, <2>2 DEF SlotInv, queueVars
<1>7. ASSUME NEW w \in Workers, JobCompletes(w) \/ JobFails(w) \/ SlotCrashes(w)
      PROVE  JobInv'
  <2>1. Frees(w) /\ UNCHANGED <<dbVars, start>>
    BY <1>7 DEF JobCompletes, JobFails, SlotCrashes
  <2>2. ASSUME NEW e \in Evaluations
        PROVE  /\ job'[e] = "none" => job[e] = "none"
               /\ job[e] = "none" => job'[e] = "none" \/ status[e] # Null
               /\ job'[e] = "completed" => Checked(e)
    BY <1>0, <1>7 DEF JobCompletes, JobFails, SlotCrashes, AfterFailure, queueVars,
                      QueueInv
  <2> QED
    BY <1>0, <2>1, <2>2 DEF Frees, SlotInv, dbVars, Checked
<1>8. ASSUME NEW a \in Admins, CancelStep(a) PROVE JobInv'
  <2>1. UNCHANGED <<start, job, run, task>>
    BY <1>8 DEF CancelStep, CancelReads, CancelCommits, CancelConflicts,
                CancelFails, queueVars, slotVars
  <2> QED
    BY <1>0, <2>1
<1>9. CASE UNCHANGED vars
  BY <1>0, <1>9 DEF vars
<1> QED
  BY <1>1, <1>2, <1>3, <1>4, <1>5, <1>6, <1>7, <1>8, <1>9
     DEF Next, ApiStep, QueueStep, RunStep

\* Every step keeps the origin of rows, runs and checks: jobs are never taken
\* out of the queue, and the checks are begun by a run alone.
LEMMA OriginStep ==
    ASSUME TypeInv, OriginInv, [Next]_vars
    PROVE  OriginInv'
<1> USE DEF TypeInv
<1>0. \A w \in Workers : run[w] # "idle" <=> task[w] \in Evaluations
  BY DEF SlotInv
<1>1. ASSUME NEW e \in Evaluations, NEW u \in Submitters,
             CreateEvaluation(e, u) \/ CreateFails(e, u)
      PROVE  OriginInv'
  <2>1. /\ start' \in {[start EXCEPT ![e] = "failed"], [start EXCEPT ![e] = "created"]}
        /\ status' \in {status, [status EXCEPT ![e] = "PENDING"]}
        /\ UNCHANGED <<job, run, task>>
    BY <1>1 DEF CreateEvaluation, CreateFails, InsertEvaluation, dbVars,
                queueVars, slotVars
  <2> QED
    BY <2>1 DEF OriginInv, StartTyped, DbTyped
<1>2. ASSUME NEW e \in Evaluations, Enqueue(e) \/ EnqueueFails(e)
      PROVE  OriginInv'
  <2>1. /\ start[e] = "created"
        /\ start' \in {[start EXCEPT ![e] = "failed"], [start EXCEPT ![e] = "accepted"]}
        /\ job' \in {job, [job EXCEPT ![e] = "wait"]}
        /\ UNCHANGED <<status, run, task>>
    BY <1>2 DEF Enqueue, EnqueueFails, AddJob, dbVars, slotVars
  <2> QED
    BY <1>0, <2>1 DEF OriginInv, StartTyped, QueueInv
<1>3. ASSUME NEW e \in Evaluations, NEW to \in JobStates \ {"none"},
             job' = [job EXCEPT ![e] = to], UNCHANGED <<status, start>>,
             \A w \in Workers : \/ run'[w] = run[w] /\ task'[w] = task[w]
                                \/ run'[w] = "idle"
                                \/ task'[w] = e
      PROVE  OriginInv'
  BY <1>0, <1>3 DEF OriginInv, QueueInv
<1>4. ASSUME NEW e \in Evaluations, QueueStep(e) PROVE OriginInv'
  <2>1. PICK to \in JobStates \ {"none"} : job' = [job EXCEPT ![e] = to]
    BY <1>4 DEF QueueStep, BackoffElapses, LockExpires, AfterStall, JobStates
  <2> QED
    BY <1>3, <1>4, <2>1
       DEF QueueStep, BackoffElapses, LockExpires, dbVars, slotVars
<1>5. ASSUME NEW w \in Workers, NEW e \in Evaluations, Reserve(w, e)
      PROVE  OriginInv'
  BY <1>3, <1>5, "active" \in JobStates \ {"none"}
     DEF Reserve, SlotInv, dbVars, JobStates
<1>6. ASSUME NEW w \in Workers, JobCompletes(w) \/ JobFails(w) \/ SlotCrashes(w)
      PROVE  OriginInv'
  <2>1. Frees(w) /\ UNCHANGED <<status, start>>
    BY <1>6 DEF JobCompletes, JobFails, SlotCrashes, dbVars
  <2>2. \A e \in Evaluations : job[e] # "none" => job'[e] # "none"
    BY <1>0, <1>6 DEF JobCompletes, JobFails, SlotCrashes, AfterFailure, queueVars,
                      QueueInv
  <2> QED
    BY <1>0, <2>1, <2>2 DEF OriginInv, Frees, SlotInv
<1>7. ASSUME NEW w \in Workers,
             ReadEvaluation(w) \/ StoreFails(w) \/ BeginChecks(w) \/ CompleteChecks(w)
      PROVE  OriginInv'
  <2>1. run[w] # "idle" /\ UNCHANGED <<start, job, task>>
    BY <1>7 DEF ReadEvaluation, StoreFails, BeginChecks, CompleteChecks, queueVars
  <2>2. \A x \in Workers : run[x] = "idle" => run'[x] = "idle"
    BY <1>7, <2>1 DEF ReadEvaluation, StoreFails, BeginChecks, CompleteChecks, SlotInv
  <2>3. \/ UNCHANGED status
        \/ status[task[w]] \in {"PENDING", "RUNNING_CHECKS"}
             /\ status' \in {[status EXCEPT ![task[w]] = "RUNNING_CHECKS"],
                             [status EXCEPT ![task[w]] = "AWAITING_REVIEW"]}
    BY <1>7 DEF ReadEvaluation, StoreFails, BeginChecks, CompleteChecks,
                Transition, Conflicts, dbVars
  <2>4. Null \notin {"PENDING", "RUNNING_CHECKS"}
    BY NullAssumption DEF EvaluationStatuses
  <2> QED
    BY <1>0, <2>1, <2>2, <2>3, <2>4 DEF OriginInv, DbTyped
<1>8. ASSUME NEW a \in Admins, CancelStep(a) PROVE OriginInv'
  <2>1. UNCHANGED <<start, job, run, task>>
    BY <1>8 DEF CancelStep, CancelReads, CancelCommits, CancelConflicts,
                CancelFails, queueVars, slotVars
  <2>2. \/ UNCHANGED status
        \/ \E e \in Evaluations : status[e] # Null
              /\ status' = [status EXCEPT ![e] = "CANCELLED"]
    BY <1>8, NullAssumption
       DEF CancelStep, CancelReads, CancelCommits, CancelConflicts, CancelFails,
           Conflicts, Transition, CancelInv, dbVars
  <2> QED
    BY <2>1, <2>2 DEF OriginInv, DbTyped
<1>9. CASE UNCHANGED vars
  BY <1>9 DEF OriginInv, vars
<1> QED
  BY <1>1, <1>2, <1>4, <1>5, <1>6, <1>7, <1>8, <1>9 DEF Next, ApiStep, RunStep

\* Every state has the origins of its rows and runs in order.
LEMMA OriginCorrect == Spec => [](JobInv /\ OriginInv)
<1>1. Init => JobInv /\ OriginInv
  <2>1. Null # "RUNNING_CHECKS"
    BY NullAssumption DEF EvaluationStatuses
  <2>2. Init => JobInv
    BY DEF Init, JobInv
  <2>3. Init => OriginInv
    BY <2>1 DEF Init, OriginInv
  <2> QED
    BY <2>2, <2>3
<1>2. TypeInv /\ JobInv /\ OriginInv /\ [Next]_vars => (JobInv /\ OriginInv)'
  BY JobStep, OriginStep
<1> QED
  BY <1>1, <1>2, TypeInvariance, PTL DEF Spec

\* UncheckedEvaluationKeepsItsJob: for any number of slots, attempts and stalls,
\* an evaluation that is not past its checks has a live or a dead-lettered job,
\* or it is still pending and its POST handler has not got to the queue.
THEOREM JobKept == Spec => []UncheckedEvaluationKeepsItsJob
<1>1. TypeInv /\ JobInv /\ OriginInv => UncheckedEvaluationKeepsItsJob
  <2> SUFFICES ASSUME TypeInv, JobInv, OriginInv, NEW e \in Evaluations,
                      status[e] \in {"PENDING", "RUNNING_CHECKS"},
                      job[e] \notin {"wait", "active", "delayed", "failed"}
               PROVE  /\ job[e] = "none" /\ status[e] = "PENDING"
                      /\ start[e] \in {"created", "failed"}
    BY DEF UncheckedEvaluationKeepsItsJob
  <2>1. status[e] # Null /\ job[e] \in JobStates
    BY NullAssumption DEF EvaluationStatuses, TypeInv, QueueInv
  <2>2. job[e] = "none"
    BY <2>1 DEF JobInv, Checked, JobStates
  <2> QED
    BY <2>1, <2>2 DEF JobInv, OriginInv, TypeInv, StartTyped
<1> QED
  BY <1>1, OriginCorrect, TypeInvariance, PTL

----------------------------------------------------------------------------
(* Every job moves on: the safety half of JobSettles.                      *)

\* JobsOnlyMoveOn for one job: nearer to its end, or not touched.
Stays(e) ==
    /\ UNCHANGED <<job[e], attemptsMade[e], stalls[e], lockOwner[e]>>
    /\ Position(e)' = Position(e)

MovesOn(e) == Distance(e)' < Distance(e) \/ Stays(e)

\* Slot w holds the lock of e and works on it.
Holds(w, e) == job[e] = "active" /\ lockOwner[e] = w /\ task[w] = e

\* The distance of a job is a natural number, and zero only once it has settled.
LEMMA Distances ==
    ASSUME QueueInv, NEW e \in Evaluations
    PROVE  /\ DeliveriesLeft(e) \in Nat /\ Position(e) \in 0..7
           /\ Distance(e) \in Nat
           /\ job[e] # "none" /\ ~ Settled(e) => Distance(e) > 0
<1>1. DeliveriesLeft(e) \in Nat
  BY BoundsAssumption DEF QueueInv, DeliveriesLeft
<1>2. Position(e) \in 0..7
  BY DEF Position, StepsLeft
<1>3. job[e] # "none" /\ ~ Settled(e) => Position(e) > 0
  BY DEF QueueInv, JobStates, Position, StepsLeft, Settled
<1> QED
  BY <1>1, <1>2, <1>3 DEF Distance

\* Where the job of a slot that holds its lock stands, before a step ...
LEMMA HeldPosition ==
    ASSUME NEW w \in Workers, NEW e \in Evaluations, Holds(w, e)
    PROVE  Position(e) = StepsLeft(run[w]) /\ ~ Settled(e)
  BY DEF Holds, Position, OwnerIsGone, Settled

\* ... and after it.
LEMMA HeldPositionNext ==
    ASSUME NEW w \in Workers, NEW e \in Evaluations, Holds(w, e)'
    PROVE  Position(e)' = StepsLeft(run'[w]) /\ ~ Settled(e)'
  BY DEF Holds, Position, OwnerIsGone, Settled

\* A step of slot w does not touch a job whose lock it does not use.
LEMMA Elsewhere ==
    ASSUME QueueInv, NEW f \in Evaluations, NEW w \in Workers,
           UNCHANGED <<job[f], attemptsMade[f], stalls[f], lockOwner[f]>>,
           \A x \in Workers \ {w} : run'[x] = run[x] /\ task'[x] = task[x],
           lockOwner[f] = w => task[w] # f /\ task'[w] # f
    PROVE  Stays(f)
<1>1. OwnerIsGone(f)' <=> OwnerIsGone(f)
  BY DEF OwnerIsGone
<1>2. ~ OwnerIsGone(f) => run'[lockOwner[f]] = run[lockOwner[f]]
  BY DEF OwnerIsGone
<1>3. Position(f)' = Position(f)
  BY <1>1, <1>2 DEF Position
<1> QED
  BY <1>3 DEF Stays

\* A step that touches neither the slots nor this job.
LEMMA Untouched ==
    ASSUME NEW f \in Evaluations, UNCHANGED <<run, task>>,
           UNCHANGED <<job[f], attemptsMade[f], stalls[f], lockOwner[f]>>
    PROVE  Stays(f)
<1>1. OwnerIsGone(f)' <=> OwnerIsGone(f)
  BY DEF OwnerIsGone
<1>2. Position(f)' = Position(f)
  BY <1>1 DEF Position
<1> QED
  BY <1>2 DEF Stays

\* The slot that holds the lock takes its next step, or leaves the job alone.
LEMMA RunAdvances ==
    ASSUME TypeInv, TypeInv', NEW w \in Workers, NEW f \in Evaluations,
           ReadEvaluation(w) \/ BeginChecks(w) \/ CompleteChecks(w) \/ StoreFails(w)
    PROVE  /\ MovesOn(f)
           /\ Holds(w, f) => Distance(f)' < Distance(f)
<1>1. UNCHANGED <<queueVars, task>>
  BY DEF ReadEvaluation, BeginChecks, CompleteChecks, StoreFails
<1>2. PICK point \in RunPoints : run' = [run EXCEPT ![w] = point]
  BY DEF ReadEvaluation, BeginChecks, CompleteChecks, StoreFails, AfterRead,
         RunPoints
<1>3. StepsLeft(point) < StepsLeft(run[w])
  <2>1. run'[w] = point
    BY <1>2 DEF TypeInv, SlotInv
  <2> QED
    BY <2>1 DEF ReadEvaluation, BeginChecks, CompleteChecks, StoreFails,
                AfterRead, StepsLeft, TypeInv, SlotInv
<1>4. ASSUME Holds(w, f) PROVE Distance(f)' < Distance(f)
  <2>1. Holds(w, f)' /\ DeliveriesLeft(f)' = DeliveriesLeft(f)
    BY <1>1, <1>4 DEF Holds, DeliveriesLeft, queueVars
  <2>2. Position(f)' < Position(f)
    BY <1>2, <1>3, <1>4, <2>1, HeldPosition, HeldPositionNext
       DEF TypeInv, SlotInv
  <2>3. ~ Settled(f) /\ ~ Settled(f)'
    BY <1>4, <2>1, HeldPosition, HeldPositionNext
  <2>4. /\ DeliveriesLeft(f) \in Nat /\ Position(f) \in 0..7
        /\ Position(f)' \in 0..7
    BY <2>1, Distances DEF TypeInv, Position, StepsLeft
  <2> QED
    BY <2>1, <2>2, <2>3, <2>4 DEF Distance
<1>5. ASSUME ~ Holds(w, f) PROVE Stays(f)
  <2>1. lockOwner[f] = w => task[w] # f /\ task'[w] # f
    BY <1>1, <1>5, NullAssumption DEF Holds, TypeInv, QueueInv
  <2>2. \A x \in Workers \ {w} : run'[x] = run[x] /\ task'[x] = task[x]
    BY <1>1, <1>2 DEF TypeInv, SlotInv
  <2> QED
    BY <1>1, <2>1, <2>2, Elsewhere DEF TypeInv, queueVars
<1> QED
  BY <1>4, <1>5 DEF MovesOn

\* A slot that reports or dies ends the delivery it holds the lock for; a late
\* report, or the death of a slot that lost its lock, touches no job.
LEMMA RunEnds ==
    ASSUME TypeInv, TypeInv', NEW w \in Workers, NEW f \in Evaluations,
           JobCompletes(w) \/ JobFails(w) \/ SlotCrashes(w)
    PROVE  /\ MovesOn(f)
           /\ Holds(w, f) => Distance(f)' < Distance(f)
<1>1. /\ run[w] # "idle" /\ Frees(w) /\ task[w] \in Evaluations
      /\ task'[w] = Null /\ f # Null
      /\ \A x \in Workers \ {w} : run'[x] = run[x] /\ task'[x] = task[x]
  BY NullAssumption
     DEF JobCompletes, JobFails, SlotCrashes, Frees, TypeInv, SlotInv
<1>2. ASSUME Holds(w, f) PROVE Distance(f)' < Distance(f)
  <2>1. /\ Position(f) = StepsLeft(run[w]) /\ ~ Settled(f)
        /\ Position(f) \in 2..7 /\ DeliveriesLeft(f) \in Nat
        /\ DeliveriesLeft(f) > 1
        /\ Distance(f) = 8 * DeliveriesLeft(f) + Position(f)
    <3>1. DeliveriesLeft(f) \in Nat /\ DeliveriesLeft(f) > 1
      BY <1>2, BoundsAssumption DEF Holds, TypeInv, QueueInv, DeliveriesLeft
    <3> QED
      BY <1>2, <3>1, HeldPosition DEF StepsLeft, Distance
  <2>2. CASE JobCompletes(w)
    <3>1. job'[f] = "completed"
      BY <1>2, <2>2 DEF JobCompletes, Holds, TypeInv, QueueInv
    <3> QED
      BY <2>1, <3>1 DEF Distance, Settled
  <2>3. CASE JobFails(w)
    <3>1. /\ job'[f] \in {"delayed", "failed"} /\ stalls'[f] = stalls[f]
          /\ attemptsMade'[f] = attemptsMade[f] + 1
      BY <1>2, <2>3 DEF JobFails, AfterFailure, Holds, TypeInv, QueueInv
    <3>2. DeliveriesLeft(f)' = DeliveriesLeft(f) - 1
      BY <3>1, BoundsAssumption DEF DeliveriesLeft, TypeInv, QueueInv
    <3>3. CASE job'[f] = "delayed"
      BY <2>1, <3>2, <3>3 DEF Distance, Position, Settled
    <3>4. CASE job'[f] = "failed"
      BY <2>1, <3>4 DEF Distance, Settled
    <3> QED
      BY <3>1, <3>3, <3>4
  <2>4. CASE SlotCrashes(w)
    <3>1. /\ job'[f] = "active" /\ lockOwner'[f] = w
          /\ UNCHANGED <<attemptsMade, stalls>>
      BY <1>2, <2>4 DEF SlotCrashes, Holds, queueVars
    <3>2. Position(f)' = 1
      BY <1>1, <3>1 DEF Position, OwnerIsGone
    <3>3. DeliveriesLeft(f)' = DeliveriesLeft(f)
      BY <3>1 DEF DeliveriesLeft
    <3> QED
      BY <2>1, <3>1, <3>2, <3>3 DEF Distance, Settled
  <2> QED
    BY <2>2, <2>3, <2>4
<1>3. ASSUME ~ Holds(w, f) PROVE Stays(f)
  <2>1. lockOwner[f] = w => task[w] # f
    BY <1>3, NullAssumption DEF Holds, TypeInv, QueueInv
  <2>2. UNCHANGED <<job[f], attemptsMade[f], stalls[f], lockOwner[f]>>
    BY <1>1, <2>1 DEF JobCompletes, JobFails, SlotCrashes, queueVars, TypeInv,
                      QueueInv
  <2> QED
    BY <1>1, <2>1, <2>2, Elsewhere DEF TypeInv
<1> QED
  BY <1>2, <1>3 DEF MovesOn

\* A slot that takes a job brings it one step on, and no other job is touched.
LEMMA ReserveAdvances ==
    ASSUME TypeInv, TypeInv', NEW w \in Workers, NEW e \in Evaluations,
           NEW f \in Evaluations, Reserve(w, e)
    PROVE  /\ MovesOn(f)
           /\ f = e => Distance(f)' < Distance(f)
<1>1. /\ \A x \in Workers \ {w} : run'[x] = run[x] /\ task'[x] = task[x]
      /\ run'[w] = "read" /\ task'[w] = e /\ task[w] \notin Evaluations
  BY DEF Reserve, TypeInv, SlotInv
<1>2. ASSUME f = e PROVE Distance(f)' < Distance(f)
  <2>1. /\ job[f] = "wait" /\ job'[f] = "active" /\ lockOwner'[f] = w
        /\ UNCHANGED <<attemptsMade, stalls>>
    BY <1>2 DEF Reserve, TypeInv, QueueInv
  <2>2. Position(f)' = 5
    BY <1>1, <1>2, <2>1, HeldPositionNext DEF Holds, StepsLeft
  <2>3. Position(f) = 6 /\ DeliveriesLeft(f)' = DeliveriesLeft(f)
    BY <2>1 DEF Position, DeliveriesLeft
  <2> QED
    BY <2>1, <2>2, <2>3, Distances DEF Distance, Settled, TypeInv
<1>3. ASSUME f # e PROVE Stays(f)
  <2>1. UNCHANGED <<job[f], attemptsMade[f], stalls[f], lockOwner[f]>>
    BY <1>3 DEF Reserve, TypeInv, QueueInv
  <2> QED
    BY <1>1, <1>3, <2>1, Elsewhere DEF TypeInv
<1> QED
  BY <1>2, <1>3 DEF MovesOn

\* A delay that ends brings a job on, and so does an expired lock: it costs one
\* of the stalls.
LEMMA QueueAdvances ==
    ASSUME TypeInv, TypeInv', NEW e \in Evaluations, NEW f \in Evaluations,
           QueueStep(e)
    PROVE  /\ MovesOn(f)
           /\ f = e => Distance(f)' < Distance(f)
<1>1. ASSUME f = e PROVE Distance(f)' < Distance(f)
  <2>1. CASE BackoffElapses(e)
    <3>1. /\ job[f] = "delayed" /\ job'[f] = "wait"
          /\ UNCHANGED <<attemptsMade, stalls>>
      BY <1>1, <2>1 DEF BackoffElapses, TypeInv, QueueInv
    <3>2. /\ Position(f) = 7 /\ Position(f)' = 6
          /\ DeliveriesLeft(f)' = DeliveriesLeft(f)
      BY <3>1 DEF Position, DeliveriesLeft
    <3> QED
      BY <3>1, <3>2, Distances DEF Distance, Settled, TypeInv
  <2>2. CASE LockExpires(e)
    <3>1. /\ job[f] = "active" /\ job'[f] \in {"wait", "failed"}
          /\ stalls'[f] = stalls[f] + 1 /\ UNCHANGED attemptsMade
      BY <1>1, <2>2 DEF LockExpires, AfterStall, TypeInv, QueueInv
    <3>2. DeliveriesLeft(f)' = DeliveriesLeft(f) - 1
      BY <3>1, BoundsAssumption DEF DeliveriesLeft, TypeInv, QueueInv
    <3>3. /\ Distance(f) = 8 * DeliveriesLeft(f) + Position(f)
          /\ DeliveriesLeft(f) \in Nat /\ Position(f) \in 0..7
          /\ Distance(f) > 0
      BY <3>1, Distances DEF Distance, Settled, TypeInv
    <3>4. CASE job'[f] = "wait"
      BY <3>2, <3>3, <3>4 DEF Distance, Position, Settled
    <3>5. CASE job'[f] = "failed"
      BY <3>3, <3>5 DEF Distance, Settled
    <3> QED
      BY <3>1, <3>4, <3>5
  <2> QED
    BY <2>1, <2>2 DEF QueueStep
<1>2. ASSUME f # e PROVE Stays(f)
  <2>1. /\ UNCHANGED <<job[f], attemptsMade[f], stalls[f], lockOwner[f]>>
        /\ UNCHANGED <<run, task>>
    BY <1>2 DEF QueueStep, BackoffElapses, LockExpires, slotVars, TypeInv, QueueInv
  <2> QED
    BY <2>1, Untouched
<1> QED
  BY <1>1, <1>2 DEF MovesOn

\* No step of any actor takes a job back.
LEMMA MoveOnStep ==
    ASSUME TypeInv, TypeInv', [Next]_vars, NEW f \in Evaluations, job[f] # "none"
    PROVE  MovesOn(f)
<1>1. ASSUME NEW e \in Evaluations, ApiStep(e) PROVE MovesOn(f)
  <2>1. UNCHANGED <<job[f], attemptsMade[f], stalls[f], lockOwner[f]>>
    BY <1>1 DEF ApiStep, CreateEvaluation, CreateFails, Enqueue, EnqueueFails,
                AddJob, queueVars, TypeInv, QueueInv
  <2>2. UNCHANGED <<run, task>>
    BY <1>1 DEF ApiStep, CreateEvaluation, CreateFails, Enqueue, EnqueueFails,
                slotVars
  <2> QED
    BY <2>1, <2>2, Untouched DEF MovesOn
<1>2. ASSUME NEW a \in Admins, CancelStep(a) PROVE MovesOn(f)
  <2>1. UNCHANGED <<queueVars, slotVars>>
    BY <1>2 DEF CancelStep, CancelReads, CancelCommits, CancelConflicts, CancelFails
  <2> QED
    BY <2>1, Untouched DEF MovesOn, queueVars, slotVars
<1>3. CASE UNCHANGED vars
  BY <1>3, Untouched DEF MovesOn, vars
<1> QED
  BY <1>1, <1>2, <1>3, QueueAdvances, ReserveAdvances, RunAdvances, RunEnds
     DEF Next, RunStep

\* JobsOnlyMoveOn, for any number of jobs and slots and whatever limits: whoever
\* acts, a job is not touched or comes nearer to its end, and its distance from
\* it is a natural number (Distances).  A job is therefore touched a bounded
\* number of times, and what was completed or dead-lettered stays that way.
THEOREM MoveOnCorrect == Spec => JobsOnlyMoveOn
<1>1. TypeInv /\ TypeInv' /\ [Next]_vars
        => [\A e \in Evaluations :
              job[e] # "none" =>
                  \/ Distance(e)' < Distance(e)
                  \/ /\ UNCHANGED <<job[e], attemptsMade[e], stalls[e], lockOwner[e]>>
                     /\ Position(e)' = Position(e)]_vars
  BY MoveOnStep DEF MovesOn, Stays
<1> QED
  BY <1>1, TypeInvariance, PTL DEF Spec, JobsOnlyMoveOn

\* The steps that the fairness of FairSpec obliges somebody to take for a job.
Served(e) ==
    \/ \E w \in Workers : Reserve(w, e)
    \/ BackoffElapses(e)
    \/ OwnerIsGone(e) /\ LockExpires(e)
    \/ \E w \in Workers : Holds(w, e) /\ RunStep(w)

\* Each of them brings the job strictly nearer to its end: waiting for fairness
\* is never a step on the spot.
THEOREM ServiceAdvances ==
    Spec => [][\A e \in Evaluations : Served(e) => Distance(e)' < Distance(e)]_vars
<1>1. TypeInv /\ TypeInv' /\ [Next]_vars
        => [\A e \in Evaluations : Served(e) => Distance(e)' < Distance(e)]_vars
  <2> SUFFICES ASSUME TypeInv, TypeInv', NEW e \in Evaluations, Served(e)
               PROVE  Distance(e)' < Distance(e)
    OBVIOUS
  <2>1. ASSUME NEW w \in Workers, Holds(w, e), RunStep(w)
        PROVE  Distance(e)' < Distance(e)
    BY <2>1, RunAdvances, RunEnds DEF RunStep
  <2> QED
    BY <2>1, ReserveAdvances, QueueAdvances DEF Served, QueueStep
<1> QED
  BY <1>1, TypeInvariance, PTL DEF Spec

\* Whom a job that has not settled waits for: the clock, a slot that is free, a
\* slot that is busy with it, or the stalled check that finds its slot gone.
Attended(e) ==
    \/ job[e] \in {"wait", "delayed"} /\ lockOwner[e] = Null
    \/ job[e] = "active" /\ lockOwner[e] # Null /\ OwnerIsGone(e)
    \/ \E w \in Workers :
          Holds(w, e) /\ run[w] \in {"read", "begin", "check", "returned", "threw"}

\* A job that was added and has not settled always waits for one of the steps
\* of Served: none is left active without a slot and without a lock to expire.
\* With ServiceAdvances and Distances this is all of JobSettles but the
\* fairness itself.
THEOREM JobsAreAttended ==
    Spec => [](\A e \in Evaluations :
                  job[e] # "none" /\ ~ Settled(e) => Attended(e))
<1>1. TypeInv => \A e \in Evaluations :
                    job[e] # "none" /\ ~ Settled(e) => Attended(e)
  <2> SUFFICES ASSUME TypeInv, NEW e \in Evaluations, job[e] # "none", ~ Settled(e),
                      job[e] \notin {"wait", "delayed"}, ~ OwnerIsGone(e)
               PROVE  \E w \in Workers :
                         /\ Holds(w, e)
                         /\ run[w] \in {"read", "begin", "check", "returned", "threw"}
    BY DEF Attended, TypeInv, QueueInv, JobStates, Settled
  <2>1. job[e] = "active"
    BY DEF TypeInv, QueueInv, JobStates, Settled
  <2>2. PICK w \in Workers : Holds(w, e)
    BY <2>1 DEF OwnerIsGone, Holds
  <2>3. run[w] \in RunPoints \ {"idle"}
    BY <2>2 DEF Holds, TypeInv, SlotInv
  <2> QED
    BY <2>2, <2>3 DEF RunPoints
<1> QED
  BY <1>1, TypeInvariance, PTL

----------------------------------------------------------------------------
(* Where the pipeline differs from its documents, it does for good.        *)

\* A dead-lettered job of an evaluation whose checks had begun, with no slot
\* left that still runs it.
DeadLettered(e) ==
    /\ job[e] = "failed" /\ status[e] = "RUNNING_CHECKS"
    /\ \A w \in Workers : task[w] # e

\* A row whose POST handler failed before the job was added.
NeverQueued(e) ==
    /\ start[e] = "failed" /\ job[e] = "none" /\ status[e] = "PENDING"

\* Only the run of its job moves an evaluation on from RUNNING_CHECKS.
LEMMA DeadLetterStep ==
    ASSUME TypeInv, [Next]_vars, NEW f \in Evaluations, DeadLettered(f)
    PROVE  DeadLettered(f)'
<1> USE DEF TypeInv, DeadLettered
<1>0. Null # f /\ "RUNNING_CHECKS" # Null
  BY NullAssumption DEF EvaluationStatuses
<1>1. ASSUME NEW e \in Evaluations, ApiStep(e) \/ QueueStep(e)
      PROVE  DeadLettered(f)'
  <2>1. UNCHANGED task /\ job'[f] = job[f]
    BY <1>1 DEF ApiStep, QueueStep, CreateEvaluation, CreateFails, Enqueue,
                EnqueueFails, AddJob, BackoffElapses, LockExpires, slotVars,
                queueVars, QueueInv
  <2>2. status'[f] = status[f]
    BY <1>0, <1>1 DEF ApiStep, QueueStep, CreateEvaluation, CreateFails, Enqueue,
                EnqueueFails, BackoffElapses, LockExpires, InsertEvaluation,
                dbVars, DbTyped
  <2> QED
    BY <2>1, <2>2
<1>2. ASSUME NEW w \in Workers, NEW e \in Evaluations, Reserve(w, e)
      PROVE  DeadLettered(f)'
  BY <1>2 DEF Reserve, dbVars, QueueInv, SlotInv
<1>3. ASSUME NEW w \in Workers, run[w] # "idle",
             RunStep(w) \/ StoreFails(w) \/ SlotCrashes(w)
      PROVE  DeadLettered(f)'
  <2>1. task[w] \in Evaluations /\ task[w] # f
    BY <1>3 DEF SlotInv
  <2>2. \A x \in Workers : task'[x] # f
    BY <1>0, <1>3, <2>1
       DEF RunStep, StoreFails, SlotCrashes, ReadEvaluation, BeginChecks,
           CompleteChecks, JobCompletes, JobFails, Frees, SlotInv
  <2>3. job'[f] = job[f]
    BY <1>3, <2>1
       DEF RunStep, StoreFails, SlotCrashes, ReadEvaluation, BeginChecks,
           CompleteChecks, JobCompletes, JobFails, queueVars, QueueInv
  <2>4. status'[f] = status[f]
    BY <1>3, <2>1
       DEF RunStep, StoreFails, SlotCrashes, ReadEvaluation, BeginChecks,
           CompleteChecks, JobCompletes, JobFails, Transition, Conflicts,
           dbVars, DbTyped
  <2> QED
    BY <2>2, <2>3, <2>4
<1>4. ASSUME NEW w \in Workers, RunStep(w) \/ StoreFails(w) \/ SlotCrashes(w)
      PROVE  run[w] # "idle"
  BY <1>4 DEF RunStep, StoreFails, SlotCrashes, ReadEvaluation, BeginChecks,
              CompleteChecks, JobCompletes, JobFails
<1>5. ASSUME NEW a \in Admins, CancelStep(a) PROVE DeadLettered(f)'
  <2>1. UNCHANGED <<job, task>>
    BY <1>5 DEF CancelStep, CancelReads, CancelCommits, CancelConflicts,
                CancelFails, queueVars, slotVars
  <2>2. cancel[a].at = "decided" => cancel[a].seen # "RUNNING_CHECKS"
    BY Table DEF CancelInv
  <2>3. status'[f] = status[f]
    BY <1>5, <2>2 DEF CancelStep, CancelReads, CancelCommits, CancelConflicts,
                CancelFails, Transition, Conflicts, dbVars, DbTyped
  <2> QED
    BY <2>1, <2>3
<1>6. CASE UNCHANGED vars
  BY <1>6 DEF vars
<1> QED
  BY <1>1, <1>2, <1>3, <1>4, <1>5, <1>6 DEF Next

\* What the run dead_letter shows of one evaluation, for every one: once its job
\* is dead-lettered and the slots have let go of it, it is RUNNING_CHECKS for
\* ever.  No retry, no slot and no cancel reaches it again, whatever is fair.
THEOREM DeadLetterIsForGood ==
    ASSUME NEW e \in Evaluations
    PROVE  Spec => [](DeadLettered(e) => []DeadLettered(e))
<1>1. TypeInv /\ [Next]_vars /\ DeadLettered(e) => DeadLettered(e)'
  BY DeadLetterStep
<1> QED
  BY <1>1, TypeInvariance, PTL DEF Spec

\* Without a job nothing but a cancel reaches an evaluation: nobody enqueues it
\* a second time, so no slot ever runs it.
LEMMA NeverQueuedStep ==
    ASSUME TypeInv, OriginInv, [Next]_vars, NEW f \in Evaluations, NeverQueued(f)
    PROVE  NeverQueued(f)' \/ status'[f] = "CANCELLED"
<1> USE DEF TypeInv, NeverQueued
<1>0. "PENDING" # Null
  BY NullAssumption DEF EvaluationStatuses
<1>1. ASSUME NEW e \in Evaluations, ApiStep(e) \/ QueueStep(e)
      PROVE  NeverQueued(f)'
  <2>1. start'[f] = start[f] /\ job'[f] = job[f]
    BY <1>1 DEF ApiStep, QueueStep, CreateEvaluation, CreateFails, Enqueue,
                EnqueueFails, AddJob, BackoffElapses, LockExpires, queueVars,
                QueueInv, StartTyped
  <2>2. status'[f] = status[f]
    BY <1>0, <1>1 DEF ApiStep, QueueStep, CreateEvaluation, CreateFails, Enqueue,
                EnqueueFails, BackoffElapses, LockExpires, InsertEvaluation,
                dbVars, DbTyped
  <2> QED
    BY <2>1, <2>2
<1>2. ASSUME NEW w \in Workers, NEW e \in Evaluations, Reserve(w, e)
      PROVE  NeverQueued(f)'
  BY <1>2 DEF Reserve, dbVars, QueueInv
<1>3. ASSUME NEW w \in Workers, run[w] # "idle",
             RunStep(w) \/ StoreFails(w) \/ SlotCrashes(w)
      PROVE  NeverQueued(f)'
  <2>1. task[w] \in Evaluations /\ task[w] # f
    BY <1>3 DEF SlotInv, OriginInv
  <2>2. UNCHANGED start /\ job'[f] = job[f]
    BY <1>3, <2>1
       DEF RunStep, StoreFails, SlotCrashes, ReadEvaluation, BeginChecks,
           CompleteChecks, JobCompletes, JobFails, queueVars, QueueInv
  <2>3. status'[f] = status[f]
    BY <1>3, <2>1
       DEF RunStep, StoreFails, SlotCrashes, ReadEvaluation, BeginChecks,
           CompleteChecks, JobCompletes, JobFails, Transition, Conflicts,
           dbVars, DbTyped
  <2> QED
    BY <2>2, <2>3
<1>4. ASSUME NEW w \in Workers, RunStep(w) \/ StoreFails(w) \/ SlotCrashes(w)
      PROVE  run[w] # "idle"
  BY <1>4 DEF RunStep, StoreFails, SlotCrashes, ReadEvaluation, BeginChecks,
              CompleteChecks, JobCompletes, JobFails
<1>5. ASSUME NEW a \in Admins, CancelStep(a)
      PROVE  NeverQueued(f)' \/ status'[f] = "CANCELLED"
  <2>1. UNCHANGED <<start, job>>
    BY <1>5 DEF CancelStep, CancelReads, CancelCommits, CancelConflicts,
                CancelFails, queueVars
  <2>2. status'[f] \in {status[f], "CANCELLED"}
    BY <1>5 DEF CancelStep, CancelReads, CancelCommits, CancelConflicts,
                CancelFails, Transition, Conflicts, dbVars, DbTyped
  <2> QED
    BY <2>1, <2>2
<1>6. CASE UNCHANGED vars
  BY <1>6 DEF vars
<1> QED
  BY <1>1, <1>2, <1>3, <1>4, <1>5, <1>6 DEF Next

\* What the run lost_enqueue shows of one evaluation, for every one: a row whose
\* POST handler failed before its job was added waits for ever, PENDING and
\* without a job, unless somebody cancels it, and then it stays CANCELLED.
THEOREM LostEnqueueIsForGood ==
    ASSUME NEW e \in Evaluations
    PROVE  Spec => [](NeverQueued(e) => [](NeverQueued(e) \/ status[e] = "CANCELLED"))
<1>1. TypeInv /\ OriginInv /\ [Next]_vars /\ NeverQueued(e)
        => NeverQueued(e)' \/ (status[e] = "CANCELLED")'
  BY NeverQueuedStep
<1>2. TypeInv /\ [Next]_vars /\ status[e] = "CANCELLED" => (status[e] = "CANCELLED")'
  BY TerminalStep DEF TerminalStatuses
<1> QED
  BY <1>1, <1>2, TypeInvariance, OriginCorrect, PTL DEF Spec

=============================================================================
