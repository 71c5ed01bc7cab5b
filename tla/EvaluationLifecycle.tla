------------------------ MODULE EvaluationLifecycle ------------------------
(***************************************************************************)
(* What the gateway promises about an evaluation, whatever queues, worker  *)
(* slots and admins do behind it: a row exists once, its status moves only *)
(* along the lifecycle's transitions, every move leaves exactly one event  *)
(* in the history, and the automated results appear with the move to       *)
(* AWAITING_REVIEW and never again.                                        *)
(*                                                                         *)
(* EvaluationPipeline implements this specification; the moves of later    *)
(* phases (review, scoring, finalising, failing) are permitted here        *)
(* because the transition table permits them, and no code takes them yet.  *)
(***************************************************************************)
EXTENDS EvaluationStateMachine, Naturals, Sequences

CONSTANTS Evaluations,   \* the ids evaluations are created under
          Actors,        \* users that may appear as the actor of an event
          Report,        \* the automated results a finished check records
          Null           \* SQL NULL

VARIABLES status,        \* status[e]: the row's status, Null before the insert
          results,       \* results[e]: evaluations.automated_results
          history        \* history[e]: the evaluation's events, oldest first

vars == <<status, results, history>>

Event(from, to, actor) == [from |-> from, to |-> to, actor |-> actor]

Init ==
    /\ status = [e \in Evaluations |-> Null]
    /\ results = [e \in Evaluations |-> Null]
    /\ history = [e \in Evaluations |-> <<>>]

Create(e, actor) ==
    /\ status[e] = Null
    /\ status' = [status EXCEPT ![e] = "PENDING"]
    /\ history' = [history EXCEPT ![e] = Append(@, Event(Null, "PENDING", actor))]
    /\ UNCHANGED results

\* A move by a user, or by the system when actor is Null.  Only a user
\* cancels, only the system runs the checks.
Move(e, to, actor) ==
    /\ status[e] # Null
    /\ CanTransition(status[e], to)
    /\ to = "CANCELLED" => actor # Null
    /\ to \in {"RUNNING_CHECKS", "AWAITING_REVIEW"} => actor = Null
    /\ status' = [status EXCEPT ![e] = to]
    /\ results' = IF to = "AWAITING_REVIEW"
                  THEN [results EXCEPT ![e] = Report]
                  ELSE results
    /\ history' = [history EXCEPT ![e] = Append(@, Event(status[e], to, actor))]

Next ==
    \E e \in Evaluations :
        \/ \E actor \in Actors : Create(e, actor)
        \/ \E to \in EvaluationStatuses, actor \in Actors \cup {Null} :
              Move(e, to, actor)

Spec == Init /\ [][Next]_vars

----------------------------------------------------------------------------
(* What every implementation of this specification inherits.               *)

\* SQL NULL is none of the values it stands beside.
NullIsApart ==
    /\ Null \notin EvaluationStatuses \cup Actors
    /\ Report # Null

\* The history is the full story of the status: it starts with the creation,
\* each event starts where the one before ended and is a transition of the
\* lifecycle, and the last one ends in the row's status.
HistoryIsAPath ==
    \A e \in Evaluations :
        LET h == history[e] IN
        IF status[e] = Null
        THEN h = <<>>
        ELSE /\ h # <<>>
             /\ h[1].from = Null /\ h[1].to = "PENDING"
             /\ h[Len(h)].to = status[e]
             /\ \A i \in 2..Len(h) :
                   /\ h[i].from = h[i - 1].to
                   /\ CanTransition(h[i].from, h[i].to)

\* Only a review can be repeated; every other status is entered once at most.
Repeatable == {"UNDER_REVIEW", "SCORED"}

StatusesAreEnteredOnce ==
    \A e \in Evaluations :
        \A i, j \in 1..Len(history[e]) :
            /\ history[e][i].to = history[e][j].to
            /\ history[e][i].to \notin Repeatable
            => i = j

\* The results are there exactly when the checks were recorded as completed.
ResultsAreExplained ==
    \A e \in Evaluations :
        results[e] # Null <=>
            \E i \in 1..Len(history[e]) : history[e][i].to = "AWAITING_REVIEW"

\* A user is behind every creation and cancellation, and none behind the checks.
ActorsAreRecorded ==
    \A e \in Evaluations :
        \A i \in 1..Len(history[e]) :
            LET x == history[e][i] IN
            /\ x.to \in {"PENDING", "CANCELLED"} => x.actor \in Actors
            /\ x.to \in {"RUNNING_CHECKS", "AWAITING_REVIEW"} => x.actor = Null

\* Nothing that was recorded is ever changed or taken out of the history.
HistoryOnlyGrows ==
    [][\A e \in Evaluations :
          /\ Len(history[e]) <= Len(history'[e])
          /\ \A i \in 1..Len(history[e]) : history'[e][i] = history[e][i]]_vars

\* An evaluation in a terminal status is never written again.
TerminalIsForever ==
    [][\A e \in Evaluations :
          status[e] \in TerminalStatuses =>
              /\ status'[e] = status[e]
              /\ results'[e] = results[e]
              /\ history'[e] = history[e]]_vars
=============================================================================
