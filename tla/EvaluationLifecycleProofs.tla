--------------------- MODULE EvaluationLifecycleProofs ---------------------
(***************************************************************************)
(* What follows from the abstract lifecycle alone, for any evaluations and *)
(* actors.  EvaluationPipelineProofs and EvaluationTransactionsProofs      *)
(* instantiate this module: each shows once that it implements the         *)
(* lifecycle and then has these theorems of its own rows and histories.    *)
(*                                                                         *)
(* The statuses come in stages, and a transition leads to a later stage or *)
(* stays among the repeatable ones: hence nothing else is entered twice.   *)
(***************************************************************************)
EXTENDS EvaluationLifecycle, TLAPS

Stage(s) ==
    CASE s = Null              -> 0
      [] s = "PENDING"         -> 1
      [] s = "RUNNING_CHECKS"  -> 2
      [] s = "AWAITING_REVIEW" -> 3
      [] s \in Repeatable      -> 4
      [] OTHER                 -> 5

Events == [from : EvaluationStatuses \cup {Null}, to : EvaluationStatuses,
           actor : Actors \cup {Null}]

Typed ==
    /\ status \in [Evaluations -> EvaluationStatuses \cup {Null}]
    /\ results \in [Evaluations -> {Null, Report}]
    /\ history \in [Evaluations -> Seq(Events)]

\* HistoryIsAPath for one evaluation.
Explains(h, s) ==
    IF s = Null
    THEN h = <<>>
    ELSE /\ h # <<>>
         /\ h[1].from = Null /\ h[1].to = "PENDING"
         /\ h[Len(h)].to = s
         /\ \A i \in 2..Len(h) :
               /\ h[i].from = h[i - 1].to
               /\ CanTransition(h[i].from, h[i].to)

\* The other properties of a history, with what keeps them: no event is of a
\* later stage than the row.
Recorded(h, s, r) ==
    /\ \A i \in 1..Len(h) :
          /\ Stage(h[i].to) <= Stage(s)
          /\ h[i].to \in {"PENDING", "CANCELLED"} => h[i].actor \in Actors
          /\ h[i].to \in {"RUNNING_CHECKS", "AWAITING_REVIEW"} => h[i].actor = Null
    /\ \A i, j \in 1..Len(h) :
          h[i].to = h[j].to /\ h[i].to \notin Repeatable => i = j
    /\ r # Null <=> \E i \in 1..Len(h) : h[i].to = "AWAITING_REVIEW"

LifecycleInv ==
    /\ Typed
    /\ \A e \in Evaluations : Explains(history[e], status[e])
    /\ \A e \in Evaluations : Recorded(history[e], status[e], results[e])

----------------------------------------------------------------------------
\* What Append does to the elements, the length and the last element.
LEMMA Appended ==
    ASSUME NEW S, NEW h \in Seq(S), NEW x \in S
    PROVE  /\ Append(h, x) \in Seq(S)
           /\ Len(Append(h, x)) = Len(h) + 1
           /\ \A i \in 1..Len(h) : Append(h, x)[i] = h[i]
           /\ Append(h, x)[Len(h) + 1] = x
           /\ Len(h) \in Nat
  OBVIOUS

\* Every transition of the table leads to a later stage or repeats a review.
LEMMA StagesRise ==
    ASSUME NullIsApart, NEW from \in EvaluationStatuses,
           NEW to \in EvaluationStatuses, CanTransition(from, to)
    PROVE  /\ Stage(from) < Stage(to) \/ to \in Repeatable
           /\ Stage(from) <= Stage(to)
           /\ to = "AWAITING_REVIEW" => Stage(from) = 2
           /\ to # "PENDING" /\ from \notin TerminalStatuses
  BY DEF NullIsApart, CanTransition, Transitions, Stage, Repeatable,
         EvaluationStatuses, TerminalStatuses

\* Stages are numbers.
LEMMA StageType == ASSUME NEW s PROVE Stage(s) \in 0..5
  BY DEF Stage

\* A creation and a move, seen as one: the status moves and its event is
\* appended.
Writes(e, to, actor) ==
    /\ status' = [status EXCEPT ![e] = to]
    /\ results' = IF to = "AWAITING_REVIEW"
                  THEN [results EXCEPT ![e] = Report] ELSE results
    /\ history' = [history EXCEPT ![e] = Append(@, Event(status[e], to, actor))]

Permitted(e, to, actor) ==
    /\ IF status[e] = Null THEN to = "PENDING" ELSE CanTransition(status[e], to)
    /\ to \in {"PENDING", "CANCELLED"} => actor \in Actors
    /\ to \in {"RUNNING_CHECKS", "AWAITING_REVIEW"} => actor = Null
    /\ Event(status[e], to, actor) \in Events

\* Every step writes one permitted event of one evaluation.
LEMMA StepWrites ==
    ASSUME NullIsApart, Typed, Next
    PROVE  \E e \in Evaluations, to \in EvaluationStatuses,
              actor \in Actors \cup {Null} :
              Writes(e, to, actor) /\ Permitted(e, to, actor)
<1>1. ASSUME NEW e \in Evaluations, NEW actor \in Actors, Create(e, actor)
      PROVE  Writes(e, "PENDING", actor) /\ Permitted(e, "PENDING", actor)
  <2>1. "PENDING" \in EvaluationStatuses
    BY DEF EvaluationStatuses
  <2> QED
    BY <1>1, <2>1 DEF Create, Writes, Permitted, Event, Events
<1>2. ASSUME NEW e \in Evaluations, NEW to \in EvaluationStatuses,
             NEW actor \in Actors \cup {Null}, Move(e, to, actor)
      PROVE  Writes(e, to, actor) /\ Permitted(e, to, actor)
  <2>1. status[e] \in EvaluationStatuses
    BY <1>2 DEF Move, Typed
  <2>2. to # "PENDING"
    BY <1>2, <2>1, StagesRise DEF Move
  <2>3. Event(status[e], to, actor) \in Events
    BY <2>1 DEF Event, Events
  <2> QED
    BY <1>2, <2>2, <2>3 DEF Move, Writes, Permitted
<1>3. "PENDING" \in EvaluationStatuses
  BY DEF EvaluationStatuses
<1> QED
  BY <1>1, <1>2, <1>3 DEF Next

\* A permitted event after a history that explains the row explains the moved
\* row.
LEMMA ExplainsAppend ==
    ASSUME NullIsApart, NEW h \in Seq(Events), NEW s, NEW x \in Events,
           Explains(h, s), x.from = s,
           s = Null => x.to = "PENDING",
           s # Null => CanTransition(s, x.to)
    PROVE  Explains(Append(h, x), x.to)
<1> DEFINE g == Append(h, x)
<1>1. /\ g \in Seq(Events) /\ Len(g) = Len(h) + 1 /\ Len(h) \in Nat
      /\ \A i \in 1..Len(h) : g[i] = h[i]
      /\ g[Len(h) + 1] = x
  BY Appended
<1>2. x.to # Null
  BY DEF Events, NullIsApart
<1>3. CASE s = Null
  <2>1. Len(h) = 0
    BY <1>3 DEF Explains
  <2> HIDE DEF g
  <2>2. Len(g) = 1 /\ g[1] = x
    BY <1>1, <2>1
  <2>3. Explains(g, x.to)
    BY <1>1, <1>2, <1>3, <2>2 DEF Explains
  <2> QED
    BY <2>3 DEF g
<1>4. CASE s # Null
  <2>1. Len(h) > 0 /\ h[Len(h)].to = s
    BY <1>4 DEF Explains
  <2>2. g[1].from = Null /\ g[1].to = "PENDING" /\ g[Len(g)].to = x.to
    BY <1>1, <1>4, <2>1 DEF Explains
  <2>3. ASSUME NEW i \in 2..Len(g)
        PROVE  g[i].from = g[i - 1].to /\ CanTransition(g[i].from, g[i].to)
    <3>1. CASE i = Len(h) + 1
      <4>1. g[i] = x /\ g[i - 1] = h[Len(h)]
        BY <1>1, <2>1, <3>1
      <4> QED
        BY <1>4, <2>1, <4>1
    <3>2. CASE i \in 2..Len(h)
      <4>1. g[i] = h[i] /\ g[i - 1] = h[i - 1]
        BY <1>1, <3>2
      <4> QED
        BY <1>4, <3>2, <4>1 DEF Explains
    <3> QED
      BY <1>1, <3>1, <3>2
  <2> QED
    BY <1>1, <1>2, <2>1, <2>2, <2>3 DEF Explains
<1> QED
  BY <1>3, <1>4

\* It is recorded under the right actor, and its status was not entered before
\* unless it may be repeated.
LEMMA RecordedAppend ==
    ASSUME NullIsApart, NEW h \in Seq(Events),
           NEW s \in EvaluationStatuses \cup {Null}, NEW r,
           NEW x \in Events, Recorded(h, s, r),
           s = Null => x.to = "PENDING",
           s # Null => CanTransition(s, x.to),
           x.to \in {"PENDING", "CANCELLED"} => x.actor \in Actors,
           x.to \in {"RUNNING_CHECKS", "AWAITING_REVIEW"} => x.actor = Null
    PROVE  Recorded(Append(h, x), x.to,
                    IF x.to = "AWAITING_REVIEW" THEN Report ELSE r)
<1> DEFINE g == Append(h, x)
           n == Len(h)
           q == IF x.to = "AWAITING_REVIEW" THEN Report ELSE r
<1>1. /\ n \in Nat /\ Len(g) = n + 1 /\ g[n + 1] = x
      /\ \A i \in 1..n : g[i] = h[i]
  BY Appended
<1>2. x.to \in EvaluationStatuses
  BY DEF Events
<1>3. /\ Stage(s) < Stage(x.to) \/ x.to \in Repeatable
      /\ Stage(s) <= Stage(x.to)
  <2>1. CASE s = Null
    <3>1. x.to = "PENDING"
      BY <2>1
    <3>2. Stage(s) = 0
      BY <2>1 DEF Stage, NullIsApart, EvaluationStatuses, Repeatable
    <3>3. Stage("PENDING") = 1
      BY DEF Stage, NullIsApart, EvaluationStatuses, Repeatable
    <3> QED
      BY <3>1, <3>2, <3>3
  <2>2. CASE s # Null
    BY <2>2, <1>2, StagesRise
  <2> QED
    BY <2>1, <2>2
<1>4. \A i \in 1..n : Stage(h[i].to) <= Stage(s) /\ Stage(h[i].to) \in 0..5
  BY StageType DEF Recorded
<1>5. Stage(s) \in 0..5 /\ Stage(x.to) \in 0..5
  BY StageType
<1> HIDE DEF g, n, q
<1>6. \A i \in 1..(n + 1) : i \in 1..n \/ i = n + 1
  BY <1>1
<1>7. \A i \in 1..n : h[i].to = x.to => x.to \in Repeatable
  BY <1>3, <1>4, <1>5
<1>8. \A i \in 1..Len(g) :
         /\ Stage(g[i].to) <= Stage(x.to)
         /\ g[i].to \in {"PENDING", "CANCELLED"} => g[i].actor \in Actors
         /\ g[i].to \in {"RUNNING_CHECKS", "AWAITING_REVIEW"} => g[i].actor = Null
  <2> SUFFICES ASSUME NEW i \in 1..(n + 1)
               PROVE  /\ Stage(g[i].to) <= Stage(x.to)
                      /\ g[i].to \in {"PENDING", "CANCELLED"} => g[i].actor \in Actors
                      /\ g[i].to \in {"RUNNING_CHECKS", "AWAITING_REVIEW"}
                            => g[i].actor = Null
    BY <1>1
  <2>1. CASE i = n + 1
    BY <1>1, <1>5, <2>1
  <2>2. CASE i \in 1..n
    BY <1>1, <1>3, <1>4, <1>5, <2>2 DEF Recorded, n
  <2> QED
    BY <1>6, <2>1, <2>2
<1>9. \A i, j \in 1..Len(g) :
         g[i].to = g[j].to /\ g[i].to \notin Repeatable => i = j
  BY <1>1, <1>6, <1>7 DEF Recorded, n
<1>10. q # Null <=> \E i \in 1..Len(g) : g[i].to = "AWAITING_REVIEW"
  <2>1. CASE x.to = "AWAITING_REVIEW"
    BY <1>1, <2>1 DEF q, NullIsApart
  <2>2. CASE x.to # "AWAITING_REVIEW"
    <3>1. q # Null <=> \E i \in 1..n : h[i].to = "AWAITING_REVIEW"
      BY <2>2 DEF Recorded, q, n
    <3>2. (\E i \in 1..n : h[i].to = "AWAITING_REVIEW")
             <=> \E i \in 1..Len(g) : g[i].to = "AWAITING_REVIEW"
      BY <1>1, <1>6, <2>2
    <3> QED
      BY <3>1, <3>2
  <2> QED
    BY <2>1, <2>2
<1>11. Recorded(g, x.to, q)
  BY <1>8, <1>9, <1>10 DEF Recorded
<1> QED
  BY <1>11 DEF g, q

\* No evaluation exists yet.
LEMMA InitLifecycleInv == Init => LifecycleInv
<1> SUFFICES ASSUME Init PROVE LifecycleInv
  OBVIOUS
<1>1. Typed
  BY DEF Init, Typed
<1>2. ASSUME NEW e \in Evaluations
      PROVE  /\ Explains(history[e], status[e])
             /\ Recorded(history[e], status[e], results[e])
  <2>1. /\ status[e] = Null /\ results[e] = Null /\ history[e] = <<>>
        /\ Len(history[e]) = 0
    BY DEF Init
  <2> QED
    BY <2>1 DEF Explains, Recorded
<1> QED
  BY <1>1, <1>2 DEF LifecycleInv

\* Every step preserves it.
LEMMA NextLifecycleInv ==
    ASSUME NullIsApart, LifecycleInv, [Next]_vars
    PROVE  LifecycleInv'
<1>1. CASE UNCHANGED vars
  BY <1>1 DEF vars, LifecycleInv, Typed
<1>2. CASE Next
  <2>1. PICK e \in Evaluations, to \in EvaluationStatuses,
             actor \in Actors \cup {Null} :
             Writes(e, to, actor) /\ Permitted(e, to, actor)
    BY <1>2, StepWrites DEF LifecycleInv
  <2> DEFINE x == Event(status[e], to, actor)
  <2>2. /\ history[e] \in Seq(Events) /\ x \in Events
        /\ status[e] \in EvaluationStatuses \cup {Null}
        /\ history'[e] = Append(history[e], x) /\ status'[e] = to
        /\ results'[e] = IF to = "AWAITING_REVIEW" THEN Report ELSE results[e]
        /\ x.from = status[e] /\ x.to = to /\ x.actor = actor
    BY <2>1 DEF Writes, Permitted, LifecycleInv, Typed, Event
  <2>3. /\ status[e] = Null => to = "PENDING"
        /\ status[e] # Null => CanTransition(status[e], to)
        /\ to \in {"PENDING", "CANCELLED"} => actor \in Actors
        /\ to \in {"RUNNING_CHECKS", "AWAITING_REVIEW"} => actor = Null
    BY <2>1 DEF Permitted
  <2>4. Typed'
    <3>1. Append(history[e], x) \in Seq(Events)
      BY <2>2
    <3> QED
      BY <2>1, <3>1 DEF Writes, LifecycleInv, Typed
  <2> HIDE DEF x
  <2>5. Explains(history'[e], status'[e])
    BY <2>2, <2>3, ExplainsAppend DEF LifecycleInv
  <2>6. Recorded(history'[e], status'[e], results'[e])
    BY <2>2, <2>3, RecordedAppend DEF LifecycleInv
  <2>7. \A f \in Evaluations : f # e =>
           /\ history'[f] = history[f] /\ status'[f] = status[f]
           /\ results'[f] = results[f]
    BY <2>1 DEF Writes, LifecycleInv, Typed
  <2> QED
    BY <2>4, <2>5, <2>6, <2>7 DEF LifecycleInv
<1> QED
  BY <1>1, <1>2

\* The invariant holds in every reachable state of the lifecycle.
THEOREM Invariance == ASSUME NullIsApart PROVE Spec => []LifecycleInv
<1>1. LifecycleInv /\ [Next]_vars => LifecycleInv'
  BY NextLifecycleInv
<1> QED
  BY <1>1, InitLifecycleInv, PTL DEF Spec

\* The events of an evaluation are a path through the transition table that ends
\* in its status.
THEOREM PathCorrect == ASSUME NullIsApart PROVE Spec => []HistoryIsAPath
<1>1. LifecycleInv => HistoryIsAPath
  BY DEF LifecycleInv, Explains, HistoryIsAPath
<1> QED
  BY <1>1, Invariance, PTL

\* No status but those of a repeated review is entered twice.
THEOREM OnceCorrect == ASSUME NullIsApart PROVE Spec => []StatusesAreEnteredOnce
<1>1. LifecycleInv => StatusesAreEnteredOnce
  BY DEF LifecycleInv, Recorded, StatusesAreEnteredOnce
<1> QED
  BY <1>1, Invariance, PTL

\* Automated results come with the completion of the checks and stay.
THEOREM ResultsCorrect == ASSUME NullIsApart PROVE Spec => []ResultsAreExplained
<1>1. LifecycleInv => ResultsAreExplained
  BY DEF LifecycleInv, Recorded, ResultsAreExplained
<1> QED
  BY <1>1, Invariance, PTL

\* The history names the user behind each creation and cancellation.
THEOREM ActorsCorrect == ASSUME NullIsApart PROVE Spec => []ActorsAreRecorded
<1>1. LifecycleInv => ActorsAreRecorded
  BY DEF LifecycleInv, Recorded, ActorsAreRecorded
<1> QED
  BY <1>1, Invariance, PTL

\* The history is append-only.
THEOREM GrowthCorrect == ASSUME NullIsApart PROVE Spec => HistoryOnlyGrows
<1>1. ASSUME LifecycleInv, [Next]_vars, NEW f \in Evaluations
      PROVE  /\ Len(history[f]) <= Len(history'[f])
             /\ \A i \in 1..Len(history[f]) : history'[f][i] = history[f][i]
  <2>1. history[f] \in Seq(Events) /\ Len(history[f]) \in Nat
    BY <1>1 DEF LifecycleInv, Typed
  <2>2. CASE UNCHANGED vars
    BY <2>1, <2>2 DEF vars
  <2>3. CASE Next
    <3>1. PICK e \in Evaluations, to \in EvaluationStatuses,
               actor \in Actors \cup {Null} :
               Writes(e, to, actor) /\ Permitted(e, to, actor)
      BY <1>1, <2>3, StepWrites DEF LifecycleInv
    <3>2. history'[f] = IF f = e
                        THEN Append(history[f], Event(status[e], to, actor))
                        ELSE history[f]
      BY <1>1, <3>1 DEF Writes, LifecycleInv, Typed
    <3>3. Event(status[e], to, actor) \in Events
      BY <3>1 DEF Permitted
    <3> QED
      BY <2>1, <3>2, <3>3, Appended
  <2> QED
    BY <1>1, <2>2, <2>3
<1>2. LifecycleInv /\ [Next]_vars
        => [\A e \in Evaluations :
              /\ Len(history[e]) <= Len(history'[e])
              /\ \A i \in 1..Len(history[e]) : history'[e][i] = history[e][i]]_vars
  BY <1>1
<1> QED
  BY <1>2, Invariance, PTL DEF Spec, HistoryOnlyGrows

\* No transition leads out of a terminal status.
THEOREM TerminalCorrect == ASSUME NullIsApart PROVE Spec => TerminalIsForever
<1>1. ASSUME LifecycleInv, [Next]_vars, NEW f \in Evaluations,
             status[f] \in TerminalStatuses
      PROVE  /\ status'[f] = status[f]
             /\ results'[f] = results[f]
             /\ history'[f] = history[f]
  <2>1. CASE UNCHANGED vars
    BY <2>1 DEF vars
  <2>2. CASE Next
    <3>1. PICK e \in Evaluations, to \in EvaluationStatuses,
               actor \in Actors \cup {Null} :
               Writes(e, to, actor) /\ Permitted(e, to, actor)
      BY <1>1, <2>2, StepWrites DEF LifecycleInv
    <3>2. status[f] \in EvaluationStatuses /\ status[f] # Null
      BY <1>1 DEF TerminalStatuses, EvaluationStatuses, NullIsApart
    <3>3. e # f
      BY <1>1, <3>1, <3>2, StagesRise DEF Permitted
    <3> QED
      BY <1>1, <3>1, <3>3 DEF Writes, LifecycleInv, Typed
  <2> QED
    BY <1>1, <2>1, <2>2
<1>2. LifecycleInv /\ [Next]_vars
        => [\A e \in Evaluations :
              status[e] \in TerminalStatuses =>
                  /\ status'[e] = status[e]
                  /\ results'[e] = results[e]
                  /\ history'[e] = history[e]]_vars
  BY <1>1
<1> QED
  BY <1>2, Invariance, PTL DEF Spec, TerminalIsForever
=============================================================================
