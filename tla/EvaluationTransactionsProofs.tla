-------------------- MODULE EvaluationTransactionsProofs --------------------
(***************************************************************************)
(* EvaluationTransactions for any number of evaluations, callers and ticks *)
(* of the clock.  The statuses the code reaches are ranked, and a          *)
(* transition raises the rank: a status that was left never comes back.    *)
(* So a transaction that may still write began when its row was already in *)
(* the status it starts from, after every event of the row was stamped.    *)
(***************************************************************************)
EXTENDS EvaluationTransactions, TLAPS

Reached == {Null, "PENDING", "RUNNING_CHECKS", "AWAITING_REVIEW", "CANCELLED"}

Rank(s) ==
    IF s = Null THEN 0
    ELSE IF s = "PENDING" THEN 1
    ELSE IF s = "RUNNING_CHECKS" THEN 2
    ELSE IF s = "AWAITING_REVIEW" THEN 3
    ELSE 4

\* What a caller may have decided to do.
Legal(c, r) ==
    /\ r.on \in Evaluations
    /\ \/ r.from = Null /\ r.to = "PENDING" /\ c \in Users
       \/ /\ r.from \in {"PENDING", "AWAITING_REVIEW"}
          /\ r.to = "CANCELLED" /\ c \in Users
       \/ r.from = "PENDING" /\ r.to = "RUNNING_CHECKS" /\ c \in Slots
       \/ r.from = "RUNNING_CHECKS" /\ r.to = "AWAITING_REVIEW" /\ c \in Slots

\* The status a call starts from is the row's, or one the row has left for ever.
StaysBehind(r) ==
    status[r.on] # r.from => Rank(r.from) < Rank(status[r.on])

\* A transaction that may still write began after every event of its row.
BeganAfter(r) ==
    status[r.on] = r.from
        => \A i \in 1..Len(log[r.on]) : log[r.on][i].occurredAt <= r.stamp

\* Its event is numbered after them, while the row is locked.
NumberedAfter(r) ==
    /\ r.id <= lastId
    /\ \A i \in 1..Len(log[r.on]) : log[r.on][i].id < r.id

CallOK(c, r) ==
    /\ r.stamp <= now
    /\ r.at # "idle" => Legal(c, r) /\ StaysBehind(r)
    /\ r.at \in {"open", "written", "logged"} => BeganAfter(r)
    /\ r.at \in {"written", "logged"} => status[r.on] = r.from
    /\ r.at = "logged" => NumberedAfter(r)

CallsOK == \A c \in Callers : CallOK(c, call[c])

StatusesReached == \A e \in Evaluations : status[e] \in Reached

LogIsPast ==
    \A e \in Evaluations : \A i \in 1..Len(log[e]) :
        log[e][i].occurredAt <= now /\ log[e][i].id <= lastId

\* Who has written a row holds it, and nobody else does.
LocksHeld ==
    \A e \in Evaluations, c \in Callers :
        lock[e] = c <=> call[c].on = e /\ call[c].at \in {"written", "logged"}

IInv ==
    /\ TypeOK
    /\ StatusesReached
    /\ LogIsPast
    /\ CallsOK
    /\ HistoryListsInOrder

----------------------------------------------------------------------------
\* The types the steps need of one call and of one event.
LEMMA CallTypes ==
    ASSUME TypeOK, NEW c \in Callers
    PROVE  /\ call[c] \in Calls /\ call[c].at \in Points
           /\ call[c].stamp \in Nat /\ call[c].id \in Nat
           /\ now \in Nat /\ lastId \in Nat
<1>1. call[c] \in Calls /\ now \in 0..MaxTime /\ lastId \in Nat
  BY DEF TypeOK
<1> QED
  BY <1>1, BoundsAssumption DEF Calls

LEMMA LogTypes ==
    ASSUME TypeOK, NEW e \in Evaluations
    PROVE  /\ log[e] \in Seq(LoggedEvents) /\ Len(log[e]) \in Nat
           /\ \A i \in 1..Len(log[e]) :
                 /\ log[e][i] \in LoggedEvents
                 /\ log[e][i].occurredAt \in Nat /\ log[e][i].id \in Nat
<1>1. log[e] \in Seq(LoggedEvents)
  BY DEF TypeOK
<1>2. ASSUME NEW i \in 1..Len(log[e]) PROVE log[e][i] \in LoggedEvents
  BY <1>1
<1>3. \A x \in LoggedEvents : x.occurredAt \in Nat /\ x.id \in Nat
  BY BoundsAssumption DEF LoggedEvents
<1> QED
  BY <1>1, <1>2, <1>3

\* The calls that change one field or two stay calls.
LEMMA CallUpdates ==
    ASSUME TypeOK, NEW c \in Callers, NEW at \in Points
    PROVE  /\ [call[c] EXCEPT !.at = at] \in Calls
           /\ [call[c] EXCEPT !.at = at, !.stamp = now] \in Calls
           /\ [call[c] EXCEPT !.at = at, !.id = lastId + 1] \in Calls
<1>1. call[c] \in Calls /\ now \in 0..MaxTime /\ lastId + 1 \in Nat
  BY DEF TypeOK
<1>2. /\ [call[c] EXCEPT !.at = at] \in Calls
      /\ [call[c] EXCEPT !.stamp = now] \in Calls
      /\ [call[c] EXCEPT !.id = lastId + 1] \in Calls
  BY <1>1 DEF Calls
<1> QED
  BY <1>1 DEF Calls

\* A legal call moves its row up.
LEMMA LegalRises ==
    ASSUME NEW c, NEW r, Legal(c, r)
    PROVE  /\ Rank(r.from) < Rank(r.to)
           /\ r.to \in Reached \ {Null} /\ r.to \in EvaluationStatuses
           /\ r.from \in EvaluationStatuses \cup {Null}
  BY NullAssumption DEF Legal, Rank, Reached, EvaluationStatuses

\* Ranks are numbers.
LEMMA RankType == ASSUME NEW s PROVE Rank(s) \in Nat
  BY DEF Rank

\* Nobody has asked for anything.
LEMMA InitIInv == Init => IInv
<1> SUFFICES ASSUME Init PROVE IInv
  OBVIOUS
<1>1. Idle \in Calls
  BY BoundsAssumption DEF Idle, Calls, Points
<1>2. \A c \in Callers : call[c] = Idle
  BY DEF Init
<1>3. Null \notin Callers
  BY NullAssumption DEF Callers
<1>4. TypeOK
  BY <1>1, <1>2, <1>3, BoundsAssumption DEF Init, TypeOK, Idle
<1>5. CallsOK
  BY <1>2 DEF Init, CallsOK, CallOK, Idle
<1> QED
  BY <1>4, <1>5
     DEF Init, IInv, StatusesReached, Reached, LogIsPast, HistoryListsInOrder

----------------------------------------------------------------------------
\* A step of one call that leaves the committed rows alone.
LEMMA CallStep ==
    ASSUME IInv, NEW c \in Callers, NEW r \in Calls,
           call' = [call EXCEPT ![c] = r], UNCHANGED <<status, results, log, now>>,
           lastId' \in Nat, lastId <= lastId', CallOK(c, r)',
           lock' \in [Evaluations -> Callers \cup {Null}], LocksHeld'
    PROVE  IInv'
<1> USE DEF IInv
<1>1. /\ call'[c] = r /\ call' \in [Callers -> Calls]
      /\ \A d \in Callers \ {c} : call'[d] = call[d]
  BY DEF TypeOK
<1>2. TypeOK'
  BY <1>1 DEF TypeOK, LocksHeld
<1>3. ASSUME NEW d \in Callers PROVE CallOK(d, call[d])' \/ d = c
  <2>1. CallOK(d, call[d]) /\ call[d].id \in Nat /\ lastId \in Nat
    BY CallTypes DEF CallsOK
  <2>2. call[d].id <= lastId => call[d].id <= lastId'
    BY <2>1
  <2> QED
    BY <1>1, <2>1, <2>2
       DEF CallOK, Legal, StaysBehind, BeganAfter, NumberedAfter, Rank
<1>4. CallsOK'
  BY <1>1, <1>3 DEF CallsOK
<1>5. LogIsPast'
  <2>1. ASSUME NEW e \in Evaluations, NEW i \in 1..Len(log[e])
        PROVE  log[e][i].id <= lastId'
    BY LogTypes, CallTypes DEF LogIsPast
  <2> QED
    BY <2>1 DEF LogIsPast
<1> QED
  BY <1>2, <1>4, <1>5 DEF StatusesReached, HistoryListsInOrder, Precedes

\* The clock only makes the past longer.
LEMMA TickKeeps ==
    ASSUME IInv, Tick
    PROVE  IInv'
<1> USE DEF IInv, Tick, rows
<1>1. TypeOK'
  BY BoundsAssumption DEF TypeOK
<1>2. now \in Nat /\ now' = now + 1
  BY BoundsAssumption DEF TypeOK
<1>3. LogIsPast'
  <2>1. ASSUME NEW e \in Evaluations, NEW i \in 1..Len(log[e])
        PROVE  log[e][i].occurredAt <= now' /\ log[e][i].id <= lastId
    BY <1>2, LogTypes DEF LogIsPast
  <2> QED
    BY <2>1 DEF LogIsPast
<1>4. CallsOK'
  <2>1. ASSUME NEW c \in Callers PROVE CallOK(c, call[c])'
    <3>1. CallOK(c, call[c]) /\ call[c].stamp <= now'
      BY <1>2, CallTypes DEF CallsOK, CallOK
    <3> QED
      BY <3>1 DEF CallOK, Legal, StaysBehind, BeganAfter, NumberedAfter, Rank
  <2> QED
    BY <2>1 DEF CallsOK
<1> QED
  BY <1>1, <1>3, <1>4 DEF StatusesReached, HistoryListsInOrder, Precedes

\* A caller decides on a transition from the status it has just read.
LEMMA DecidesKeeps ==
    ASSUME IInv, NEW c \in Callers, NEW e \in Evaluations, NEW to,
           Decides(c, e, status[e], to), Legal(c, Decided(e, status[e], to))
    PROVE  IInv'
<1>1. PICK r : r = Decided(e, status[e], to)
  OBVIOUS
<1>2. /\ r = [at |-> "decided", on |-> e, from |-> status[e], to |-> to,
               stamp |-> 0, id |-> 0]
      /\ Legal(c, r)
  BY <1>1 DEF Decided, Idle
<1>3. r \in Calls
  BY <1>2, BoundsAssumption, LegalRises DEF Calls, Points, Legal
<1>4. /\ call' = [call EXCEPT ![c] = r] /\ call[c].at = "idle"
      /\ UNCHANGED <<status, results, log, now, lastId, lock>>
  BY <1>1 DEF Decides, rows
<1>5. /\ lock \in [Evaluations -> Callers \cup {Null}]
      /\ lastId' \in Nat /\ lastId <= lastId' /\ now \in Nat
  BY <1>4, CallTypes DEF IInv, TypeOK
<1>6. CallOK(c, r)'
  BY <1>2, <1>4, <1>5 DEF CallOK, Legal, StaysBehind
<1>7. LocksHeld'
  BY <1>2, <1>4 DEF IInv, TypeOK, LocksHeld
<1> QED
  BY <1>3, <1>4, <1>5, <1>6, <1>7, CallStep

\* BEGIN: what was decided is stamped with the present.
LEMMA BeginKeeps ==
    ASSUME IInv, NEW c \in Callers, Begin(c)
    PROVE  IInv'
<1>1. PICK r \in Calls : r = [call[c] EXCEPT !.at = "open", !.stamp = now]
  BY CallUpdates DEF IInv, Points
<1>2. /\ r.at = "open" /\ r.stamp = now
      /\ r.on = call[c].on /\ r.from = call[c].from /\ r.to = call[c].to
  BY <1>1, CallTypes DEF IInv, Calls
<1>3. /\ call' = [call EXCEPT ![c] = r] /\ call[c].at = "decided"
      /\ UNCHANGED <<status, results, log, now, lastId, lock>>
  BY <1>1 DEF Begin, rows
<1>4. /\ lock \in [Evaluations -> Callers \cup {Null}]
      /\ lastId' \in Nat /\ lastId <= lastId' /\ now \in Nat
  BY <1>3, CallTypes DEF IInv, TypeOK
<1>5. CallOK(c, r)'
  BY <1>2, <1>3, <1>4
     DEF IInv, CallsOK, CallOK, Legal, StaysBehind, BeganAfter, LogIsPast, Rank
<1>6. LocksHeld'
  BY <1>2, <1>3 DEF IInv, TypeOK, LocksHeld
<1> QED
  BY <1>1, <1>3, <1>4, <1>5, <1>6, CallStep

\* The row matches and nobody holds it.
LEMMA WriteKeeps ==
    ASSUME IInv, NEW c \in Callers, Write(c)
    PROVE  IInv'
<1>1. PICK r \in Calls : r = [call[c] EXCEPT !.at = "written"]
  BY CallUpdates DEF IInv, Points
<1>2. /\ r.at = "written" /\ r.stamp = call[c].stamp
      /\ r.on = call[c].on /\ r.from = call[c].from /\ r.to = call[c].to
  BY <1>1, CallTypes DEF IInv, Calls
<1>3. /\ call' = [call EXCEPT ![c] = r] /\ call[c].at = "open"
      /\ status[call[c].on] = call[c].from /\ lock[call[c].on] = Null
      /\ lock' = [lock EXCEPT ![call[c].on] = c]
      /\ UNCHANGED <<status, results, log, now, lastId>>
  <2>1. call[c] \in Calls
    BY CallTypes DEF IInv
  <2> QED
    BY <1>1, <2>1 DEF Write, rows, IInv, TypeOK
<1>4. /\ lock \in [Evaluations -> Callers \cup {Null}]
      /\ lastId' \in Nat /\ lastId <= lastId'
      /\ call[c].on \in Evaluations /\ Null \notin Callers
  BY <1>3, NullAssumption DEF IInv, TypeOK, CallsOK, CallOK, Legal, Callers
<1>5. CallOK(c, r)'
  BY <1>2, <1>3 DEF IInv, CallsOK, CallOK, Legal, StaysBehind, BeganAfter, Rank
<1>6. LocksHeld'
  BY <1>2, <1>3, <1>4 DEF IInv, TypeOK, LocksHeld
<1> QED
  BY <1>1, <1>3, <1>4, <1>5, <1>6, CallStep

\* The event draws an id above all that were drawn.
LEMMA LogKeeps ==
    ASSUME IInv, NEW c \in Callers, LogEvent(c)
    PROVE  IInv'
<1>1. PICK r \in Calls : r = [call[c] EXCEPT !.at = "logged", !.id = lastId + 1]
  BY CallUpdates DEF IInv, Points
<1>2. /\ r.at = "logged" /\ r.stamp = call[c].stamp /\ r.id = lastId + 1
      /\ r.on = call[c].on /\ r.from = call[c].from /\ r.to = call[c].to
  BY <1>1, CallTypes DEF IInv, Calls
<1>3. /\ call' = [call EXCEPT ![c] = r] /\ call[c].at = "written"
      /\ lastId' = lastId + 1
      /\ UNCHANGED <<status, results, log, now, lock>>
  BY <1>1 DEF LogEvent, rows
<1>4. /\ lastId \in Nat /\ lock \in [Evaluations -> Callers \cup {Null}]
      /\ call[c].on \in Evaluations
  BY <1>3 DEF IInv, TypeOK, CallsOK, CallOK, Legal
<1>5. NumberedAfter(r)'
  <2>1. ASSUME NEW i \in 1..Len(log[call[c].on])
        PROVE  log[call[c].on][i].id < lastId + 1
    BY <1>4, LogTypes DEF IInv, LogIsPast
  <2> QED
    BY <1>2, <1>3, <1>4, <2>1 DEF NumberedAfter
<1>6. CallOK(c, r)'
  BY <1>2, <1>3, <1>5 DEF IInv, CallsOK, CallOK, Legal, StaysBehind, BeganAfter, Rank
<1>7. LocksHeld'
  BY <1>2, <1>3 DEF IInv, TypeOK, LocksHeld
<1>8. lastId' \in Nat /\ lastId <= lastId'
  BY <1>3, <1>4
<1> QED
  BY <1>1, <1>3, <1>4, <1>6, <1>7, <1>8, CallStep

\* A transaction that is rolled back leaves nothing but a gap in the ids.
LEMMA RollbackKeeps ==
    ASSUME IInv, NEW c \in Callers, Conflicts(c) \/ Fails(c)
    PROVE  IInv'
<1>1. Idle \in Calls
  BY BoundsAssumption DEF Idle, Calls, Points
<1>2. /\ call' = [call EXCEPT ![c] = Idle]
      /\ UNCHANGED <<status, results, log, now, lastId>>
  BY DEF Conflicts, Fails, rows
<1>3. CallOK(c, Idle)'
  BY <1>2, CallTypes DEF IInv, CallOK, Idle
<1>4. Null \notin Callers /\ lastId' \in Nat /\ lastId <= lastId'
  BY <1>2, NullAssumption DEF IInv, TypeOK, Callers
<1>5. lock' \in [Evaluations -> Callers \cup {Null}] /\ LocksHeld'
  <2>1. CASE Conflicts(c)
    BY <1>2, <2>1 DEF IInv, TypeOK, LocksHeld, Conflicts, Idle
  <2>2. CASE Fails(c)
    BY <1>2, <1>4, <2>2 DEF IInv, TypeOK, LocksHeld, Fails, Idle
  <2> QED
    BY <2>1, <2>2
<1> QED
  BY <1>1, <1>2, <1>3, <1>4, <1>5, CallStep

----------------------------------------------------------------------------
\* What a commit does, spelled out: one event after the others.
LEMMA CommitEffect ==
    ASSUME IInv, NEW c \in Callers, Commit(c)
    PROVE  LET e == call[c].on
               n == Len(log[e]) IN
           /\ e \in Evaluations /\ Legal(c, call[c]) /\ call[c] \in Calls
           /\ call[c].at = "logged" /\ status[e] = call[c].from
           /\ Event(c) \in LoggedEvents
           /\ n \in Nat /\ Len(log'[e]) = n + 1 /\ log'[e][n + 1] = Event(c)
           /\ \A i \in 1..n : log'[e][i] = log[e][i]
           /\ \A f \in Evaluations \ {e} : log'[f] = log[f]
           /\ log' \in [Evaluations -> Seq(LoggedEvents)]
           /\ status' = [status EXCEPT ![e] = call[c].to]
           /\ results' = IF call[c].to = "AWAITING_REVIEW"
                         THEN [results EXCEPT ![e] = Report] ELSE results
           /\ lock' = [lock EXCEPT ![e] = Null]
           /\ UNCHANGED <<lastId, now>>
<1> DEFINE e == call[c].on
<1>1. /\ e \in Evaluations /\ Legal(c, call[c]) /\ call[c] \in Calls
      /\ call[c].at = "logged" /\ status[e] = call[c].from
  BY CallTypes DEF IInv, Commit, CallsOK, CallOK, Legal
<1>2. Event(c) \in LoggedEvents
  <2>1. call[c].stamp \in 0..MaxTime /\ call[c].id \in Nat
    BY <1>1 DEF Calls
  <2> QED
    BY <1>1, <2>1, LegalRises DEF Event, Actor, LoggedEvents
<1>3. log[e] \in Seq(LoggedEvents) /\ Len(log[e]) \in Nat
  BY <1>1, LogTypes DEF IInv
<1>4. log' = [log EXCEPT ![e] = Append(@, Event(c))]
  BY DEF Commit
<1>5. /\ \A f \in Evaluations \ {e} : log'[f] = log[f]
      /\ log'[e] = Append(log[e], Event(c))
  BY <1>1, <1>4 DEF IInv, TypeOK
<1>6. log' \in [Evaluations -> Seq(LoggedEvents)]
  BY <1>1, <1>2, <1>3, <1>4 DEF IInv, TypeOK
<1>7. /\ Len(log'[e]) = Len(log[e]) + 1
      /\ log'[e][Len(log[e]) + 1] = Event(c)
      /\ \A i \in 1..Len(log[e]) : log'[e][i] = log[e][i]
  BY <1>2, <1>3, <1>5
<1> QED
  BY <1>1, <1>2, <1>3, <1>5, <1>6, <1>7 DEF Commit

\* The other calls on the row were behind it or with it, and are now behind.
LEMMA CommitLeavesBehind ==
    ASSUME IInv, NEW c \in Callers, Commit(c), NEW d \in Callers \ {c}
    PROVE  CallOK(d, call[d])'
<1> DEFINE e == call[c].on
<1>1. /\ e \in Evaluations /\ Legal(c, call[c]) /\ call[c].at = "logged"
      /\ status[e] = call[c].from /\ status' = [status EXCEPT ![e] = call[c].to]
      /\ \A f \in Evaluations \ {e} : log'[f] = log[f]
      /\ UNCHANGED <<lastId, now>>
  BY CommitEffect
<1>2. call'[d] = call[d]
  BY DEF IInv, TypeOK, Commit
<1>3. CallOK(d, call[d])
  BY DEF IInv, CallsOK
<1>4. /\ status'[e] = call[c].to
      /\ \A f \in Evaluations \ {e} : status'[f] = status[f]
  BY <1>1 DEF IInv, TypeOK
<1>5. CASE call[d].at = "idle"
  BY <1>1, <1>2, <1>3, <1>5 DEF CallOK
<1>6. CASE call[d].at # "idle" /\ call[d].on # e
  BY <1>1, <1>2, <1>3, <1>4, <1>6
     DEF CallOK, Legal, StaysBehind, BeganAfter, NumberedAfter, Rank
<1>7. CASE call[d].at # "idle" /\ call[d].on = e
  <2>1. Rank(call[d].from) < Rank(call[c].to)
    BY <1>1, <1>3, <1>7, LegalRises, RankType DEF CallOK, StaysBehind
  <2>2. status'[e] # call[d].from
    BY <1>4, <2>1, RankType
  <2>3. call[d].at \notin {"written", "logged"}
    BY <1>1, <1>7 DEF IInv, TypeOK
  <2>4. StaysBehind(call[d])' /\ BeganAfter(call[d])'
    BY <1>2, <1>4, <1>7, <2>1, <2>2 DEF StaysBehind, BeganAfter, Rank
  <2> QED
    BY <1>1, <1>2, <1>3, <2>3, <2>4, <1>7 DEF CallOK, Legal
<1> QED
  BY <1>5, <1>6, <1>7

\* COMMIT: the row moves up, its event is the last of the listing.
LEMMA CommitKeeps ==
    ASSUME IInv, NEW c \in Callers, Commit(c)
    PROVE  IInv'
<1> DEFINE e == call[c].on
           n == Len(log[e])
<1>1. /\ e \in Evaluations /\ Legal(c, call[c]) /\ call[c] \in Calls
      /\ call[c].at = "logged" /\ status[e] = call[c].from
      /\ Event(c) \in LoggedEvents
      /\ n \in Nat /\ Len(log'[e]) = n + 1 /\ log'[e][n + 1] = Event(c)
      /\ \A i \in 1..n : log'[e][i] = log[e][i]
      /\ \A f \in Evaluations \ {e} : log'[f] = log[f]
      /\ log' \in [Evaluations -> Seq(LoggedEvents)]
      /\ status' = [status EXCEPT ![e] = call[c].to]
      /\ results' = IF call[c].to = "AWAITING_REVIEW"
                    THEN [results EXCEPT ![e] = Report] ELSE results
      /\ lock' = [lock EXCEPT ![e] = Null]
      /\ UNCHANGED <<lastId, now>>
  BY CommitEffect
<1>2. call[c].to \in Reached \ {Null} /\ call[c].to \in EvaluationStatuses
  BY <1>1, LegalRises
<1>3. PICK r \in {Continues(c), Idle} : call' = [call EXCEPT ![c] = r]
  BY DEF Commit
<1>4. /\ r.at \in {"idle", "decided"} /\ r.stamp = 0
      /\ r.at = "decided" =>
            /\ r.on = e /\ call[c].to = "RUNNING_CHECKS"
            /\ r.from = "RUNNING_CHECKS" /\ r.to = "AWAITING_REVIEW"
      /\ r \in Calls
  <2>1. Idle \in Calls
    BY BoundsAssumption DEF Idle, Calls, Points
  <2>2. /\ Idle.at = "idle" /\ Idle.stamp = 0
        /\ call[c].to = "RUNNING_CHECKS" =>
              Continues(c) = [at |-> "decided", on |-> e, from |-> "RUNNING_CHECKS",
                              to |-> "AWAITING_REVIEW", stamp |-> 0, id |-> 0]
        /\ call[c].to # "RUNNING_CHECKS" => Continues(c) = Idle
    BY DEF Continues, Decided, Idle
  <2>3. [at |-> "decided", on |-> e, from |-> "RUNNING_CHECKS",
         to |-> "AWAITING_REVIEW", stamp |-> 0, id |-> 0] \in Calls
    BY <1>1, BoundsAssumption DEF Calls, Points, EvaluationStatuses
  <2>4. CASE r = Idle
    BY <2>1, <2>2, <2>4
  <2>5. CASE r # Idle
    <3>1. /\ call[c].to = "RUNNING_CHECKS"
          /\ r = [at |-> "decided", on |-> e, from |-> "RUNNING_CHECKS",
                  to |-> "AWAITING_REVIEW", stamp |-> 0, id |-> 0]
      BY <1>3, <2>2, <2>5
    <3> QED
      BY <3>1, <2>3
  <2> QED
    BY <2>4, <2>5
<1>5. /\ call'[c] = r /\ call' \in [Callers -> Calls]
      /\ \A d \in Callers \ {c} : call'[d] = call[d]
  BY <1>3, <1>4 DEF IInv, TypeOK
<1>6. Null \notin Callers
  BY NullAssumption DEF Callers
<1>7. LocksHeld'
  <2>1. ASSUME NEW f \in Evaluations, NEW d \in Callers
        PROVE  lock'[f] = d <=> call'[d].on = f /\ call'[d].at \in {"written", "logged"}
    <3>1. CASE d = c
      BY <3>1, <1>1, <1>4, <1>5, <1>6 DEF IInv, TypeOK
    <3>2. CASE d # c
      BY <3>2, <1>1, <1>5, <1>6 DEF IInv, TypeOK
    <3> QED
      BY <3>1, <3>2
  <2> QED
    BY <2>1 DEF LocksHeld
<1>8. TypeOK'
  BY <1>1, <1>2, <1>5, <1>7 DEF IInv, TypeOK, LocksHeld
<1>9. StatusesReached'
  BY <1>1, <1>2 DEF IInv, StatusesReached, TypeOK
<1>10. Event(c).occurredAt = call[c].stamp /\ Event(c).id = call[c].id
  BY DEF Event
<1>11. CallOK(c, call[c])
  BY DEF IInv, CallsOK
<1>12. LogIsPast'
  <2>1. ASSUME NEW f \in Evaluations, NEW i \in 1..Len(log'[f])
        PROVE  log'[f][i].occurredAt <= now /\ log'[f][i].id <= lastId
    <3>1. CASE f = e /\ i = n + 1
      BY <3>1, <1>1, <1>10, <1>11 DEF CallOK, NumberedAfter
    <3>2. CASE f = e /\ i # n + 1
      <4>1. i \in 1..n
        BY <3>2, <2>1, <1>1
      <4> QED
        BY <3>2, <4>1, <1>1 DEF IInv, LogIsPast
    <3>3. CASE f # e
      BY <3>3, <2>1, <1>1 DEF IInv, LogIsPast
    <3> QED
      BY <3>1, <3>2, <3>3
  <2> QED
    BY <1>1, <2>1 DEF LogIsPast
<1>13. CallsOK'
  <2>1. CallOK(c, r)'
    BY <1>1, <1>4, CallTypes DEF IInv, TypeOK, CallOK, Legal, StaysBehind
  <2> QED
    BY <1>5, <2>1, CommitLeavesBehind DEF CallsOK
<1>14. HistoryListsInOrder'
  <2>1. ASSUME NEW f \in Evaluations, NEW i \in 1..Len(log'[f]),
               NEW j \in 1..Len(log'[f]), i < j
        PROVE  Precedes(log'[f][i], log'[f][j])
    <3>1. CASE f # e
      BY <3>1, <2>1, <1>1 DEF IInv, HistoryListsInOrder
    <3>2. CASE f = e /\ j # n + 1
      <4>1. i \in 1..n /\ j \in 1..n
        BY <3>2, <2>1, <1>1
      <4> QED
        BY <3>2, <4>1, <2>1, <1>1 DEF IInv, HistoryListsInOrder
    <3>3. CASE f = e /\ j = n + 1
      <4>1. i \in 1..n
        BY <3>3, <2>1, <1>1
      <4>2. log[e][i].occurredAt <= call[c].stamp /\ log[e][i].id < call[c].id
        BY <4>1, <1>1, <1>11 DEF CallOK, BeganAfter, NumberedAfter
      <4>3. /\ log[e][i].occurredAt \in Nat /\ log[e][i].id \in Nat
            /\ call[c].stamp \in Nat /\ call[c].id \in Nat
        BY <4>1, <1>1, LogTypes, CallTypes DEF IInv
      <4> QED
        <5>1. log'[f][i] = log[e][i] /\ log'[f][j] = Event(c)
          BY <3>3, <4>1, <1>1
        <5>2. Precedes(log[e][i], Event(c))
          BY <4>2, <4>3, <1>10 DEF Precedes
        <5> QED
          BY <5>1, <5>2
    <3> QED
      BY <3>1, <3>2, <3>3
  <2> QED
    BY <2>1 DEF HistoryListsInOrder, Precedes
<1> QED
  BY <1>8, <1>9, <1>12, <1>13, <1>14 DEF IInv

----------------------------------------------------------------------------
\* Every step preserves the invariant.
LEMMA NextIInv == IInv /\ [Next]_vars => IInv'
<1> SUFFICES ASSUME IInv, [Next]_vars PROVE IInv'
  OBVIOUS
<1>1. ASSUME NEW u \in Users, NEW e \in Evaluations,
             DecideCreate(u, e) \/ DecideCancel(u, e)
      PROVE  IInv'
  <2>1. status[e] \in Reached /\ u \in Callers
    BY DEF IInv, StatusesReached, Callers
  <2>2. CASE DecideCreate(u, e)
    <3>1. /\ Legal(u, Decided(e, status[e], "PENDING"))
          /\ Decides(u, e, status[e], "PENDING")
      BY <2>2 DEF DecideCreate, Legal, Decided, Idle
    <3> QED
      BY <2>1, <3>1, DecidesKeeps
  <2>3. CASE DecideCancel(u, e)
    <3>1. status[e] \in {"PENDING", "AWAITING_REVIEW"}
      BY <2>1, <2>3 DEF DecideCancel, CanTransition, Transitions, Reached
    <3>2. /\ Legal(u, Decided(e, status[e], "CANCELLED"))
          /\ Decides(u, e, status[e], "CANCELLED")
      BY <2>3, <3>1 DEF DecideCancel, Legal, Decided, Idle
    <3> QED
      BY <2>1, <3>2, DecidesKeeps
  <2> QED
    BY <1>1, <2>2, <2>3
<1>2. ASSUME NEW w \in Slots, NEW e \in Evaluations, DecideChecks(w, e)
      PROVE  IInv'
  <2>1. w \in Callers
    BY DEF Callers
  <2>2. PICK to : /\ Decides(w, e, status[e], to)
                  /\ Legal(w, Decided(e, status[e], to))
    BY <1>2 DEF DecideChecks, Legal, Decided, Idle
  <2> QED
    BY <2>1, <2>2, DecidesKeeps
<1>3. ASSUME NEW c \in Callers, Statement(c) \/ Fails(c) PROVE IInv'
  BY <1>3, BeginKeeps, WriteKeeps, LogKeeps, RollbackKeeps, CommitKeeps DEF Statement
<1>4. CASE UNCHANGED vars
  BY <1>4
     DEF vars, rows, IInv, TypeOK, StatusesReached, LogIsPast, HistoryListsInOrder,
         CallsOK, CallOK, Legal, StaysBehind, BeganAfter, NumberedAfter, Precedes,
         Reached, Rank
<1> QED
  BY <1>1, <1>2, <1>3, <1>4, TickKeeps DEF Next

\* The invariant holds in every reachable state.
THEOREM Invariance == Spec => []IInv
  BY InitIInv, NextIInv, PTL DEF Spec

\* TypeOK: in particular, a row is locked by the transaction that wrote it and
\* by nobody once that one has ended.
THEOREM TypeCorrect == Spec => []TypeOK
  BY Invariance, PTL DEF IInv

\* HistoryListsInOrder: ordered by the start of their transactions and then by
\* id, the events of an evaluation are in the order their transactions took
\* effect, however many overlap.
THEOREM HistoryOrderCorrect == Spec => []HistoryListsInOrder
  BY Invariance, PTL DEF IInv

----------------------------------------------------------------------------
(* The transactions implement the abstract lifecycle.                      *)

\* Appending an event appends what is listed of it.
LEMMA ListedAppend ==
    ASSUME NEW S, NEW h \in Seq(S), NEW x \in S
    PROVE  Listed(Append(h, x))
             = Append(Listed(h), [from |-> x.from, to |-> x.to, actor |-> x.actor])
<1> DEFINE P(y) == [from |-> y.from, to |-> y.to, actor |-> y.actor]
           T == {P(y) : y \in S}
<1>1. /\ Len(h) \in Nat /\ Len(Append(h, x)) = Len(h) + 1
      /\ Append(h, x)[Len(h) + 1] = x
      /\ \A i \in 1..Len(h) : Append(h, x)[i] = h[i] /\ h[i] \in S
  OBVIOUS
<1>2. /\ Listed(h) \in Seq(T) /\ Len(Listed(h)) = Len(h)
      /\ \A i \in 1..Len(h) : Listed(h)[i] = P(h[i])
  BY <1>1 DEF Listed
<1>3. P(x) \in T
  OBVIOUS
<1>4. /\ Append(Listed(h), P(x)) \in Seq(T)
      /\ Len(Append(Listed(h), P(x))) = Len(h) + 1
      /\ Append(Listed(h), P(x))[Len(h) + 1] = P(x)
      /\ \A i \in 1..Len(h) : Append(Listed(h), P(x))[i] = P(h[i])
  BY <1>1, <1>2, <1>3
<1>5. /\ Listed(Append(h, x)) \in Seq(T)
      /\ Len(Listed(Append(h, x))) = Len(h) + 1
      /\ \A i \in 1..(Len(h) + 1) : Listed(Append(h, x))[i] = P(Append(h, x)[i])
  BY <1>1, <1>3 DEF Listed
<1>6. \A i \in 1..(Len(h) + 1) :
         Listed(Append(h, x))[i] = Append(Listed(h), P(x))[i]
  BY <1>1, <1>4, <1>5
<1> QED
  BY <1>1, <1>4, <1>5, <1>6

\* A commit is a step of the abstract lifecycle.
LEMMA CommitRefines ==
    ASSUME IInv, NEW c \in Callers, Commit(c)
    PROVE  Lifecycle!Next
<1>0. PICK e, from, to, actor : /\ e = call[c].on /\ from = call[c].from
                                /\ to = call[c].to /\ actor = Actor(c)
  OBVIOUS
<1>1. /\ e \in Evaluations /\ Legal(c, call[c]) /\ status[e] = from
      /\ Event(c) \in LoggedEvents
      /\ status' = [status EXCEPT ![e] = to]
      /\ results' = IF to = "AWAITING_REVIEW"
                    THEN [results EXCEPT ![e] = Report] ELSE results
      /\ log' = [log EXCEPT ![e] = Append(@, Event(c))]
      /\ log \in [Evaluations -> Seq(LoggedEvents)]
  BY <1>0, CommitEffect DEF Commit, IInv, TypeOK
<1>2. Listing' = [Listing EXCEPT ![e] =
                    Append(@, [from |-> from, to |-> to, actor |-> actor])]
  <2>1. log'[e] = Append(log[e], Event(c)) /\ log[e] \in Seq(LoggedEvents)
    BY <1>1
  <2>2. Listed(log'[e]) = Append(Listed(log[e]),
            [from |-> Event(c).from, to |-> Event(c).to, actor |-> Event(c).actor])
    BY <1>1, <2>1, ListedAppend
  <2>3. Event(c).from = from /\ Event(c).to = to /\ Event(c).actor = actor
    BY <1>0 DEF Event
  <2>4. \A f \in Evaluations : f # e => log'[f] = log[f]
    BY <1>1
  <2>5. Listing' = [f \in Evaluations |-> Listed(log'[f])]
    BY DEF Listing, Listed
  <2> QED
    BY <1>1, <2>2, <2>3, <2>4, <2>5 DEF Listing
<1>3. CASE from = Null
  <2>1. to = "PENDING" /\ actor \in Users
    BY <1>0, <1>1, <1>3, NullAssumption DEF Legal, Actor, EvaluationStatuses
  <2>2. Lifecycle!Create(e, actor)
    BY <1>1, <1>2, <1>3, <2>1 DEF Lifecycle!Create, Lifecycle!Event
  <2> QED
    BY <1>1, <2>1, <2>2 DEF Lifecycle!Next
<1>4. CASE from # Null
  <2>1. /\ status[e] # Null /\ CanTransition(status[e], to)
        /\ to \in EvaluationStatuses /\ actor \in Users \cup {Null}
        /\ to = "CANCELLED" => actor # Null
        /\ to \in {"RUNNING_CHECKS", "AWAITING_REVIEW"} => actor = Null
    BY <1>0, <1>1, <1>4, NullAssumption, CallersAssumption
       DEF Legal, Actor, CanTransition, Transitions, EvaluationStatuses
  <2>2. Lifecycle!Move(e, to, actor)
    BY <1>1, <1>2, <2>1
       DEF Lifecycle!Move, Lifecycle!Event,
           Lifecycle!CanTransition, Lifecycle!Transitions, CanTransition, Transitions
  <2> QED
    BY <1>1, <2>1, <2>2
       DEF Lifecycle!Next, Lifecycle!EvaluationStatuses, EvaluationStatuses
<1> QED
  BY <1>3, <1>4

\* ImplementsLifecycle: transactions of several statements, of which some roll
\* back, are seen as single steps of the abstract lifecycle.
THEOREM RefinementCorrect == Spec => ImplementsLifecycle
<1>1. Init => Lifecycle!Init
  <2> SUFFICES ASSUME Init PROVE Lifecycle!Init
    OBVIOUS
  <2>1. \A e \in Evaluations : Listed(log[e]) = <<>>
    BY DEF Init, Listed
  <2> QED
    BY <2>1 DEF Init, Lifecycle!Init, Listing
<1>2. IInv /\ [Next]_vars => [Lifecycle!Next]_(Lifecycle!vars)
  <2> SUFFICES ASSUME IInv, [Next]_vars PROVE Lifecycle!Next \/ UNCHANGED Lifecycle!vars
    OBVIOUS
  <2>1. CASE \E c \in Callers : Commit(c)
    BY <2>1, CommitRefines
  <2>2. CASE UNCHANGED rows
    BY <2>2 DEF rows, Lifecycle!vars, Listing, Listed
  <2> QED
    BY <2>1, <2>2
       DEF Next, vars, rows, Tick, DecideCreate, DecideCancel, DecideChecks, Decides,
           Statement, Begin, Write, Conflicts, LogEvent, Fails
<1> QED
  BY <1>1, <1>2, Invariance, PTL DEF Spec, ImplementsLifecycle, Lifecycle!Spec

\* What EvaluationLifecycleProofs proves of the lifecycle, read as statements
\* about the committed rows and what listHistory returns of them.
Promise == INSTANCE EvaluationLifecycleProofs
             WITH Actors <- Users, history <- Listing

\* SQL NULL is no status, no user and no report.
LEMMA PromiseNull == Promise!NullIsApart
  BY NullAssumption DEF Promise!NullIsApart, Promise!EvaluationStatuses,
                        EvaluationStatuses

\* The same refinement, for the instance that has the theorems.
LEMMA PromiseKept == Spec => Promise!Spec
  BY RefinementCorrect
     DEF ImplementsLifecycle, Lifecycle!Spec, Promise!Spec,
         Lifecycle!Init, Promise!Init, Lifecycle!vars, Promise!vars,
         Lifecycle!Next, Promise!Next, Lifecycle!Create, Promise!Create,
         Lifecycle!Move, Promise!Move, Lifecycle!Event, Promise!Event,
         Lifecycle!CanTransition, Promise!CanTransition,
         Lifecycle!Transitions, Promise!Transitions,
         Lifecycle!EvaluationStatuses, Promise!EvaluationStatuses

\* However the transactions overlap, wait and roll back, the committed events of
\* an evaluation are a path through the lifecycle to its status, without a
\* status entered twice, and its results are explained by them.
THEOREM PromisesCorrect ==
    Spec => /\ []Promise!HistoryIsAPath
            /\ []Promise!StatusesAreEnteredOnce
            /\ []Promise!ResultsAreExplained
            /\ []Promise!ActorsAreRecorded
  BY PromiseKept, PromiseNull, Promise!PathCorrect, Promise!OnceCorrect,
     Promise!ResultsCorrect, Promise!ActorsCorrect

\* No transaction takes an event out of the listing or changes one, and none
\* commits to an evaluation that was in a terminal status.
THEOREM CommittedStays ==
    Spec => Promise!HistoryOnlyGrows /\ Promise!TerminalIsForever
  BY PromiseKept, PromiseNull, Promise!GrowthCorrect, Promise!TerminalCorrect

----------------------------------------------------------------------------
(* The safety half of TransactionsEnd: a transaction has few statements    *)
(* left, and the one it may have to wait for waits for nobody.             *)

StatementsLeft(c) ==
    CASE call[c].at = "open"    -> 3
      [] call[c].at = "written" -> 2
      [] call[c].at = "logged"  -> 1
      [] OTHER                  -> 0

\* The UPDATE matches and somebody has the row.
Waits(c) ==
    /\ call[c].at = "open"
    /\ status[call[c].on] = call[c].from
    /\ lock[call[c].on] # Null

NobodyWaitsInACircle ==
    \A c \in Callers :
        Waits(c) => /\ lock[call[c].on] \in Callers \ {c}
                    /\ ~Waits(lock[call[c].on])
                    /\ call[lock[call[c].on]].at \in {"written", "logged"}

\* A transaction changes only by executing its next statement or by ending.
TransactionsMoveOn ==
    [][\A c \in Callers :
          InTransaction(c) /\ call'[c] # call[c]
            => StatementsLeft(c)' < StatementsLeft(c)]_vars

\* Deadlock freedom: a transaction waits for one that has its row and will never
\* wait again, because a transaction writes one row.
THEOREM NoCircle == Spec => []NobodyWaitsInACircle
<1>1. IInv => NobodyWaitsInACircle
  <2> SUFFICES ASSUME IInv, NEW c \in Callers, Waits(c)
               PROVE  /\ lock[call[c].on] \in Callers \ {c}
                      /\ call[lock[call[c].on]].at \in {"written", "logged"}
    BY DEF NobodyWaitsInACircle, Waits
  <2>1. call[c].on \in Evaluations
    BY DEF IInv, CallsOK, CallOK, Legal, Waits
  <2>2. lock[call[c].on] \in Callers
    BY <2>1 DEF IInv, TypeOK, Waits
  <2> QED
    BY <2>1, <2>2 DEF IInv, TypeOK, Waits
<1> QED
  BY <1>1, Invariance, PTL

\* Every change of a transaction brings it nearer to its end; no other caller,
\* and no tick of the clock, sets it back.
THEOREM MoveOnCorrect == Spec => TransactionsMoveOn
<1>1. ASSUME IInv, [Next]_vars, NEW c \in Callers, InTransaction(c),
             call'[c] # call[c]
      PROVE  StatementsLeft(c)' < StatementsLeft(c)
  <2>1. call \in [Callers -> Calls]
    BY <1>1 DEF IInv, TypeOK
  <2>2. ASSUME NEW d \in Callers, NEW r, call' = [call EXCEPT ![d] = r]
        PROVE  c = d /\ call'[c] = r
    BY <1>1, <2>1, <2>2
  <2>3. ~UNCHANGED vars
    BY <1>1 DEF vars
  <2>4. ~Tick
    BY <1>1 DEF Tick
  <2>5. ASSUME NEW d \in Callers, NEW e \in Evaluations, NEW from, NEW to,
               Decides(d, e, from, to)
        PROVE  FALSE
    BY <1>1, <2>2, <2>5 DEF Decides, InTransaction
  <2>6. ASSUME NEW d \in Callers, Statement(d) \/ Fails(d)
        PROVE  StatementsLeft(c)' < StatementsLeft(c)
    <3>1. CASE Begin(d)
      BY <1>1, <2>2, <3>1 DEF Begin, InTransaction
    <3>2. CASE Write(d)
      <4>1. call' = [call EXCEPT ![d] = [call[d] EXCEPT !.at = "written"]]
        BY <2>1, <3>2 DEF Write
      <4>2. c = d /\ call'[c] = [call[c] EXCEPT !.at = "written"]
        BY <2>2, <4>1
      <4>3. call'[c].at = "written" /\ call[c].at = "open"
        BY <2>1, <3>2, <4>2 DEF Write, Calls
      <4> QED
        BY <4>3 DEF StatementsLeft
    <3>3. CASE Conflicts(d) \/ Fails(d)
      <4>1. c = d /\ call'[c].at = "idle"
        BY <2>2, <3>3 DEF Conflicts, Fails, Idle
      <4> QED
        BY <1>1, <4>1 DEF StatementsLeft, InTransaction
    <3>4. CASE LogEvent(d)
      <4>1. call' = [call EXCEPT ![d] =
                        [call[d] EXCEPT !.at = "logged", !.id = lastId + 1]]
        BY <2>1, <3>4 DEF LogEvent
      <4>2. c = d /\ call'[c] = [call[c] EXCEPT !.at = "logged", !.id = lastId + 1]
        BY <2>2, <4>1
      <4>3. call'[c].at = "logged" /\ call[c].at = "written"
        BY <2>1, <3>4, <4>2 DEF LogEvent, Calls
      <4> QED
        BY <4>3 DEF StatementsLeft
    <3>5. CASE Commit(d)
      <4>1. PICK r \in {Continues(d), Idle} : call' = [call EXCEPT ![d] = r]
        BY <3>5 DEF Commit
      <4>2. c = d /\ call'[c] = r
        BY <2>2, <4>1
      <4>3. Decided(call[d].on, "RUNNING_CHECKS", "AWAITING_REVIEW").at = "decided"
        BY DEF Decided, Idle
      <4>4. Idle.at = "idle" /\ Continues(d).at \in {"idle", "decided"}
        BY <4>3 DEF Continues, Idle
      <4>5. r.at \in {"idle", "decided"}
        BY <4>4
      <4> QED
        BY <3>5, <4>2, <4>5 DEF Commit, StatementsLeft
    <3> QED
      BY <2>6, <3>1, <3>2, <3>3, <3>4, <3>5 DEF Statement
  <2> QED
    BY <1>1, <2>3, <2>4, <2>5, <2>6
       DEF Next, DecideCreate, DecideCancel, DecideChecks, Callers
<1>2. IInv /\ [Next]_vars
        => [\A c \in Callers :
              InTransaction(c) /\ call'[c] # call[c]
                => StatementsLeft(c)' < StatementsLeft(c)]_vars
  BY <1>1
<1> QED
  BY <1>2, Invariance, PTL DEF Spec, TransactionsMoveOn
=============================================================================
