-------------------------- MODULE ApiServerProofs --------------------------
(***************************************************************************)
(* ApiServer for any number of connections, probes and signals.  A handler *)
(* has done exactly the writes among the calls that returned, so what an   *)
(* answer tells follows from the order of the calls in the route table.  A *)
(* shutdown closes nothing before the server has drained, and a drained    *)
(* server stays drained, since a server that was signalled takes no        *)
(* request.                                                                *)
(***************************************************************************)
EXTENDS ApiServer, TLAPS

Refusing == {"assert", "find", "findByEmail", "move"}

\* What the answers depend on in the order of a handler's calls.
WellOrdered(calls) ==
    /\ calls \in Seq(CallKinds)
    /\ \A i, j \in 1..Len(calls) :
          j < i /\ calls[i] \in Refusing => calls[j] \notin Writes
    /\ \A i \in 1..Len(calls) :
          calls[i] = "enqueue" => \E j \in 1..(i - 1) : calls[j] = "create"
    /\ (\E i \in 1..Len(calls) : calls[i] \in Logging) =>
          \A i \in 1..Len(calls) :
             calls[i] \in Writes => \E j \in 1..i : calls[j] \in Logging

\* The writes done are those of the calls that returned.
HasDone(x) ==
    \A w \in Writes : w \in x.did <=> \E i \in 1..(x.next - 1) : x.calls[i] = w

\* A handler that cannot log has not come past a call that logs.
StopsAtTheLog(x) ==
    ~ x.traced =>
        /\ \E i \in 1..Len(x.calls) : x.calls[i] \in Logging
        /\ \A i \in 1..(x.next - 1) : x.calls[i] \notin Logging

WholeRequest(x) ==
    /\ x.next \in 1..(Len(x.calls) + 1)
    /\ x.status = 0 <=> x.at # "answered"
    /\ Handling(x) => x.success \in Successes /\ HasDone(x) /\ StopsAtTheLog(x)

RequestsWhole ==
    /\ req \in [Requests -> Handlers]
    /\ \A r \in Requests : WholeRequest(req[r])

WholeProbe(x, there) ==
    Handling(x) =>
        /\ there \subseteq x.met
        /\ \A st \in Stores : x.heard[st] = "ok" => st \in x.met

ProbesWhole ==
    /\ probe \in [Probes -> ReadyChecks]
    /\ up \subseteq Stores
    /\ \A p \in Probes : WholeProbe(probe[p], up)

Late == {"closing queue", "closing database", "closed"}

PhasesOK ==
    /\ phase \in [Signals -> {"none", "draining", "closing queue",
                              "closing database", "closed"}]
    /\ closed \subseteq {"queue", "postgres"}
    /\ exit \in {"running", "0", "1"}

ClosesLate ==
    /\ \A s \in Signals : phase[s] \in Late => Drained
    /\ closed # {} \/ exit # "running" => \E s \in Signals : phase[s] \in Late

IInv == RequestsWhole /\ ProbesWhole /\ PhasesOK /\ ClosesLate

\* What an answer tells of the request it answers.
Tells(x, status, did) ==
    /\ status \in Successes => did = CallsOf(x.calls) \cap Writes
    /\ status \in 400..499 => did = {}
    /\ "enqueue" \in did => "create" \in did
    /\ ~ x.traced => did = {}

----------------------------------------------------------------------------
(* The route table.                                                        *)

\* What a route has: its calls are one of these sequences.
Listed(route) ==
    /\ route.success \in Successes
    /\ \/ route.calls = <<>>
       \/ route.calls = <<"list">>
       \/ route.calls = <<"find">>
       \/ route.calls = <<"insert">>
       \/ route.calls = <<"findByEmail", "insert">>
       \/ route.calls = <<"assert", "insert">>
       \/ route.calls = <<"find", "insert">>
       \/ route.calls = <<"find", "list">>
       \/ route.calls = <<"find", "move">>
       \/ route.calls = <<"assert", "find", "insert">>
       \/ route.calls = <<"find", "find", "create", "enqueue">>

LEMMA RoutesListed ==
    ASSUME NEW route \in Routes
    PROVE  Listed(route)
<1>1. CASE route \in OpsRoutes
  <2>1. CASE route = Routed("GET /health", Everyone, <<>>, 200)
    BY <2>1 DEF Routed, Listed, Successes
  <2> QED
    BY <1>1, <2>1 DEF OpsRoutes
<1>2. CASE route \in MeRoute
  <2>1. CASE route = Routed("GET /auth/me", SomeoneSignedIn,
                          <<>>, 200)
    BY <2>1 DEF Routed, Listed, Successes
  <2> QED
    BY <1>2, <2>1 DEF MeRoute
<1>3. CASE route \in UserRoutes
  <2>1. CASE route = Routed("POST /users", Administering,
                          <<"findByEmail", "insert">>, 201)
    BY <2>1 DEF Routed, Listed, Successes
  <2>2. CASE route = Routed("GET /users", Administering,
                          <<"list">>, 200)
    BY <2>2 DEF Routed, Listed, Successes
  <2> QED
    BY <1>3, <2>1, <2>2 DEF UserRoutes
<1>4. CASE route \in PromptRoutes
  <2>1. CASE route = Routed("POST /prompts", Submitting,
                          <<"insert">>, 201)
    BY <2>1 DEF Routed, Listed, Successes
  <2>2. CASE route = Routed("GET /prompts", SomeoneSignedIn,
                          <<"list">>, 200)
    BY <2>2 DEF Routed, Listed, Successes
  <2>3. CASE route = Routed("GET /prompts/:id", SomeoneSignedIn,
                          <<"find">>, 200)
    BY <2>3 DEF Routed, Listed, Successes
  <2>4. CASE route = Routed("POST /prompts/:id/submissions", Submitting,
                          <<"find", "insert">>, 201)
    BY <2>4 DEF Routed, Listed, Successes
  <2>5. CASE route = Routed("GET /prompts/:id/submissions", SomeoneSignedIn,
                          <<"find", "list">>, 200)
    BY <2>5 DEF Routed, Listed, Successes
  <2>6. CASE route = Routed("GET /submissions/:id", SomeoneSignedIn,
                          <<"find">>, 200)
    BY <2>6 DEF Routed, Listed, Successes
  <2> QED
    BY <1>4, <2>1, <2>2, <2>3, <2>4, <2>5, <2>6 DEF PromptRoutes
<1>5. CASE route \in RubricRoutes
  <2>1. CASE route = Routed("POST /rubrics", Administering,
                          <<"assert", "insert">>, 201)
    BY <2>1 DEF Routed, Listed, Successes
  <2>2. CASE route = Routed("POST /rubrics/:id/versions", Administering,
                          <<"assert", "find", "insert">>, 201)
    BY <2>2 DEF Routed, Listed, Successes
  <2>3. CASE route = Routed("GET /rubrics", SomeoneSignedIn,
                          <<"list">>, 200)
    BY <2>3 DEF Routed, Listed, Successes
  <2>4. CASE route = Routed("GET /rubrics/:id", SomeoneSignedIn,
                          <<"find">>, 200)
    BY <2>4 DEF Routed, Listed, Successes
  <2> QED
    BY <1>5, <2>1, <2>2, <2>3, <2>4 DEF RubricRoutes
<1>6. CASE route \in EvaluationReads
  <2>1. CASE route = Routed("GET /evaluations", Reviewing,
                          <<"list">>, 200)
    BY <2>1 DEF Routed, Listed, Successes
  <2>2. CASE route = Routed("GET /evaluations/:id", SomeoneSignedIn,
                          <<"find">>, 200)
    BY <2>2 DEF Routed, Listed, Successes
  <2>3. CASE route = Routed("GET /evaluations/:id/history", SomeoneSignedIn,
                          <<"find", "list">>, 200)
    BY <2>3 DEF Routed, Listed, Successes
  <2>4. CASE route = Routed("POST /evaluations/:id/cancel", Administering,
                          <<"find", "move">>, 200)
    BY <2>4 DEF Routed, Listed, Successes
  <2> QED
    BY <1>6, <2>1, <2>2, <2>3, <2>4 DEF EvaluationReads
<1>7. CASE route \in StartEvaluation
  <2>1. CASE route = Routed("POST /submissions/:id/evaluations", Submitting,
                          <<"find", "find", "create", "enqueue">>, 202)
    BY <2>1 DEF Routed, Listed, Successes
  <2> QED
    BY <1>7, <2>1 DEF StartEvaluation
<1> QED
  BY <1>1, <1>2, <1>3, <1>4, <1>5, <1>6, <1>7 DEF Routes

\* Every handler refuses before it writes, stores an evaluation before it queues
\* the job, and logs first if it logs at all.
LEMMA RoutesWellOrdered ==
    ASSUME NEW calls \in CallLists
    PROVE  WellOrdered(calls)
<1> USE DEF WellOrdered, Refusing, Writes, Logging, CallKinds
<1>1. CASE calls = <<>>
  BY <1>1
<1>2. CASE calls = <<"list">>
  BY <1>2
<1>3. CASE calls = <<"find">>
  BY <1>3
<1>4. CASE calls = <<"insert">>
  BY <1>4
<1>5. CASE calls = <<"findByEmail", "insert">>
  BY <1>5
<1>6. CASE calls = <<"assert", "insert">>
  BY <1>6
<1>7. CASE calls = <<"find", "insert">>
  BY <1>7
<1>8. CASE calls = <<"find", "list">>
  BY <1>8
<1>9. CASE calls = <<"find", "move">>
  BY <1>9
<1>10. CASE calls = <<"assert", "find", "insert">>
  BY <1>10
<1>11. CASE calls = <<"find", "find", "create", "enqueue">>
  BY <1>11
<1> QED
  <2>1. CASE \E route \in Routes : calls = route.calls
    <3>1. PICK route \in Routes : calls = route.calls
      BY <2>1
    <3> QED
      BY <3>1, RoutesListed, <1>1, <1>2, <1>3, <1>4, <1>5, <1>6, <1>7, <1>8, <1>9,
         <1>10, <1>11 DEF Listed
  <2> QED
    BY <1>1, <2>1 DEF CallLists

\* What Receive takes from a route.
LEMMA RouteFields ==
    ASSUME NEW route \in Routes
    PROVE  route.calls \in CallLists /\ route.success \in Successes
BY RoutesListed DEF CallLists, Listed

----------------------------------------------------------------------------
(* The steps of one handler.                                               *)

\* A step of the request r: what it makes of the record, and what it tells.
RequestStep(r, y) ==
    /\ y \in Handlers
    /\ WholeRequest(y)
    /\ Waiting(y) => Waiting(req[r]) \/ Listening
    /\ Handling(req[r]) /\ ~ Handling(y) => Tells(req[r], y.status, y.did)

\* An answered request is whole.
LEMMA AnsweredWhole ==
    ASSUME NEW status \in Successes \cup {400, 401, 403, 404, 409, 500},
           NEW did \in SUBSET Writes
    PROVE  /\ Answered(status, did) \in Handlers
           /\ WholeRequest(Answered(status, did))
           /\ ~ Handling(Answered(status, did))
           /\ Answered(status, did).status = status
           /\ Answered(status, did).did = did
<1>1. PICK y : y = Answered(status, did)
  OBVIOUS
<1>2. <<>> \in CallLists /\ Len(<<>>) = 0
  BY DEF CallLists
<1>3. y = [at |-> "answered", calls |-> <<>>, next |-> 1, success |-> 0,
           traced |-> TRUE, here |-> TRUE, did |-> did, status |-> status]
  BY <1>1 DEF Answered, Unsent
<1>4. /\ y.at = "answered" /\ y.calls = <<>> /\ y.next = 1
      /\ y.status = status /\ y.did = did
  BY <1>3
<1>5. y \in Handlers
  BY <1>2, <1>3 DEF Handlers
<1>6. status # 0
  BY DEF Successes
<1>7. y.next \in 1..(Len(y.calls) + 1)
  BY <1>2, <1>4
<1>8. WholeRequest(y) /\ ~ Handling(y)
  BY <1>4, <1>6, <1>7 DEF WholeRequest, Handling
<1> QED
  BY <1>1, <1>4, <1>5, <1>8

\* A request that passes has a whole list of calls before it.
LEMMA AcceptedWhole ==
    ASSUME NEW route \in Routes, NEW traced \in BOOLEAN
    PROVE  /\ Accepted(route, traced) \in Handlers
           /\ WholeRequest(Accepted(route, traced))
           /\ Handling(Accepted(route, traced))
<1>1. PICK y : y = Accepted(route, traced)
  OBVIOUS
<1>2. PICK t : t = (traced \/ ~ Logs(route))
  OBVIOUS
<1>3. y = [at |-> "handling", calls |-> route.calls, next |-> 1,
           success |-> route.success, traced |-> t,
           here |-> TRUE, did |-> {}, status |-> 0]
  BY <1>1, <1>2 DEF Accepted, Unsent
<1>4. /\ y.at = "handling" /\ y.calls = route.calls /\ y.next = 1
      /\ y.success = route.success /\ y.traced = t /\ y.did = {} /\ y.status = 0
  BY <1>3
<1>5. route.calls \in CallLists /\ route.success \in Successes
  BY RouteFields
<1>6. WellOrdered(route.calls)
  BY <1>5, RoutesWellOrdered
<1>7. t \in BOOLEAN
  BY <1>2
<1>8. y \in Handlers
  BY <1>3, <1>5, <1>7 DEF Handlers
<1>9. Len(route.calls) \in Nat /\ DOMAIN route.calls = 1..Len(route.calls)
  BY <1>6 DEF WellOrdered
<1>10. ~ t => \E i \in 1..Len(route.calls) : route.calls[i] \in Logging
  <2>1. ASSUME ~ t
        PROVE  CallsOf(route.calls) \cap Logging # {}
    BY <1>2, <2>1 DEF Logs
  <2> QED
    BY <1>9, <2>1 DEF CallsOf
<1>11. HasDone(y)
  BY <1>4 DEF HasDone
<1>12. StopsAtTheLog(y)
  BY <1>4, <1>10 DEF StopsAtTheLog
<1>13. y.next \in 1..(Len(y.calls) + 1)
  BY <1>4, <1>9
<1>14. WholeRequest(y) /\ Handling(y)
  BY <1>4, <1>5, <1>11, <1>12, <1>13 DEF WholeRequest, Handling
<1> QED
  BY <1>1, <1>8, <1>14

LEMMA ReceiveStep ==
    ASSUME RequestsWhole, NEW r \in Requests, NEW route \in Routes,
           NEW valid \in BOOLEAN, NEW traced \in BOOLEAN, NEW role \in Everyone,
           Receive(r, route, valid, role, traced)
    PROVE  \E y : req' = [req EXCEPT ![r] = y] /\ RequestStep(r, y)
<1>1. Refusal(route, valid, role) \in {0, 400, 401, 403}
  BY DEF Refusal
<1>2. ~ Handling(req[r]) /\ Listening
  BY DEF Receive
<1>3. CASE Refusal(route, valid, role) # 0
  <2>1. PICK status : status = Refusal(route, valid, role)
    OBVIOUS
  <2>2. status \in {400, 401, 403} /\ {} \in SUBSET Writes
    BY <1>1, <1>3, <2>1
  <2>3. PICK y : y = Answered(status, {})
    OBVIOUS
  <2>4. req' = [req EXCEPT ![r] = y]
    BY <1>3, <2>1, <2>3 DEF Receive
  <2>5. y \in Handlers /\ WholeRequest(y) /\ ~ Handling(y)
    BY <2>2, <2>3, AnsweredWhole
  <2> QED
    BY <1>2, <2>4, <2>5 DEF RequestStep, Waiting, Handling
<1>4. CASE Refusal(route, valid, role) = 0
  <2>1. PICK y : y = Accepted(route, traced)
    OBVIOUS
  <2>2. req' = [req EXCEPT ![r] = y]
    BY <1>4, <2>1 DEF Receive
  <2>3. y \in Handlers /\ WholeRequest(y) /\ Handling(y)
    BY <2>1, AcceptedWhole
  <2> QED
    BY <1>2, <2>2, <2>3 DEF RequestStep
<1> QED
  BY <1>3, <1>4

\* What a handler that awaits its next call knows.
LEMMA AwaitsFacts ==
    ASSUME RequestsWhole, NEW r \in Requests, Awaits(r)
    PROVE  /\ req[r] \in Handlers /\ WholeRequest(req[r]) /\ Handling(req[r])
           /\ WellOrdered(req[r].calls)
           /\ req[r].next \in 1..Len(req[r].calls)
           /\ Call(r) \in CallKinds
<1>1. req[r] \in Handlers /\ WholeRequest(req[r]) /\ Handling(req[r])
  BY DEF RequestsWhole, Awaits, Handler
<1>2. WellOrdered(req[r].calls)
  BY <1>1, RoutesWellOrdered DEF Handlers
<1>3. req[r].next \in 1..Len(req[r].calls)
  BY <1>1, <1>2 DEF Awaits, WholeRequest, Handlers, WellOrdered
<1> QED
  BY <1>1, <1>2, <1>3 DEF WellOrdered, Call

Done(r, did) ==
    \/ did = req[r].did
    \/ CanLog(r) /\ did = req[r].did \cup Effect(r)

\* The writes done, and at most the one in progress.
LEMMA DoneTells ==
    ASSUME RequestsWhole, NEW r \in Requests, Awaits(r),
           NEW did, Done(r, did)
    PROVE  /\ did \in SUBSET Writes
           /\ "enqueue" \in did => "create" \in did
           /\ ~ req[r].traced => did = {}
<1> DEFINE x == req[r]
<1>1. /\ x \in Handlers /\ WholeRequest(x) /\ Handling(x)
      /\ WellOrdered(x.calls) /\ x.next \in 1..Len(x.calls)
      /\ Call(r) \in CallKinds
  BY AwaitsFacts
<1>2. HasDone(x) /\ StopsAtTheLog(x) /\ x.next \in Nat
  BY <1>1 DEF WholeRequest, Handlers
<1>3. Call(r) = x.calls[x.next]
  BY DEF Call
<1>4. did \in SUBSET Writes
  BY <1>1 DEF Handlers, Done, Effect
<1>5. \A w \in did : \E i \in 1..x.next : x.calls[i] = w
  BY <1>1, <1>2, <1>3, <1>4 DEF HasDone, Done, Effect
<1>6. ASSUME "enqueue" \in did
      PROVE  "create" \in did
  <2>1. PICK i \in 1..x.next : x.calls[i] = "enqueue"
    BY <1>5, <1>6
  <2>2. Len(x.calls) \in Nat /\ i \in 1..Len(x.calls)
    BY <1>1 DEF WellOrdered
  <2>3. PICK j \in 1..(i - 1) : x.calls[j] = "create"
    BY <1>1, <2>1, <2>2 DEF WellOrdered
  <2>4. j \in 1..(x.next - 1)
    BY <1>2, <2>2
  <2>5. "create" \in x.did
    BY <1>2, <2>3, <2>4 DEF HasDone, Writes
  <2> QED
    BY <2>5 DEF Done
<1>7. ASSUME ~ x.traced
      PROVE  did = {}
  <2>1. /\ \E i \in 1..Len(x.calls) : x.calls[i] \in Logging
        /\ \A i \in 1..(x.next - 1) : x.calls[i] \notin Logging
    BY <1>2, <1>7 DEF StopsAtTheLog
  <2>2. SUFFICES ASSUME NEW w \in did PROVE FALSE
    OBVIOUS
  <2>3. PICK i \in 1..x.next : x.calls[i] = w
    BY <1>5
  <2>4. Len(x.calls) \in Nat /\ i \in 1..Len(x.calls) /\ w \in Writes
    BY <1>1, <1>4 DEF WellOrdered
  <2>5. PICK j \in 1..i : x.calls[j] \in Logging
    BY <1>1, <2>1, <2>3, <2>4 DEF WellOrdered
  <2>6. j = x.next
    BY <1>2, <2>1, <2>4, <2>5
  <2>7. i = x.next /\ Call(r) \in Logging
    BY <1>2, <1>3, <2>4, <2>5, <2>6
  <2>8. w = Call(r)
    BY <1>3, <2>3, <2>7
  <2>9. w \notin x.did
    BY <1>2, <2>1, <2>7, <2>8, <2>4 DEF HasDone
  <2> QED
    BY <1>7, <2>7, <2>9 DEF CanLog, Done
<1> QED
  BY <1>4, <1>6, <1>7

\* An answer given while r awaits a call.
LEMMA AwaitsAnswer ==
    ASSUME RequestsWhole, NEW r \in Requests, Awaits(r),
           NEW did, Done(r, did),
           NEW status \in {400, 404, 409, 500},
           status # 500 => did = {},
           Answer(r, status, did)
    PROVE  \E y : req' = [req EXCEPT ![r] = y] /\ RequestStep(r, y)
<1>1. PICK y : y = Answered(status, did)
  OBVIOUS
<1>2. req' = [req EXCEPT ![r] = y]
  BY <1>1 DEF Answer
<1>3. /\ did \in SUBSET Writes
      /\ "enqueue" \in did => "create" \in did
      /\ ~ req[r].traced => did = {}
  BY DoneTells
<1>4. /\ y \in Handlers /\ WholeRequest(y) /\ ~ Handling(y)
      /\ y.status = status /\ y.did = did
  BY <1>1, <1>3, AnsweredWhole
<1>5. Tells(req[r], status, did)
  BY <1>3 DEF Tells, Successes
<1> QED
  BY <1>2, <1>4, <1>5 DEF RequestStep, Waiting, Handling

\* A record of a request, field by field.
LEMMA HandlerFields ==
    ASSUME NEW x \in Handlers
    PROVE  \E at, calls, next, success, traced, here, did, status :
              x = [at |-> at, calls |-> calls, next |-> next, success |-> success,
                   traced |-> traced, here |-> here, did |-> did, status |-> status]
BY DEF Handlers

LEMMA ReturnsStep ==
    ASSUME RequestsWhole, NEW r \in Requests, Returns(r)
    PROVE  \E y : req' = [req EXCEPT ![r] = y] /\ RequestStep(r, y)
<1>1. /\ req[r] \in Handlers /\ WholeRequest(req[r]) /\ Handling(req[r])
      /\ WellOrdered(req[r].calls) /\ req[r].next \in 1..Len(req[r].calls)
      /\ Call(r) \in CallKinds
  BY AwaitsFacts DEF Returns
<1>2. PICK x : x = req[r]
  OBVIOUS
<1>3. PICK c : c = Call(r)
  OBVIOUS
<1>4. PICK y : y = [x EXCEPT !.next = x.next + 1, !.did = x.did \cup Effect(r)]
  OBVIOUS
<1>5. req' = [req EXCEPT ![r] = y]
  BY <1>2, <1>4 DEF Returns
<1>6. /\ x \in Handlers /\ WholeRequest(x) /\ Handling(x)
      /\ x.next \in 1..Len(x.calls) /\ c = x.calls[x.next]
      /\ Len(x.calls) \in Nat
  BY <1>1, <1>2, <1>3 DEF Call, WellOrdered
<1>7. /\ y \in Handlers
      /\ y.at = x.at /\ y.calls = x.calls /\ y.success = x.success
      /\ y.traced = x.traced /\ y.here = x.here /\ y.status = x.status
      /\ y.next = x.next + 1 /\ y.did = x.did \cup ({c} \cap Writes)
  <2>1. y = [x EXCEPT !.next = x.next + 1, !.did = x.did \cup ({c} \cap Writes)]
    BY <1>2, <1>3, <1>4 DEF Effect
  <2>2. /\ y.at = x.at /\ y.calls = x.calls /\ y.success = x.success
        /\ y.traced = x.traced /\ y.here = x.here /\ y.status = x.status
        /\ y.next = x.next + 1 /\ y.did = x.did \cup ({c} \cap Writes)
    BY <1>6, <2>1 DEF Handlers
  <2>3. x.next + 1 \in Nat /\ x.did \cup ({c} \cap Writes) \in SUBSET Writes
    BY <1>6 DEF Handlers
  <2>4. y = [at |-> x.at, calls |-> x.calls, next |-> x.next + 1,
             success |-> x.success, traced |-> x.traced, here |-> x.here,
             did |-> x.did \cup ({c} \cap Writes), status |-> x.status]
    <3>1. PICK at, calls, next, success, traced, here, did, status :
                x = [at |-> at, calls |-> calls, next |-> next,
                     success |-> success, traced |-> traced, here |-> here,
                     did |-> did, status |-> status]
      BY <1>6, HandlerFields
    <3> QED
      BY <2>1, <3>1
  <2>5. y \in Handlers
    BY <1>6, <2>3, <2>4 DEF Handlers
  <2> QED
    BY <2>2, <2>5
<1>8. HasDone(x) /\ StopsAtTheLog(x) /\ x.success \in Successes
  BY <1>6 DEF WholeRequest
<1>9. HasDone(y)
  <2>1. SUFFICES ASSUME NEW w \in Writes
                 PROVE  w \in y.did <=> \E i \in 1..(y.next - 1) : y.calls[i] = w
    BY DEF HasDone
  <2>2. w \in y.did <=> w \in x.did \/ w = c
    BY <1>7
  <2>3. w \in x.did <=> \E i \in 1..(x.next - 1) : x.calls[i] = w
    BY <1>8 DEF HasDone
  <2>4. \A i : i \in 1..(y.next - 1) <=> i \in 1..(x.next - 1) \/ i = x.next
    BY <1>6, <1>7
  <2> QED
    BY <1>6, <1>7, <2>2, <2>3, <2>4
<1>10. StopsAtTheLog(y)
  <2>1. SUFFICES ASSUME ~ x.traced
                 PROVE  \A i \in 1..(y.next - 1) : y.calls[i] \notin Logging
    BY <1>7, <1>8 DEF StopsAtTheLog
  <2>2. c \notin Logging
    BY <1>2, <1>3, <2>1 DEF Returns, CanLog
  <2>3. \A i \in 1..(x.next - 1) : x.calls[i] \notin Logging
    BY <1>8, <2>1 DEF StopsAtTheLog
  <2>4. \A i \in 1..(y.next - 1) : i \in 1..(x.next - 1) \/ i = x.next
    BY <1>6, <1>7
  <2> QED
    BY <1>6, <1>7, <2>2, <2>3, <2>4
<1>11. WholeRequest(y)
  BY <1>6, <1>7, <1>8, <1>9, <1>10 DEF WholeRequest, Handling
<1>12. Handling(y) /\ (Waiting(y) => Waiting(req[r]))
  BY <1>2, <1>6, <1>7 DEF Handling, Waiting
<1> QED
  BY <1>5, <1>7, <1>11, <1>12 DEF RequestStep

LEMMA RefusesStep ==
    ASSUME RequestsWhole, NEW r \in Requests, Refuses(r)
    PROVE  \E y : req' = [req EXCEPT ![r] = y] /\ RequestStep(r, y)
<1>1. Awaits(r)
  BY DEF Refuses
<1>2. /\ req[r] \in Handlers /\ WholeRequest(req[r]) /\ Handling(req[r])
      /\ WellOrdered(req[r].calls) /\ req[r].next \in 1..Len(req[r].calls)
  BY <1>1, AwaitsFacts
<1>3. PICK did : did = req[r].did
  OBVIOUS
<1>4. PICK status \in {400, 404, 409} : Answer(r, status, did)
  BY <1>3 DEF Refuses
<1>5. Call(r) \in Refusing
  BY DEF Refuses, Refusing
<1>7. Done(r, did)
  BY <1>3 DEF Done
<1>8. status \in {400, 404, 409, 500}
  OBVIOUS
<1>6. did = {}
  <2>1. SUFFICES ASSUME NEW w \in did PROVE FALSE
    OBVIOUS
  <2>2. w \in Writes
    BY <1>2, <1>3 DEF Handlers
  <2>3. PICK i \in 1..(req[r].next - 1) : req[r].calls[i] = w
    BY <1>2, <1>3, <2>2 DEF WholeRequest, HasDone
  <2>4. Len(req[r].calls) \in Nat
    BY <1>2 DEF WellOrdered
  <2>5. i \in 1..Len(req[r].calls) /\ i < req[r].next
    BY <1>2, <2>3, <2>4
  <2> QED
    BY <1>2, <1>5, <2>2, <2>3, <2>5 DEF WellOrdered, Call
<1> QED
  BY <1>1, <1>4, <1>6, <1>7, <1>8, AwaitsAnswer

LEMMA ThrowsStep ==
    ASSUME RequestsWhole, NEW r \in Requests, Throws(r)
    PROVE  \E y : req' = [req EXCEPT ![r] = y] /\ RequestStep(r, y)
<1>1. Awaits(r)
  BY DEF Throws
<1>2. CASE Answer(r, 500, req[r].did)
  <2>1. PICK did : did = req[r].did
    OBVIOUS
  <2>2. Answer(r, 500, did)
    BY <1>2, <2>1
  <2>3. Done(r, did)
    BY <2>1 DEF Done
  <2> QED
    BY <1>1, <2>2, <2>3, AwaitsAnswer
<1>3. CASE CanLog(r) /\ Answer(r, 500, req[r].did \cup Effect(r))
  <2>1. PICK did : did = req[r].did \cup Effect(r)
    OBVIOUS
  <2>2. Answer(r, 500, did)
    BY <1>3, <2>1
  <2>3. Done(r, did)
    BY <1>3, <2>1 DEF Done
  <2> QED
    BY <1>1, <2>2, <2>3, AwaitsAnswer
<1> QED
  BY <1>2, <1>3 DEF Throws

LEMMA RepliesStep ==
    ASSUME RequestsWhole, NEW r \in Requests, Replies(r)
    PROVE  \E y : req' = [req EXCEPT ![r] = y] /\ RequestStep(r, y)
<1>1. PICK x : x = req[r]
  OBVIOUS
<1>2. x \in Handlers /\ WholeRequest(x) /\ Handling(x)
  BY <1>1 DEF RequestsWhole, Replies, Handler
<1>3. WellOrdered(x.calls) /\ Len(x.calls) \in Nat
  BY <1>2, RoutesWellOrdered DEF Handlers, WellOrdered
<1>4. DOMAIN x.calls = 1..Len(x.calls)
  BY <1>3 DEF WellOrdered
<1>5. x.next = Len(x.calls) + 1
  BY <1>1, <1>2, <1>3 DEF Replies, WholeRequest
<1>6. /\ x.success \in Successes /\ x.did \in SUBSET Writes
      /\ HasDone(x) /\ StopsAtTheLog(x)
  BY <1>2 DEF Handlers, WholeRequest
<1>7. x.did = CallsOf(x.calls) \cap Writes
  BY <1>3, <1>4, <1>5, <1>6 DEF HasDone, CallsOf
<1>8. ASSUME "enqueue" \in x.did
      PROVE  "create" \in x.did
  <2>1. PICK i \in 1..Len(x.calls) : x.calls[i] = "enqueue"
    BY <1>3, <1>5, <1>6, <1>8 DEF HasDone
  <2>2. PICK j \in 1..(i - 1) : x.calls[j] = "create"
    BY <1>3, <2>1 DEF WellOrdered
  <2>3. j \in 1..(x.next - 1)
    BY <1>3, <1>5
  <2> QED
    BY <1>6, <2>2, <2>3 DEF HasDone, Writes
<1>9. x.traced
  BY <1>3, <1>5, <1>6 DEF StopsAtTheLog
<1>10. Tells(x, x.success, x.did)
  BY <1>6, <1>7, <1>8, <1>9 DEF Tells, Successes
<1>11. PICK y : y = Answered(x.success, x.did)
  OBVIOUS
<1>12. req' = [req EXCEPT ![r] = y]
  BY <1>1, <1>11 DEF Replies, Answer
<1>13. /\ y \in Handlers /\ WholeRequest(y) /\ ~ Handling(y)
       /\ y.status = x.success /\ y.did = x.did
  BY <1>6, <1>11, AnsweredWhole
<1> QED
  BY <1>1, <1>10, <1>12, <1>13 DEF RequestStep, Waiting, Handling

LEMMA LeavesStep ==
    ASSUME RequestsWhole, NEW r \in Requests, RequestClientLeaves(r)
    PROVE  \E y : req' = [req EXCEPT ![r] = y] /\ RequestStep(r, y)
<1>1. PICK x : x = req[r]
  OBVIOUS
<1>2. PICK y : y = [req[r] EXCEPT !.here = FALSE]
  OBVIOUS
<1>3. req' = [req EXCEPT ![r] = y]
  BY <1>2 DEF RequestClientLeaves
<1>4. x \in Handlers /\ WholeRequest(x) /\ Handling(x)
  BY <1>1 DEF RequestsWhole, RequestClientLeaves, Handler
<1>5. /\ y \in Handlers
      /\ y.at = x.at /\ y.calls = x.calls /\ y.success = x.success
      /\ y.traced = x.traced /\ y.here = FALSE /\ y.status = x.status
      /\ y.next = x.next /\ y.did = x.did
  <2>1. y = [x EXCEPT !.here = FALSE]
    BY <1>1, <1>2
  <2>2. /\ y.at = x.at /\ y.calls = x.calls /\ y.success = x.success
        /\ y.traced = x.traced /\ y.here = FALSE /\ y.status = x.status
        /\ y.next = x.next /\ y.did = x.did
    BY <1>4, <2>1 DEF Handlers
  <2>3. y = [at |-> x.at, calls |-> x.calls, next |-> x.next,
             success |-> x.success, traced |-> x.traced, here |-> FALSE,
             did |-> x.did, status |-> x.status]
    <3>1. PICK at, calls, next, success, traced, here, did, status :
                x = [at |-> at, calls |-> calls, next |-> next,
                     success |-> success, traced |-> traced, here |-> here,
                     did |-> did, status |-> status]
      BY <1>4, HandlerFields
    <3> QED
      BY <2>1, <3>1
  <2>4. y \in Handlers
    BY <1>4, <2>3 DEF Handlers
  <2> QED
    BY <2>2, <2>4
<1>6. WholeRequest(y)
  BY <1>4, <1>5 DEF WholeRequest, HasDone, StopsAtTheLog, Handling
<1> QED
  BY <1>3, <1>4, <1>5, <1>6 DEF RequestStep, Waiting, Handling

\* Whatever step is taken, each request stays or makes a step of its own.
LEMMA RequestsStep ==
    ASSUME RequestsWhole, Next
    PROVE  /\ req' \in [Requests -> Handlers]
           /\ \A r \in Requests : req'[r] = req[r] \/ RequestStep(r, req'[r])
<1>1. ASSUME NEW r \in Requests,
             \/ \E route \in Routes, valid, traced \in BOOLEAN, role \in Everyone :
                   Receive(r, route, valid, role, traced)
             \/ Handles(r) \/ RequestClientLeaves(r)
      PROVE  \E y : req' = [req EXCEPT ![r] = y] /\ RequestStep(r, y)
  BY <1>1, ReceiveStep, ReturnsStep, RefusesStep, ThrowsStep, RepliesStep, LeavesStep
     DEF Handles
<1>2. CASE \E r \in Requests :
              \/ \E route \in Routes, valid, traced \in BOOLEAN, role \in Everyone :
                    Receive(r, route, valid, role, traced)
              \/ Handles(r) \/ RequestClientLeaves(r)
  <2>0. PICK r \in Requests : \E y : req' = [req EXCEPT ![r] = y] /\ RequestStep(r, y)
    BY <1>1, <1>2
  <2>1. PICK y : req' = [req EXCEPT ![r] = y] /\ RequestStep(r, y)
    BY <2>0
  <2>2. y \in Handlers /\ req \in [Requests -> Handlers]
    BY <2>1 DEF RequestStep, RequestsWhole
  <2> QED
    BY <2>1, <2>2
<1>3. CASE UNCHANGED req
  BY <1>3 DEF RequestsWhole
<1>4. CASE \E st \in Stores : StoreFails(st) \/ StoreRecovers(st)
  BY <1>3, <1>4 DEF StoreFails, StoreRecovers
<1>5. CASE \E p \in Probes :
              \/ ProbeArrives(p) \/ ProbeReplies(p) \/ ProbeClientLeaves(p)
              \/ \E st \in Stores : Pings(p, st)
  BY <1>3, <1>5 DEF ProbeArrives, ProbeReplies, ProbeClientLeaves, Pings,
                    PingSucceeds, PingFails, Hears
<1>6. CASE \E s \in Signals : Signalled(s) \/ Closes(s)
  BY <1>3, <1>6 DEF Signalled, Closes, AppCloses, QueueCloses, DatabaseCloses,
                    Exits, CloseFails, Moves
<1> QED
  BY <1>2, <1>4, <1>5, <1>6 DEF Next

----------------------------------------------------------------------------
(* The steps of one probe.                                                 *)

\* What a step makes of the record x of a probe.
ProbeStep(x, y) ==
    /\ y \in ReadyChecks
    /\ WholeProbe(y, up')
    /\ Waiting(y) => Waiting(x) \/ Listening
    /\ Handling(x) /\ ~ Handling(y) =>
          /\ y.status = 200 => x.met = Stores
          /\ y.status = 503 => \E st \in Stores : x.heard[st] = "failed"

\* A probe whose record stays, while no store comes back.
LEMMA ProbeStays ==
    ASSUME ProbesWhole, NEW p \in Probes, up' \subseteq up
    PROVE  ProbeStep(probe[p], probe[p])
BY DEF ProbesWhole, ProbeStep, WholeProbe

LEMMA RecoversStep ==
    ASSUME ProbesWhole, NEW st \in Stores, StoreRecovers(st), NEW p \in Probes
    PROVE  ProbeStep(probe[p], probe'[p])
<1>1. PICK x : x = probe[p]
  OBVIOUS
<1>2. x \in ReadyChecks /\ WholeProbe(x, up)
  BY <1>1 DEF ProbesWhole
<1>3. CASE Handling(x)
  <2>1. PICK y : y = [x EXCEPT !.met = x.met \cup {st}]
    OBVIOUS
  <2>2. probe'[p] = y
    BY <1>1, <1>3, <2>1 DEF StoreRecovers
  <2>3. y \in ReadyChecks
    BY <1>2, <2>1 DEF ReadyChecks
  <2>4. y.at = x.at /\ y.here = x.here /\ y.heard = x.heard /\ y.met = x.met \cup {st}
    BY <1>2, <2>1 DEF ReadyChecks
  <2>5. WholeProbe(y, up')
    BY <1>2, <2>4 DEF WholeProbe, StoreRecovers, Handling
  <2> QED
    BY <1>1, <1>3, <2>2, <2>3, <2>4, <2>5 DEF ProbeStep, Waiting, Handling
<1>4. CASE ~ Handling(x)
  <2>1. probe'[p] = x
    BY <1>1, <1>4 DEF StoreRecovers
  <2> QED
    BY <1>1, <1>2, <1>4, <2>1 DEF ProbeStep, WholeProbe
<1> QED
  BY <1>3, <1>4

LEMMA ArrivesStep ==
    ASSUME ProbesWhole, NEW p \in Probes, ProbeArrives(p)
    PROVE  \E y : probe' = [probe EXCEPT ![p] = y] /\ ProbeStep(probe[p], y)
<1>1. PICK y : y = [NoProbe EXCEPT !.at = "handling", !.met = up]
  OBVIOUS
<1>2. probe' = [probe EXCEPT ![p] = y] /\ up' = up /\ Listening
  BY <1>1 DEF ProbeArrives
<1>3. up \subseteq Stores
  BY DEF ProbesWhole
<1>7. y = [at |-> "handling", heard |-> [st \in Stores |-> "waiting"], met |-> up,
           here |-> TRUE, status |-> 0]
  BY <1>1 DEF NoProbe
<1>4. y \in ReadyChecks
  BY <1>3, <1>7 DEF ReadyChecks
<1>5. /\ y.at = "handling" /\ y.met = up
      /\ \A st \in Stores : y.heard[st] = "waiting"
  BY <1>7
<1>6. WholeProbe(y, up')
  BY <1>2, <1>5 DEF WholeProbe
<1>8. ProbeStep(probe[p], y)
  BY <1>2, <1>4, <1>5, <1>6 DEF ProbeStep, Handling
<1> QED
  BY <1>2, <1>8

LEMMA HearsStep ==
    ASSUME ProbesWhole, NEW p \in Probes, NEW st \in Stores, Pings(p, st)
    PROVE  \E y : probe' = [probe EXCEPT ![p] = y] /\ ProbeStep(probe[p], y)
<1>1. PICK answer \in {"ok", "failed"} :
         Hears(p, st, answer) /\ (answer = "ok" => st \in up)
  BY DEF Pings, PingSucceeds, PingFails
<1>2. PICK x : x = probe[p]
  OBVIOUS
<1>3. PICK y : y = [x EXCEPT !.heard = [x.heard EXCEPT ![st] = answer]]
  OBVIOUS
<1>4. probe' = [probe EXCEPT ![p] = y] /\ up' = up /\ Handling(x)
  BY <1>1, <1>2, <1>3 DEF Hears
<1>5. x \in ReadyChecks /\ WholeProbe(x, up)
  BY <1>2 DEF ProbesWhole
<1>6. /\ y.at = x.at /\ y.here = x.here /\ y.met = x.met
      /\ y.heard = [x.heard EXCEPT ![st] = answer]
      /\ x.heard \in [Stores -> {"waiting", "ok", "failed"}]
  BY <1>3, <1>5 DEF ReadyChecks
<1>7. [x.heard EXCEPT ![st] = answer] \in [Stores -> {"waiting", "ok", "failed"}]
  BY <1>6
<1>8. y \in ReadyChecks
  BY <1>3, <1>5, <1>7 DEF ReadyChecks
<1>9. WholeProbe(y, up')
  BY <1>1, <1>4, <1>5, <1>6 DEF WholeProbe, Handling
<1>10. ProbeStep(x, y)
  BY <1>4, <1>6, <1>8, <1>9 DEF ProbeStep, Waiting, Handling
<1> QED
  BY <1>2, <1>4, <1>10

LEMMA ProbeRepliesStep ==
    ASSUME ProbesWhole, NEW p \in Probes, ProbeReplies(p)
    PROVE  \E y : probe' = [probe EXCEPT ![p] = y] /\ ProbeStep(probe[p], y)
<1>1. PICK x : x = probe[p]
  OBVIOUS
<1>2. PICK status \in {200, 503} : status = IF EveryOk(x.heard) THEN 200 ELSE 503
  OBVIOUS
<1>3. PICK y : y = [NoProbe EXCEPT !.at = "answered", !.status = status]
  OBVIOUS
<1>4. probe' = [probe EXCEPT ![p] = y] /\ Handling(x)
  BY <1>1, <1>2, <1>3 DEF ProbeReplies
<1>5. x \in ReadyChecks /\ WholeProbe(x, up)
  BY <1>1 DEF ProbesWhole
<1>9. y = [at |-> "answered", heard |-> [st \in Stores |-> "waiting"], met |-> {},
           here |-> TRUE, status |-> status]
  BY <1>3 DEF NoProbe
<1>6. y \in ReadyChecks /\ y.at = "answered" /\ y.status = status
  BY <1>2, <1>9 DEF ReadyChecks
<1>7. ASSUME status = 200
      PROVE  x.met = Stores
  BY <1>2, <1>4, <1>5, <1>7 DEF EveryOk, WholeProbe, ReadyChecks
<1>8. ASSUME status = 503
      PROVE  \E st \in Stores : x.heard[st] = "failed"
  <2>1. PICK st \in Stores : x.heard[st] # "ok"
    BY <1>2, <1>8 DEF EveryOk
  <2>2. x.heard[st] \in {"waiting", "ok", "failed"} /\ x.heard[st] # "waiting"
    BY <1>1, <1>5 DEF ReadyChecks, ProbeReplies
  <2> QED
    BY <2>1, <2>2
<1>10. ProbeStep(x, y)
  BY <1>6, <1>7, <1>8 DEF ProbeStep, WholeProbe, Waiting, Handling
<1> QED
  BY <1>1, <1>4, <1>10

LEMMA ProbeLeavesStep ==
    ASSUME ProbesWhole, NEW p \in Probes, ProbeClientLeaves(p)
    PROVE  \E y : probe' = [probe EXCEPT ![p] = y] /\ ProbeStep(probe[p], y)
<1>1. PICK x : x = probe[p]
  OBVIOUS
<1>2. PICK y : y = [x EXCEPT !.here = FALSE]
  OBVIOUS
<1>3. PICK z : z = [probe[p] EXCEPT !.here = FALSE]
  OBVIOUS
<1>4. probe' = [probe EXCEPT ![p] = y] /\ up' = up
  BY <1>1, <1>2, <1>3 DEF ProbeClientLeaves
<1>5. x \in ReadyChecks /\ WholeProbe(x, up)
  BY <1>1 DEF ProbesWhole
<1>6. /\ y \in ReadyChecks
      /\ y.at = x.at /\ y.heard = x.heard /\ y.met = x.met /\ y.here = FALSE
  BY <1>2, <1>5 DEF ReadyChecks
<1>7. ProbeStep(x, y)
  BY <1>4, <1>5, <1>6 DEF ProbeStep, WholeProbe, Waiting, Handling
<1> QED
  BY <1>1, <1>4, <1>7

\* Whatever step is taken, each probe makes a step, or its record stays.
LEMMA ProbesStep ==
    ASSUME ProbesWhole, Next
    PROVE  /\ probe' \in [Probes -> ReadyChecks]
           /\ \A p \in Probes : ProbeStep(probe[p], probe'[p])
           /\ up' \subseteq Stores
<1>1. probe \in [Probes -> ReadyChecks] /\ up \subseteq Stores
  BY DEF ProbesWhole
<1>2. CASE probe' = probe /\ up' \subseteq up
  BY <1>1, <1>2, ProbeStays
<1>3. CASE \E st \in Stores : StoreRecovers(st)
  <2>1. PICK st \in Stores : StoreRecovers(st)
    BY <1>3
  <2>2. \A p \in Probes : ProbeStep(probe[p], probe'[p])
    BY <2>1, RecoversStep
  <2>3. \A p \in Probes : probe'[p] \in ReadyChecks
    BY <2>2 DEF ProbeStep
  <2> QED
    BY <1>1, <2>1, <2>2, <2>3 DEF StoreRecovers
<1>4. CASE \E p \in Probes :
              \/ ProbeArrives(p) \/ ProbeReplies(p) \/ ProbeClientLeaves(p)
              \/ \E st \in Stores : Pings(p, st)
  <2>0. PICK p \in Probes : \E y : probe' = [probe EXCEPT ![p] = y] /\ ProbeStep(probe[p], y)
    BY <1>4, ArrivesStep, ProbeRepliesStep, ProbeLeavesStep, HearsStep
  <2>1. PICK y : probe' = [probe EXCEPT ![p] = y] /\ ProbeStep(probe[p], y)
    BY <2>0
  <2>2. up' = up
    BY <1>4 DEF ProbeArrives, ProbeReplies, ProbeClientLeaves, Pings,
                PingSucceeds, PingFails, Hears
  <2>3. y \in ReadyChecks
    BY <2>1 DEF ProbeStep
  <2> QED
    BY <1>1, <2>1, <2>2, <2>3, ProbeStays
<1>5. CASE \E st \in Stores : StoreFails(st)
  BY <1>2, <1>5 DEF StoreFails
<1>6. CASE \E r \in Requests :
              \/ \E route \in Routes, valid, traced \in BOOLEAN, role \in Everyone :
                    Receive(r, route, valid, role, traced)
              \/ Handles(r) \/ RequestClientLeaves(r)
  BY <1>2, <1>6 DEF Receive, Handles, Returns, Refuses, Throws, Replies,
                    RequestClientLeaves, Awaits, Handler
<1>7. CASE \E s \in Signals : Signalled(s) \/ Closes(s)
  BY <1>2, <1>7 DEF Signalled, Closes, AppCloses, QueueCloses, DatabaseCloses,
                    Exits, CloseFails, Moves
<1> QED
  BY <1>3, <1>4, <1>5, <1>6, <1>7 DEF Next

----------------------------------------------------------------------------
(* The shutdown.                                                           *)

LEMMA PhasesStep ==
    ASSUME PhasesOK, Next
    PROVE  PhasesOK'
<1>1. CASE UNCHANGED <<phase, closed, exit>>
  BY <1>1 DEF PhasesOK
<1>2. ASSUME NEW s \in Signals, Signalled(s) \/ Closes(s)
      PROVE  PhasesOK'
  BY <1>2 DEF PhasesOK, Signalled, Closes, AppCloses, QueueCloses, DatabaseCloses,
              Exits, CloseFails, Moves
<1>3. CASE \E r \in Requests :
              \/ \E route \in Routes, valid, traced \in BOOLEAN, role \in Everyone :
                    Receive(r, route, valid, role, traced)
              \/ Handles(r) \/ RequestClientLeaves(r)
  BY <1>1, <1>3 DEF Receive, Handles, Returns, Refuses, Throws, Replies,
                    RequestClientLeaves, Awaits, Handler
<1>4. CASE \E p \in Probes :
              \/ ProbeArrives(p) \/ ProbeReplies(p) \/ ProbeClientLeaves(p)
              \/ \E st \in Stores : Pings(p, st)
  BY <1>1, <1>4 DEF ProbeArrives, ProbeReplies, ProbeClientLeaves, Pings,
                    PingSucceeds, PingFails, Hears
<1>5. CASE \E st \in Stores : StoreFails(st) \/ StoreRecovers(st)
  BY <1>1, <1>5 DEF StoreFails, StoreRecovers
<1> QED
  BY <1>2, <1>3, <1>4, <1>5 DEF Next

\* A phase only goes on, and to a late one only when nobody waits.
LEMMA PhaseGoesOn ==
    ASSUME PhasesOK, Next, NEW s \in Signals
    PROVE  /\ phase[s] \in Late => phase'[s] \in Late
           /\ phase'[s] \in Late => phase[s] \in Late \/ Drained
           /\ phase'[s] \in Late /\ phase[s] \notin Late => UNCHANGED <<req, probe>>
<1>1. CASE UNCHANGED phase
  BY <1>1
<1>2. ASSUME NEW t \in Signals, Signalled(t) \/ Closes(t)
      PROVE  /\ phase[s] \in Late => phase'[s] \in Late
             /\ phase'[s] \in Late => phase[s] \in Late \/ Drained
             /\ phase'[s] \in Late /\ phase[s] \notin Late => UNCHANGED <<req, probe>>
  <2>1. CASE Signalled(t)
    BY <2>1 DEF Signalled, Late, PhasesOK
  <2>2. CASE AppCloses(t)
    BY <2>2 DEF AppCloses, Moves, Late, PhasesOK
  <2>3. CASE QueueCloses(t)
    BY <2>3 DEF QueueCloses, Moves, Late, PhasesOK
  <2>4. CASE DatabaseCloses(t)
    BY <2>4 DEF DatabaseCloses, Moves, Late, PhasesOK
  <2>5. CASE Exits(t)
    BY <2>5 DEF Exits, Moves, Late, PhasesOK
  <2>6. CASE CloseFails(t)
    BY <2>6 DEF CloseFails, Moves, Late, PhasesOK
  <2> QED
    BY <1>2, <2>1, <2>2, <2>3, <2>4, <2>5, <2>6 DEF Closes
<1>3. CASE \E r \in Requests :
              \/ \E route \in Routes, valid, traced \in BOOLEAN, role \in Everyone :
                    Receive(r, route, valid, role, traced)
              \/ Handles(r) \/ RequestClientLeaves(r)
  BY <1>1, <1>3 DEF Receive, Handles, Returns, Refuses, Throws, Replies,
                    RequestClientLeaves, Awaits, Handler
<1>4. CASE \E p \in Probes :
              \/ ProbeArrives(p) \/ ProbeReplies(p) \/ ProbeClientLeaves(p)
              \/ \E st \in Stores : Pings(p, st)
  BY <1>1, <1>4 DEF ProbeArrives, ProbeReplies, ProbeClientLeaves, Pings,
                    PingSucceeds, PingFails, Hears
<1>5. CASE \E st \in Stores : StoreFails(st) \/ StoreRecovers(st)
  BY <1>1, <1>5 DEF StoreFails, StoreRecovers
<1> QED
  BY <1>2, <1>3, <1>4, <1>5 DEF Next

\* A client is closed, or the process ends, only after a shutdown has drained.
LEMMA ClosingIsLate ==
    ASSUME PhasesOK, ClosesLate, Next, closed' # {} \/ exit' # "running"
    PROVE  \E s \in Signals : phase'[s] \in Late
<1>1. CASE closed # {} \/ exit # "running"
  BY <1>1, PhaseGoesOn DEF ClosesLate
<1>2. CASE closed = {} /\ exit = "running"
  <2>1. CASE \E s \in Signals : Signalled(s) \/ Closes(s)
    <3>1. PICK s \in Signals : Signalled(s) \/ Closes(s)
      BY <2>1
    <3>2. \/ QueueCloses(s) \/ DatabaseCloses(s) \/ Exits(s) \/ CloseFails(s)
      BY <1>2, <3>1 DEF Signalled, Closes, AppCloses
    <3>3. phase[s] \in Late
      BY <3>2 DEF QueueCloses, DatabaseCloses, Exits, CloseFails, Moves, Late
    <3> QED
      BY <3>3, PhaseGoesOn
  <2>2. CASE UNCHANGED <<closed, exit>>
    BY <1>2, <2>2
  <2>3. CASE \E r \in Requests :
                \/ \E route \in Routes, valid, traced \in BOOLEAN, role \in Everyone :
                      Receive(r, route, valid, role, traced)
                \/ Handles(r) \/ RequestClientLeaves(r)
    BY <2>2, <2>3 DEF Receive, Handles, Returns, Refuses, Throws, Replies,
                      RequestClientLeaves, Awaits, Handler
  <2>4. CASE \E p \in Probes :
                \/ ProbeArrives(p) \/ ProbeReplies(p) \/ ProbeClientLeaves(p)
                \/ \E st \in Stores : Pings(p, st)
    BY <2>2, <2>4 DEF ProbeArrives, ProbeReplies, ProbeClientLeaves, Pings,
                      PingSucceeds, PingFails, Hears
  <2>5. CASE \E st \in Stores : StoreFails(st) \/ StoreRecovers(st)
    BY <2>2, <2>5 DEF StoreFails, StoreRecovers
  <2> QED
    BY <2>1, <2>3, <2>4, <2>5 DEF Next
<1> QED
  BY <1>1, <1>2

LEMMA LateStep ==
    ASSUME IInv, Next
    PROVE  ClosesLate'
<1>1. RequestsWhole /\ ProbesWhole /\ PhasesOK /\ ClosesLate
  BY DEF IInv
<1>2. ASSUME NEW s \in Signals, phase'[s] \in Late
      PROVE  Drained'
  <2>1. CASE phase[s] \in Late
    <3>1. Drained /\ ~ Listening
      BY <1>1, <2>1 DEF ClosesLate, Listening, Late
    <3>2. \A r \in Requests : ~ Waiting(req'[r])
      BY <1>1, <3>1, RequestsStep DEF Drained, RequestStep
    <3>3. \A p \in Probes : ~ Waiting(probe'[p])
      BY <1>1, <3>1, ProbesStep DEF Drained, ProbeStep
    <3> QED
      BY <3>2, <3>3 DEF Drained
  <2>2. CASE phase[s] \notin Late
    <3>1. Drained /\ UNCHANGED <<req, probe>>
      BY <1>1, <1>2, <2>2, PhaseGoesOn
    <3> QED
      BY <3>1 DEF Drained
  <2> QED
    BY <2>1, <2>2
<1>3. closed' # {} \/ exit' # "running" => \E s \in Signals : phase'[s] \in Late
  BY <1>1, ClosingIsLate
<1> QED
  BY <1>2, <1>3 DEF ClosesLate

----------------------------------------------------------------------------
(* The inductive invariant and what it gives.                              *)

LEMMA InitIInv == Init => IInv
<1> SUFFICES ASSUME Init PROVE IInv
  OBVIOUS
<1>1. <<>> \in CallLists /\ Len(<<>>) = 0
  BY DEF CallLists
<1>2. PICK x : x = Unsent
  OBVIOUS
<1>3. x = [at |-> "unsent", calls |-> <<>>, next |-> 1, success |-> 0,
           traced |-> TRUE, here |-> TRUE, did |-> {}, status |-> 0]
  BY <1>2 DEF Unsent
<1>4. x \in Handlers
  BY <1>1, <1>3 DEF Handlers
<1>5. WholeRequest(x)
  BY <1>1, <1>3 DEF WholeRequest, Handling
<1>6. RequestsWhole
  BY <1>2, <1>4, <1>5 DEF Init, RequestsWhole
<1>7. PICK y : y = NoProbe
  OBVIOUS
<1>8. y = [at |-> "unsent", heard |-> [st \in Stores |-> "waiting"], met |-> {},
           here |-> TRUE, status |-> 0]
  BY <1>7 DEF NoProbe
<1>9. y \in ReadyChecks /\ y.at = "unsent"
  BY <1>8 DEF ReadyChecks
<1>10. ProbesWhole
  BY <1>7, <1>9 DEF Init, ProbesWhole, WholeProbe, Handling
<1>11. PhasesOK /\ ClosesLate
  BY DEF Init, PhasesOK, ClosesLate, Late
<1> QED
  BY <1>6, <1>10, <1>11 DEF IInv

LEMMA NextIInv == IInv /\ [Next]_vars => IInv'
<1> SUFFICES ASSUME IInv, [Next]_vars PROVE IInv'
  OBVIOUS
<1>1. CASE UNCHANGED vars
  BY <1>1 DEF vars, IInv, RequestsWhole, ProbesWhole, PhasesOK, ClosesLate, Drained
<1>2. CASE Next
  <2>1. RequestsWhole'
    <3>1. /\ req' \in [Requests -> Handlers]
          /\ \A r \in Requests : req'[r] = req[r] \/ RequestStep(r, req'[r])
      BY <1>2, RequestsStep DEF IInv
    <3>2. \A r \in Requests : WholeRequest(req'[r])
      BY <3>1 DEF IInv, RequestsWhole, RequestStep
    <3> QED
      BY <3>1, <3>2 DEF RequestsWhole
  <2>2. ProbesWhole'
    <3>1. /\ probe' \in [Probes -> ReadyChecks] /\ up' \subseteq Stores
          /\ \A p \in Probes : ProbeStep(probe[p], probe'[p])
      BY <1>2, ProbesStep DEF IInv
    <3> QED
      BY <3>1 DEF ProbesWhole, ProbeStep
  <2>3. PhasesOK'
    BY <1>2, PhasesStep DEF IInv
  <2>4. ClosesLate'
    BY <1>2, LateStep
  <2> QED
    BY <2>1, <2>2, <2>3, <2>4 DEF IInv
<1> QED
  BY <1>1, <1>2

\* Handlers, probes and shutdowns keep their bookkeeping, whatever calls return
\* or throw, stores leave and clients hang up (app.ts, health.ts, server.ts).
THEOREM Invariance == Spec => []IInv
BY InitIInv, NextIInv, PTL DEF Spec

\* Every variable keeps its type, and a request has a status exactly when its
\* handler is over (problem.ts, the replies of the routes).
THEOREM TypeCorrect == Spec => []TypeOK
<1>1. IInv => TypeOK
  BY DEF IInv, RequestsWhole, WholeRequest, ProbesWhole, PhasesOK, TypeOK
<1> QED
  BY <1>1, Invariance, PTL

\* No client waits for an answer while something its handler needs is closed or
\* the process ends, for any number of signals (server.ts, composition.ts).
THEOREM ShutdownCorrect == Spec => []NobodyWaitsOnAClosedClient
<1>1. IInv => NobodyWaitsOnAClosedClient
  BY DEF IInv, ClosesLate, Drained, NobodyWaitsOnAClosedClient, Running
<1> QED
  BY <1>1, Invariance, PTL

\* What a status tells of the writes behind it is so, for every route of the
\* table, whichever call of its handler failed (the routes, problem.ts).
THEOREM AnswersCorrect == Spec => AnswersTellTheEffect
<1> DEFINE Told == \A r \in Requests :
             Handling(req[r]) /\ ~ Handling(req'[r]) =>
                 LET status == req'[r].status
                     did == req'[r].did IN
                 /\ status \in Successes => did = CallsOf(req[r].calls) \cap Writes
                 /\ status \in 400..499 => did = {}
                 /\ "enqueue" \in did => "create" \in did
                 /\ ~ req[r].traced => did = {}
<1>1. IInv /\ [Next]_vars => [Told]_vars
  <2> SUFFICES ASSUME IInv, Next, NEW r \in Requests,
                      Handling(req[r]), ~ Handling(req'[r])
               PROVE  Tells(req[r], req'[r].status, req'[r].did)
    BY DEF Tells
  <2>1. RequestStep(r, req'[r])
    BY RequestsStep DEF IInv
  <2> QED
    BY <2>1 DEF RequestStep
<1> QED
  BY <1>1, Invariance, PTL DEF Spec, AnswersTellTheEffect

\* A probe says ready only if each store was there at some time since it was
\* asked, and unavailable only after a failed check (health.ts).
THEOREM ReadinessCorrect == Spec => ReadyMeansReachable
<1> DEFINE Told == \A p \in Probes :
             Handling(probe[p]) /\ ~ Handling(probe'[p]) =>
                 /\ probe'[p].status = 200 => probe[p].met = Stores
                 /\ probe'[p].status = 503 =>
                       \E st \in Stores : probe[p].heard[st] = "failed"
<1>1. IInv /\ [Next]_vars => [Told]_vars
  <2> SUFFICES ASSUME IInv, Next, NEW p \in Probes
               PROVE  ProbeStep(probe[p], probe'[p])
    BY DEF ProbeStep
  <2> QED
    BY ProbesStep DEF IInv
<1> QED
  BY <1>1, Invariance, PTL DEF Spec, ReadyMeansReachable

----------------------------------------------------------------------------
(* The safety half of OnlyRedisKeepsClientsWaiting and of                  *)
(* OnlyHangingClientsHoldShutdown: what is under way only shrinks, and     *)
(* each step that fairness grants shrinks it.                              *)

\* The calls a handler still makes, and its answer.
CallsLeft(x) == IF Handling(x) THEN Len(x.calls) + 2 - x.next ELSE 0

Silent(x, st) == IF x.heard[st] = "waiting" THEN 1 ELSE 0

\* The pings a probe has not heard of, and its answer.
PingsLeft(x) ==
    IF Handling(x) THEN 1 + Silent(x, "postgres") + Silent(x, "redis") ELSE 0

Stage(at) ==
    CASE at = "draining"         -> 1
      [] at = "closing queue"    -> 2
      [] at = "closing database" -> 3
      [] at = "closed"           -> 4
      [] OTHER                   -> 0

HandlersMoveOn ==
    [][\A r \in Requests :
          /\ Handling(req[r]) => CallsLeft(req'[r]) <= CallsLeft(req[r])
          /\ Handles(r) => CallsLeft(req'[r]) < CallsLeft(req[r])]_vars

ProbesMoveOn ==
    [][\A p \in Probes :
          /\ Handling(probe[p]) => PingsLeft(probe'[p]) <= PingsLeft(probe[p])
          /\ ProbeReplies(p) \/ (\E st \in Stores : Pings(p, st))
                => PingsLeft(probe'[p]) < PingsLeft(probe[p])]_vars

\* A server that was signalled never takes a request again, and a process that
\* ended does nothing.
ShutdownMovesOn ==
    [][/\ \A s \in Signals :
             /\ Stage(phase[s]) <= Stage(phase'[s])
             /\ Closes(s) => Stage(phase[s]) < Stage(phase'[s]) \/ exit' # "running"
       /\ ~ Listening =>
             /\ ~ Listening'
             /\ \A r \in Requests : Handling(req'[r]) => Handling(req[r])
             /\ \A p \in Probes : Handling(probe'[p]) => Handling(probe[p])
       /\ ~ Running => UNCHANGED <<req, phase, closed, exit>>]_vars

\* A handler has at least its answer to give.
LEMMA CallsLeftType ==
    ASSUME NEW x \in Handlers, WholeRequest(x)
    PROVE  /\ CallsLeft(x) \in Nat /\ x.next \in Nat /\ Len(x.calls) \in Nat
           /\ Handling(x) => CallsLeft(x) >= 1
<1>1. Len(x.calls) \in Nat
  BY RoutesWellOrdered DEF Handlers, WellOrdered
<1> QED
  BY <1>1 DEF CallsLeft, WholeRequest

\* Every step of a handler brings it nearer to its answer, and is its own.
LEMMA HandlesAdvances ==
    ASSUME RequestsWhole, NEW r \in Requests, Handles(r)
    PROVE  /\ CallsLeft(req'[r]) < CallsLeft(req[r])
           /\ \A q \in Requests \ {r} : req'[q] = req[q]
<1>1. /\ req \in [Requests -> Handlers] /\ Handling(req[r])
      /\ WholeRequest(req[r])
  BY DEF RequestsWhole, Handles, Returns, Refuses, Throws, Replies, Awaits, Handler
<1>2. CASE Returns(r)
  <2>1. PICK x : x = req[r]
    OBVIOUS
  <2>2. PICK y : y = [x EXCEPT !.next = x.next + 1, !.did = x.did \cup Effect(r)]
    OBVIOUS
  <2>3. req' = [req EXCEPT ![r] = y]
    BY <1>2, <2>1, <2>2 DEF Returns
  <2>4. x \in Handlers
    BY <1>1, <2>1
  <2>5. y.at = x.at /\ y.calls = x.calls /\ y.next = x.next + 1
    BY <2>2, <2>4 DEF Handlers
  <2>6. x.next \in Nat /\ Len(x.calls) \in Nat
    BY <1>1, <2>1, CallsLeftType
  <2>7. CallsLeft(y) < CallsLeft(x)
    BY <1>1, <2>1, <2>5, <2>6 DEF CallsLeft, Handling
  <2> QED
    BY <1>1, <2>1, <2>3, <2>7
<1>3. CASE Refuses(r) \/ Throws(r) \/ Replies(r)
  <2>1. PICK status, did : Answer(r, status, did)
    BY <1>3 DEF Refuses, Throws, Replies
  <2>2. PICK y : y = Answered(status, did)
    OBVIOUS
  <2>3. req' = [req EXCEPT ![r] = y]
    BY <2>1, <2>2 DEF Answer
  <2>4. y.at = "answered"
    BY <2>2 DEF Answered, Unsent
  <2>5. CallsLeft(y) = 0
    BY <2>4 DEF CallsLeft, Handling
  <2>6. CallsLeft(req[r]) >= 1 /\ CallsLeft(req[r]) \in Nat
    BY <1>1, CallsLeftType
  <2> QED
    BY <1>1, <2>3, <2>5, <2>6
<1> QED
  BY <1>2, <1>3 DEF Handles

\* The other steps leave a handler where it is.
LEMMA OthersLeaveHandlers ==
    ASSUME RequestsWhole, Next, NEW r \in Requests
    PROVE  /\ Handling(req[r]) => CallsLeft(req'[r]) <= CallsLeft(req[r])
           /\ Handling(req'[r]) => Handling(req[r]) \/ Listening
<1>0. /\ req \in [Requests -> Handlers]
      /\ CallsLeft(req[r]) \in Nat /\ CallsLeft(req'[r]) \in Nat
  <2>1. req' \in [Requests -> Handlers] /\ WholeRequest(req'[r])
    BY RequestsStep DEF RequestsWhole, RequestStep
  <2> QED
    BY <2>1, CallsLeftType DEF RequestsWhole
<1>1. CASE req'[r] = req[r]
  BY <1>0, <1>1
<1>2. ASSUME NEW q \in Requests, Handles(q)
      PROVE  /\ Handling(req[r]) => CallsLeft(req'[r]) <= CallsLeft(req[r])
             /\ Handling(req'[r]) => Handling(req[r]) \/ Listening
  <2>1. CASE q = r
    <3>1. Handling(req[r])
      BY <1>2, <2>1
         DEF Handles, Returns, Refuses, Throws, Replies, Awaits, Handler
    <3>2. CallsLeft(req'[r]) < CallsLeft(req[r])
      BY <1>2, <2>1, HandlesAdvances
    <3> QED
      BY <1>0, <3>1, <3>2
  <2>2. CASE q # r
    BY <1>1, <1>2, <2>2, HandlesAdvances
  <2> QED
    BY <2>1, <2>2
<1>3. ASSUME NEW q \in Requests, NEW route \in Routes, NEW valid \in BOOLEAN,
             NEW traced \in BOOLEAN, NEW role \in Everyone,
             Receive(q, route, valid, role, traced)
      PROVE  /\ Handling(req[r]) => CallsLeft(req'[r]) <= CallsLeft(req[r])
             /\ Handling(req'[r]) => Handling(req[r]) \/ Listening
  <2>1. ~ Handling(req[q]) /\ Listening
    BY <1>3 DEF Receive
  <2>2. q # r => req'[r] = req[r]
    BY <1>0, <1>3 DEF Receive
  <2> QED
    BY <1>1, <2>1, <2>2
<1>4. ASSUME NEW q \in Requests, RequestClientLeaves(q)
      PROVE  /\ Handling(req[r]) => CallsLeft(req'[r]) <= CallsLeft(req[r])
             /\ Handling(req'[r]) => Handling(req[r]) \/ Listening
  <2>1. PICK y : y = [req[q] EXCEPT !.here = FALSE]
    OBVIOUS
  <2>2. req' = [req EXCEPT ![q] = y]
    BY <1>4, <2>1 DEF RequestClientLeaves
  <2>3. req[q] \in Handlers
    BY <1>0
  <2>4. y.at = req[q].at /\ y.calls = req[q].calls /\ y.next = req[q].next
    BY <2>1, <2>3 DEF Handlers
  <2>5. CallsLeft(y) = CallsLeft(req[q]) /\ (Handling(y) <=> Handling(req[q]))
    BY <2>4 DEF CallsLeft, Handling
  <2> QED
    BY <1>0, <2>2, <2>5
<1>5. CASE UNCHANGED req
  BY <1>1, <1>5
<1>6. CASE \E st \in Stores : StoreFails(st) \/ StoreRecovers(st)
  BY <1>5, <1>6 DEF StoreFails, StoreRecovers
<1>7. CASE \E p \in Probes :
              \/ ProbeArrives(p) \/ ProbeReplies(p) \/ ProbeClientLeaves(p)
              \/ \E st \in Stores : Pings(p, st)
  BY <1>5, <1>7 DEF ProbeArrives, ProbeReplies, ProbeClientLeaves, Pings,
                    PingSucceeds, PingFails, Hears
<1>8. CASE \E s \in Signals : Signalled(s) \/ Closes(s)
  BY <1>5, <1>8 DEF Signalled, Closes, AppCloses, QueueCloses, DatabaseCloses,
                    Exits, CloseFails, Moves
<1> QED
  BY <1>2, <1>3, <1>4, <1>6, <1>7, <1>8 DEF Next

\* No step sets a handler back, neither another request's nor a shutdown's, and
\* every step of its own makes one of finitely many calls or answers.
THEOREM HandlersCorrect == Spec => HandlersMoveOn
<1> DEFINE Onward == \A r \in Requests :
             /\ Handling(req[r]) => CallsLeft(req'[r]) <= CallsLeft(req[r])
             /\ Handles(r) => CallsLeft(req'[r]) < CallsLeft(req[r])
<1>1. IInv /\ [Next]_vars => [Onward]_vars
  BY HandlesAdvances, OthersLeaveHandlers DEF IInv
<1> QED
  BY <1>1, Invariance, PTL DEF Spec, HandlersMoveOn

\* The measure of a probe is a number.
LEMMA PingsLeftType == ASSUME NEW x PROVE PingsLeft(x) \in Nat
  BY DEF PingsLeft, Silent

\* A check that is heard of, and the answer of the probe, are progress.
LEMMA ProbeAdvances ==
    ASSUME ProbesWhole, NEW p \in Probes,
           ProbeReplies(p) \/ (\E st \in Stores : Pings(p, st))
    PROVE  /\ PingsLeft(probe'[p]) < PingsLeft(probe[p])
           /\ \A q \in Probes \ {p} : probe'[q] = probe[q]
<1>1. probe \in [Probes -> ReadyChecks]
  BY DEF ProbesWhole
<1>2. CASE \E st \in Stores : Pings(p, st)
  <2>1. PICK st \in Stores, answer \in {"ok", "failed"} : Hears(p, st, answer)
    BY <1>2 DEF Pings, PingSucceeds, PingFails
  <2>2. PICK x : x = probe[p]
    OBVIOUS
  <2>3. PICK y : y = [x EXCEPT !.heard = [x.heard EXCEPT ![st] = answer]]
    OBVIOUS
  <2>4. /\ probe' = [probe EXCEPT ![p] = y] /\ Handling(x)
        /\ x.heard[st] = "waiting"
    BY <2>1, <2>2, <2>3 DEF Hears
  <2>5. /\ y.at = x.at /\ y.heard = [x.heard EXCEPT ![st] = answer]
        /\ x.heard \in [Stores -> {"waiting", "ok", "failed"}]
    BY <1>1, <2>2, <2>3 DEF ReadyChecks
  <2>6. \A su \in Stores : y.heard[su] = IF su = st THEN answer ELSE x.heard[su]
    BY <2>5
  <2>7. "postgres" \in Stores /\ "redis" \in Stores
    BY DEF Stores
  <2>8. CASE st = "postgres"
    <3>1. /\ Silent(x, "postgres") = 1 /\ Silent(y, "postgres") = 0
          /\ Silent(y, "redis") = Silent(x, "redis")
      BY <2>4, <2>6, <2>7, <2>8 DEF Silent
    <3>2. Silent(x, "redis") \in Nat
      BY DEF Silent
    <3>3. PingsLeft(y) < PingsLeft(x)
      BY <2>4, <2>5, <3>1, <3>2 DEF PingsLeft, Handling
    <3> QED
      BY <1>1, <2>2, <2>4, <3>3
  <2>9. CASE st = "redis"
    <3>1. /\ Silent(x, "redis") = 1 /\ Silent(y, "redis") = 0
          /\ Silent(y, "postgres") = Silent(x, "postgres")
      BY <2>4, <2>6, <2>7, <2>9 DEF Silent
    <3>2. Silent(x, "postgres") \in Nat
      BY DEF Silent
    <3>3. PingsLeft(y) < PingsLeft(x)
      BY <2>4, <2>5, <3>1, <3>2 DEF PingsLeft, Handling
    <3> QED
      BY <1>1, <2>2, <2>4, <3>3
  <2> QED
    BY <2>8, <2>9 DEF Stores
<1>3. CASE ProbeReplies(p)
  <2>1. PICK status : status = IF EveryOk(probe[p].heard) THEN 200 ELSE 503
    OBVIOUS
  <2>2. PICK y : y = [NoProbe EXCEPT !.at = "answered", !.status = status]
    OBVIOUS
  <2>3. probe' = [probe EXCEPT ![p] = y] /\ Handling(probe[p])
    BY <1>3, <2>1, <2>2 DEF ProbeReplies
  <2>4. y.at = "answered"
    BY <2>2 DEF NoProbe
  <2>5. PingsLeft(y) = 0
    BY <2>4 DEF PingsLeft, Handling
  <2>6. PingsLeft(probe[p]) > 0
    BY <2>3 DEF PingsLeft, Silent
  <2> QED
    BY <1>1, <2>3, <2>5, <2>6
<1> QED
  BY <1>2, <1>3

\* The other steps leave a probe where it is, a store that comes back included.
LEMMA OthersLeaveProbes ==
    ASSUME ProbesWhole, Next, NEW p \in Probes
    PROVE  /\ Handling(probe[p]) => PingsLeft(probe'[p]) <= PingsLeft(probe[p])
           /\ Handling(probe'[p]) => Handling(probe[p]) \/ Listening
<1>0. /\ probe \in [Probes -> ReadyChecks]
      /\ PingsLeft(probe[p]) \in Nat /\ PingsLeft(probe'[p]) \in Nat
  BY PingsLeftType DEF ProbesWhole
<1> DEFINE Left == /\ Handling(probe[p]) => PingsLeft(probe'[p]) <= PingsLeft(probe[p])
                   /\ Handling(probe'[p]) => Handling(probe[p]) \/ Listening
<1>1. ASSUME /\ probe'[p].at = probe[p].at /\ probe'[p].heard = probe[p].heard
      PROVE  Left
  <2>1. PingsLeft(probe'[p]) = PingsLeft(probe[p])
    BY <1>1 DEF PingsLeft, Silent, Handling
  <2> QED
    BY <1>0, <1>1, <2>1 DEF Handling
<1>2. CASE probe'[p] = probe[p]
  BY <1>1, <1>2
<1>3. ASSUME NEW q \in Probes, ProbeReplies(q) \/ (\E st \in Stores : Pings(q, st))
      PROVE  Left
  <2>1. CASE q = p
    <3>1. PingsLeft(probe'[p]) < PingsLeft(probe[p])
      BY <1>3, <2>1, ProbeAdvances
    <3>2. Handling(probe[p])
      BY <1>3, <2>1 DEF ProbeReplies, Pings, PingSucceeds, PingFails, Hears
    <3> QED
      BY <1>0, <3>1, <3>2
  <2>2. CASE q # p
    BY <1>2, <1>3, <2>2, ProbeAdvances
  <2> QED
    BY <2>1, <2>2
<1>4. ASSUME NEW q \in Probes, ProbeArrives(q) PROVE Left
  <2>1. ~ Handling(probe[q]) /\ Listening /\ (q # p => probe'[p] = probe[p])
    BY <1>0, <1>4 DEF ProbeArrives
  <2> QED
    BY <1>2, <2>1
<1>5. ASSUME NEW q \in Probes, ProbeClientLeaves(q) PROVE Left
  <2>1. PICK y : y = [probe[q] EXCEPT !.here = FALSE]
    OBVIOUS
  <2>2. probe' = [probe EXCEPT ![q] = y]
    BY <1>0, <1>5, <2>1 DEF ProbeClientLeaves
  <2>3. y.at = probe[q].at /\ y.heard = probe[q].heard
    BY <1>0, <2>1 DEF ReadyChecks
  <2> QED
    BY <1>0, <1>1, <1>2, <2>2, <2>3
<1>6. ASSUME NEW st \in Stores, StoreRecovers(st) PROVE Left
  <2>1. CASE Handling(probe[p])
    <3>1. PICK y : y = [probe[p] EXCEPT !.met = @ \cup {st}]
      OBVIOUS
    <3>2. probe'[p] = y
      BY <1>0, <1>6, <2>1, <3>1 DEF StoreRecovers
    <3>3. y.at = probe[p].at /\ y.heard = probe[p].heard
      BY <1>0, <3>1 DEF ReadyChecks
    <3> QED
      BY <1>1, <3>2, <3>3
  <2>2. CASE ~ Handling(probe[p])
    BY <1>0, <1>2, <1>6, <2>2 DEF StoreRecovers
  <2> QED
    BY <2>1, <2>2
<1>7. CASE UNCHANGED probe
  BY <1>2, <1>7
<1>8. CASE \E st \in Stores : StoreFails(st)
  BY <1>7, <1>8 DEF StoreFails
<1>9. CASE \E r \in Requests :
              \/ \E route \in Routes, valid, traced \in BOOLEAN, role \in Everyone :
                    Receive(r, route, valid, role, traced)
              \/ Handles(r) \/ RequestClientLeaves(r)
  BY <1>7, <1>9 DEF Receive, Handles, Returns, Refuses, Throws, Replies,
                    RequestClientLeaves, Awaits, Handler
<1>10. CASE \E s \in Signals : Signalled(s) \/ Closes(s)
  BY <1>7, <1>10 DEF Signalled, Closes, AppCloses, QueueCloses, DatabaseCloses,
                     Exits, CloseFails, Moves
<1> QED
  BY <1>3, <1>4, <1>5, <1>6, <1>8, <1>9, <1>10 DEF Next

\* A probe hears of each store once and then answers; a store that leaves or
\* comes back does not make it start again.
THEOREM ProbesCorrect == Spec => ProbesMoveOn
<1> DEFINE Onward == \A p \in Probes :
             /\ Handling(probe[p]) => PingsLeft(probe'[p]) <= PingsLeft(probe[p])
             /\ ProbeReplies(p) \/ (\E st \in Stores : Pings(p, st))
                   => PingsLeft(probe'[p]) < PingsLeft(probe[p])
<1>1. IInv /\ [Next]_vars => [Onward]_vars
  BY ProbeAdvances, OthersLeaveProbes DEF IInv
<1> QED
  BY <1>1, Invariance, PTL DEF Spec, ProbesMoveOn

\* The stages in order.
LEMMA StageValues ==
    /\ Stage("none") = 0 /\ Stage("draining") = 1 /\ Stage("closing queue") = 2
    /\ Stage("closing database") = 3 /\ Stage("closed") = 4
  BY DEF Stage

\* What one step of one shutdown does to every phase and to the end.
LEMMA PhaseAdvances ==
    ASSUME PhasesOK, Next
    PROVE  /\ \A s \in Signals :
                 /\ Stage(phase[s]) <= Stage(phase'[s])
                 /\ Closes(s) => \/ Stage(phase[s]) < Stage(phase'[s])
                                  \/ exit' # "running"
           /\ ~ Running => UNCHANGED <<req, phase, closed, exit>>
<1>0. \A at : Stage(at) \in 0..4
  BY DEF Stage
<1>1. ASSUME NEW t \in Signals, Signalled(t) \/ Closes(t)
      PROVE  /\ Stage(phase[t]) < Stage(phase'[t]) \/ exit' # "running"
             /\ \A s \in Signals : Stage(phase[s]) <= Stage(phase'[s])
             /\ Running
  <2>1. PICK from, to : Moves(t, from, to) \/ Signalled(t)
    BY <1>1 DEF Closes, AppCloses, QueueCloses, DatabaseCloses, Exits, CloseFails
  <2>2. \A s \in Signals : s # t => phase'[s] = phase[s]
    BY <2>1 DEF Moves, Signalled, PhasesOK
  <2>3. Running
    BY <2>1 DEF Moves, Signalled
  <2> DEFINE Rises == /\ \/ Stage(phase[t]) < Stage(phase'[t])
                         \/ exit' # "running"
                      /\ Stage(phase[t]) <= Stage(phase'[t])
  <2>4. ASSUME Signalled(t) PROVE Rises
    <3>1. phase[t] = "none" /\ phase'[t] = "draining"
      BY <2>4 DEF Signalled, PhasesOK
    <3>2. Stage(phase[t]) = 0 /\ Stage(phase'[t]) = 1
      BY <3>1, StageValues
    <3> QED
      BY <3>2
  <2>5. ASSUME AppCloses(t) PROVE Rises
    <3>1. phase[t] = "draining" /\ phase'[t] = "closing queue"
      BY <2>5 DEF AppCloses, Moves, PhasesOK
    <3>2. Stage(phase[t]) = 1 /\ Stage(phase'[t]) = 2
      BY <3>1, StageValues
    <3> QED
      BY <3>2
  <2>6. ASSUME QueueCloses(t) PROVE Rises
    <3>1. phase[t] = "closing queue" /\ phase'[t] = "closing database"
      BY <2>6 DEF QueueCloses, Moves, PhasesOK
    <3>2. Stage(phase[t]) = 2 /\ Stage(phase'[t]) = 3
      BY <3>1, StageValues
    <3> QED
      BY <3>2
  <2>7. ASSUME DatabaseCloses(t) PROVE Rises
    <3>1. phase[t] = "closing database" /\ phase'[t] = "closed"
      BY <2>7 DEF DatabaseCloses, Moves, PhasesOK
    <3>2. Stage(phase[t]) = 3 /\ Stage(phase'[t]) = 4
      BY <3>1, StageValues
    <3> QED
      BY <3>2
  <2>8. ASSUME Exits(t) PROVE Rises
    <3>1. phase'[t] = phase[t] /\ exit' = "0"
      BY <2>8 DEF Exits, Moves, PhasesOK
    <3> QED
      BY <1>0, <3>1
  <2>9. ASSUME CloseFails(t) PROVE Rises
    <3>1. phase[t] \in {"closing queue", "closing database"} /\ phase'[t] = "closed"
      BY <2>9 DEF CloseFails, Moves, PhasesOK
    <3>2. Stage(phase[t]) \in {2, 3} /\ Stage(phase'[t]) = 4
      BY <3>1, StageValues
    <3> QED
      BY <3>2
  <2>10. Rises
    BY <1>1, <2>4, <2>5, <2>6, <2>7, <2>8, <2>9 DEF Closes
  <2> QED
    BY <1>0, <2>2, <2>3, <2>10
<1>2. CASE \E t \in Signals : Signalled(t) \/ Closes(t)
  BY <1>1, <1>2
<1>3. CASE ~ \E t \in Signals : Signalled(t) \/ Closes(t)
  <2>1. UNCHANGED <<phase, closed, exit>> /\ (~ Running => UNCHANGED req)
    BY <1>3 DEF Next, StoreFails, StoreRecovers, Receive, Listening, Handles, Returns,
                Refuses, Throws, Replies, RequestClientLeaves, Awaits, Handler,
                ProbeArrives, ProbeReplies, ProbeClientLeaves, Pings,
                PingSucceeds, PingFails, Hears
  <2> QED
    BY <1>0, <1>3, <2>1
<1> QED
  BY <1>2, <1>3

\* A server that was signalled, or a process that ended, never listens again.
LEMMA ListeningEnds ==
    ASSUME PhasesOK, Next, ~ Listening
    PROVE  ~ Listening'
<1>1. CASE ~ Running
  BY <1>1, PhaseAdvances DEF Running, Listening
<1>2. CASE \E s \in Signals : phase[s] # "none"
  <2>1. PICK s \in Signals : phase[s] # "none"
    BY <1>2
  <2>2. phase[s] \in {"draining", "closing queue", "closing database", "closed"}
    BY <2>1 DEF PhasesOK
  <2>3. Stage(phase[s]) \in {1, 2, 3, 4}
    BY <2>2, StageValues
  <2>4. Stage(phase[s]) <= Stage(phase'[s])
    BY PhaseAdvances
  <2>5. ASSUME phase'[s] = "none"
        PROVE  FALSE
    <3>1. Stage(phase'[s]) = 0
      BY <2>5, StageValues
    <3> QED
      BY <2>3, <2>4, <3>1
  <2> QED
    BY <2>5 DEF Listening
<1> QED
  BY <1>1, <1>2 DEF Listening

\* A shutdown takes four steps at most, each of which brings it further or
\* ends the process, whatever a second signal does beside it; meanwhile nothing
\* new is handled, so what it waits for runs out.
THEOREM ShutdownAdvances == Spec => ShutdownMovesOn
<1> DEFINE Onward ==
      /\ \A s \in Signals :
            /\ Stage(phase[s]) <= Stage(phase'[s])
            /\ Closes(s) => Stage(phase[s]) < Stage(phase'[s]) \/ exit' # "running"
      /\ ~ Listening =>
            /\ ~ Listening'
            /\ \A r \in Requests : Handling(req'[r]) => Handling(req[r])
            /\ \A p \in Probes : Handling(probe'[p]) => Handling(probe[p])
      /\ ~ Running => UNCHANGED <<req, phase, closed, exit>>
<1>1. IInv /\ [Next]_vars => [Onward]_vars
  <2> SUFFICES ASSUME IInv, Next PROVE Onward
    OBVIOUS
  <2>1. RequestsWhole /\ ProbesWhole /\ PhasesOK
    BY DEF IInv
  <2> QED
    BY <2>1, PhaseAdvances, ListeningEnds, OthersLeaveHandlers, OthersLeaveProbes
<1> QED
  BY <1>1, Invariance, PTL DEF Spec, ShutdownMovesOn

----------------------------------------------------------------------------
(* A Redis that stays away, for any number of clients and signals.         *)

\* Whoever hangs on Redis hangs on until Redis is back or the client leaves, and
\* while somebody hangs no shutdown closes a client or ends the process.
HangingLasts ==
    [][/\ "redis" \notin up' =>
             /\ \A r \in Requests :
                   Waiting(req[r]) /\ HangsOnRedis(r) => HangsOnRedis(r)'
             /\ \A p \in Probes :
                   Waiting(probe[p]) /\ ProbeHangsOnRedis(p) => ProbeHangsOnRedis(p)'
       /\ SomebodyHangs => closed' = {} /\ exit' = "running"]_vars

\* A start that waits to queue its job cannot return, refuse, throw or reply.
LEMMA StartHangs ==
    ASSUME IInv, Next, "redis" \notin up', NEW r \in Requests,
           Waiting(req[r]), HangsOnRedis(r)
    PROVE  HangsOnRedis(r)'
<1> DEFINE x == req[r]
<1>1. /\ req \in [Requests -> Handlers] /\ Handling(x) /\ closed = {}
      /\ Call(r) = "enqueue" /\ "redis" \notin up
  BY DEF IInv, RequestsWhole, ClosesLate, Drained, HangsOnRedis
<1>2. x.next \in Nat /\ Len(x.calls) \in Nat /\ x.next <= Len(x.calls)
  BY <1>1, RoutesWellOrdered DEF Handlers, WellOrdered, HangsOnRedis
<1>3. ~ Handles(r)
  BY <1>1, <1>2 DEF Handles, Returns, Refuses, Throws, Replies, Reachable
<1>4. CASE req'[r] = req[r]
  BY <1>1, <1>4 DEF HangsOnRedis, Call
<1>5. CASE RequestClientLeaves(r)
  <2>1. req'[r] = [x EXCEPT !.here = FALSE]
    BY <1>1, <1>5 DEF RequestClientLeaves
  <2>2. req'[r].at = x.at /\ req'[r].next = x.next /\ req'[r].calls = x.calls
    BY <1>1, <2>1 DEF Handlers
  <2> QED
    BY <1>1, <2>2 DEF HangsOnRedis, Call, Handling
<1>6. ASSUME NEW q \in Requests \ {r}, Handles(q) PROVE req'[r] = req[r]
  BY <1>6, HandlesAdvances DEF IInv
<1>7. ASSUME NEW q \in Requests \ {r}, RequestClientLeaves(q) PROVE req'[r] = req[r]
  BY <1>1, <1>7 DEF RequestClientLeaves
<1>8. ASSUME NEW q \in Requests, NEW route \in Routes, NEW valid \in BOOLEAN,
             NEW traced \in BOOLEAN, NEW role \in Everyone,
             Receive(q, route, valid, role, traced)
      PROVE  req'[r] = req[r]
  BY <1>1, <1>8 DEF Receive
<1>9. CASE \E q \in Requests :
              \/ \E route \in Routes, valid, traced \in BOOLEAN, role \in Everyone :
                    Receive(q, route, valid, role, traced)
              \/ Handles(q) \/ RequestClientLeaves(q)
  BY <1>3, <1>4, <1>5, <1>6, <1>7, <1>8, <1>9
<1>10. CASE UNCHANGED req
  BY <1>4, <1>10
<1>11. ASSUME NEW s \in Signals, Signalled(s) \/ Closes(s) PROVE UNCHANGED req
  BY <1>11 DEF Signalled, Closes, AppCloses, QueueCloses, DatabaseCloses, Exits,
               CloseFails, Moves
<1>12. ASSUME NEW p \in Probes,
              \/ ProbeArrives(p) \/ ProbeReplies(p) \/ ProbeClientLeaves(p)
              \/ \E st \in Stores : Pings(p, st)
       PROVE  UNCHANGED req
  BY <1>12 DEF ProbeArrives, ProbeReplies, ProbeClientLeaves, Pings, PingSucceeds,
               PingFails, Hears
<1>13. ASSUME NEW st \in Stores, StoreFails(st) \/ StoreRecovers(st)
       PROVE  UNCHANGED req
  BY <1>13 DEF StoreFails, StoreRecovers
<1> QED
  BY <1>9, <1>10, <1>11, <1>12, <1>13 DEF Next

\* A probe that waits for Redis hears nothing and so does not reply.
LEMMA ProbeHangs ==
    ASSUME IInv, Next, "redis" \notin up', NEW p \in Probes,
           Waiting(probe[p]), ProbeHangsOnRedis(p)
    PROVE  ProbeHangsOnRedis(p)'
<1> DEFINE x == probe[p]
<1>1. /\ probe \in [Probes -> ReadyChecks] /\ Handling(x)
      /\ x.heard["redis"] = "waiting" /\ "redis" \in Stores /\ "redis" \notin up
  BY DEF IInv, ProbesWhole, ProbeHangsOnRedis, Stores
<1>2. CASE probe'[p] = probe[p]
  BY <1>1, <1>2 DEF ProbeHangsOnRedis
<1>3. ~ ProbeArrives(p) /\ ~ ProbeReplies(p) /\ ~ Pings(p, "redis")
  BY <1>1 DEF ProbeArrives, ProbeReplies, Pings, PingSucceeds, PingFails
<1>4. CASE ProbeClientLeaves(p)
  <2>1. probe'[p] = [x EXCEPT !.here = FALSE]
    BY <1>1, <1>4 DEF ProbeClientLeaves
  <2>2. probe'[p].at = x.at /\ probe'[p].heard = x.heard
    BY <1>1, <2>1 DEF ReadyChecks
  <2> QED
    BY <1>1, <2>2 DEF ProbeHangsOnRedis, Handling
<1>5. ASSUME NEW st \in Stores \ {"redis"}, Pings(p, st) PROVE ProbeHangsOnRedis(p)'
  <2>1. PICK answer : Hears(p, st, answer)
    BY <1>5 DEF Pings, PingSucceeds, PingFails
  <2>2. probe'[p] = [x EXCEPT !.heard = [x.heard EXCEPT ![st] = answer]]
    BY <1>1, <2>1 DEF Hears
  <2>3. probe'[p].at = x.at /\ probe'[p].heard = [x.heard EXCEPT ![st] = answer]
    BY <1>1, <2>2 DEF ReadyChecks
  <2>4. x.heard \in [Stores -> {"waiting", "ok", "failed"}]
    BY <1>1 DEF ReadyChecks
  <2>5. probe'[p].heard["redis"] = "waiting"
    BY <1>1, <2>3, <2>4
  <2> QED
    BY <1>1, <2>3, <2>5 DEF ProbeHangsOnRedis, Handling
<1>6. ASSUME NEW q \in Probes \ {p},
             \/ ProbeArrives(q) \/ ProbeReplies(q) \/ ProbeClientLeaves(q)
             \/ \E st \in Stores : Pings(q, st)
      PROVE  probe'[p] = probe[p]
  BY <1>1, <1>6 DEF ProbeArrives, ProbeReplies, ProbeClientLeaves, Pings,
                    PingSucceeds, PingFails, Hears
<1>7. CASE \E q \in Probes :
              \/ ProbeArrives(q) \/ ProbeReplies(q) \/ ProbeClientLeaves(q)
              \/ \E st \in Stores : Pings(q, st)
  BY <1>2, <1>3, <1>4, <1>5, <1>6, <1>7
<1>8. ASSUME NEW st \in Stores, StoreRecovers(st) PROVE ProbeHangsOnRedis(p)'
  <2>1. probe'[p] = [x EXCEPT !.met = @ \cup {st}]
    BY <1>1, <1>8 DEF StoreRecovers
  <2>2. probe'[p].at = x.at /\ probe'[p].heard = x.heard
    BY <1>1, <2>1 DEF ReadyChecks
  <2> QED
    BY <1>1, <2>2 DEF ProbeHangsOnRedis, Handling
<1>9. CASE UNCHANGED probe
  BY <1>2, <1>9
<1>10. ASSUME NEW st \in Stores, StoreFails(st) PROVE UNCHANGED probe
  BY <1>10 DEF StoreFails
<1>11. ASSUME NEW r \in Requests,
              \/ \E route \in Routes, valid, traced \in BOOLEAN, role \in Everyone :
                    Receive(r, route, valid, role, traced)
              \/ Handles(r) \/ RequestClientLeaves(r)
       PROVE  UNCHANGED probe
  BY <1>11 DEF Receive, Handles, Returns, Refuses, Throws, Replies,
               RequestClientLeaves, Awaits, Handler
<1>12. ASSUME NEW s \in Signals, Signalled(s) \/ Closes(s) PROVE UNCHANGED probe
  BY <1>12 DEF Signalled, Closes, AppCloses, QueueCloses, DatabaseCloses, Exits,
               CloseFails, Moves
<1> QED
  BY <1>7, <1>8, <1>9, <1>10, <1>11, <1>12 DEF Next

\* Somebody who hangs is not drained, so every shutdown stays before its closes.
LEMMA HangingHoldsShutdown ==
    ASSUME IInv, Next, SomebodyHangs
    PROVE  closed' = {} /\ exit' = "running"
<1>1. PhasesOK /\ ClosesLate /\ ClosesLate' /\ ~ Drained
  BY LateStep DEF IInv, SomebodyHangs, Drained
<1>2. \A s \in Signals : phase[s] \notin Late
  BY <1>1 DEF ClosesLate
<1>3. \A s \in Signals : phase'[s] \notin Late
  BY <1>1, <1>2, PhaseGoesOn
<1> QED
  BY <1>1, <1>3 DEF ClosesLate

\* Finding 5 for every number of clients: a client that hangs on Redis is not
\* answered before Redis is back, and the process does not end before it leaves.
THEOREM HangingIsForGood == Spec => HangingLasts
<1> DEFINE Lasts ==
      /\ "redis" \notin up' =>
             /\ \A r \in Requests :
                   Waiting(req[r]) /\ HangsOnRedis(r) => HangsOnRedis(r)'
             /\ \A p \in Probes :
                   Waiting(probe[p]) /\ ProbeHangsOnRedis(p) => ProbeHangsOnRedis(p)'
      /\ SomebodyHangs => closed' = {} /\ exit' = "running"
<1>1. IInv /\ [Next]_vars => [Lasts]_vars
  BY StartHangs, ProbeHangs, HangingHoldsShutdown
<1> QED
  BY <1>1, Invariance, PTL DEF Spec, HangingLasts
=============================================================================
