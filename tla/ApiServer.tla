----------------------------- MODULE ApiServer -----------------------------
(***************************************************************************)
(* The API process (app.ts, routes, problem.ts, health.ts, composition.ts, *)
(* server.ts): requests that await one call after another to PostgreSQL    *)
(* and Redis, the readiness probe that pings both at once, stores that go  *)
(* away and come back, and the shutdown that a signal starts.              *)
(*                                                                         *)
(* What differs between the stores: a query to a PostgreSQL that is away   *)
(* fails, a command to a Redis that is away waits until it is back         *)
(* (connection.ts, maxRetriesPerRequest null).                             *)
(*                                                                         *)
(* app.close() takes no new request and resolves when no connection waits  *)
(* for an answer.  A client that hangs up is not waited for, although its  *)
(* handler runs on.                                                        *)
(***************************************************************************)
EXTENDS HttpRoutes, Naturals

CONSTANTS Requests,   \* connections, each with one request at a time
          Probes,     \* those of GET /ready
          Signals     \* SIGTERM, SIGINT

Stores == {"postgres", "redis"}

VARIABLES
    req,       \* req[r]: the request r and its handler
    probe,     \* probe[p]: the readiness probe p and its two pings
    up,        \* the stores that answer
    phase,     \* phase[s]: how far the shutdown started by signal s has come
    closed,    \* the clients that are closed
    exit       \* how the process ended, if it did

vars == <<req, probe, up, phase, closed, exit>>

Unsent == [at |-> "unsent", calls |-> <<>>, next |-> 1, success |-> 0,
           traced |-> TRUE, here |-> TRUE, did |-> {}, status |-> 0]

\* A status that is set and not sent.
AnsweredUnsent(status, did) == [Unsent EXCEPT !.status = status, !.did = did]

\* What an answered request leaves behind.
Answered(status, did) ==
    [Unsent EXCEPT !.at = "answered", !.status = status, !.did = did]

NoProbe == [at |-> "unsent", heard |-> [st \in Stores |-> "waiting"],
            met |-> {}, here |-> TRUE, status |-> 0]

Running == exit = "running"

Handling(x) == x.at = "handling"

\* The connection of x waits for an answer.
Waiting(x) == x.at = "handling" /\ x.here

----------------------------------------------------------------------------
Init ==
    /\ req = [r \in Requests |-> Unsent]
    /\ probe = [p \in Probes |-> NoProbe]
    /\ up = Stores
    /\ phase = [s \in Signals |-> "none"]
    /\ closed = {}
    /\ exit = "running"

\* A store goes away or comes back.
StoreFails(st) ==
    /\ Running /\ st \in up
    /\ up' = up \ {st}
    /\ UNCHANGED <<req, probe, phase, closed, exit>>

StoreRecovers(st) ==
    /\ st \notin up
    /\ up' = up \cup {st}
    /\ probe' = [p \in Probes |->
                    IF Handling(probe[p])
                    THEN [probe[p] EXCEPT !.met = @ \cup {st}] ELSE probe[p]]
    /\ UNCHANGED <<req, phase, closed, exit>>

----------------------------------------------------------------------------
(* Requests.                                                               *)

Listening == Running /\ \A s \in Signals : phase[s] = "none"

\* The schemas are checked first, then authenticate, then requireRole.
Refusal(route, valid, role) ==
    IF ~ valid THEN 400
    ELSE IF role \in route.roles THEN 0
    ELSE IF role = Nobody THEN 401 ELSE 403

Logs(route) == CallsOf(route.calls) \cap Logging # {}

\* traced: the correlation id, the client's own if it sent one, is a UUID,
\* or no event will carry it.
Accepted(route, traced) ==
    [Unsent EXCEPT !.at = "handling", !.calls = route.calls,
                   !.success = route.success, !.traced = traced \/ ~ Logs(route)]

Receive(r, route, valid, role, traced) ==
    /\ Listening
    /\ ~ Handling(req[r])
    /\ LET refusal == Refusal(route, valid, role) IN
       req' = [req EXCEPT ![r] =
                  IF refusal # 0 THEN Answered(refusal, {})
                  ELSE Accepted(route, traced)]
    /\ UNCHANGED <<probe, up, phase, closed, exit>>

Handler(r) ==
    /\ Running /\ Handling(req[r])
    /\ UNCHANGED <<probe, up, phase, closed, exit>>

Awaits(r) == Handler(r) /\ req[r].next <= Len(req[r].calls)

Call(r) == req[r].calls[req[r].next]

Effect(r) == {Call(r)} \cap Writes

\* The store behind a call answers, and the client to it is open.
Reachable(call) ==
    \/ call = "assert"
    \/ call = "enqueue" /\ "redis" \in up
    \/ call \notin {"assert", "enqueue"} /\ "postgres" \in up \ closed

Answer(r, status, did) == req' = [req EXCEPT ![r] = Answered(status, did)]

\* A correlation id stored as text.
CanLogAnything(r) == TRUE

\* evaluation_events.correlation_id is a uuid column.
CanLog(r) == Call(r) \in Logging => req[r].traced

Returns(r) ==
    /\ Awaits(r) /\ Reachable(Call(r)) /\ CanLog(r)
    /\ LET x == req[r] IN
       req' = [req EXCEPT ![r] = [x EXCEPT !.next = x.next + 1,
                                           !.did = x.did \cup Effect(r)]]

Refuses(r) ==
    /\ Awaits(r) /\ Reachable(Call(r))
    /\ \/ Call(r) = "assert" /\ Answer(r, 400, req[r].did)
       \/ Call(r) = "find" /\ Answer(r, 404, req[r].did)
       \/ Call(r) \in {"findByEmail", "move"} /\ Answer(r, 409, req[r].did)

\* The call throws and nobody translates it: 500.  It may have taken effect, its
\* answer lost.  A command only waits for a Redis that is away.
Throws(r) ==
    /\ Awaits(r)
    /\ Call(r) # "assert"
    /\ Call(r) = "enqueue" => "redis" \in up \/ "queue" \in closed
    /\ \/ Answer(r, 500, req[r].did)
       \/ /\ Reachable(Call(r)) /\ CanLog(r)
          /\ Answer(r, 500, req[r].did \cup Effect(r))

Replies(r) ==
    /\ Handler(r) /\ req[r].next > Len(req[r].calls)
    /\ Answer(r, req[r].success, req[r].did)

\* The client hangs up; the handler is not told.
RequestClientLeaves(r) ==
    /\ Handler(r) /\ req[r].here
    /\ req' = [req EXCEPT ![r].here = FALSE]

----------------------------------------------------------------------------
(* GET /ready: the checks run side by side, and a failed one is caught.    *)

ProbeArrives(p) ==
    /\ Listening
    /\ ~ Handling(probe[p])
    /\ probe' = [probe EXCEPT ![p] = [NoProbe EXCEPT !.at = "handling", !.met = up]]
    /\ UNCHANGED <<req, up, phase, closed, exit>>

Hears(p, st, answer) ==
    /\ Running /\ Handling(probe[p]) /\ probe[p].heard[st] = "waiting"
    /\ LET x == probe[p] IN
       probe' = [probe EXCEPT ![p] =
                    [x EXCEPT !.heard = [x.heard EXCEPT ![st] = answer]]]
    /\ UNCHANGED <<req, up, phase, closed, exit>>

PingSucceeds(p, st) == st \in up \ closed /\ Hears(p, st, "ok")

\* A check that never gives up on a store that is away.
PingNeverFails(p, st) == st \in up \ closed /\ Hears(p, st, "failed")

PingFails(p, st) ==
    /\ st = "redis" => st \in up
    /\ Hears(p, st, "failed")

AnyOk(heard) == \E st \in Stores : heard[st] = "ok"

EveryOk(heard) == \A st \in Stores : heard[st] = "ok"

ProbeReplies(p) ==
    /\ Running /\ Handling(probe[p])
    /\ \A st \in Stores : probe[p].heard[st] # "waiting"
    /\ probe' = [probe EXCEPT ![p] =
                    [NoProbe EXCEPT !.at = "answered", !.status = IF EveryOk(probe[p].heard) THEN 200 ELSE 503]]
    /\ UNCHANGED <<req, up, phase, closed, exit>>

ProbeClientLeaves(p) ==
    /\ Running /\ Waiting(probe[p])
    /\ probe' = [probe EXCEPT ![p].here = FALSE]
    /\ UNCHANGED <<req, up, phase, closed, exit>>

----------------------------------------------------------------------------
(* Shutdown.                                                               *)

Signalled(s) ==
    /\ Running /\ phase[s] = "none"
    /\ phase' = [phase EXCEPT ![s] = "draining"]
    /\ UNCHANGED <<req, probe, up, closed, exit>>

Moves(s, from, to) ==
    /\ Running /\ phase[s] = from
    /\ phase' = [phase EXCEPT ![s] = to]
    /\ UNCHANGED <<req, probe, up>>

\* Handlers are waited for, probes are not.
ProbesAside == \A r \in Requests : ~ Waiting(req[r])

Drained ==
    /\ \A r \in Requests : ~ Waiting(req[r])
    /\ \A p \in Probes : ~ Waiting(probe[p])

AppCloses(s) ==
    /\ Drained
    /\ Moves(s, "draining", "closing queue")
    /\ UNCHANGED <<closed, exit>>

QueueCloses(s) ==
    /\ Moves(s, "closing queue", "closing database")
    /\ closed' = closed \cup {"queue"}
    /\ UNCHANGED exit

DatabaseCloses(s) ==
    /\ Moves(s, "closing database", "closed")
    /\ closed' = closed \cup {"postgres"}
    /\ UNCHANGED exit

\* redis.disconnect() and process.exit(0), in one turn of the event loop.
Exits(s) ==
    /\ Moves(s, "closed", "closed")
    /\ exit' = "0"
    /\ UNCHANGED closed

\* A shutdown whose promise chain has no catch.
CloseFailsUnheard(s) ==
    /\ \/ Moves(s, "closing queue", "stuck")
       \/ Moves(s, "closing database", "stuck")
    /\ UNCHANGED <<closed, exit>>

CloseFails(s) ==
    /\ \/ Moves(s, "closing queue", "closed")
       \/ Moves(s, "closing database", "closed")
    /\ exit' = "1"
    /\ UNCHANGED closed

----------------------------------------------------------------------------
Handles(r) == Returns(r) \/ Refuses(r) \/ Throws(r) \/ Replies(r)

Pings(p, st) == PingSucceeds(p, st) \/ PingFails(p, st)

Closes(s) ==
    AppCloses(s) \/ QueueCloses(s) \/ DatabaseCloses(s) \/ Exits(s) \/ CloseFails(s)

Next ==
    \/ \E st \in Stores : StoreFails(st) \/ StoreRecovers(st)
    \/ \E r \in Requests :
          \/ \E route \in Routes, valid, traced \in BOOLEAN, role \in Everyone :
                Receive(r, route, valid, role, traced)
          \/ Handles(r) \/ RequestClientLeaves(r)
    \/ \E p \in Probes :
          \/ ProbeArrives(p) \/ ProbeReplies(p) \/ ProbeClientLeaves(p)
          \/ \E st \in Stores : Pings(p, st)
    \/ \E s \in Signals : Signalled(s) \/ Closes(s)

Spec == Init /\ [][Next]_vars

\* Handlers and the shutdown go on by themselves.  Nothing obliges Redis to come
\* back; if it does, what waited for it is sent again: strong fairness, as it may
\* leave again.
Fairness ==
    /\ \A r \in Requests : SF_vars(Handles(r))
    /\ \A p \in Probes :
          /\ \A st \in Stores : SF_vars(Pings(p, st))
          /\ WF_vars(ProbeReplies(p))
    /\ \A s \in Signals : WF_vars(Closes(s))

FairSpec == Spec /\ Fairness

----------------------------------------------------------------------------
(* Properties.                                                             *)

CallLists == {route.calls : route \in Routes} \cup {<<>>}

Successes == {200, 201, 202}

Handlers ==
    [at : {"unsent", "handling", "answered"}, calls : CallLists, next : Nat,
     success : {0} \cup Successes, traced : BOOLEAN, here : BOOLEAN,
     did : SUBSET Writes,
     status : {0} \cup Successes \cup {400, 401, 403, 404, 409, 500}]

ReadyChecks ==
    [at : {"unsent", "handling", "answered"},
     heard : [Stores -> {"waiting", "ok", "failed"}],
     met : SUBSET Stores, here : BOOLEAN, status : {0, 200, 503}]

\* Every variable keeps its type, a handler makes no call past its last, and a
\* request has a status exactly when its handler is over: none runs on after
\* its answer.
TypeOK ==
    /\ req \in [Requests -> Handlers]
    /\ \A r \in Requests :
          /\ req[r].next \in 1..(Len(req[r].calls) + 1)
          /\ req[r].status = 0 <=> req[r].at # "answered"
    /\ probe \in [Probes -> ReadyChecks]
    /\ up \subseteq Stores
    /\ phase \in [Signals -> {"none", "draining", "closing queue",
                              "closing database", "closed"}]
    /\ closed \subseteq {"queue", "postgres"}
    /\ exit \in {"running", "0", "1"}

\* The status a client is given tells what became of its request, whichever
\* call failed and whatever the stores did: after a success every write of the
\* handler is done, after a refusal none is, a job is never queued for an
\* evaluation that was not stored, and a correlation id that the events cannot
\* hold leaves nothing behind it.
AnswersTellTheEffect ==
    [][\A r \in Requests :
          Handling(req[r]) /\ ~ Handling(req'[r]) =>
              LET status == req'[r].status
                  did == req'[r].did IN
              /\ status \in Successes => did = CallsOf(req[r].calls) \cap Writes
              /\ status \in 400..499 => did = {}
              /\ "enqueue" \in did => "create" \in did
              /\ ~ req[r].traced => did = {}]_vars

\* While a client waits for an answer, nothing its handler needs is closed and
\* the process does not end, for any number of signals and failing closes.
NobodyWaitsOnAClosedClient ==
    (\/ \E r \in Requests : Waiting(req[r])
     \/ \E p \in Probes : Waiting(probe[p])) => closed = {} /\ Running

\* A probe says ready only if each store was there at some time since it was
\* asked, and unavailable only if some check was answered by a failure.
ReadyMeansReachable ==
    [][\A p \in Probes :
          Handling(probe[p]) /\ ~ Handling(probe'[p]) =>
              /\ probe'[p].status = 200 => probe[p].met = Stores
              /\ probe'[p].status = 503 =>
                    \E st \in Stores : probe[p].heard[st] = "failed"]_vars

\* A command that connection.ts has wait for a Redis that is away.
HangsOnRedis(r) ==
    /\ Handling(req[r]) /\ req[r].next <= Len(req[r].calls)
    /\ Call(r) = "enqueue" /\ "redis" \notin up

ProbeHangsOnRedis(p) ==
    Handling(probe[p]) /\ probe[p].heard["redis"] = "waiting" /\ "redis" \notin up

\* Every wait for an answer comes to an end, shutdown or not and whatever fails.
\* There is one exception, and it is for good: a start that waits to queue its job,
\* or a probe that waits to hear from Redis, while Redis stays away.
OnlyRedisKeepsClientsWaiting ==
    /\ \A r \in Requests :
          []<>(~ Waiting(req[r])) \/ <>[]HangsOnRedis(r)
    /\ \A p \in Probes :
          []<>(~ Waiting(probe[p])) \/ <>[]ProbeHangsOnRedis(p)

\* Somebody waits for an answer and is not going to get it before Redis is back.
SomebodyHangs ==
    \/ \E r \in Requests : Waiting(req[r]) /\ HangsOnRedis(r)
    \/ \E p \in Probes : Waiting(probe[p]) /\ ProbeHangsOnRedis(p)

\* A shutdown that was asked for ends the process, unless app.close() waits for
\* ever, and then for nobody but those who hang on a Redis that stays away:
\* neither a close that fails nor a second signal keeps the process alive.
OnlyHangingClientsHoldShutdown ==
    \A s \in Signals : []<>(phase[s] = "none" \/ ~ Running) \/ <>[]SomebodyHangs

----------------------------------------------------------------------------
(* What the documents say and a Redis that stays away does not keep.       *)

\* docs/adr/0003: the API responds immediately, heavy work runs out of band;
\* api-design.md: /ready tells whether the database and Redis are reachable.
EveryClientIsAnswered ==
    /\ \A r \in Requests : Waiting(req[r]) ~> ~ Waiting(req[r])
    /\ \A p \in Probes : Waiting(probe[p]) ~> ~ Waiting(probe[p])
=============================================================================
