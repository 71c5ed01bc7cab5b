----------------------------- MODULE HttpRoutes -----------------------------
(***************************************************************************)
(* The routes of the API as data: who may call one, the calls its handler  *)
(* awaits, in order, and the status of its success.  Which row, which      *)
(* fields and which page a call is about is left out.                      *)
(*                                                                         *)
(* The calls a handler makes:                                              *)
(*   assert          assertCriteria, in memory: refuses with 400           *)
(*   find            a row by its id: missing, 404                         *)
(*   findByEmail     an account by its email: there already, 409           *)
(*   list            rows                                                  *)
(*   insert          one insert, or one transaction of inserts             *)
(*   create, move    the transactions that log an evaluation event under   *)
(*                   the request's correlation id; move refuses an illegal *)
(*                   or outdated transition with 409                       *)
(*   enqueue         the job, in Redis                                     *)
(* The routes of sessions (login, refresh, logout) are AuthSessions.       *)
(***************************************************************************)
EXTENDS Sequences

Roles == {"SUBMITTER", "REVIEWER", "ADMIN"}
Nobody == "nobody"             \* no bearer token, or one that does not verify

SomeoneSignedIn == Roles
Everyone == Roles \cup {Nobody}
Submitting == {"SUBMITTER", "ADMIN"}
Reviewing == {"REVIEWER", "ADMIN"}
Administering == {"ADMIN"}

Routed(method, roles, calls, success) ==
    [method |-> method, roles |-> roles, calls |-> calls, success |-> success]

OpsRoutes == {Routed("GET /health", Everyone, <<>>, 200)}

MeRoute == {Routed("GET /auth/me", SomeoneSignedIn, <<>>, 200)}

UserRoutes ==
    {Routed("POST /users", Administering, <<"findByEmail", "insert">>, 201),
     Routed("GET /users", Administering, <<"list">>, 200)}

PromptRoutes ==
    {Routed("POST /prompts", Submitting, <<"insert">>, 201),
     Routed("GET /prompts", SomeoneSignedIn, <<"list">>, 200),
     Routed("GET /prompts/:id", SomeoneSignedIn, <<"find">>, 200),
     Routed("POST /prompts/:id/submissions", Submitting, <<"find", "insert">>, 201),
     Routed("GET /prompts/:id/submissions", SomeoneSignedIn, <<"find", "list">>, 200),
     Routed("GET /submissions/:id", SomeoneSignedIn, <<"find">>, 200)}

\* A rubric is found with its versions and their criteria.
RubricRoutes ==
    {Routed("POST /rubrics", Administering, <<"assert", "insert">>, 201),
     Routed("POST /rubrics/:id/versions", Administering,
            <<"assert", "find", "insert">>, 201),
     Routed("GET /rubrics", SomeoneSignedIn, <<"list">>, 200),
     Routed("GET /rubrics/:id", SomeoneSignedIn, <<"find">>, 200)}

EvaluationReads ==
    {Routed("GET /evaluations", Reviewing, <<"list">>, 200),
     Routed("GET /evaluations/:id", SomeoneSignedIn, <<"find">>, 200),
     Routed("GET /evaluations/:id/history", SomeoneSignedIn, <<"find", "list">>, 200),
     Routed("POST /evaluations/:id/cancel", Administering, <<"find", "move">>, 200)}

\* A start that queues the job before the row is there.
StartQueuesFirst ==
    {Routed("POST /submissions/:id/evaluations", Submitting,
            <<"find", "find", "enqueue", "create">>, 202)}

\* The submission and the latest version of the rubric, the row, the job.
StartEvaluation ==
    {Routed("POST /submissions/:id/evaluations", Submitting,
            <<"find", "find", "create", "enqueue">>, 202)}

Routes == OpsRoutes \cup MeRoute \cup UserRoutes \cup PromptRoutes
          \cup RubricRoutes \cup EvaluationReads \cup StartEvaluation

Writes == {"insert", "create", "move", "enqueue"}
Logging == {"create", "move"}
CallKinds == {"assert", "find", "findByEmail", "list"} \cup Writes

CallsOf(calls) == {calls[i] : i \in DOMAIN calls}
=============================================================================
