# Verification of the AI Evaluation Gateway

TLA+ specifications of the gateway under `src/`, model-checked with TLC, with safety proofs checked by
TLAPS. Paths below are relative to `src/src/` unless they start with `docs/` or `test/`.

    tlc -config pipeline.cfg MCEvaluationPipeline.tla              # one of the runs of the table below
    tlapm EvaluationPipelineProofs.tla                             # one of the proof modules

## 1. Inventory

The gateway is one API process type (`server.ts`) and one worker process type (`worker.ts`), any number of
each, over PostgreSQL and Redis. There is no shared memory between handlers worth the name: everything that
interacts, interacts through a table or through the BullMQ queue, between two `await`s.

| Component | State it keeps | Operations | Talks to | What is hard | What makes it correct |
| --- | --- | --- | --- | --- | --- |
| State machine (`domain/evaluation/stateMachine.ts`) | none (a table) | `canTransition`, `assertTransition` | used by the service | none by itself | terminal statuses have no successor |
| Evaluation service (`application/evaluations`) | none of its own | `startEvaluation`, `cancel`, `runAutomatedChecks`, reads, `list` | repositories, queue | two stores without a transaction; decisions on a status read earlier | one effect per check, no acknowledged cancel undone, nothing accepted is forgotten |
| Evaluation repository | `evaluations`, `evaluation_events` | `create`, `transition` (compare-and-set), `list`, `listHistory` | PostgreSQL | concurrent transitions of one row | the history explains the status |
| Queue and worker (`infrastructure/queue`, `worker.ts`) | BullMQ job: state, attempts, stalls, lock | `add`, deliver, retry, dead-letter, stall | Redis, evaluation service | at-least-once delivery, late reports of slots that lost their lock, crashes | every job settles; a job is locked exactly while active, and nobody sets it back or revives it |
| Auth service (`application/auth/authService.ts`) | `refresh_tokens` | `login`, `refresh`, `logout` | PostgreSQL | four separate queries per refresh | a spent or revoked token buys nothing |
| Rubrics (`application/rubrics`) | `rubrics`, `rubric_versions`, `rubric_criteria` | `createRubric`, `publishVersion`, reads | PostgreSQL, `startEvaluation` | read-then-insert of the next number at READ COMMITTED | versions 1, 2, ... each whole; evaluations pin a fresh one |
| Prompts and submissions | `prompts`, `submissions` | create, read, list | PostgreSQL | walking a list that changes | a walk repeats nothing and loses nothing |
| Pagination (`application/pagination.ts`) | the cursor, held by the client | encode, decode | the two lists | precision of the cursor, late commits, a moving filter | the same |
| Users (`application/auth/userService.ts`) | `users` | `createUser`, `list` | PostgreSQL | check-then-insert of an email | one account per email; the loser is answered 409, or 500 in a race (finding 6) |
| Access tokens, RBAC (`infrastructure/security/jwt.ts`, `interface/http/plugins/auth.ts`) | none (signed token) | sign, verify, role test | every route | role and status in a token go stale | a lost role ends with its last token; routes admit their roles |
| HTTP (`interface/http`) | none | validation, roles, error mapping, probes | services | several writes behind one status, errors that are no `AppError`, probes of stores that hang, clients that hang up | an answer tells what became of the request; a probe tells what was reachable |
| Composition, server (`composition.ts`, `server.ts`) | the three clients | start, shutdown on a signal | everything | two signals, handlers in flight, a close that fails | nobody waits on a closed client; a shutdown ends unless a client hangs on Redis |
| Config, logging, migrations | connections | read or run once before the start | | | |
| Scores and audit tables | `reviewer_scores`, `score_items`, `audit_logs` | none yet | | | |

Scoring, reviewer assignment, finalising, audit entries, rate limits, API keys and idempotency keys are
described in `docs/` for later phases; no code implements them.

## 2. Modules

| Module | Models | State and actions against the code |
| --- | --- | --- |
| `EvaluationStateMachine` | `stateMachine.ts` | the statuses and the transition table, as data |
| `EvaluationLifecycle` | the promise of the evaluation tables | `status`, `results`, `history`; `Create` and `Move`, and the properties that every implementation inherits |
| `EvaluationPipeline` | evaluation service, repository, queue, worker | see below; implements `EvaluationLifecycle` |
| `EvaluationTransactions` | `evaluationRepository.ts`, statement by statement | see below; implements `EvaluationLifecycle` too |
| `AuthSessions` | `authService.ts`, `refreshTokenRepository.ts` | a request (`kind`, `presented`, `subject`, `at`) and the token it inserted; one action per query of `login`, `refresh` and `logout` |
| `RubricVersions` | `rubricService.ts`, `rubricRepository.ts`, the version choice of `startEvaluation` | a publish is an open transaction (`at`, `number`), visible when `published`; one action per SQL statement; readers and starts of evaluations beside it |
| `VersionLog` | the promise of the rubric tables | `versions`, `pinned`; `Create`, `Publish` (the latest plus one), `Pin` (the latest); `RubricVersions` implements it |
| `RubricCriteria` | the body schema in `routes/rubrics.ts`, `assertCriteria`, the constraints of `rubric_criteria` | operators only: `Parsed`, `AssertCriteria`, `Hundredths`, `Insertable`, and `Answer`, the status a list of criteria gets |
| `Accounts` | `userService.ts`, `userRepository.ts`, `plugins/auth.ts`, the signing in `authService.ts` | extends `AuthSessions`, whose requests are logins, refreshes and logouts here too: the users table (`account`), the role a request read for the access token it signs (`granted`), the tokens past their `exp` (`lapsed`), and a POST /users call (`callAt`, `email`): gate, lookup, insert. Joint actions where the code has one step: `LoginReads` and `RefreshReads` check the status and read the role in one row. Operators change roles and status (`ChangeRole`, `ChangeStatus`), which no code of the gateway writes |
| `KeysetPagination` | `pagination.ts`, both `list` use cases and their queries | the table (`stamp`, `visible`, `matching`) and the client's walk (`cursor`, `page`, `shown`) |
| `HttpRoutes` | the routes under `interface/http/routes`, the role lists | the routes as data: roles, the calls the handler awaits in order, the status of success |
| `ApiServer` | `app.ts`, `problem.ts`, `plugins/auth.ts`, `health.ts`, `composition.ts`, `server.ts` | see below |
| `*Proofs` | | theorems about the module they are named after; `RubricProofs` is about `RubricVersions` and `RubricCriteria` |
| `MC*` | | the symmetry sets of the TLC instances |

**EvaluationPipeline.** `status`, `results`, `history` are the row and its events; each repository operation
is a transaction and hence one step: `InsertEvaluation`, `Transition` (the `UPDATE ... WHERE status = from`
with its event) or `Conflicts` (no row: `ConflictError`). `start[e]` is the POST handler between its two
stores. `job`, `attemptsMade`, `stalls`, `lockOwner` are the BullMQ job `eval:<id>:automated`. A slot is one of
the `concurrency: 5` processors of one worker process; `run[w]` is where `runAutomatedChecks` stands at an
`await`, `task[w]` the job it took. `cancel[a]` is a cancel request between its read and its write. Any store
call may fail, or take effect and lose its answer; a slot may die at any await; a lock may expire under a slot
that lives, so two slots run one job and the late one reports to a job it no longer owns.

BullMQ is outside the repository and modelled by what its options and its documentation promise: jobs under a
known id are not added twice, a failed attempt is retried `attempts` times with a delay and then kept as
failed, a job whose lock expired is requeued once (`maxStalledCount`) and then failed, and only the owner of
the lock can complete or fail a job.

**EvaluationTransactions.** What `EvaluationPipeline` takes as one step, taken apart: `call[c]` is a repository
call, decided from a status read earlier, and its transaction at READ COMMITTED. `Begin` fixes `now()`, `Write`
takes the row's lock or waits for it, `LogEvent` draws a serial id, `Commit` publishes row and event, `Fails`
rolls back at any point and may waste an id. `log[e]` keeps the events in commit order, so `listHistory`'s
`ORDER BY occurred_at, id` (`Precedes`) can be compared with it. Both modules implement one abstract
specification: that is the justification for the coarse step of the pipeline. The database's clock may stand
still and is never set back; a clock that is set back would list a later transition first.

**ApiServer.** `req[r]` is the request on a connection with the `calls` its route awaits, `next` among them, and
the writes it `did`. `Receive` checks schemas, then the token, then the role, in Fastify's order; `Returns`,
`Refuses` (an `AppError`) and `Throws` (anything else, a 500) are the ends of one call; a query may take effect
and lose its answer. The stores fail differently and the model keeps that: a query to a PostgreSQL that is away
fails, a command to a Redis that is away waits (`maxRetriesPerRequest: null`). `probe[p]` is a readiness probe
with its two pings side by side. `phase[s]` is the promise chain that signal `s` started: `app.close()`,
`evaluationQueue.close()`, `dbHandle.close()`, then `redis.disconnect()` and `process.exit(0)`, which run in one
turn of the event loop. `app.close()` takes no new request and waits for connections, not for handlers: a client
that hung up (`here` is FALSE) is not waited for although its handler runs on, and such a handler may meet a
closed pool. The queue borrows the shared Redis connection, so an `add` may still work after `queue.close()`,
and `Throws` allows that it does not. A correlation id that is no UUID (`traced` is FALSE) cannot be inserted
with an event. The worker's chain in `worker.ts:34-47` is the same with jobs in place of requests; it has no
actions of its own.

**RubricCriteria.** Weights are thousandths: finer digits never change a rounding to hundredths, only whether
the tiniest weights are positive. `MaxInteger` is the bound of PostgreSQL's `integer`, a parameter so that TLC
can pass it.

**Left out on purpose.** Requests that end in 400, 401 or 404 before any write change nothing. What the
static checks compute is the constant `Report`: the submission never changes. The SQL of a single statement is
its effect on the set of rows. Access tokens are stateless.

## 3. Runs

| Run | Instance | What it shows |
| --- | --- | --- |
| `pipeline` | 1 evaluation, 3 slots, 2 admins, 3 attempts, 1 stall | the queue forgets no accepted evaluation; redelivery and concurrent runs take effect once; jobs only move on, whatever is reported late; history against status, acknowledged cancels, terminal rows, refinement of the lifecycle; accepted evaluations and added jobs settle |
| `transactions` | 1 evaluation, 2 users, 2 slots, a clock of two values, 1 wasted id | locks end with their transactions, history is listed in order, refinement of the lifecycle, transactions end |
| `api_server` | 1 request at a time on any route, 1 probe, 2 signals | answers against effects, probes against reachability, shutdown against whoever waits; everybody is answered and the process ends, save for those who hang on a Redis that stays away |
| `access` | 3 requests, 2 calls of POST /users, an operator who changes the founder | spent and revoked tokens stay dead; disabled users get no session; a lost role ends with its last token and nobody without power opens an account; racing creations of one email, answers against the table |
| `rubric_versions` | 4 write requests, 1 reader, 1 evaluation; 65 lists of criteria | versions are contiguous, whole, committed in order; fresh pins; refinement of the version log; criteria are stored as sent or refused for their size |
| `pagination` | 3 rows, 2 x 3 times, limits 1 and 2 (3 asked) | order and no repeats; losses only within a millisecond |
| `dead_letter` | violation | a dead-lettered job leaves its evaluation in RUNNING_CHECKS |
| `lost_enqueue` | violation | a created evaluation may never get a job |
| `auth_single_use` | violation | one refresh token answered twice |
| `unanswered` | violation | a client that waits for ever while Redis is away |
| `duplicate_email` | violation | a duplicate email answered 500 |
| `pagination_precision` | violation | a row that was there all along is never listed |

*Why the bounds suffice.* The races of the pipeline are between slots on one job, where the lock changes
hands as often as stalls and attempts allow, or between a slot and an admin. Attempts and stalls are those of
the code (3 and 1), and one stall leaves at most one late slot beside the one that runs, so a
third slot is one more than a job can have.
Evaluations share nothing but the slots; the same properties were also checked with two evaluations, two
slots and two attempts (372,080 states). Three session requests give a login, two overlapping uses of its token,
or a use and a logout, and a session of a new account beside the founder's; two calls race for one email.
`Roles` has one role beside ADMIN, since the gate tells no others apart, and the operator changes one user, who has
the sessions. Four rubric requests give a creation and three publishes that race for one number. Three rows and
pages of one or two rows give walks of up to four pages with a tie at every page boundary. A request of the API
meets other requests only through the stores, which their own modules model, so one request, one probe and the two
signals `server.ts` listens to show every interference there is inside the process.
The criteria lists have every weight and scale at an edge alone, and pairs of equal and
different keys. The clock of `transactions` allows ties and order. The proofs of section 5 do away with the
bounds for safety.

Deadlock is not checked (`CHECK_DEADLOCK FALSE`): every system here may stop when the clients have asked for
what they wanted, when every job is settled or when a walk is done. Symmetry is used in runs without liveness only.

## 4. Fairness

`FairSpec` of the pipeline assumes weak fairness of the following, and of nothing else:
- `Enqueue`: a POST handler past its insert runs on to its next call. It may still die or fail (`EnqueueFails`);
  then it was not accepted.
- `Reserve` and `RunStep`: BullMQ workers take waiting jobs and a live processor goes on. A slot may crash or
  its calls may fail as often as they like: attempts and stalls bound how often the job can be tried.
- `BackoffElapses`: delayed jobs are promoted.
- `LockExpires` for a job whose slot is gone: the stalled check runs on every worker. A lock that expires under
  a live slot is possible and never required.

`FairSpec` of `EvaluationTransactions` assumes strong fairness of each transaction's statements: PostgreSQL grants
the lock of a row to those who wait for it in turn, however often others take it meanwhile. `FairSpec` of
`ApiServer` assumes that handlers and pings go on (strong, since a call may be possible, then not, then possible
again as its store leaves and comes back), that a probe whose pings are heard replies, and that a shutdown chain goes
on (weak). It does not assume that a store ever comes back: nothing in the code sees to it. A command to a Redis
that stays away waits for ever (`connection.ts:5`), and `app.close()` waits with it; the two liveness
properties of `api_server` name that case and show that it is the only one, and `unanswered` shows it.

Clients, admins, operators and faults are never obliged to act. The temporal violation runs use the same
`FairSpec`, so their counterexamples are not systems that merely stopped.

## 5. Proofs

All theorems hold for every value of the constants under the named assumptions of the modules (`Null` is none
of the values beside it; attempts are at least 1; for pagination, ids are naturals, finitely many, and
limits are positive).

- **`EvaluationLifecycleProofs`**, about the abstract lifecycle alone: the history is a path through the table
  (`PathCorrect`), no status outside the loop of the review is entered twice (`OnceCorrect`), results and actors
  are explained by the events (`ResultsCorrect`, `ActorsCorrect`), events are never rewritten (`GrowthCorrect`),
  terminal rows are closed (`TerminalCorrect`). That a status is entered once is not inductive: the invariant
  numbers the statuses along the lifecycle and says that every event recorded so far is at or below the number of
  the status, which a move raises except inside the review.
- **`EvaluationPipelineProofs`**. (1) `TypeInv`: types, plus what keeps the queue's data
  consistent: a job is locked exactly while active, counters stay below their limits, a slot has a task exactly
  while it runs, and a cancel in flight was decided from a status that permits it. (2) `LegalWrites`: given
  `TypeInv`, every step leaves the database alone or performs a creation or one of three moves of one evaluation.
  This is needed because the compare-and-set uses the status the handler saw: that status permits the move.
  (3) Hence `Refinement`, and by it everything proved of the lifecycle holds of the rows: `HistoryCorrect`,
  `PromisesCorrect`, `GrowthCorrect`. From the writes: `TerminalCorrect`, `CancelCorrect`, `EffectOnce` (through an
  invariant that says which path a row with a given status has taken). About the queue: `JobKept` (a slot that is
  to report success has a checked evaluation) and the safety half of `JobSettles`. `Distance(e)` is a natural
  number made of the deliveries left and the position of the one that goes on. No step raises it
  (`MoveOnCorrect`), every step that fairness obliges somebody to take lowers it (`ServiceAdvances`), and a job
  that has not settled always waits for such a step (`JobsAreAttended`). Last, findings 1 and 2 for every
  size: `DeadLetterIsForGood` and `LostEnqueueIsForGood` show the two states to be traps, whatever is fair.
- **`AuthSessionsProofs`**: the invariant says that a presented token exists and belongs to the presenter's
  user, that the insert is the last thing a request does, and that a request past its update has a revoked
  parent. `ParentsCorrect`, `DisabledCorrect`, `RevocationCorrect`, `SpentCorrect`.
- **`RubricProofs`**: contiguity alone is not inductive. A request past its read knows a published
  version just below its number; so the holder of a key in the unique index is ahead of everything published
  and is the only holder of its rubric. `ContiguousCorrect`, `LatestCorrect`, `ReadersCorrect`, `PinCorrect`. From the same two
  facts a commit is
  the log's `Publish`: the version it read below its own is still the latest (`VersionLogCorrect`). For the
  criteria: rounding is close, monotonic and known at its edges; hence `CriteriaCorrect` for every list of criteria
  and every integer bound of at least 5.
- **`AccountsProofs`**: every step of `Accounts` is one of `AuthSessions` or leaves the sessions alone
  (`AccountsKeepSessions`), so the session theorems carry over (`SessionsStayCorrect`). The lookup of createUser
  proves nothing, since it is over before the insert; the insert alone, under the unique index, keeps emails
  unique: `EmailsAreUnique`, `AnswersCorrect`. The rest of the invariant says that a request acts for a user who has
  a row and carries no role before it reads that row. From it, a role ADMIN is granted only by reading the row of
  somebody in power, whence `PowerEnds` and `PowerIsGiven`.
- **`EvaluationTransactionsProofs`**: the order of the history is not inductive by itself. A call that may still
  write has read the status it starts from before its `Begin`, and no status comes back, so its stamp is at least
  that of every event of the row, and its id is drawn later. `TypeCorrect` (locks), `HistoryOrderCorrect`,
  `RefinementCorrect`, and what the lifecycle promises then holds of the listing (`PromisesCorrect`,
  `CommittedStays`). The safety half of `TransactionsEnd`: a transaction that waits for a row waits for one that
  has it, has written its only row and waits for nobody (`NoCircle`: no deadlock), and every change of a transaction
  takes one of the few statements it has left (`MoveOnCorrect`).
- **`ApiServerProofs`**: two lemmas about the route table (what is called before a write; no refusal after one)
  and the invariant that a handler has done exactly the writes before its `next`; a probe has met every store it
  heard from; a client is closed only in a phase that no waiting connection has let begin. `TypeCorrect`,
  `ShutdownCorrect`, `AnswersCorrect`, `ReadinessCorrect`, for any number of requests, probes and signals. The
  safety half of its two liveness properties: no step of anybody adds to the calls or pings a
  handler has left and each of its own takes one (`HandlersCorrect`, `ProbesCorrect`); a shutdown goes through
  its stages without a step back and lets nothing new in (`ShutdownAdvances`). `HangingIsForGood` is finding 5 for
  every size: as long as Redis is away, whoever hangs on it goes on hanging and no client or process is closed.
- **`KeysetPaginationProofs`**: everything shown is at or above the cursor, and a row that matched all along is
  shown, below the cursor, or caught between the cursor and the row it was cut from. `DescentCorrect`,
  `SkipsCorrect`, and `LoneRowsCorrect`: a row alone in its millisecond is never lost.

Only model-checked: the five liveness properties (`AcceptedEvaluationSettles`, `JobSettles`, `TransactionsEnd`,
`OnlyRedisKeepsClientsWaiting`, `OnlyHangingClientsHoldShutdown`) and
the violation runs. A proof of the former would have to reason about fairness, hence about ENABLED, which TLAPS does not support. What is proved of them is the rest of the argument:
measures in the natural numbers that no step raises and that every step fairness obliges lowers, for the queue
also that such a step is always owed, and for the transactions that waiting has no circles. What TLC adds is
that those steps are enabled, again and again where the fairness is weak or strong, until the measure is zero.
Every invariant and action property of a passing run is also a theorem.

## 6. Findings

1. **A dead-lettered check never fails its evaluation** (`worker.ts:30`, run `dead_letter`).
   `docs/architecture/evaluation-lifecycle.md` lines 14 and 63 have it go to FAILED; the code only logs, and an
   admin cannot cancel from RUNNING_CHECKS either.
2. **An evaluation without a job is not reconstructed** (`evaluationService.ts:41`, run `lost_enqueue`), against
   `docs/adr/0003-bullmq-evaluation-pipeline.md:49-50`.
3. **A refresh token can be used twice** by overlapping requests (`authService.ts:57`, run `auth_single_use`),
   against the comments on lines 24 and 57.
4. **A page walk can lose rows** of the millisecond its page ends in (`promptService.ts:37`,
   `evaluationService.ts:70`, run `pagination_precision`), against `promptRepository.ts:47`.
5. **A client may wait for ever for Redis** (`infrastructure/queue/connection.ts:5`, run `unanswered`): a start of an
   evaluation and a readiness probe answer nothing while Redis is away, against
   `docs/adr/0003-bullmq-evaluation-pipeline.md:43` ("The API responds immediately"),
   `docs/architecture/evaluation-lifecycle.md:68` and the 503 declared in `routes/health.ts:32`; a shutdown behind
   them does not end.
6. **A duplicate email may be answered 500** (`userService.ts:12`, run `duplicate_email`), against
   `docs/architecture/api-design.md:141`, which has 409 for a duplicate: two racing calls both find the email free,
   and nothing translates the violation of the unique index.

Divergences visible in the runs that hold:
- `docs/architecture/api-design.md:11` lets a client choose its `X-Correlation-Id`; one that is not a UUID makes
  every start and cancel fail with 500 (`ApiServer`, `CanLog`; `AnswersTellTheEffect`: nothing is left behind).
- A weight below 0.005 passes the check "weight must be positive" (`rubricService.ts:49`) and is stored as 0.00;
  one of 999.995 or more, or a scale bound beyond an `integer`, is a 500 (`CheckedCriteriaAreStored`).
- `server.close()` does not wait for the handler of a client that hung up, which may then fail on the closed
  pool between a row and its job (`ApiServer`, `Drained`): the case of finding 2 in an orderly shutdown.

## 7. Not modelled, and the plan

What is left, most important first:

1. The worker's own shutdown: `worker.close()` waits for running jobs, then the chain of `ApiServer`. For the
   pipeline it is a slot that takes no job for a while, which its safety already covers.
2. `removeOnComplete: 1000`: a job is added once per evaluation in this code, so nothing can observe the trimming
   of completed jobs.
3. An abstract session as a specification that `AuthSessions` implements, and how many tokens one sign-in can
   have alive, given the overlaps of finding 3.

Not planned: password hashing, configuration, logging, migrations and OpenAPI (no state a property could be
about), the text analysis of the static checks, and the tables no code uses.
