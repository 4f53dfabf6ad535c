# TLA+ models of the swarm AGV/ARM scheduling backend

Specifications, model-checking configurations and machine-checked proofs for the
backend in `src/backend`: Go services (API, outbox worker, consumers, congestion
worker, core, gateway, bridge) and a Python FastAPI service around Postgres,
Kafka, Redis/asynq and Influx. Paths below are relative to `src/backend`.

The core of the models is the path of a task change from the request to the last
reader:

    client --> API / Python --> Postgres: tasks, task_events, outbox_events
                                              |
                      outbox worker (asynq): claim, enqueue, publish, mark
                                              |
                                      Kafka topic task.events
                                              |
          task events consumer | congestion worker | bridge to another cluster
                    |
            Postgres: task_events

Around it they cover what every request meets (settings, shell, rate limiter,
token check), what the API shares through Redis (task lock, caches), what becomes
of a robot's report, and the decisions of the core and the gateway.

## Inventory

| Component | State | Operations | Hard parts | Correct when |
|---|---|---|---|---|
| Task life cycle `go/shared/workflow`, same table in `main.py:123` | none | `CanTransition`, `EventTypeForTransition` | two copies in two languages | every change follows the table |
| Task tables `go/api/internal/repos/tasks.go`, `python/services/app/main.py:238,370` | `tasks`, `task_events`, `outbox_events`, row locks, pool | create with idempotency key, transition, insert from stream | concurrent writers in two languages, error paths inside a transaction, pool limit | history is one legal path; every change is announced once; no lock outlives its request but a rejected transition's |
| Outbox worker `repos/outbox.go`, `cmd/worker/main.go` | row status, attempts, `next_retry_at`; asynq tasks | scan, dispatch | every handler spans several databases; asynq retry beside row retry; crashes | every event is published or dead-lettered with cause; one handler at a time |
| Kafka wrapper `go/shared/mqx` | writer, reader | `Publish`, `NewConsumer` | ambiguous failures, balancer ignores keys | at least once |
| Group read loops `cmd/consumer`, `cmd/congestion-worker`, `gateway/cmd/bridge` | group offsets, message in hand | fetch, handle, commit | crash and rebalance between the steps, failing handlers | nothing is skipped |
| Task API `cmd/api/main.go` with `lockx`, `cachex` | Redis cache (30 s) and lock (10 s) | create, get, list, cancel, status | stale fill against write-through, lock expiry, Python bypasses both | a cached task is not older than its lifetime allows; lock excludes |
| Request shell `httpx` | response buffer, handler goroutine | timeout, recover, log | handler outlives the 504 and meets the client's retry; panic outside recover | the answer is the truth; a change is made once; the process ends |
| Robot status `robot_status.go`, `robots.go` | rows, cache, Influx | upsert, report, read latest | out-of-order reports, second write outside the transaction | latest means latest |
| Congestion worker `cmd/congestion-worker` | windows and last alerts per zone | aggregate, alert | two goroutines, cooldown before insert, redelivery | one alert per cooldown, silence only with cause |
| Core `go/core` | none; RMF and Kafka outside | RMF tasks, status, global and local scheduling | unchecked ids, tie breaking, blank candidates | assignments total and least loaded |
| Gateway `go/gateway/cmd/gateway` | routing table | ingest | fallback targets, partition key | each event goes where its route says |
| AI client and breaker `shared/clients/ai` | failures, open until | predict with retries | late results of concurrent calls | open for the reset time |
| Rate limiter `middleware/rate_limit.go` | buckets per address | allow | refill, eviction before a bucket is full again | rate and burst hold over time, up to what eviction gives away |
| JWKS caches `shared/authx`, `python/services/app/auth.py` | keys, expiry | get key, refresh | rotation, failed refresh, concurrent refresh, fallback on an expired cache | a withdrawn key dies, the present one is known |
| Tenant, auth, audit, CORS middleware | audit goroutines | checks per request, audit record | the record is started behind the handler and nobody waits for it | a change is recorded whatever the client was told |
| Configuration `shared/config` | the settings, the problems | defaults, file, environment, checks | precedence, order of the checks | a number is what the last source says or is reported; a text is what the last usable word for it says |
| Logging, metrics, tracing, Influx | none relevant | - | - | - |

Components talk through Postgres rows (API, Python, worker, consumer), Kafka
topics (worker and core to consumers and bridge), Redis (asynq tasks, task locks,
caches, alert channel) and HTTP (core to RMF, API to the Python prediction).
`PROJECT.json` lists the components with their status and the hazards of the
code line by line, with the properties that cover each.

## Modules

| Module | Models |
|---|---|
| `TaskWorkflow` | the transition table and its two lookups |
| `TaskStore` | the three task tables under Go requests, Python requests and the consumer's insert |
| `Outbox` | outbox rows, asynq tasks, scan and dispatch handlers, the topic |
| `EventDelivery` | abstract promise of the outbox, implemented by `Outbox` |
| `GroupConsumer` | the fetch, handle, commit loop of a consumer group |
| `TaskCache` | task lock and cached task in Redis, requests with deadlines, Python beside them |
| `RequestShell` | timeout, abandoned handlers, retries, recovery, audit, pool, shutdown |
| `RobotStatus` | PUT, report and read of a robot; the cached status |
| `CongestionWorker` | windows, levels, snapshots, cooldown and alerts of two goroutines |
| `RateLimiter` | token buckets, cleanup, clocks read outside the mutex |
| `CircuitBreaker` | concurrent AI calls with retries around one breaker |
| `JwksCache` | the key caches of the Go API and of the Python service |
| `Scheduler` | global-assign and local-schedule |
| `Gateway` | routing table, producers, ingest |
| `Config` | defaults, file, environment, checks |
| `ApiState` | `RateLimiter`, `CircuitBreaker` and `JwksCache` side by side |
| `RobotReports` | `CongestionWorker` and `RobotStatus` side by side |
| `RequestPath` | `Scheduler`, `Gateway` and `Config` side by side |
| `MC*` | values of the constants for TLC |
| `*_proofs` | theorems and proofs |

### TaskStore

A task is named by its idempotency key. `task` is the status column, `rows` the
`task_events` written with a change, `outbox` the envelopes, `streamed` the ids
the consumer added. A request waits for a connection (`Begin`), for the row lock
or the unique index (`InsertTask`, `LockTask`; `ReturnExisting` and
`NothingToDo` are the early returns), and commits (`Commit`). These three waits
are where other requests run; the statements between lock and commit are private
to the transaction, so their effect is one step. `RejectTransition` follows the
error return at `tasks.go:173-175`: `err` is nil there, the deferred rollback
does nothing, and lock and connection stay behind (`leaked`). `Abort` is a failed
statement or an expired deadline, `Restart` the end of the API process. Each
task event is identified by its task, its place and who drew its uuid, which is
what deduplication depends on. The Redis lock of the API is not in this module,
so the properties hold without it; `TaskCache` has it.

### Outbox

Handlers write what they computed from one earlier read, with updates that have
no guard on the row. Every database, Redis and Kafka call is therefore a step of
its own. `ClaimPending` is the claim statement, `Enqueue`/`EnqueueFails` and
`ScanMarkFailed` the scan's loop, `DispatchRead` to `DispatchMarkFailed` the
dispatch handler. `Faults` names what may go wrong: a process dies (`crash`), a
statement fails before or after it took effect (`db`), a publish or an enqueue
reports an error with or without effect (`kafka`, `redis`). asynq runs a task
again when its handler errs or dies, up to its retry limit; it is external.
`failures` is a history variable that counts failures that really happened, up to
the maximum, so that a verdict can be compared with facts rather than with the
counter the code keeps.

`EventDelivery` says what the outbox promises without rows, tasks or handlers:
only what was recorded is published, "delivered" is said only of what is in the
topic, "dead" only after the maximum of real failures. Verdicts may be revised:
the code does revise them (see the known divergences below), and the
promise is at-least-once publication. `ImplementsDelivery` is that promise under
the mapping of row status to verdict.

### GroupConsumer

One loop is written three times in the code (`consumer/main.go:98`,
`congestion-worker/main.go:188`, `bridge/main.go:191`). `HandleFails` goes on
without committing; `CommitMessages` sets the group's offset to the message held
plus one, also when the message was fetched before a rebalance. `Rebalance` lets
every reader start again from the committed offsets.

### TaskCache

Where `TaskStore` looks into the transactions, `TaskCache` takes a transaction as
one step and lets time run. The row is its `version`, the number of committed
changes, so "older" is a comparison of numbers. A request is at one of its calls
(`acquire`, `commit`, `write`, `release`; `lookup`, `load`, `write` for a get);
each call takes effect within the request's `Deadline` or fails, because it gets
the request's context, but for the release, which gets a context of its own
(`main.go:436-438`) and may come at any time. `AcquireLost` is a SET NX whose
answer is lost: the handler answers 500 and the lock stays until it expires.
`PythonWrite` changes the row and looks at neither lock nor cache. `changedAt` and
`changedBy` are history variables for the properties. Release compares the token
and deletes in one script (`lock.go:12-17`), hence one step.

### RequestShell

`hand` is the goroutine `WithTimeout` starts for a request, `answer` what the
client was told; they are apart because the select (`httpx.go:164`) may take either
case when both are ready, and because the goroutine goes on after a 504. A request
passes the guards (CORS, database, authentication, tenant), which answer before
the audit middleware is reached and of which the tenant's may need a query
(`TenantFound`, `TenantNotFound`: 404, 403, or 500 when it fails), then the rate
limiter, then its handler. The handler stands for one that makes one change in one
transaction; requests that ask for the same change are each other's retries.

The way out is taken step by step, since the process may die or be stopped between
any two: the transaction takes the row (`Take`, waiting for whoever holds it), finds
the change made (`NothingToChange`: 200 with `changed` or `created` false) or makes
it; `SendCommit` sends COMMIT, which the database decides on its own
(`DatabaseCommits`, `DatabaseDrops`), also after `CommitFails` has answered 500;
`CommitReturns` releases the connection and, with the write to Redis, decides the
response; `StartAudit` starts the goroutine of the record when AUDIT_ENABLED is set
(`auditing`); `Return` completes the response, and only then can `Answer` send it.
`Leak` is the rejected transition of `TaskStore`. `Panic` ends the process: the
recovering middleware defers in another goroutine. `CloseBegins` and `Stop` are
`server.Shutdown` and `dbPool.Close`, which waits until every connection is back,
but not for a goroutine that has none yet.

### RobotStatus

One robot. Of its row only `display_name` matters, which a report reads, holds over
its insert and writes back (`main.go:640-686`). Reports carry the robot's stamps in
any order; the table is read newest first, the cache takes whatever comes last.
`lastPut.alone` and `storedAt` are history.

### CongestionWorker

A handler takes its time once (`HandlerTime`), counts in the window under the mutex
(`Update`), writes the snapshot (`Store`), and compares, marks and inserts outside
it: `Check`, `Mark` and `CreateAlert` are three steps between which the other
goroutine runs. `MapRace` is the concurrent use of a Go map, whose outcome is a
fatal error or nothing. `solo` records whether another handler of the zone was
busy meanwhile; without overlap the code keeps its promises, and the properties
say how far they reach with it.

### RateLimiter, CircuitBreaker, JwksCache

Tokens are counted in the time it takes to earn them, so refill is addition. The
clock is read before the mutex (`rate_limit.go:72`), hence two steps. RATE_LIMIT_RPS
and RATE_LIMIT_BURST are any positive numbers while a bucket lives for two minutes,
so a full bucket may hold more than the time to live earns; `forgotten` counts how
often eviction made a present of the difference (`Excess`). A breaker
call asks once and reports per attempt; `Open`'s three outcomes are three actions.
In `JwksCache` the variable `python` says which of the two services it is: Go
stores keys and expiry under one lock, Python one after the other (`Store`,
`Stamp`), and only Python uses an expired key when the refresh fails (`Usable`);
`fallback` marks what was decided on keys a failed refresh left. The issuer answers a fetch at a moment between its beginning and its store.

### Scheduler, Gateway, Config

Each follows one input from its arrival to the result, and TLC takes every input
in the bounds. `Scheduler` makes one turn of the code's loop per step; the sort is
the insertion sort `sort.SliceStable` uses up to 20 elements. Beyond that it merges
sorted blocks; a stable sort by a strict weak order has one result, so the order
`ScheduleIsFair` speaks of is the same. The code drops the robots without an id
and deals the tasks to the rest in turn: `Given` are the places of the robots kept,
`Place` is where the robot of a turn stands in the request. `Gateway` loads a table
once, then serves; a place's spelling is part of an event and of a route, and
`RouteKey` is what trimming and lower case make of it. `Config` applies the entries
of the file in any order (a map's), then the environment, then the checks. Four
settings stand for the numbers, whose wrong types are problems (`ApplyNumber`), two
for the texts and lists, whose wrong types are passed over in silence (`ApplyText`):
one of the kind a blank entry cannot change (LOG_LEVEL, SERVICE_NAME) and one it can.
ENV is the text that also picks the file (`ApplyName`).

## Runs

| Run | Question | Result |
|---|---|---|
| `outbox_faults` | do verdicts and counters stay truthful, when do two handlers work on one event, who revises a verdict, and is the promise kept, with every fault? | holds |
| `outbox_live` | is every row settled while Kafka and Redis fail? | holds |
| `task_store` | is a task's history a legal path and who holds which row lock, under Go, Python, rejections, rollbacks and restarts? | holds |
| `store_live` | does every request get its answer and every event its row? | holds while nothing is rejected |
| `consumer_faults` | is a message ever passed over without cause, and is each attempted? | holds |
| `services` | does what the services keep in Redis (task lock and cache) and in memory (buckets, breaker, keys) stay within its lifetimes, and are decisions, routes and settings what they should be? | holds |
| `robot_reports` | do snapshots, alerts, cached statuses and names keep up with the reports? | holds, as far as handlers do not overlap |
| `shell` | are answers true, changes made once and recorded, and does the process stop? | holds |
| `outbox_crash` | does a row survive a crash between claim and enqueue? | no |
| `store_leak` | does every event get its row when a transition is rejected? | no |
| `config_env` | does the environment win over the config file? | no, not for ENV |
| `jwks_fallback` | is only an unexpired key cache used when the issuer does not answer? | no, not in Python |

The runs that expect a violation are the findings of `PROJECT.json`, each with the
sentence of the plan it contradicts. Every property of a passing run has a mutant:
a plausible bug in one definition, written beside it, that breaks the property
under the run's own configuration.

`services` and `robot_reports` hold several components that share no state.
`ApiState`, `RobotReports` and `RequestPath` state the conjunction of the
components' specifications, which is what the theorems are about. The MC modules
pick one component per behaviour (`subject`) and let the others rest, so the state
space is the sum of the components' and not the product; as no property mentions
two of them, nothing is lost.

What these and the others show, where the name does not say it:

- `outbox_faults`. `ExclusiveDispatch`: two handlers work on one event at once only
  after an enqueue or a publish of it has failed, whatever else goes wrong: until
  then the status column is a lock. `VerdictStands`: a verdict is revised only by a handler that read
  the row before and is still at work, which the code does not prevent.
- `task_store`. `LocksAreOwned`: a lock without a running writer was left on an
  existing task by a transition Go rejected, and no abort, commit or restart loses
  one otherwise. `AbandonedTasksFreeze`: such a task keeps its status, history,
  outbox and stored events until the API restarts.
- `store_leak`. In the trace a task is cancelled, then asked for a status the table
  forbids before the consumer has the task_canceled event: its insert waits for the
  row lock for ever. A created event would not: the Go API gives it the id its row
  has (`api/main.go:264-287`), so the insert finds a conflict and returns.
- `services`, in Redis. `LockExcludes`: no two cancel or status requests are inside while
  both their locks are alive, so a late release never opens another's lock.
  `BoundedStaleness`: a cached task was the row at some time in the last
  `CacheTTL + Deadline`; a late fill of a get after a write-through costs the
  deadline, no more. `OrderedWriteThrough`: under a live lock the newest version
  made under the lock is the one written through.
- `services`, in memory. `AdmissionBounded`: rate and
  burst hold in every window, up to the spread of the clocks, and up to the excess
  of a full bucket over the time to live for each time the client was forgotten in
  it, at most once in a time to live. With the defaults (5 per second, burst 10) the
  excess is nothing; the run has a burst of four with a time to live of one, where
  the bound without it is exceeded. `OpenEndsInTime`: late failures prolong the open
  time only as long as calls let through before have attempts left.
  `WithdrawnKeysExpire`: the Go API accepts a replaced key for less than the time to
  live and two fetches; the second fetch is real, an older answer stored late and a
  fetch begun before it that fails. `RenewedKeysExpire`: nor longer does the Python
  service on a cache it takes to be fresh; on an expired one it does, without limit,
  which is the finding `jwks_fallback`. `RejectedForCause`: the present key is
  refused only to a request that another one overtook.
- `robot_reports`. `AlertsAreSpaced`, `SilenceHasCause`, `SnapshotsMoveForward` (see
  `CongestionWorker`); `CacheSettles`: after the last report the cached status is a
  newest one within `CacheTTL + Deadline`; `RenameSticks`: a PUT is undone only by
  a report that held the older row when it came.
- `shell`. `AnswerTellsTruth`: a success is told only of a change that is in the
  database, a refusal only to a request that has not made it and never will, also
  with a COMMIT still undecided. `MadeOnce`: whoever retries after a 504 or a 500, the
  change is made at most once. `ChangesAreAudited`: past the two places between the
  commit and the start of the audit, every change has a record under way or decided
  that does not deny it; in between there is a window in which a process that ends
  leaves none. `EventuallyStopped`: after SIGTERM the process ends unless a
  transaction was leaked (with one, `dbPool.Close` waits for ever).
- `services`, decisions. `NoMovePays` and `ScheduleIsFair` compare the core's loops with what they are to
  achieve. `OneClusterPerPlace` and `TargetsAreReachable` cover every bounded
  routing table; a tenant written as another form of its UUID does miss its route.
  `SettingsExplained` covers every bounded file and environment: numbers are the last
  source's or reported, texts the last usable word's. Of the service's own ENV not
  even that holds (`config_env`).

### Known divergences without a run

Met while modelling, described here and stated in the modules where a definition is
named, but not asked by a run of their own:

- After a failed publish the row is pending again and asynq retries the task too:
  two handlers may dispatch one event (`worker/main.go:159`). `ExclusiveDispatch`
  says that this and a failed enqueue are the only ways.
- A transition's row and its envelope have different ids, so the consumer stores the
  change twice (`tasks.go:194`; `OneRowPerChange`).
- The Python service writes no outbox row (`main.py:406`; `OutboxMatchesHistory`
  holds, and is proved, for histories of the Go API alone).
- A message whose handler fails once is passed over by the next commit
  (`bridge/main.go:223`; `EventuallyInSink`). `SkippedOnlyByFailure` is checked and
  proved.
- The audit record was to cover failed authentication (`IMPLEMENTATION_PLAN.md:337`,
  and `audit.go:109`), but the audit middleware is inside the authentication
  (`api/main.go:1129-1148`), so a 401 never reaches it: `Refuse` starts no audit.
- With the audit log on, the record of a write request is to be found after it, or a
  warning that it could not be written (`IMPLEMENTATION_PLAN.md:372`, `:339`). A
  panic, a kill, and also an orderly stop end the audit goroutines: `main` closes the
  pool and returns (`api/main.go:1211`) without waiting for one that has no connection
  yet. `RequestShell` has these steps: `Stop` may find `audit[r].pc` at "begun".
- The event stream of the API (`api/main.go:927`) asks for an `http.Flusher`; the
  response writer of `WithTimeout` (`httpx.go:194`) is none, so behind the shell the
  endpoint always answers 500 "stream unsupported".

### Bounds and why they are enough

- Outbox: two workers give every pair of overlapping handlers (scan and scan,
  scan and dispatch, two dispatches of one row, a stale one and a fresh one); two
  rows with a batch of two give a scan that stops half way; two attempts and one
  asynq retry reach the budget's limit and a task archived before its row is dead.
  `outbox_live` uses one row, three attempts and two retries: rows meet only in
  the batch. `TaskIds` bounds the asynq tasks alive at once; with three slots in
  `outbox_live` a scan never waits for a slot for ever.
- TaskStore: one key, two Go requests and one Python request give every pair of
  writers of a task with a third one in between; tasks share only the pool. A task
  changes at most three times (`MaxChanges`: pending, running, a terminal status),
  so histories are bounded by the code itself. `PoolSize` is 2 in `task_store`,
  so that transactions overlap, and 1 in `store_live`, so that the pool is full
  while requests wait.
- GroupConsumer: one partition of three messages (`MaxLog`), two consumers and
  two crashes or rebalances (`MaxMoves`) give a stale commit after a new owner's,
  forward and back. Partitions share nothing but the loop that serves them; the
  theorem is for any number.
- TaskCache: three requests (a creator or a holder, one that follows it, one that
  reads), three versions, lifetimes of one tick and a clock of three (`MaxTime`):
  a lock expires under its holder, is taken again and is released late, and an
  entry expires twice. The theorems are for all values.
- RobotStatus: three requests, two stamps, lifetimes of one tick, a clock of four:
  a report, a second one out of order and a PUT or a get between their steps.
- CongestionWorker: both goroutines on one zone (zones share nothing but the maps),
  windows of three events (`MaxQueue`) with thresholds 2, 3 and 4 tenths, so that
  two levels are reached, a cooldown of two ticks in a clock of four, one restart.
- RateLimiter: two callers of one client (buckets are independent), a burst of
  four, eviction after one tick, a clock of seven: a bucket is emptied, forgotten
  and full again several times over. CircuitBreaker: three calls, a threshold of three, one retry and
  a clock of eight: a breaker trips, lets through again and is tripped by an old
  call. JwksCache: three requests, one rotation, a time to live and fetches of one tick,
  a clock of four: one stores late, another renews or fails, the third still reads
  what they left.
- RequestShell: two requests for one change and two connections: a handler, its
  retry, an audit goroutine and a leaked transaction compete for them, and one of two
  waits for the row the other holds.
- Scheduler: every request of up to four tasks over three warehouses, with blank,
  repeated and missing candidates and robots, two priorities and three ages (one of
  them missing). Gateway: every table of up to two routes over two places and two
  clusters, two events. Config: every file of up to two entries, numbers below, in
  and above their ranges, texts given, blank and of a wrong type; of the environment
  at most two settings at once (`FewGiven`), since only the two pool sizes have to
  do with each other.
- Symmetry is used in runs of safety properties only, over requests or goroutines
  that no definition tells apart.
- Deadlock is not checked where the system may stop: all rows settled, all requests
  served, the process ended, or a bound reached. TaskStore is checked for deadlock in `store_live`.

### Fairness

- Outbox: a running handler continues (`WF`); a periodic scan and a queued task
  get a free handler, `SF` because handlers are busy now and then: asynq's queue is
  FIFO and its scheduler re-enqueues the scan every `OUTBOX_SCAN_INTERVAL`. The
  clock passes `next_retry_at`. No fault is fair, and none has to stop: the
  attempts' budget ends the retries.
- TaskStore: Postgres queues waiters of a lock, the pool those of a connection
  (`SF`); a transaction that has its lock commits or aborts (`WF`). Requests are
  not assumed to be saved by their deadline: `EveryRequestAnswered` must hold
  without it.
- GroupConsumer: the loops run, partitions are assigned, and a reader hands out
  the messages of each of its partitions (`SF`).
- RequestShell: a handler's goroutine and an audit goroutine go on, because their
  calls to the database return or fail in the end (a waiting one has `AcquireFails`
  and `AuditGivesUp`, its context's end); `Shutdown` returns after ten seconds at
  the latest; `Close` returns when it can (`WF`). No client has to arrive, no signal
  to come.
- The other modules have safety properties only and no fairness.

## Proofs

`tlapm` proves every theorem for all values of the constants that satisfy the
modules' assumptions: distinct names, positive limits. Two theorems have a
hypothesis of their own, named below: `RecoveryCorrect` and `OutboxCorrect`.

- `Outbox_proofs`. `TypeCorrect`; from it `BudgetCorrect` (what a handler saw
  plus one never exceeds the budget, which is why the type invariant bounds `seen`
  below `MaxAttempts`). `DeliveredCorrect` strengthens "delivered implies
  published" by "a handler past its publish holds an event of the topic".
  `DeadCorrect` needs that every counter anyone holds, in a row or in a handler's
  stale read, is at most the number of real failures: lost updates can only lower
  it. `RefinesDelivery` maps each step to a step of `EventDelivery` or to a
  stutter, from those invariants. `RecoveryCorrect` assumes no crash and no
  database error. `ExclusiveCorrect` assumes nothing: of an event without a failure
  the invariant says that its row has one owner, the scan holding it or its one task,
  and is in "sending" until its owner marks it; whoever is on a failure path works on
  an event that has failed. `VerdictCorrect` assumes nothing: a claim takes only rows
  without a verdict, so what revises one is an update by id of a handler at work.
- `TaskStore_proofs`. `HistoryCorrect`: the invariant adds what a request in
  its transaction knows: it holds the lock, the status it read is still the
  status, and the transition it is about to write is legal. `OutboxCorrect`
  assumes there are no Python requests, which is what the code violates otherwise.
  `LocksCorrect` and `FrozenCorrect` assume nothing: who locks a row writes it or
  left it behind, every step that changes a task or stores one of its events needs
  the lock free or its own, and only a restart frees what was left.
- `GroupConsumer_proofs`. `SkippedCorrect`: every offset below the reader's next
  one that is not attempted is in the hand of a loop, or is not committed; a held
  message's predecessors are attempted or belong to the same argument for another
  loop.
- `TaskCache_proofs`. `LockCorrect`: whoever is inside and within the lifetime of its
  lock owns the lock. `StalenessCorrect`: a version about to be cached was the row
  when the request came or later, so a cached one expires at most `CacheTTL +
  Deadline` after it was replaced. `OrderCorrect` adds to the lock's invariant that a
  version newer than the one a protected request holds was made outside the lock.
- `RequestShell_proofs`. The invariant relates the handler's place to its transaction
  (who may have written, who still may) and its status to the database ("ok" only when
  the change is there, "refused" only without one), the client's answer to the
  handler's, and every change to its place in the handler or its record.
  `RetryCorrect`: of the requests for one change at most one holds its row or has
  made it, because who takes the row waits for the holder's end, a sent COMMIT
  included, and then sees what it did. `AuditCorrect` follows the handler from the
  commit to the start of the audit.
- `ApiState_proofs`, under `ApiAssumption`, the assumptions of the three components.
  `ApiTypeCorrect`. `AdmissionCorrect`: what a client spent since the accounting
  began, less what its bucket could have earned up to its last use, fits in a full
  bucket plus `Delay`; each time the client is forgotten adds at most the excess of a
  full bucket over the time to live, for any two of them, and that many times
  needs that much time; clocks out of order count because they are at most `Delay`
  apart. `OpenCorrect`: an attempt under way was sent within its
  timeout, and no later than its call was let through plus one timeout for each
  attempt before it; so the last failure that can prolong the open time is bounded.
  `WithdrawnCorrect`: a request that has stored and not looked yet began within one
  fetch of the withdrawal of whatever withdrawn key is cached, which bounds the
  expiry another may still set and the time it may still be read; what a failed
  refresh leaves to the Go cache was unexpired when the refresh began.
  `RenewedCorrect` is the same for Python but for the fallback. `RejectedCorrect`:
  what a request stored is cached when it looks unless it was overtaken, and is no
  older than its token's key.
- `RobotReports_proofs`. `StatusTypeCorrect`, for the statuses. `RenameCorrect`: after
  a PUT that no report overlapped, the row and every report between its read and its
  write hold the PUT's name (`NameKept`). `CacheCorrect`: a request that came after
  the last report and is about to fill the cache holds a newest status (`HeldOK`), so
  an entry that is not one was put there within `Deadline` of that report
  (`CachedOK`). `SpacingCorrect` and `SilenceCorrect`: while a handler is the only one
  of its zone, the zone's alerts and snapshot are no younger than it and it has set
  `lastAlert` itself (`HandlerOK`); after an alert no handler overlapped, the
  cooldown counts from it or later, and whoever is past the check is a cooldown
  behind it (`AlertHolds`). `ForwardCorrect` is an action property of the same
  invariant.
- `RequestPath_proofs`, under `PathAssumption`. `PathTypeCorrect`, for all three.
  `OneClusterCorrect` and `ReachableCorrect`: the resolver is what the loaded table
  says and there is a producer for each of its clusters (`LoadedOK`), or nothing is
  loaded and nothing is sent. `SettingsCorrect`: until the environment is read a
  number is what the file has said so far or its default (`FileWord`), then what the
  last source says (`LastWord`), or its trouble is on the list; a text is one of the
  file's usable words so far (`TextsInv`), then what the environment says; the order
  of the file's entries does not matter. `AssignmentCorrect`: the load the code keeps of a
  warehouse is the number of tasks placed there, so the least load is found among
  the candidates, and later tasks only add. `ScheduleCorrect`: the tasks inserted so
  far are the first of the request, each once, in order, because the comparison is a
  strict weak order and equal tasks keep their places; the schedule deals them in
  turn. That no robot is two tasks ahead follows because `Place` counts the robots
  kept without gaps, so the turns of a robot are those of one remainder, and the
  turns of a later remainder can be shifted onto those of an earlier one.

Only model-checked: liveness (`EventuallySettled`, `EveryRequestAnswered`,
`EveryEventStored`, `EventuallyAttempted`, `EventuallyStopped`), since fairness and
ENABLED are out of the prover's reach. The type invariant of `CongestionWorker` is
not proved as a whole: its windows are pruned by `SelectSeq`, of which the prover
knows nothing, and the part the two theorems on alerts need does not depend on the
windows (`WorkerTyped`). Every other safety invariant and action property of the
passing runs has a theorem. Where a property of a finding is concerned
(`outbox_crash`, `store_leak`, `config_env`, `jwks_fallback`) the
theorem has the assumption the code violates, or there is none.

## Not modelled, and what is left

- A composition of `TaskStore`, `Outbox` and `GroupConsumer` through the topic. The
  modules meet at an interface each already has (a row of the outbox, a message of
  the topic), and each takes any input there, so the composition adds no behaviour;
  its one new property, that each change reaches every reader, fails already for
  the reasons the divergences above give.
- The API without Redis: no lock and no cache; `TaskStore` is that case.
- The relay of the core to RMF: HTTP with retries, nothing kept. The status it
  publishes is an event like any other for `GroupConsumer`.
- Congestion zones that are no UUID, speeds, and the best-effort output of the
  worker; the read endpoints and the acknowledgement of alerts.
- Topics, partition keys and envelopes of the gateway; headers and tracing.
- Signatures and claims of tokens, the comparison of tenants, CORS.
- The Python service but for its task writes and its key cache: the prediction is a
  pure function of one request.
- Logging, metrics, tracing, Influx (best effort, nothing reads them back into a
  decision), migrations, deployment files.
