# TaxLien gateway: specification and verification

The gateway hands scraping tasks to workers, stores what they find and serves
the public API. The repository holds two programs: the Go gateway
(`cmd/`, `internal/`, `pkg/`), which serves the Worker API, and the Python
gateway it replaces (`legacy/`), which also serves the public API. Both keep
their state in Redis and PostgreSQL and none in the process, except the circuit
breakers of the Python gateway. What is hard about them is therefore what
happens *between* two commands to Redis or PostgreSQL: another request, an
error, a lost answer, an expired key, a restart.

## 1. Inventory

| Component | Where | State | Operations | Modelled in |
|---|---|---|---|---|
| Task queue | `internal/service/queue.go` | Redis lists `queue:<platform>:p<1..4>` and `processing:<worker>` | `PopTasks`, `CompleteTask`, `FailTask` | `TaskQueue` |
| Work and tasks handlers | `internal/handler/work.go`, `tasks.go` | none | `GetWork`, `CompleteTask`, `FailTask` | `TaskQueue` |
| Results | `internal/handler/results.go`, `service/properties.go`, `migrations/` | table `parcels` | `SubmitResults`, `UpsertParcel` | `WorkerResults` |
| Worker registry | `internal/service/worker_registry.go`, `handler/heartbeat.go` | hash `worker:<id>:status` with a time to live | `Heartbeat`, `Update` | `WorkerRegistry` |
| Raw files | `internal/handler/raw_files.go` | files of the storage directory | `UploadRawFile` | `RawFiles` |
| Authentication, request id, logging, metrics | `internal/middleware/` | counters | per request | no |
| Wiring | `cmd/`, `internal/server`, `internal/config`, `pkg/` | the Redis client and the pool, open or closed | start, stop | `Gateway`, the life of the process |
| Legacy worker queue | `legacy/app/services/worker_queue.py` | the same lists | `push_task`, `pop_tasks`, `complete_task` | `LegacyQueue` |
| Legacy results | `legacy/app/api/internal/*/results.py`, `services/properties.py`, `core/db.py` | table `parcels`, one transaction per request | `submit_results` | `LegacyResults` |
| Rate limiter | `legacy/app/services/ratelimit.py`, `core/ratelimit.py` | hash `ratelimit:<tier>:<id>` | one Lua script | `TokenBucket` |
| Usage limits | `legacy/app/services/usage.py`, `core/authorization.py` | counters `usage:<user>:<feature>:<date>` | `check_and_increment` | `UsageTracker` |
| Upstream client | `legacy/app/services/http_client.py` | a breaker per service, in the process | `can_execute`, `record_success`, `record_failure`, `request` | `CircuitBreaker` |
| Public API and property cache | `legacy/app/api/v1/`, `services/cache.py` | `cache:prop:<parcel>:<tier>` | endpoints | `PublicApi`, the property endpoints |
| Legacy authentication | `legacy/app/core/auth.py` | none | per request | `PublicApi`, the public routes |
| Legacy monitoring | `legacy/app/api/internal/monitoring.py` | the hash of the worker registry | `heartbeat` | `WorkerRegistry` |
| Legacy proxy, raw files, metrics, logging, main | `legacy/app/` | files, counters | | no |

How they interact: every handler runs in a goroutine (Go) or a task of one event
loop (Python) and calls Redis and PostgreSQL. The work, tasks and results
handlers share the lists; the results handler calls `UpsertParcel` and then
`CompleteTask`. The public endpoints pass authentication, the rate limiter, the
usage limit, the cache and the breaker in this order. There are no callbacks and
no messages between gateways; the workers and the producer of the tasks are
external. Both programs serve the same lists and the same statuses, so that the
two may run side by side. A signal ends the Go gateway: it lets requests finish
for five seconds, then closes the pool and the Redis client under what still
runs.

What makes each part correct:

- *Queue*: a task is handed to one worker, is not copied, is not lost except by
  a fault, and leaves the processing list by its own acknowledgement only.
- *Results*: a task is completed only when its parcel is stored; the response
  accounts for the batch.
- *Stop*: a stop that lets its requests finish loses nothing; one that does not
  loses no result.
- *Registry*: a status in Redis means a heartbeat within the time to live.
- *Raw files*: an upload answered ok is the content of its file, and every file
  is in the storage directory.
- *Rate limiter, usage limits*: never more than the limit, and never stricter.
- *Breaker*: open after enough failures, and open only as long as needed.
- *Public API*: a client gets details of its parcel for its tier, and none that
  are older than the cache allows.

The hazards, each with its line and the properties aimed at it, are in
`PROJECT.json`.

## 2. Modules

| Module | What it is |
|---|---|
| `TaskQueue` | the queue and its three routes; one action per Redis command |
| `TaskLedger` | what the queue promises: submitted, claimed, settled |
| `LegacyQueue` | `TaskQueue` with both gateways on its lists |
| `WorkerResults` | `TaskQueue` composed with `POST /internal/results` and the table |
| `Gateway` | `WorkerResults` composed with the start and the stop of the process |
| `WorkerRegistry` | heartbeats |
| `RawFiles` | uploads to files |
| `LegacyResults` | the Python results handler and its transaction |
| `TokenBucket` | the rate limiter |
| `UsageTracker` | the daily limits |
| `CircuitBreaker` | the breaker |
| `PublicApi` | authentication, the property endpoints, their cache and the breaker they share, composed |
| `TaskQueueProofs` (also `LegacyQueue`), `GatewayProofs`, `WorkerRegistryProofs`, `RawFilesProofs`, `LegacyResultsProofs`, `TokenBucketProofs`, `UsageTrackerProofs`, `PublicApiProofs` (also `CircuitBreaker`) | theorems |
| `MC*` | instances for TLC, one `.cfg` per run |

The modules extend each other where the code shares state: `TaskQueue` is
extended by `LegacyQueue` and by `WorkerResults`, this one by `Gateway`;
`CircuitBreaker` by `PublicApi`. `TaskQueue` implements `TaskLedger` through the
refinement mapping at its end.

### TaskQueue

`redis` maps the keys of the lists to sequences whose first element is the head.
An element stands for a raw JSON payload; `TaskIdOf` gives the task id the Go gateway
reads in it, or `None` when this is no id that a worker asks for (JSON without
`task_id` decodes to an empty one); the payloads of `Undecodable` do not decode.
Two payloads may hold one id: the
same task pushed twice, with two values of `created_at`. `getReq[c]` and
`ackReq[c]` are the local variables of a goroutine between two commands.

`GetWork` applies the defaults and bounds of the handler. `PopTask`, `PopEmpty`,
`PopUndecodable`, `PopFails` and `PopResent` are one `RPOPLPUSH` each with its
outcomes, and `NextList` is the order of the two loops. The inner `break` leaves
one loop and the outer condition leaves the other, so that together they stop
at `PopDone`. `SendWork` and `LoseWork` are the response. `AckLRange` and
`AckLRem` are the two commands of `CompleteTask`, which `FailTask` calls: both
routes are one action. An error before or after a command ran is one action with
both outcomes.

A fault is one of: a failed command (executed or not), a command the client
library sends twice, a lost response, a restart of the gateway, a restart of a
worker that forgets its tasks. `MaxFaults` bounds them. `received` is what the
workers hold. The producer pushes payloads that nothing mentions any more.

### LegacyQueue

The Python `pop_tasks` and `complete_task` send the commands of `PopTasks` and
`CompleteTask` in the same order. What differs is what each gateway can read:

| Constant | Payloads | What happens to them |
|---|---|---|
| `Undecodable` | Go's `json.Unmarshal` into `WorkTask` fails | Go answers 500 when it pops one and passes over it in a search |
| `Rejected` | Python's `WorkTask(**json.loads(raw))` raises | Python answers 500 when it pops one |
| `Unreadable` | Python's `json.loads(raw)["task_id"]` raises: no JSON, no object, no `task_id` | also, Python answers 500 when a search comes to one |

`Unreadable` is part of `Rejected`, because `WorkTask` needs a `task_id`.
Nothing else relates the three. `push_task` writes payloads that are in
`Undecodable` only: their `created_at` comes from `datetime.utcnow` and has no
zone, which Go's `time.Time` does not parse. A payload without `task_id` is in
`Unreadable` and not in `Undecodable`, since Go takes it for an empty id. `LegacyIdOf` is the task id
Python reads where `TaskIdOf` is what Go reads.

`LegacyPopTask` and `PopRejected` are `rpoplpush` in Python, `LegacyLRange` and
`SearchRaises` the search: it ends at the first payload that holds the id or
raises (`StopsAt`). `LegacyGetWork` is the route, whose bounds refuse what the Go
handler replaces by a default. A request for work is answered by one gateway;
`MayBeGo` (a guard of `TaskQueue`, where it holds as long as Go serves alone) and
`MayBePython` say which of them could have read all it took so far. The gateway
of an acknowledgement is chosen at `LRANGE`, the only step at which the two
differ. `Crash` ends the requests of both; a restart of one of them alone
is the same as a failure of each of its requests.

### WorkerResults

Extends `TaskQueue` with `subReq` (goroutines of the results handler), `parcels`
and `inserts` (the parcels some submission counted as inserted). `SelectExists`
and `UpsertParcel` are two transactions of their own, as the connection pool runs
them. `UpsertFails` covers an error after the statement ran. The steps are
grouped by what the life of the process does to them: `QueueRequest` and
`ResultsRequest` begin a request, `QueueStep` and `SubStep` go on with one,
`ExternalStep` is a push or the restart of a worker. A push must not reuse a
payload a submission still names, and a crash also ends the submissions.

### Gateway

`phase` is how far `main` is: the client and the pool are opened and pinged, the
listener serves, a signal drains it, the deferred calls close the pool and then
the client, the process ends. `Drained` is a `Shutdown` that found no request in
progress, `GraceOver` one whose five seconds were over; the code ignores the
error and goes on in both cases. Requests are accepted while `phase` is
"serving" and go on as long as their client is open; `PoolClosed`, `PopClosed`,
`AckClosed` and `CompleteClosed` are the commands and statements that meet a
closed one. `Exit` ends what still runs. The queue, the table and the lists of
the workers stay as they are across all of it.

### LegacyResults

One transaction per request: the rows it wrote (`rows`) become visible when it
commits, and other upserts of such a row wait (`Blockers`). PostgreSQL breaks a
cycle of waits by failing a statement, after which the transaction refuses every
statement. `CompleteLRange` and `CompleteLRem` remove tasks before `Commit`.
`CompleteFails` is a Redis error, also one after `LREM` ran: the task is gone and
its result is counted as failed.
The parcel and the party routes run the same code.

### WorkerRegistry

`life` is the remaining life of each status: `HSET` keeps it, `EXPIRE` resets it
if there is a key. `seen` is the age of `last_seen`, which a request reads
before `HSET`: `beat[c].age` is the time since then, and a request that was
overtaken writes an older one. The other fields are written together with it and
left out. `MaxDelay` is the longest time a request takes. The Python route sends
the same two commands to the same key.

### RawFiles

`storage` maps the names of files to their cells; a cell holds the body that was
last written there, or `None` in a hole. `Create` truncates, `Write` writes the
next chunk at the offset of its own descriptor, so that two uploads of one file
write over and past each other. The handler has the whole upload before it
creates the file, so no step reads from the network. Names are sequences of
characters, because `sanitizeFilename` is what decides which uploads meet:
`Base`, `TrimSpace`, `DropDotPairs` and the cut at `MaxName` are operators of
their own, and `FileOf` reads the clock for a name that is not usable.
`DropDotPairs` reads a name once, as `strings.ReplaceAll` does, and `KeepChar` is
what it makes of the next character. `Timestamp` stands for the format of the
clock in one character, of which only that it is plain is assumed. `mixed`
and `answered` are histories: `mixed` are the files that had two writers, or one
that failed, since a lone upload created them.

### TokenBucket, UsageTracker, CircuitBreaker

`TokenBucket` counts in units so that the arithmetic stays in the integers;
`stamp` is the time the gateway read before it sent the script. The client of
the gateway has a pool of connections, so a script may run after one that was
sent later; it is then `Late`, the code takes no time to have passed, and writes
its older time. `MaxDelay` bounds the time between the two steps. The client
sets no timeout, so it is an assumption: in the code's units it may be up to
3550 seconds (`ExpiryAssumption` for the anonymous tier). The histories count
the grants by their timestamp (`total`), by the time they ran (`since`) and
those of late scripts (`lateSince`). `UsageTracker` reads the date before
`INCR`, so that a request can count on the day before; `granted[k][n]` are the
requests granted to tiers with a limit of at most `n`, if they counted on their
date.
`CircuitBreaker` lets any number of calls be in flight and end in any state;
`quiet` is the time since `last_failure_time`.

### PublicApi

Extends `CircuitBreaker`: `inFlight` are the requests whose `api[r].pc` is
`"call"`. `Enter` is a request that passed authentication and the limits, which
are left open here (`TokenBucket` and `UsageTracker` model them) because a
request that is refused leaves no trace in this state. `Tier` is the tier
`AuthMiddleware` assigns; `ClaimedTier` describes tokens with a claim, whose tier
is a string and whose requests fail at `auth.tier.value`. Parcel `None` stands
for the search, which uses the breaker and not the cache. `CacheHit`, `CacheMiss`
and `CacheFails` are `GET`, `StoreAnswer` and `StoreFails` are `SETEX`,
`StartCall`, `RefuseCall`, `CallAnswers` and `CallRaises` the call. An answer
carries what it was asked for and its age; an entry also its remaining life.
`Time` takes the step of the breaker's clock with it. `Cancel` is a request whose
client is gone: neither branch of the breaker runs for its call.

## 3. Runs

| Run | Properties | What it shows |
|---|---|---|
| `Queue` | `OnePlace` `DeliveredOnce` `StrandedOnlyByFault` `SuccessMeansGone` `RemovedOnlyByItsAck` `ImplementsLedger` | nothing is copied or handed out twice; what no worker can complete was stranded by a fault; `LRANGE` and `LREM` of two requests interleave without harm; refinement of `TaskLedger` |
| `QueueBounds` | `TypeOK` `ResponseBounded` `NoStarvation` `HeldTasksSettled` `RemovedOnlyByAnAck` | both gateways on the lists, and payloads only one of them reads: the bounds of the two loops; entries of every list are taken in the end; a worker that goes on acknowledging a task both gateways read gets rid of it, except behind a payload that makes the Python search raise or its own twin; entries leave by an acknowledgement of the id one of the gateways reads in them |
| `Gateway` | `GatewayTypeOK` `GracefulLosesNothing` `EveryResultCounted` `StoredIffInserted` `CompletedOnlyWhenStored` | stops that drain in time strand nothing; counters and the end of the loop after `MaxErrors + 1` failures; no completed task without its parcel, even when the clients are closed under a batch |
| `RawFiles` | `TypeOK` `AnsweredKept` `PlainFiles` | an upload answered ok alone is all its file holds; every file has a plain name |
| `Registry` | `TypeOK` `ForeverOnlyByFault` `StatusFresh` `SilentWorkerForgotten` | a status without time to live needs a fault; heartbeats that overtake each other set `last_seen` back by a bounded time; the status of a silent worker disappears |
| `Legacy` | `TypeOK` `LostOnlyByAbort` `SubmissionsEnd` | without aborts, completed tasks are stored; crossing batches do not wait for ever |
| `LegacyLost` | `CompletedIsStored` | **violated**: tasks are removed before the rollback |
| `Bucket` | `TypeOK` `RateKeptInOrder` `RejectsOnlyAtLimit` `LateCostsADelay` | exact over every interval, across expiries of the key, until a late script is granted; then each late script costs at most one more delay |
| `BucketReordered` | `WithinRate` | **violated**: a delayed script sets `updated_at` back |
| `UsageLimits` | `TypeOK` `WithinLimit` `RefusedOnlyAtLimit` `EveryCounterExpires` | never more than the limit of a day, across upgrades; never refused too early; no counter for ever |
| `UsageUnlimited` | `UnlimitedNeverRefused` | **violated**: the search endpoints refuse every tier |
| `PublicApi` | `ApiTypeOK` `ClosedIffBelowThreshold` `ServedAsAsked` `ServedFresh` `OpenEnds` `RecoversWithService` | details fit the parcel and the tier and are fresh, whatever requests overtake each other; the state of the shared breaker follows its counter, and it recovers |

Some things follow from what holds only under a condition.
`StrandedOnlyByFault` needs its condition: no code moves entries from a
processing list back to a queue, so each fault it excludes strands entries for
ever (the requirements list this as open work). `GracefulLosesNothing` needs
`~cut`: requests that outlive the five seconds lose what they popped, although
nothing failed. `HeldTasksSettled` is about payloads that both gateways
read alike (`ReadAlike`): an acknowledgement of any other that reaches the wrong
gateway does not find it, and one that always does never settles it. It excludes
`Behind`: one payload that is no JSON or has no `task_id` in the processing list
of a worker keeps the Python gateway from every older task of this worker, and a
later push of the same task is found first. `RateKeptInOrder` and `RejectsOnlyAtLimit` hold until a
late script is granted, and `BucketReordered` shows that the rate is not kept
after that; `LateCostsADelay` says by how much it can be exceeded, in the same
specification. Its bound is reached in the run: without the delay for every late
script, or without the first one, it is violated.

### Bounds

- `Queue`: two workers, two requests for work and two acknowledgements, two
  payloads of one task id, two priorities. Every hazard of the queue is about
  two requests that meet in one list; a third adds no new pair. One fault per
  behaviour reaches each of its kinds at each place.
- `QueueBounds`: one worker, one request of each kind, and three payloads: one
  both gateways read, its twin that only Python reads (`Undecodable`, as
  `push_task` writes it) and one that only Go reads (`Rejected` and `Unreadable`:
  JSON without `task_id`). The
  loops pass through a list twice (a platform named twice), stop at capacity and
  at the end of the platforms, and meet an empty list.
- `Gateway`: two submissions of the empty batch or of three results, two of them
  for one parcel, next to one request for work and one acknowledgement for one
  payload. `MaxErrors` of 1 lets the loop give up within a batch, and closed
  clients let it fail without a fault. Every request can be cut off at each of
  its steps by a signal or a crash, and the process starts again.
- `RawFiles`: two uploads of two chunks and of one, six names of which three
  meet after `sanitizeFilename`, one is the directory and one has no usable
  character; two seconds; names are cut at 3. A longer file is overwritten by a
  shorter one, by two at a time, and by one that fails.
- `Registry`: three connections for two workers, so that a heartbeat is retried
  while another is in progress; a time to live of 2 ticks and requests of at
  most one.
- Legacy results: two requests with batches in opposite orders, the smallest
  deadlock.
- Bucket: two tokens of two units and one unit per tick, so that the bucket is
  full, empty and part full; the clock runs past the expiry of the key. A script
  may take two ticks, so that two scripts overtake each other by up to two, and
  several late ones follow each other.
- Usage: two days of two ticks, limits 2 and 3 and unlimited. `MaxCount`, the
  highest limit, stops new limited requests for a counter that is beyond it. Two
  faults: a command may fail and the gateway restart on the same day.
- Public API: two requests, of one parcel or the search, with two tiers and two
  kinds of clients that are refused. A threshold of 2 lets the calls of both
  requests open the breaker, or one of them end after the other opened it. A
  time to live of 2 lets an entry age, be found and expire; `MaxDelay` of 1 lets
  an answer wait for `SETEX` while the other request stores its own.
  The counter of
  failures stays at `MaxFailures` when it gets there: the code only compares it
  with the threshold, which is no more than `MaxFailures`. One fault of any kind.

Symmetry is used in runs that check safety only. Deadlock is checked in every
run that is not a violation: the gateway can always take another request.

### Fairness

- `QueueBounds`: the gateways run their requests (weak fairness of
  `GetStepOfEither` and `AckStepOfEither`) and a poll for every list is
  accepted infinitely often (strong fairness of `FullPoll`): workers poll again
  after `retry_after`, and `net/http` starts a goroutine for each request, which
  the model's bounded set of goroutines must not hide. `Covers` says what such a
  poll is; without it entries do starve, because the loops end at capacity.
  Strong fairness of `Acknowledge` is the worker of `HeldTasksSettled`, which
  acknowledges again until it succeeds. The producer pushes finitely many
  payloads of `Rejected` and `Undecodable`: each may end the poll that takes it,
  so that an endless supply in the first list would keep polls from the others.
  This is an assumption on the producer, and a real one: were the tasks of
  `push_task` sent to the Go gateway, each of them would end a poll.
- `Registry`: time passes and goroutines run. A tick waits for a request that
  has taken `MaxDelay`. The Redis client of the Go gateway has timeouts; the
  Python one sets none (`core/redis.py`), so that for its heartbeats `MaxDelay`
  is an assumption on Redis and the network.
- `Legacy`: requests run, PostgreSQL breaks cycles and queues the
  transactions that wait for a row (strong fairness of `UpsertRow`).
- `PublicApi`: time passes, the event loop runs each request (weak fairness of
  `Progress`; a call ends, at the latest by its timeout of 30 seconds), and
  requests that pass the limits keep coming (strong fairness of `Entered`,
  because the model's two requests may both be busy). Cancelled requests and
  restarts are faults, of which there are finitely many.

## 4. Proofs

TLAPS proves, for every value of the constants:

| Theorem | Statement |
|---|---|
| `TaskQueueProofs!TypeCorrect` | `Spec => []TypeOK` |
| `TaskQueueProofs!PayloadsInOnePlace` | `Spec => []OnePlace` |
| `TaskQueueProofs!QueueImplementsLedger` | `Spec => ImplementsLedger` |
| `TaskQueueProofs!SuccessIsFinal` | `Spec => []SuccessMeansGone` |
| `TaskQueueProofs!EntriesAwaitTheirAck` | `Spec => RemovedOnlyByItsAck` |
| `TaskQueueProofs!HandedOutOnce` | `Spec => []DeliveredOnce` |
| `TaskQueueProofs!ResponsesBounded` | `Spec => []ResponseBounded` |
| `TaskQueueProofs!NothingStranded` | `Spec => []StrandedOnlyByFault` |
| `TaskQueueProofs!BothTypesCorrect` | `LegacySpec => []TypeOK` |
| `TaskQueueProofs!BothKeepOnePlace` | `LegacySpec => []OnePlace` |
| `TaskQueueProofs!BothAwaitTheirAck` | `LegacySpec => RemovedOnlyByAnAck` |
| `TaskQueueProofs!BothHandOutOnce` | `LegacySpec => []DeliveredOnce` |
| `TaskQueueProofs!BothSuccessesFinal` | `LegacySpec => []SuccessMeansGone` |
| `TaskQueueProofs!BothResponsesBounded` | `LegacySpec => []ResponseBounded` |
| `TaskQueueProofs!BothImplementLedger` | `LegacySpec => ImplementsLedger` |
| `GatewayProofs!GatewayTypeCorrect` | `GatewaySpec => []GatewayTypeOK` |
| `GatewayProofs!BatchesCounted` | `GatewaySpec => []EveryResultCounted` |
| `GatewayProofs!InsertedParcelsStored` | `GatewaySpec => []StoredIffInserted` |
| `GatewayProofs!StoredBeforeCompleted` | `GatewaySpec => CompletedOnlyWhenStored` |
| `GatewayProofs!GracefulStops` | `GatewaySpec => []GracefulLosesNothing` |
| `GatewayProofs!GatewayKeepsOnePlace` | `GatewaySpec => []OnePlace` |
| `GatewayProofs!GatewayHandsOutOnce` | `GatewaySpec => []DeliveredOnce` |
| `GatewayProofs!GatewayResponsesBounded` | `GatewaySpec => []ResponseBounded` |
| `GatewayProofs!GatewaySuccessesFinal` | `GatewaySpec => []SuccessMeansGone` |
| `GatewayProofs!GatewayImplementsLedger` | `GatewaySpec => ImplementsLedger` |
| `WorkerRegistryProofs!RegistryTypeCorrect` | `Spec => []TypeOK` |
| `WorkerRegistryProofs!NoStatusLeftForever` | `Spec => []ForeverOnlyByFault` |
| `WorkerRegistryProofs!LastSeenFresh` | `Spec => []StatusFresh` |
| `RawFilesProofs!FilesTyped` | `Spec => []TypeOK` |
| `RawFilesProofs!AnsweredFilesKept` | `Spec => []AnsweredKept` |
| `RawFilesProofs!FilesPlain` | `Spec => []PlainFiles` |
| `RawFilesProofs!PlainNamesStay` | `sanitizeFilename(s) = s` for a plain name `s` without spaces at its ends |
| `LegacyResultsProofs!SubmissionsTyped` | `Spec => []TypeOK` |
| `LegacyResultsProofs!KeptUnlessAborted` | `Spec => []LostOnlyByAbort` |
| `TokenBucketProofs!BucketTyped` | `Spec => []TypeOK` |
| `TokenBucketProofs!RateKept` | `Spec => []RateKeptInOrder` |
| `TokenBucketProofs!DelayBounded` | `Spec => []LateCostsADelay` |
| `TokenBucketProofs!NoStricter` | `Spec => RejectsOnlyAtLimit` |
| `UsageTrackerProofs!UsageTyped` | `Spec => []TypeOK` |
| `UsageTrackerProofs!LimitKept` | `Spec => []WithinLimit` |
| `UsageTrackerProofs!CountersExpire` | `Spec => []EveryCounterExpires` |
| `UsageTrackerProofs!RefusedAtLimit` | `Spec => []RefusedOnlyAtLimit` |
| `PublicApiProofs!ClosedBelowThreshold` | `Spec => []ClosedIffBelowThreshold` |
| `PublicApiProofs!ApiTypeCorrect` | `ApiSpec => []ApiTypeOK` |
| `PublicApiProofs!ApiBreaker` | `ApiSpec => []ClosedIffBelowThreshold` |
| `PublicApiProofs!AnswersFit` | `ApiSpec => []ServedAsAsked` |
| `PublicApiProofs!AnswersFresh` | `ApiSpec => []ServedFresh` |

Assumptions are the named `ASSUME`s of the modules: positive bounds, platform
lists made of platforms, payloads that can be read hold a task id or `None`,
payloads Python finds no `task_id` in are rejected by its model class, batches
made of results, bodies with a size, `None` is none of the other values.

The argument for the queue. `ListSteps` shows that the 17 actions change the
lists in three ways only: a push, a move from a queue to a processing list, and
`LREM`. `OnePlace` is inductive together with `TypeOK`: a push adds a payload no
list holds, a move takes from its place what it adds elsewhere (each place after
the move is one place before it), `LREM` adds nothing. With `OnePlace` the lists
can be read as sets, and each of the three steps is a step of the ledger. The
acknowledgements need more: between `LRANGE` and `LREM` a request holds a payload
that others may remove. `AckInv` says that this payload is in the processing list
of this worker or nowhere; after `LREM` it is nowhere. That it holds the id asked
for is `ChosenHeld`. It is inductive because a payload comes to a list only from a producer
that never saw it or, for processing lists, from a queue (`NewPlaces`).

The argument for what is handed out. `DeliveredOnce` is not inductive: a pop
could hand out a payload some worker holds already. `HandInv` adds that what
waits in a queue was never handed out, which a pop needs and keeps because it
takes the payload from its only place. `ResponsesBounded` rests on `Bounded`,
which counts the lists a request has passed (`Past`): each gave at most one task,
`NextList` adds one to the number whichever loop goes on, and the request is at
its end when the number is `MaxPriority` times that of its platforms.
`StrandInv` adds to `StrandedOnlyByFault` that an idle request carries no task.
The difficult step is an `LREM`, which can only make the list of a worker free of
payloads that do not decode if it removes one of them; it does not, since an
acknowledgement chooses a payload that decodes (`ChosenHeld`).

`Removal` says of one step that it removes from processing lists only what a
request between `LRANGE` and `LREM` chose (`NextRemoval`). With `ChosenHeld` this
is `RemovedOnlyByItsAck`; with `ChosenByEither`, that the payload holds the id for
the gateway that searched, it is `RemovedOnlyByAnAck` for both gateways.

For both gateways on the lists, `QueueOK` joins the invariants above except
`StrandInv` and `ChosenHeld`. `LegacySteps` says that a step is one of `Next` or
one of the four that only Python takes, so that the lemmas of the Go gateway do
for the rest. `LegacyPopTask` differs from `PopTask` only in the payloads it
takes, and what both do to the lists and to the request is stated without them
(`AppendsOK`). `PopRejected` is a move of a payload no response holds afterwards
(`RejectedOK`), `SearchRaises` ends a request without touching a list (`RaisedOK`),
and `SearchedOK` is about the search: the payload it chooses is in the processing
list it read, which is all `AckInv` needs. None of this uses what the gateways can
read. `StrandedOnlyByFault` is not claimed: a payload that a gateway rejects stays
in the processing list of a worker that was never told of it, without any fault.

The argument for the gateway. `GatewayInv` joins the invariants of the queue, an
invariant of each submission and one of the phases. `RequestOK` is indexed by the
table: `Typed` are the types, `Counted` is `EveryResultCounted`, and `Known` says
that a request past its upsert, or one that found its parcel before it, has the
row in the table. It survives the steps of others because rows are never deleted
(`TableGrows`). The composition
needs that a submission's `LREM` is a removal like that of an acknowledgement
(`RemKeepsOthers`), and that stops, closed clients and crashes leave the lists
alone. `GraceInv` says what a stop in time preserves: until `cut`, `StrandInv`
holds, and once the pool is closed no request is in progress, so that no closed
client meets one and `Exit` ends none.

What the queue promises carries over to the whole gateway by the same `QueueOK`.
A submission's `LREM` is a removal of an acknowledgement under another name
(`SubRemoves`): the lemmas about removals are stated for any entry and worker, so
that they apply to it. `EndedRequests` says what a closed client, a crash and an
exit do to the requests of the queue: they end, and touch no list. Hence
`GatewayImplementsLedger`: a submission settles what it completes, and no stop
or start is visible in the ledger.

The argument for the registry. Without a fault, a key without a time to live has
a heartbeat about to set one, and a status is at most as old as the life it has
used up and twice the longest request: once for the `last_seen` that was old when
it was written, once for the `EXPIRE` that came later. `PendingFresh`, about the
requests between the two commands, makes this inductive: what such a request
finds under its key was written by itself or later, and is at most `MaxDelay`
older than its own age.

The argument for the files. `LoneWriter` says that a file that is not mixed has at
most one writer and holds the prefix this one wrote; `Settled` that an answered
file has no writer at all. A `Create` truncates the file and ends both histories
of it, so that the next upload starts as a lone one.

The argument for the Python results handler. `HoldsDone` says of a request
without an abort that its open transaction wrote the row of every result whose
task it removed, and, between `LRANGE` and `LREM`, of the one it is about to
remove. Only an abort takes rows from an open transaction, and a commit writes
all of them, so that they are in the table when the request is over.

The argument for the names of files. What `DropDotPairs` returns needs an
induction over the name, and the induction theorems of the library take an
operator as a parameter, which the provers cannot instantiate. `Induction` states
the principle for a *set* of naturals instead, from the least element of a set
(`WFMin`), and `DropLemma` uses it on the lengths of the prefixes whose result has
the characters of the name and no two dots in a row: `KeepCharLemma` is the step.
`Keeps` is the defining equation of the recursive function, which exists because
the one of a longer prefix extends that of a shorter one (`KeepsExists`).
`SanitizeLemma` joins the four operators, the cut at `MaxName` included, which
cannot join two dots; `PlainNamesStay` goes the other way.

The argument for the rate limiter. `WithinRate` speaks of the past only, so the
invariant has to say what the bucket will give. `AtMost(now)` says that what was
granted in `a..now` and what a script with timestamp `now` would find are together
within the limit of `a..now`, for every `a`; `AtLeast(now)` that for some `a`
nothing of this limit is lost. `OrderInv` states both, until a late script is
granted, for every timestamp a script may still have that is not late (`Prompt`,
among them the clock). A grant keeps them: every script that is not late after it
has its timestamp or a later one and finds `Cost` less, or a full bucket, for
which the interval that starts at `now` is the witness. The expiry of the key
changes nothing, because by then no script in flight is late and the bucket is
full for each of them (`ExpireFull`, from `ExpiryAssumption`). `RateKept` is
`AtMost` at a grant, `NoStricter` is `AtLeast` at a rejection.

`DelayInv` is about every order of runs. It says of each moment `a` that what was
granted since and what the next script would find are within the burst and the
rate of the time from `a` to `Top`, the later of its timestamp and `updated_at`,
and one `MaxDelay` more than late scripts were granted. The first grant since `a`
may have a timestamp before `a`, by `MaxDelay` at most. A late grant sets
`updated_at` back by as much, so that this time is paid for again, and is what
its delay pays for (`GrantRoom`). `LateCostsADelay` is `DelayInv` for a script
sent now.

The argument for the usage limits. A request is answered by the value its `INCR`
returned, so the counter of a day must not fall while the day lasts. `Dates`
says why it does not: `EXPIRE` is sent no earlier than on the date in its key, so
that the time to live ends after this date (`DateOver`, `CounterGrows`). Hence
one request at most finds a counter new on its date (`FoundOnce`), and what was
granted, with the request that is about to be (`GrantedTo`), is no more than the
counter says and within the limit (`Counted`); on a later day nothing counts for
the old one. `RefusedAtLimit` needs the opposite direction: `CountedGiven`, that
the counter says no more than was granted unless the limit is reached. It is
false after a failed command, which may count without granting.

The argument for the breaker: `ClosedIffBelowThreshold` is inductive with the
types, because a failure that leaves the counter below the threshold finds the
breaker closed.

The argument for the public API. `BreakerSteps` shows that every step of the
composition is a step of `CircuitBreaker`, a stutter or a restart, so its
invariant carries over. What requests get follows from an invariant of the
requests (`RequestInv`: an answer a request stores or sends fits its own parcel
and tier) and one of the cache (`EntryInv`: an answer fits the key it is under,
and its age and remaining life together are at most `TTL + MaxDelay`). The second
is needed because `ServedFresh` speaks of ages only: that a hit is fresh holds
because time adds to the age what it takes from the life, and only `SETEX` sets
the life, for an answer that waited at most `MaxDelay`. `CallInv` relates the
breaker to the requests.

Only model-checked: liveness (`NoStarvation`, `HeldTasksSettled`,
`SilentWorkerForgotten`, `SubmissionsEnd`, `OpenEnds`, `RecoversWithService`),
which is out of the prover's reach. Every other property of a passing run is the
statement of a theorem.

## 5. Not modelled

- Of the wiring, everything but the life of the process: environment variables,
  health checks, sizes of the pools. Worker authentication, request ids, logging
  and metrics: no state a property relates.
- The other fields of a worker's status and the data of a parcel, including
  `scraped_at`: an older result may overwrite a newer one, and no document of
  the repository promises otherwise.
- The legacy `raw_files.py` and `proxy.py`: proxies are constants; an upload
  there opens, reads and writes as in `RawFiles` with a body of one chunk, under
  the name as it was sent, in a directory of a developer machine.
- The guard of the legacy internal routes, and `CacheService`, which no endpoint
  uses.
- Loss of data in Redis or PostgreSQL themselves.
- The search, top list, prediction and usage endpoints: the first three are
  refused by their usage limit (run `UsageUnlimited`), the last only reads.
- `StrandedOnlyByFault` is checked in a run without payloads that do not decode;
  the theorem covers them.

## 6. Plan

1. The limits in `PublicApi`: `Enter` in steps of `TokenBucket` and
   `UsageTracker`, and what a refused request has used up.
2. `WorkerResults` with `scraped_at`; an abstract results ledger (submitted,
   stored, completed) that `WorkerResults` implements and `LegacyResults` does
   not.

## 7. How to run

    tlc -config Queue.cfg MCTaskQueue
    tlapm TaskQueueProofs.tla
