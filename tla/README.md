# Govatars: TLA+ models, checks and proofs

Govatars stores user avatars. An HTTP server accepts uploads and deletes; a
worker makes thumbnails and cleans up. This directory models how the two act on
the shared stores, checks the models with TLC and proves the central safety
properties with TLAPS.

## 1. The system

```
 client ──HTTP──> server replicas ──SQL──> Postgres (table avatars) <──SQL── worker replicas
                      │     └────────S3──> bucket <────────────────────S3────────┘   │
                      └──AMQP──> exchange ─> main queues ──────────────AMQP──────────┘
                                     ^            retry.N queues <── republish ──┘
                                     └── TTL ─────┘          DLQs <── republish ──┘
```

Both kinds of replica are scaled horizontally, and nothing but the stores
coordinates them. There is no transaction that spans two stores.

| Component | State | Operations | Interacts through | What is hard | What makes it correct |
|---|---|---|---|---|---|
| Avatar requests (`usecase/avatar.go`) | none of its own; a request is a sequence of calls | `Upload`, `DeleteByID`, `DeleteLatestForUser`, `GetImage` and fallbacks | S3, Postgres, publisher | a failure or a cancelled request between two calls; rollbacks that fail; two deletes and a worker on one row | an acknowledged avatar can be served; an acknowledged delete is final and cleans up |
| Queue jobs (`usecase/avatar_queue_jobs.go`) | `uploadedKeys`, `trackFailure` of one attempt | `ProcessAvatarUpload`, `ProcessAvatarDelete` | S3, Postgres | retries, duplicates and redelivery of one event; a rollback on shared keys | completed rows have their thumbnails; every job ends |
| Repository (`repository/postgres/avatar.go`) | one row per avatar | insert, hard and soft delete, restore, update of the result and of the status | Postgres | conditional updates that match no row | a deleted row changes only by a restore |
| Worker consumers (`worker/`) | one unacknowledged delivery per channel | receive, handle, republish or DLQ, ack or nack | RabbitMQ | handle timeout, shutdown, lost session, crash before the ack | no event is lost while its job is not done |
| Queue topology (`repository/rabbitmq/topology.go`) | main, retry.N and dead-letter queues | declare, TTL expiry | RabbitMQ | undeclared retry queues | retries end in the DLQ |
| Publisher (`repository/rabbitmq/publisher.go`, `dial.go`) | connection and channel under a mutex | connect, reconnect, publish, health, close | RabbitMQ, circuit breaker | dial while holding the mutex; no confirms; close and reconnect | one live connection at a time |
| Circuit breaker (`pkg/circuitbreaker`) | state, failure count, time of opening | `Execute` | publisher | state read outside the lock | opens at the threshold, probes after the cooldown |
| Default placeholder (`usecase/avatar_placeholder.go`) | objects shared by all replicas | prewarm, serve | S3 | several replicas prewarm at once; zero-byte objects | the placeholder can be served after a successful prewarm |
| HTTP server (`httpserver`, `serverapp`, `cmd/server`) | what main holds open, requests in flight | start, serve, shut down, close | Postgres pool, publisher, bucket, requests | a start-up that fails half-way; closing the stores while requests drain; a statement that hangs | every return path closes what was opened; a server told to stop does; an answered request keeps its event, as long as its session is up or known to be down |
| Worker process (`worker/app.go`, `health.go`, `cmd/worker`) | ready flag, errgroup, two channels | run, health, shut down, close | AMQP session, Postgres pool | one channel dying alone; jobs under way when main returns; a rollback that nothing cancels | no half-dead worker looks healthy; no job outlives the pool; a worker told to stop does, unless a rollback hangs |
| Postgres and S3 clients (`repository/postgres/postgres.go`, `repository/s3/storage.go`) | the pool, the bucket | open with a ping, ensure the bucket, close, health | both processes | two processes that create the bucket at once; `Close` waits for its connections | all processes come up |
| HTTP and web handlers | none | translate requests and errors | requests | – | – |
| Configuration (`pkg/config`) | presets and retry delays | load, normalise, catalog | both processes | a delay of zero, one that does not fit, a duplicate label | bad presets and delays that do not fit stop a process at its start |
| Telemetry (`otelpkg`, `bootstrap`) | providers | start in order, shut down in reverse | both processes | a provider that cannot be built | those already started are shut down |
| Image encoding, generated code, mocks | – | – | – | – | – |

`PROJECT.json` lists every component with its status, and the hazards of the
code, each at its line with the properties that watch it.

## 2. Modules

| Module | Extends | Role |
|---|---|---|
| `AvatarRow` | | a row of the `avatars` table and the repository's statements, as operators from a row to a row |
| `AvatarEvents` | `AvatarRow` | the two kinds of event, queues as bags, the retry count |
| `AvatarLifecycle` | `AvatarEvents` | the central state machine: upload and delete requests, both consumers of every replica, sessions, crashes; properties and inductive invariant |
| `ImageRead` | `AvatarLifecycle` | GETs of an avatar's image while all that goes on |
| `CircuitBreaker` | | the breaker's steps, as operators from a breaker to a breaker |
| `Publisher` | `CircuitBreaker` | one server replica's AMQP session: the goroutines that publish, probe and close, the mutex, dialling |
| `Placeholder` | | the default placeholder: several replicas prewarm one bucket, requests are served from it |
| `QueueTopology` | | `DeclareTopology` call by call, the names the publishers use, and what the broker does with a name nobody declared |
| `Processes` | `QueueTopology` | what both programs share: opening in order, closing on every return path, signals, restarts, the bucket, the queues |
| `ServerProcess` | `Processes` | a server replica's main, its shutdown, and the uploads and deletes in flight |
| `WorkerProcess` | `Processes` | a worker replica's main, its errgroup of two consumer loops and a watcher, its health |
| `Deployment` | `ServerProcess`, `WorkerProcess` | all processes around one broker and one bucket; properties, fairness and inductive invariant |
| `AvatarPromise` | | the abstract specification: each avatar as its owner sees it (answered, shown, stored), without queues, workers or faults |
| `AvatarRefinement` | `AvatarLifecycle` | the refinement mapping to `AvatarPromise` |
| `ThumbnailPromise` | | the abstract specification of an avatar's thumbnails, for a client that asks for a size: open, listed or deleted, and which are stored |
| `ThumbnailRefinement` | `AvatarLifecycle` | the refinement mapping to `ThumbnailPromise` |
| `AvatarLifecycleProofs`, `AvatarRefinementProofs`, `CircuitBreakerProofs`, `PublisherProofs`, `PlaceholderProofs`, `DeploymentProofs`, `ImageReadProofs` | each its subject | the theorems |
| `MCAvatarLifecycle`, `MCImageRead`, `MCPublisher`, `MCPlaceholder`, `MCDeployment` | each its subject | values for TLC |

`AvatarLifecycle` sees of the publisher only what a publish returns (`UploadPublish`,
`DeletePublish`: enqueued, lost, or an error), `ServerProcess` whether its session is up, gone without notice or gone; `Publisher` has what happens inside. The two compositions
cut the system differently. `AvatarLifecycle` follows one avatar through rows, objects and events, with the processes as
something that is there or crashes. `Deployment` follows the processes, from `main` to `os.Exit`,
with a job as something that succeeds or fails: what starts, in which order, what is still open when it
ends, and what becomes of an event when the process that has it stops.

### How the state corresponds to the code

`AvatarLifecycle`, `ImageRead`:

| Variable | Code |
|---|---|
| `row[a]` | the row: `deleted_at` gives `state`, `processing_status` gives `status`, `thumbnail_s3_keys` gives `thumbs` |
| `s3[a]` | which keys of avatar `a` exist: the original, and `thumbnails/<id>/<label>.<ext>` |
| `upload[a]` | where the goroutine in `AvatarService.Upload` is; one request per avatar, since the id is a fresh UUID |
| `deletion[d]` | a delete request: its position in `DeleteByID`/`deleteAvatarWithPublish`, its target, and the local `a` (`seen`) |
| `mainQ`, `retryQ`, `dlq` | both queues of each kind as one bag; `op` tells them apart |
| `task[<<op, w>>]` | the `consumeLoop` of queue `op` in replica `w`: position, delivery, `uploadedKeys` or the keys still to remove, joined error, and whether the handler's context has ended |
| `conn[w]` | whether the broker still knows the replica's session |
| `read[r]` | a GET: its position between `GetImage` and the end of the body, the variant it wants and whether a format was asked for |
| `faults` | faults so far (bound `MaxFaults`) |

There is one action per external call; everything the code does between two
calls happens with the first of them. Retrieval, resizing and encoding of an image happen
between calls and are part of `JobFetch`/`JobPutThumb`. The body of a
`GetObject` is read after the response's headers are out, so `streamImagePayload` is an action
of its own. `GetLatestImageForUser` differs from `GetImage` only in how it finds the row.

`Publisher`:

| Variable | Code |
|---|---|
| `sess` | `p.conn` and `p.ch`: nil, usable, lost without notice, or closed in the way `IsClosed` reports |
| `b` | `p.cb`: state, `failureCount`, and whether the cooldown since `lastStateChange` is over |
| `mu` | the holder of `p.mu` |
| `pc`, `op`, `expired` | the calls: position, method, and whether their context has ended. A connection that `connect` is setting up is a local of it, so `pc` stands for it |
| `late`, `orphans` | goroutines of `DialContext` whose caller has left; open connections that nobody refers to |

Actions carry the names of the methods. `PublishJSON` is `Start`, `Lock`, `reconnectIfNeeded`, then
`connect`, `DialContext`, `OpenChannel`, `DeclareTopology` if the session is gone, then
`PublishWithContext`; `Health` ends in `QueueDeclarePassive`, `Close` in
`CloseSession`. Callers that overlap inside `Execute` do not occur: `Publisher.connect` is its only
caller and holds `p.mu`. A `NewPublisher` that fails ends the process (`Deployment`).

`Placeholder`:

| Variable | Code |
|---|---|
| `store[o]` | the object under the key of variant `o` (1 is the original): none, zero bytes, or the image of some file |
| `warm[r]` | a replica's start: its file, the variant `ensureInS3` is at, whether an upload or a stat has failed, and whether `placeholderPrewarmTimeout` is over |
| `get[g]` | a GET that ends at the placeholder: its replica and variant, and the length `StatObject` announced (as the content that has it) |

`Processes`, `ServerProcess`, `WorkerProcess`:

| Variable | Code |
|---|---|
| `phase[p]` | where the main goroutine is: opening (`telemetry` to `prewarm`), running, or in a deferred call or error return (`close*`). A failure jumps to the first close that is due |
| `opened[p]` | the pool, the AMQP session, and in a worker the health listener and the two channels. A server's session has four forms: `session`, dialled before `App.Close`, and `lateSession`, dialled by a request after it; each becomes `deadSession` or `deadLateSession` when it is lost, and is gone from the set when `IsClosed` says so |
| `providers[p]` | telemetry providers that run |
| `step[p]` | the next call of `DeclareTopology` |
| `signalled[p]` | SIGTERM has ended main's context |
| `config` | presets and retry delays; one file for all processes |
| `bucket`, `declared`, `queue` | the bucket; the declarations the broker has accepted; the messages, each with its queue and `x-retry-count` |
| `fate` | what became of the messages that left the queues: `handled`, `unrouted` (dropped by the broker), `rejected` (nack without requeue), `lost` (written to a session that was gone). A history variable |
| `at[q]`, `pc[q]` | the replica that serves request `q`, and its handler's position; in `writing` and `undoing` it has a connection of the pool |
| `ready[w]` | `App.ready` |
| `failed[w]` | the errgroup has an error; with `signalled` this is the group's context (`GroupDone`) |
| `loop[<<w, op>>]`, `msg[<<w, op>>]` | the `consumeLoop` of a queue: `off`, `idle`, `busy` with the delivery `msg`, `undo` or `undoLate` in the rollback of an upload (started in time, or after the handler's context had ended), `ended` |
| `faults` | the faults so far, in their order (bound `MaxFaults`): which one excuses a loss depends on what happened |

| Action | Code |
|---|---|
| `OpenProvider`, `Bootstrapped`, `CloseProvider` | `bootstrap.Bootstrap`, `otelpkg.NewProviders` and their shutdown in reverse |
| `OpenPool`, `ClosePool` | `postgres.New` with its ping; `pgxpool.Close`, which waits for the connections in use (`ClosePostgres` adds this for the server) |
| `BucketExists`, `MakeBucket` | the two calls of `ensureBucket` |
| `Dial`, `DeclareNext` | `DialContext`; one call of `DeclareTopology` |
| `Connected`, `Start`, `Shutdown`, `ClosePublisher`, `Exit` | `serverapp.New`, `httpserver.Run`, `App.Close` and the end of `cmd/server` |
| `DrainTimesOut` | the goroutine in `Run` that calls `Shutdown` and then `e.Close` |
| `Accept`, `Acquire`, `Write`, `Undo`, `Publish` | an upload or a delete, reduced to its statement, its publish and its rollback |
| `ServerDrop`, `PublishBlindly`, `Notice` | a session that is lost; a publish on it before `IsClosed` knows, which returns nil with the event `lost`, or an error; heartbeats or a failed write that close the connection |
| `GetHealth` | `GET /health`, which goes through the publisher and reconnects it |
| `ListenHealth`, `OpenUploadChannel`, `TopologyDeclared`, `OpenDeleteChannel`, `Consume`, `Wait`, `CloseChannel`, `CloseApp` | `App.Run` from top to bottom, its deferred calls, `App.Close` |
| `Watch`, `StopHealth` | the goroutine on `NotifyClose`; the one that stops the health server |
| `Receive`, `JobDone`, `JobFails`, `LoopEnds` | one round of `consumeLoop`, with `republishOrDLQ` |
| `RollsBack`, `RolledBack` | an upload job that fails with something to undo: its deferred rollback under `context.WithoutCancel`, which need not end; then the same as after `JobFails` |
| `RetryExpires` | the TTL of a retry queue |

### Faults

A call returns `ok`, `error` (no effect) or `unsure` (it took effect, the caller
got an error). `FaultKinds` chooses which faults a run allows, `MaxFaults` how many in
one behaviour; the proofs put no bound on either. In `AvatarLifecycle`:

| Kind | Meaning |
|---|---|
| `s3`, `db` | a call fails without effect |
| `unsure` | a write to S3 or Postgres takes effect but returns an error |
| `publish` | `PublishJSON` returns an error; the event was not enqueued (the last frame was not written) |
| `lost` | `PublishJSON` returns nil and the broker never has the event (there are no publisher confirms) |
| `abort` | the server dies or the request's context ends: no further call of the request, its rollback included, has an effect |
| `cancel` | a handler's context ends while the session is up: handle timeout or shutdown |
| `disconnect` | the broker loses a session and requeues its deliveries; the replica's handlers run on until their context ends |
| `crash` | a worker process dies and is restarted |

In `Publisher`: a `dial` that fails, a `channel` (or topology declaration) that fails or is
closed by the broker, a context that ends (`expire`), a connection that is lost (`drop`). In
`Placeholder`: calls that fail or are `unsure`, replicas that die or are replaced
(`restart`); a hung S3 is a call that need not return before its context ends. In `Deployment`:
any step of a start-up that fails (`startup`), a statement (`db`), a publish, a job or a handle
timeout (`publish`, `job`, `timeout`), a worker's connection that is lost with its channels (`drop`), one channel that the
broker closes (`channel`), a server's session that is lost (`serverDrop`), SIGTERM (`signal`) and a kill (`crash`). A call under
a context that has ended fails without being counted as a fault, and so does the job of a request in `Poison`. A server does not
know that its session is lost until `Notice`; a worker whose connection is lost learns it in `Watch` and `LoopEnds`, which are
steps of their own: what `WorkerDrop` does at once is the broker's side, the redelivery.

### Not modelled

* Loss of data or of the topology inside RabbitMQ, Postgres or S3; events that are not
  valid JSON or whose id is no UUID (the server publishes none).
* Processes with different configurations: a queue declared again with another TTL is refused by the
  broker. Nothing in the repository changes the file while processes run.
* In `Deployment`: calls that take effect although they return an error (they are in `AvatarLifecycle`); a start-up call that never returns (`ensureBucket` with a hung S3, section 3); a delivery that the broker has prefetched but the loop has not read counts as still in the
  queue; two handlers of one delivery after a lost session (they are in `AvatarLifecycle`); the second
  check of the context in `connect`, which is part of `Dial`; a crash between the republish of a failed event and its ack,
  which are one step (in `AvatarLifecycle` they are two, and its queues are bags since such a crash duplicates the event); what becomes of a watcher goroutine after an early
  return, which only waits; errors of constructors that cannot fail for the constant names they are given; a
  configuration that cannot be read (the process exits before it opens anything).
* The middleware (rate limit, body limit, request validation) and the translation of requests, errors, pages and ids:
  it filters and formats, before and after what is modelled, and keeps no state of this program's own. Parsing of
  configuration and sizes is in libraries outside the repository.
* Pixel data (only whether an image decodes matters), logging, what the telemetry records, generated code and mocks.

## 3. Runs

| Run | Question | Instance | Result |
|---|---|---|---|
| `core_faults` | do the two central properties and their invariant hold, and `AvatarPromise` with them, with every kind of fault? | 1 avatar, 1 thumbnail, 2 deletes, 2 replicas, any 2 faults, no retry delay | holds |
| `processing` | does a completed row list only stored thumbnails, with `ThumbnailPromise` implemented; do attempts at one upload follow each other (`JobInv`); does a GET fail only through a call of its own or after a delete? | 2 thumbnails, 1 GET, 2 replicas, 1 delete, 1 retry, faults `s3 db cancel abort publish lost`, 2 of them | holds |
| `cleanup` | does a delete that saw the final row leave no object? | 2 deletes, 2 thumbnails, faults `publish abort db`, 3 of them | holds |
| `settles` | does an unfinished avatar still have its event, and an uncleaned one its delete event; do acknowledged uploads and deletes end? | 2 replicas, 1 retry, faults `s3 db abort crash unsure`, 2 of them, fairness | holds |
| `poison_image` | does an image that does not decode reach the DLQ without blocking another avatar? | 2 avatars, 1 replica, 2 retries, a delete request by a stranger, fairness | holds |
| `publisher` | do mutex, session and breaker agree; does every call return; does the session come back? | 2 goroutines, threshold 2, every fault, 4 of them, fairness | holds |
| `placeholder` | does a clean prewarm leave every variant stored; does every prewarm end, although S3 may hang? | 2 replicas, 2 variants, 2 files, 1 GET, any initial bucket, 2 faults, fairness | holds |
| `processes` | is what a process opens closed on every return path? which faults can take an answered request's event, and is it kept and settled without them? does a process that is told to stop do so, with a statement or a rollback that hangs? do all come up again? | 1 server, 1 worker, 2 requests (an upload that always fails, a delete), 3 configurations, one fault of 10 kinds, fairness | holds |
| `delete_race` | does every delete leave no object? | 1 replica, no fault | violated |
| `cancelled_job` | does a failed job keep its event when its context ends? | 1 replica, 1 `cancel` | violated |
| `zombie_rollback` | does a completed row list only stored thumbnails when a session is lost? | 2 replicas, 1 `disconnect` | violated |
| `abandoned_dial` | does a caller whose context ends leave no connection behind? | 2 goroutines, `expire` and `drop` | violated |

Why the bounds are enough: avatars share nothing but the consumers (keys contain the
id), so one avatar shows every race and two show blocking. Two delete requests are the
fewest that race; two replicas are the fewest where an event is redelivered while its
first handler runs. The properties compare the original with the set of thumbnails, so
one or two thumbnails are enough: two are needed where a partial set matters. Two faults
let a rollback fail, or a crash duplicate an event and a second attempt fail.
Two goroutines are the fewest that contend for the publisher; four faults are one lost session
and enough failed dials to open the circuit (threshold 2) and open it again from
half-open. Two replicas race for the placeholder, two variants make an order and a
partial prewarm, and every initial content of the bucket is an initial state.
In `processes` one server and one worker are the fewest that race for the bucket and the topology and hand an event
over; the two requests use both queues, contend for the one connection of the pool, and the one that always fails goes through
its retries to the DLQ. The configurations are the default presets with a delay of zero for deletes, a
delay beyond an int32 (`MaxTTL` is 1 here) and a duplicate label; with the last a server gets as far as its session and has to
close it. One fault can hit any step of a start-up or shutdown; the end of a process, its
restart and the second round are not faults. 104 478 states.
Replicas, delete requests and thumbnails are symmetric in the runs without liveness.
Deadlock is checked for the publisher, which never rests. Elsewhere it is not: when the
requests are done and the queues empty, the system rests.

### What the violated runs show

* `delete_race` (no fault needed). A delete request reads a pending row, the worker
  stores thumbnails and completes the row, then the row is soft-deleted. The event
  lists the keys of the first read, the original only; nobody removes the thumbnails.
* `cancelled_job`. `republishOrDLQ` publishes with the handler's context. If that
  context has ended, the publish returns its error, `consumeLoop` nacks
  with requeue=false, and the main queues have no dead-letter exchange: the event is gone and
  the row stays `failed` (shown as "processing").
* `zombie_rollback`. After a lost session the event goes to another replica while
  the first handler still runs. When its context ends its rollback removes
  the keys the second replica has just stored and listed.
* `abandoned_dial`. `DialContext` ("cancels when ctx is done", dial.go:33) returns when its context
  ends, but only the TCP connect is cancelled. A handshake under way
  completes in the goroutine, and the open connection goes into a buffered channel
  that nobody reads.

### Two comments that do not hold, without a run of their own

* `serverapp/app.go:17` says that the timeout of the prewarm is there "so a slow / hung S3 cannot keep the API from accepting
  traffic indefinitely". `PrewarmEnds` shows that the prewarm ends. But `s3repo.New` (`serverapp/app.go:44`) runs before it, and
  its `ensureBucket` asks the same S3 (`BucketExists`, `s3/storage.go:46`) under main's context, which has no timeout: a hung
  S3 keeps the replica from getting as far as its prewarm.
* `worker/app.go:19` says that "on unexpected AMQP disconnect, Run returns an error so the process can exit and be restarted". `Run`
  waits for both loops (`g.Wait`), and the rollback of an upload job runs under `context.WithoutCancel` without a timeout
  (`avatar_queue_jobs.go:62`). If `RemoveObject` or `SetProcessingStatus` hangs in it, `Run` does not return, after a disconnect as
  after SIGTERM. This is why the worker's half of `SignalledExits`, and `HalfWorkerEnds`, have the premise `RollbacksEnd`: without
  it they fail in the model, which lets a rollback hang. Such a worker goes on looking healthy if it was
  a channel that died.

### Where the line is

The runs that hold say it: `processing` leaves out `crash`, `disconnect` and
`unsure`, each of which makes two attempts overlap or makes a rollback follow a
committed update; `settles` leaves out `cancel` (above), `lost`, `disconnect`
(the old handler marks the row failed after the new one has completed it) and `publish`: an upload
event consumed while a delete has hidden the row is acknowledged as done, and if that
delete then restores the row nothing processes it. `cleanup` leaves out `s3`, `unsure`, `lost`, `cancel` and
`crash`: with any one of them TLC finds a delete that leaves an object behind, since a rollback whose call fails only
logs it, an upload reported as failed may have been stored, and an attempt that is cut short rolls nothing back; `disconnect`
it could have (`Tidy`). Of these `lost` and `cancel` also lose the event of a delete (`NoLostCleanup`), and no other kind
does: `settles` has the other kinds of fault that its liveness properties leave room for. `placeholder` asks for a *clean* prewarm, because a stat
that fails, or that comes after the time is over, skips its variant without an
error: a nil from `EnsurePlaceholderInS3` alone does not say that anything is stored.
An object of an older placeholder file is never replaced, so during and after a change of
file the variants may show different images; nothing in the repository promises otherwise.

### Fairness

`FairSpec` assumes weak fairness of each consumer's own steps (a goroutine that can run
does, the broker delivers to a consumer that waits), of the expiry of each waiting
event (TTL) and of the restart of a replica that lost its session (the process exits with an
error and is restarted by its supervisor). Nothing is assumed of requests, and
faults are bounded, so that they eventually stop.

In `Publisher`: weak fairness of the goroutine that holds the mutex (every wait in it is bounded: the
dial by its timeout, the broker's answers by the heartbeat), of
noticing a dead connection (heartbeat), of time, and of the start of calls (health probes come
periodically); strong fairness of `Lock`, since a Go mutex hands itself to a waiter that has waited for more than
a millisecond. `SessionComesBack` supposes that calls of `Close` stop.

In `Deployment`: weak fairness of every process's main goroutine and of its other goroutines; of its restart, whatever its exit code
(a supervisor runs both programs); of `GET /health`, which is probed every few seconds and is what brings back the session of a
server without traffic; of `Notice` (heartbeats); of the expiry of retries. Statements of requests have none: Postgres may
hang, and the server's half of `SignalledExits` holds because `e.Close` cuts what the 15 seconds have left. The rollback of an upload job
(`RollbackEnds`) has none either, and nothing cuts it. `AllComeUp`, the worker's half of `SignalledExits`, `HalfWorkerEnds` and
`AnsweredIsSettled` therefore suppose `RollbacksEnd`: no worker stays in one for ever. A job itself ends: its calls are
under the handler's context, which `ConsumerHandleTimeout` ends. Faults, a signal among them, have
no fairness and are bounded.

In `Placeholder`: only the timeout is sure to happen, and a call returns for sure only once its
context has ended.

## 4. Proofs

All theorems hold for all values of the constants and any number of faults, and for faults of every kind unless a
theorem has a premise. The premises are on `FaultKinds` alone, and each excludes the kinds under which the property
fails, as a finding or the runs' text above shows:

| Premise | Excludes | Theorems |
|---|---|---|
| `DeletesDelivered` | `cancel`, `lost` | `CleanupNotLost` |
| `Tidy` | `s3`, `unsure`, `lost`, `cancel`, `crash` | `DeletesAreTidy` |
| `Delivered` | `cancel`, `disconnect`, `lost`, `publish` | `NoJobIsLost` |
| `NoOverlap` | `crash`, `disconnect`, `unsure` | `CompletedIsStored`, `OneAttemptAtATime`, both for readers, `ThumbnailsAreKept`, `ReadsServed`, `OutcomeForGood` |
| `"expire" \notin FaultKinds` | `expire` | `PatientDialsLeaveNothing` |

### The avatar's life (`AvatarLifecycleProofs`)

| Theorem | Says |
|---|---|
| `TypeCorrect` | `Spec => []TypeOK` |
| `Invariant` | `Spec => []IInv` |
| `Servable` | `Spec => []AckedAvatarServable`: a live avatar whose upload was acknowledged has its original |
| `DeletedForGood` | `Spec => []DeleteIsFinal`: an acknowledged delete is never undone |
| `CleanupNotLost` | under `DeletesDelivered`, `Spec => []NoLostCleanup`: after an acknowledged delete the original is gone or the event that removes it is still there |
| `DeletesAreTidy` | under `Tidy`, `Spec => []FreshDeleteLeavesNothing`: a delete that read the row's final thumbnails leaves no object |
| `RemovedForGood` | for each avatar, `Spec => [](DeleteAcked(a) /\ CleanedUp(a) => []CleanedUp(a))`: the safety half of `OriginalRemoved` |

Assumptions: `Original \notin Thumb`, `MaxRetry \in Nat`, `MaxFaults \in Nat`,
`NoEvent \notin Event`, `Broken \subseteq Avatar`.

`AckedAvatarServable` is not inductive: a restore makes a row live again, so the original must
be there as long as a restore is possible. `IInv` adds what the code relies on
without saying it:

* `NoRowNoDelete`: a delete request needs a live row, so none has got anywhere before the insert;
* `OriginalKept`: the original is stored before the row and stays while the row is live *or may be restored*;
* `OneDeleteAtATime`: `SoftDelete` reports a row it did not match, so only one request
  that may still restore, and none after an acknowledged one, is past it;
* `DeleteEventsAcked`: an event is published only by a request that is then done, so whoever holds one
  may remove the original;
* `TasksKeepToTheirKeys`: the worker's rollback only has thumbnails in its list.

The proof has frame lemmas (what a step must respect when it does not touch the
requests), then one lemma per process, split by action and conjunct.

`NoLostCleanup` is inductive only with two facts about the handler (`CleanupKept`). `SweptIsGone`: a sweep that is past the
original has removed it, or carries an error and so will not be acknowledged as done. `DeadOnlyIfLost`: without `cancel` a
context ends only with its session, so what a dying handler does to its delivery no longer counts, and the broker has
given the event back (`HeldMoves` is the argument: an event leaves an `up` consumer by an ack after the sweep, a republish,
or a requeue).

`FreshDeleteLeavesNothing` speaks of the moment when nothing is queued or handled, so the invariant (`TidyInv`) says where
each object's remover is until then. `ThumbsAccounted`: a stored thumbnail is in the row's list or in the hands of an attempt
that will list it or remove it. `ListedIsRemoved`: what an acknowledged delete has listed is gone, or an event
or a sweep that the broker knows of still names it, or an attempt has it in hand. `SweepsSucceed`: a sweep the broker
knows of does not fail, so no key is dropped from it. `EventsAfterAck`: no worker has heard of an avatar before its
upload is acknowledged, so the upload's own rollback cannot leave thumbnails of an insert that is taken back.

`RemovedForGood` rests on `OriginalNotBack` (after an acknowledged delete nobody stores the original again) and `DLQKeeps`
(nobody reads a dead-letter queue). That the clean-up comes about at all is liveness.

### Jobs and reads (`ImageReadProofs`)

| Theorem | Says |
|---|---|
| `NoJobIsLost` | under `Delivered`, `Spec => []NoLostJob`: an acknowledged avatar that is not finished has its event |
| `OneAttemptAtATime` | under `NoOverlap`, `Spec => []JobInv` |
| `CompletedIsStored` | under `NoOverlap`, `Spec => []CompletedHasThumbs`: a completed row lists stored thumbnails |
| `ThumbnailsAreKept`, `ThumbnailsAreKeptForReaders` | under `NoOverlap`, `Spec => KeepsThumbnails` and `ReadSpec => KeepsThumbnails`: `AvatarLifecycle` implements `ThumbnailPromise` |
| `CompletedIsStoredForReaders`, `ServableForReaders` | the invariants `JobInv`, `CompletedHasThumbs` (under `NoOverlap`) and `AckedAvatarServable` (always) for `ReadSpec` |
| `ReadsTyped` | `ReadSpec => []ReadTypeOK`: only what is stored in the format asked for is streamed |
| `ReadsServed` | under `NoOverlap`, `ReadSpec => ReadFailsOnlyIfDeleted`: a GET of a live acknowledged avatar breaks off only through its own call, or an image that does not convert |
| `OutcomeForGood` | under `NoOverlap`, for each avatar, `Spec => [](Outcome(a) => []Outcome(a))`: what was processed, dead-lettered or deleted stays so; the safety half of `UploadSettles` |

`cancelled_job` and `zombie_rollback` show that the properties fail without the premises. Numbers are not bounded: any
number of failed calls, aborted requests, replicas, retries, thumbnails, requests.

`NoJobIsLost` needs that nothing lets go of an event except by finishing it (`JobsKept`: no context ends, no session is lost, no
row comes back that the worker has already dismissed). `CompletedIsStored` needs `JobInv`:

* `OneAttempt`: an avatar's upload event is in one place, queued once or at one worker. This is what
  retries keep (a republish and an ack together move the event) and what a crash between the two loses;
* `NothingBeforeAck`: it is nowhere before the request is answered, so the request's own rollback meets no worker;
* `AttemptUnfinished`: who may still roll back is at a row that is not completed;
* `UploadedStay`, `CompletedKeepsThumbs`: what an attempt has stored, and what a completed row lists, is
  removed by nobody but a delete that is final.

For `ReadsServed` a reader that was led to a thumbnail stands on a row that stays completed (`LedByCompletedRow`,
`CompletedStays`), so `CompletedIsStored` gives it its object; one that was led to the original has `IInv`.

`OutcomeForGood` puts `CompletedStays`, `DLQKeeps` and the finality of an acknowledged delete together. A soft delete that is
not acknowledged yet is no outcome of its own: it may be taken back.

The mapping to `ThumbnailPromise` reads the `Stage` of an avatar off its row and its delete requests (`deleted` once one
is acknowledged, else `listed` when the row is completed, else `open`) and its stored thumbnails off the bucket. `JobPutThumb`
is `Store`, a call of `JobUndo` `Remove`, `JobSave` `List`, `DeletePublish` `Delete`, and a call of `SweepRemove` is `Remove` after
`Delete`; everything else is a stutter, the soft delete and the restore among it. `Store` and `Remove` are closed to a listed avatar,
and this is what the proof has to show of the code: that an attempt which stores or rolls back is at a row that is
not completed (`AttemptUnfinished`), that `List` finds the whole set (`UploadedStay`), and that only an acknowledged delete
has a sweep under way (`DeleteEventsAcked`). The promise is stronger than `CompletedHasThumbs`: it also says
that nobody rewrites a listed thumbnail.

### What the owner of an avatar may rely on (`AvatarPromise`, `AvatarRefinementProofs`)

| Theorem | Says |
|---|---|
| `PromiseKept` | in `AvatarPromise`, an acknowledged avatar is known, and stored until it is gone for good |
| `KeptThroughout` | `Spec => []KeptFromInsertOn`: a row disappears only by its own upload's rollback, an original only by an acknowledged delete |
| `Implements` | `Spec => ImplementsPromise`: `AvatarLifecycle` implements `AvatarPromise` |
| `OwnersKeepAvatars` | `PromiseKept` carried over to `AvatarLifecycle` |

The mapping reads three things off the system: `Answer` (what the upload request said; a request
that was aborted counts as failed), `Shown` (`shown` while the row is live, `gone` when it is not and a delete
was acknowledged, `none` without a row, `hidden` otherwise: soft-deleted, but not for good yet) and
`Stored` (the original is in the bucket). Each action is one step of the promise for its avatar, or none:
`UploadInsert` is `Show`, `UploadPublish` `Ack`, `UploadUndoRow` `Withdraw`, `DeleteSoft` `Hide`, `DeleteRestore`
`Reappear`, `DeletePublish` `Delete`, the removal of an original by a delete task `CleanUp`; no other step of the worker
is seen. The promise says nothing of thumbnails, which the findings are about, and lets a
failed upload leave a shown avatar without its original (`Fail`): an insert that takes effect although the caller gets
an error is followed by the removal of the object only, as `Upload` does. What the steps need of the state they
start in is `IInv` and `KeptFromInsertOn`.

### The publisher (`CircuitBreakerProofs`, `PublisherProofs`)

| Theorem | Says |
|---|---|
| `Invariant` | `Spec => []IInv` |
| `TypeCorrect` | `Spec => []TypeOK` |
| `ChannelAtHand` | `Spec => []NeverUsesNil`: no call uses a nil channel |
| `SingleSession` | `Spec => []OneSession`: `connect` never overwrites a session that is still referred to |
| `BreakerExact` | `Spec => []BreakerCountsFailures`: the circuit is closed exactly below the threshold |
| `OpenMeansNoSession` | `Spec => []OpenOnlyWithoutSession`: a replica with a session has a closed circuit |
| `LeaksBounded` | `Spec => [](late + orphans <= faults)`: a dial is left behind only by a context that ends, once for each |
| `PatientDialsLeaveNothing` | without `expire`, `Spec => []CancelledDialLeavesNothing`: the finding of `abandoned_dial` has no second cause |

Assumptions: `Threshold \in Nat \ {0}`, `Ops` are the three methods, `NoCaller` is no caller,
`MaxFaults \in Nat`. `IInv` has two parts. In `MutexInv` the four properties need each other and the mutex: it adds `MutexHeld` (who
is past `Lock` holds `p.mu`) and `AdmittedNotOpen` (nobody opens the circuit under a call it has
let through). `CircuitBreakerProofs` shows what each step of a breaker preserves; `CallStep` in `PublisherProofs` is
the one argument about the mutex, and each action is an instance of it. `LeaksCounted` pays for what leaks: abandoned
dials, unreferenced connections and calls that are under way with an ended context are together at most the faults so far,
because each such call can leave one dial behind, and then returns. Without the third summand the count is not
inductive.

### The placeholder (`PlaceholderProofs`)

| Theorem | Says |
|---|---|
| `Invariant` | `Spec => []IInv` |
| `PrewarmStores` | `Spec => []CleanPrewarmStores`: after a clean prewarm every variant is stored, and stays stored |
| `NoBlankResponse` | `Spec => []StreamsNeverBlank`: a replica with a clean prewarm never announces a zero-byte object |
| `PrewarmedForGood` | for each replica, `Spec => [](Clean(r) => [](\A o \in Object : store[o] \in Image))`: one clean prewarm is enough, whatever replicas, restarts and failed prewarms follow |

Assumptions: at least one variant, `NoFile` and the two marks of an object without an image are no
images, `MaxFaults \in Nat`. The invariant says what a prewarm has achieved half-way (`PastIsStored`), that
only a replica with a file uploads, and that responses come from replicas that are up.

### The processes (`DeploymentProofs`)

| Theorem | Says |
|---|---|
| `TypeCorrect` | `Spec => []TypeOK` |
| `Invariant` | `Spec => []IInv` |
| `ReturnsClosed` | `Spec => []NothingLeftOpen`: a process that has returned holds nothing, the session it dialled before `App.Close` included, whether that is up or was lost; only a session that a request dialled after `App.Close` and a health listener no signal stopped escape |
| `PoolOutlivesJobs` | `Spec => []JobsKeepThePool`: no job, cancelled or not, outlives the pool it writes to |
| `NothingElseDropped` | `Spec => []DroppedOnlyWithoutDelay`: the broker drops a message only where a delay of zero or less has left out a retry queue |
| `NothingAnsweredIsLost` | `Spec => []AnsweredIsKept`: the event of an answered request is in a queue, with a worker, handled, or taken in one of three ways, each with its cause: written to a server's session that was lost (`serverDrop`), rejected by a handler whose context was over (`signal`, `timeout`, or a worker's lost connection or channel), or sent to a retry queue that a delay of zero or less left out |
| `DisposalIsFinal` | for each request, `Spec => [](Disposed(q) => []Disposed(q))`: an event that was handled, taken in one of these ways, or is in its DLQ, stays so; the safety half of `AnsweredIsSettled` |

Any number of servers, workers and requests, any set of configurations with any lists of delays.
Assumptions: servers and workers are different processes; every request is an upload or a delete; `MaxTTL` and `MaxConns` are
positive; no list of delays is longer than `MaxRetries`; `NoServer`, `NoMessage` are neither.

`IInv` says why these hold:

* `HoldsWhatItOpened`: what a process has open follows from where its main is. This is what the
  hand-written clean-up of each error return has to get right, and `ReturnsClosed` reads it off at `down`. It tells the server's
  session dialled before `App.Close` (`Early`) from one dialled after (`Late`): the first is gone once main is past the publisher's
  `Close`, the second can only come after it;
* `RequestsEndWithServer`: requests are in flight only from `serving` to the exit, so nobody dials in between;
* `LoopsRunWhileConsuming`: a loop has a delivery only while main waits in `g.Wait`, so the pool is still open
  (`PoolOutlivesJobs`);
* `MessagesCounted`: a message's retry count is within its list of delays, and it is in queues of its own operation; without it
  `republishOrDLQ` might name a queue beyond the list;
* `DeclaredSoFar`: the calls of `DeclareTopology` that a process has passed have been accepted. The broker forgets
  none, so those of a process that died half-way count for the next;
* `TopologyBeforeUse`: either some process has had the whole topology accepted, or no process is far enough to
  publish or consume. With `MessagesCounted` a message can then be dropped only through a queue that was skipped;
* `FaultsExplain`: a signal, a dead session, a group with an error, a channel that a worker should have and has not, a rollback
  that started late, and an event that was lost or rejected have their fault in the log. The log is never shortened.

`NothingElseDropped` and `NothingAnsweredIsLost` are proved over `TypeOK` and `IInv`: `FateSteps` says which steps
dispose of a message, `HeldMoves` what a worker that lets go of a delivery does with it. For `NothingAnsweredIsLost` the
induction is over `Accounted`, that the event is somewhere or has a fate of any kind, and `OnlyExcused`, that a fate other than
`handled` is one of the three, follows from `FaultsExplain` and `NothingElseDropped`. `ExplainedStep` shows of each kind of fate by which
step it comes about, and which fault that step needs. `DisposalIsFinal` rests on `FateStays` (nothing takes a message out of `fate`),
`FaultsStay` and `ParkedStays` (nothing out of a DLQ).

### Model-checked only

The liveness properties (`UploadSettles`, `OriginalRemoved`, `CallsReturn`, `SessionComesBack`, `PrewarmEnds`, `AllComeUp`,
`SignalledExits`, `HalfWorkerEnds`, `AnsweredIsSettled`): fairness and `ENABLED` are out of reach of the prover. Of
those that promise something for good, the "for good" is proved (`RemovedForGood`, `OutcomeForGood`, `DisposalIsFinal`), and that
it comes to it is checked. Every safety
property of a passing run is stated by a theorem.

## 5. Plan

Done: the avatar's life with its two consumers and the promise it implements, reads, the publisher with its breaker, and the
placeholder; the processes that carry them, from start to exit, with the queue topology; the two promises the avatar's life
implements; theorems for every safety property of the runs.

Left: the decoding of `x-retry-count` and the size limits, as pure functions.

Not planned: what "Not modelled" lists.
