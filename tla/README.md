# EventFlow in TLA+

TLA+ modules of `eventflow-go`: an HTTP API that stores events and, in the same
transaction, outbox rows in PostgreSQL, and a fleet of outbox workers that
publish the rows to Kafka.  TLC checks the modules on small instances, TLAPS
proves the most important invariants for every value of the constants.
`PROJECT.json` maps every definition to the lines it models and lists the runs,
the faulty variants that each property must catch, the disagreements found, the
hazards and the theorems.

## 1. The system

| Component | Code | State | Operations |
|---|---|---|---|
| Ingestion | `transport/http/handle.go`, `event/application/ingest.go`, `platform/postgres/event_repository.go` | tables `events`, `outbox_events`, open transactions, the pool's connections | `Ingest`/`Handle`, `Save`, `FindByEventID` |
| Outbox repository | `platform/postgres/outbox_repository.go`, `migrations/002` | `status`, `attempts`, `available_at`, `processing_at`, row locks | `ClaimPending`, `ReclaimStale`, `MarkPublished`, `MarkFailed`, `MarkClose` |
| Outbox workers | `event/application/outbox_worker.go` (`process`) | the batch in memory, each event's copy of `attempts`, `procCtx` | ticker, reclaim, claim, publish, record |
| Worker lifecycle | `outbox_worker.go` (`Run`, `advanceState`) | `state`, `timedOut`, `stopped`, `procCtx` | `Run`'s goroutine and its watcher |
| Process | `cmd/api/main.go` | `rootCtx`, `serverErrors`, `workerErrors`, `workersStopped`, the WaitGroup | start of the workers, signals, the stages of the shutdown |
| Kafka publisher | `platform/kafka/publisher.go` | none of its own | `Publish`, `Close` |
| Retry delay | `event/application/retry.go` | none | `RetryDelay` |
| Failing publisher | `event/application/failing_publisher.go` | failures per event, two counters | `Publish`, `injectFailure` |
| Metrics | `metrics/outbox.go` | three counters | incremented by `process` |
| Configuration | `config/config.go` | none | `Load`, the three `Validate` |
| Startup and migrations | `cmd/api/main.go`, `platform/postgres/migration.go`, `migrations/*.sql` | the catalog, table locks, open transactions | `Load`, `NewDB`, `Migrate` |
| Benchmark | `cmd/outboxbench/main.go`, `platform/kafka/admin.go` | deliveries per row, the counts last read, the topic | setup, `waitDrained`, stop, report |
| HTTP middleware, routing, schemas, domain types | see `PROJECT.json` | none | not modelled (section 7) |

How they interact.  Workers, requests and replicas share nothing but the
database and the broker.  A request and a worker meet in the table
`outbox_events`; two workers meet in its row locks and status column; a worker
and its own past meet there too, when a reclaim hands its row to somebody else.
Processes that start meet in the
catalog and its table locks, with one another and with the claims of processes
that serve already.  Inside a process, `main` and the workers share `rootCtx`, the channel
`workerErrors` and a WaitGroup; `Run` and its watcher share three atomics, a
channel and a context.

What is hard in it:

- a row has no owner column.  Ownership is a lock during the claim, and after
  its COMMIT an age: whoever finds the row older than the stale timeout takes it;
- workers act on what they read at the claim, many calls earlier;
- a publish, a statement or a COMMIT may take effect although its caller sees
  an error, and the caller may die before or after it;
- nothing records which migrations were applied: every start runs every file
  again, side by side with others, and takes table locks that deadlock;
- shutdown has four time-outs, some running side by side and some in sequence,
  and every channel operation of it must be safe in every order.

What makes each part correct:

- *outbox*: PUBLISHED only with a copy at the broker; CLOSE only after the whole
  retry budget; PUBLISHED is final; nothing is stranded; under stated timing,
  no event is in two hands;
- *ingestion*: an event and its outbox row exist together or not at all; each
  `event_id` is a write-once register, whichever request fails or races;
- *shutdown*: what `Run` returns is true, nobody sends on a closed channel, cut
  batches are reported, the process ends;
- *retry delay*: no overflow, always within the cap;
- *startup*: nobody serves on a half-made schema or an unusable configuration,
  the schema grows by whole files, every process gets to serve in the end;
- *benchmark*: one delivery per row, no row stranded by a stop, a report that is
  true when it is printed, counters that agree with the rows.

## 2. The modules

| Module | Models | Composed of |
|---|---|---|
| `OutboxContract` | what the pipeline promises: a row is queued, then confirmed or given up | |
| `OutboxRepository` | the table and each SQL statement, as operators | |
| `OutboxWorker` | the fleet: one action per call of each worker, and what may befall it | extends `OutboxRepository` |
| `RunContract` | what `Run` promises to its batches: none begun after the signal, none cut before it | |
| `OutboxProperties` | the fleet's properties; `Contract` instantiates `OutboxContract`, `Lifecycle` `RunContract` | extends `OutboxWorker` |
| `OutboxInvariant` | the inductive invariants `FleetInv`, `PromptInv` and `CopiesInv` | extends `OutboxProperties` |
| `OutboxWorkerProofs`, `OutboxTimingProofs` | theorems about the fleet | extend `OutboxInvariant`; the second one `Induction` |
| `WorkerRun` | `Run` and the watcher of every worker of a process; `Lifecycle` instantiates `RunContract` | |
| `ApiShutdown` | `main` from the start of the workers to the end | extends `WorkerRun` |
| `ShutdownInvariant`, `ShutdownProofs` | its inductive invariants and theorems | extend `ApiShutdown` |
| `FailingPublisher` | the publisher that injects failures | |
| `OutboxBench` | the benchmark: the fleet under a publisher chain, the counters and `main` | extends `OutboxInvariant`, instantiates `FailingPublisher` |
| `BenchProofs` | theorems about the benchmark | extends `OutboxBench`, `OutboxTimingProofs`, `Induction` |
| `Config` | which environments are accepted, and the settings they give | |
| `Startup`, `StartupProofs` | processes that start and migrate, and claims next to them; theorems | extends `Config` |
| `IngestContract` | what `POST /api/v1/events` promises: a write-once register | |
| `Ingest`, `IngestInvariant` | the handlers and their transactions; `Contract` instantiates `IngestContract` | |
| `IngestProofs` | theorems about ingestion | extends `IngestInvariant` |
| `RetryDelay`, `RetryDelayProofs` | `RetryDelay` on integers of a given width; theorems | the second one extends `Induction` |
| `Induction` | induction over the naturals and over finite sets, counting and sums, as lemmas | |
| `MCOutboxWorker`, `MCApiShutdown`, `MCIngest`, `MCRetryDelay`, `MCOutboxBench`, `MCStartup` | instances for TLC: symmetry sets, the environments and schemas of `startup` | |

A definition marked `\* faulty:` is not part of the model.  It is a plausible
bug in the definition after it; a property must fail when it takes that
definition's place.

### Outbox: state and actions against the code

- `status`, `attempts` are the columns.  A row *is* its `created_at` rank, so
  `ORDER BY created_at` is `<`; ties, which the code breaks arbitrarily, are not
  modelled.  `availableIn` and `processingFor` are `available_at` and
  `processing_at` as distances from the one clock.  A `NULL processing_at`
  counts as stale (`LegacyRows`, rows an older build left behind).
- `ClaimPending` is two steps, `ClaimSelect` (`FOR UPDATE SKIP LOCKED`, which
  also fixes the `NOW()` of the later UPDATE) and `ClaimCommit`; the row locks
  in between are `lockedBy`.  Every other statement is one step that waits for
  the row's lock.
- `todo[w]` is the batch, `snap[w][r]` is `event.Attempts`; `pc[w]` is the call
  a worker makes next.  `PublishAcked` and `PublishRejected` follow the two
  branches of `process`, `PublishAborted` the early return on a cancelled or
  expired context, `RecordPublished`/`RecordFailed`/`RecordClosed` the three
  marks.  The action `Errs` makes a statement fail; for a mark, a failure after
  the effect leads on exactly as success does.  For the claim's COMMIT it does
  not, and `ClaimFails` has both outcomes.
- `Shutdown`, `ForceCancel`, `Crash`, `Restart` and `Tick` are the surroundings.
  `ctx[w]` is the pair of contexts of `Run`; `WorkerRun` has them in detail.
  `RunContract` is what the two have to agree on: the fleet takes the contexts for
  granted, `WorkerRun` takes a batch for one step, and both implement it.

### Shutdown

Every access of `Run` and the watcher to what they share is a step:
`advanceState` is a load and a compare-and-swap with other goroutines in
between, the watcher's `timedOut.Store(true)` and `procCancel()` are two steps,
as are the deferred `close(stopped)` and `procCancel()`.  A batch is one stay in
`process`; `cut` remembers the workers whose batch was in flight when they were
cancelled.  `main` walks through `serving, stop, http, wait, drain, publisher,
pool`; its goroutines are `SendResult`, `Done`, `CloseWorkersStopped`.
`Stubborn` workers are those whose publisher may ignore the cancellation (the
case the code's five seconds of grace are for).  `Punctual` says whether a
goroutine that can go on may be kept waiting while time passes.

### Ingestion

A request stands for the event it would create.  Each statement of `Save` and
the look-up after a conflict are steps; `written` is what an open transaction
has inserted and nobody else sees, `Blocked` the wait of an INSERT on the unique
index for another transaction with the same `event_id`.  A handler may fail or
die at any statement; the server then rolls its transaction back *later*, or
commits one whose COMMIT was under way.  What the JSON binding, the registry and
the validator look at is abstracted to the fault they find.  `validateCommand`
repeats checks of the binding and finds nothing in a request that passed it.

### Retry delay

The function step by step; `Wrap` is two's complement of the width `MaxInt`
implies, so that an overflow would be seen.

### Benchmark

Every step of a worker in `OutboxBench` is one of `OutboxWorker`; what the
benchmark adds is around it.  `phase` is the call of `run` that comes next, from
`truncate` over the seeding and the topic (`EnsureTopic`, `TopicIsReady`) to
`waiting`, `joining` and `reported`.  A publish is two steps: `injectFailure`
(under its mutex, so one step), which fails the event or lets it `pass`, and then
the inner publishers, where `benchPublisher` counts a delivery once Kafka has
acknowledged it.  `CountDrained` and `CountUndrained` are one round of
`waitDrained`: the counts are those of one statement, and the decision is taken on
them while workers go on.  The counters of `metrics/outbox.go` move in the step
they follow in `process`; `Told` is whether the reply to a mark arrived, because
the counters go by the reply and the rows by the effect.

### Startup and configuration

`Config` keeps what the parser of a variable makes of its value (nothing, no
value of the type, NaN, a number), so `Loads` and the three `...Valid` are the
conditions of `Load` and `Validate`.  `Startup` has `main` up to the workers.  A
migration is its statements, each with the table lock it takes; `CREATE ... IF NOT
EXISTS` is two steps, `LookUp` and `Create`, since another transaction may create
the object in between, and `CreateConflicts` is its unique violation.  `added` and
`removed` are what an open transaction has done and nobody else sees.  Locks last
until its end; `Blockers` is whom it waits for, and `Victim` is PostgreSQL breaking
a cycle.  A serving process claims: its SELECT and its UPDATE take locks that
conflict with those of ALTER TABLE and CREATE INDEX.

## 3. The runs

| Run | Instance | What it shows |
|---|---|---|
| `fleet_safety` | 2 workers, 2 rows, budget 2, stale timeout of one tick, 2 disruptions of any kind, every publish fault | `FleetInv` is an invariant; PUBLISHED and CLOSE mean what they say (CLOSE as a conjunct of `FleetInv`); the budget is overrun by at most one failure per other worker; PUBLISHED is final; the fleet implements `OutboxContract` and works under `RunContract` |
| `fleet_prompt` | calls of at most 1 tick, stale timeout 6 > 1 * (2*2+1), budget 2, up to 6 copies counted, every fault but an expiry | `PromptInv`, one holder per row, exact budget, each copy but the first is owed to a failure on record or a disruption |
| `fleet_liveness` | a poison row before a healthy one, 2 disruptions of any kind, fairness | the poison row is closed and the healthy row published, also when they were left in PROCESSING; a worker told to stop stops |
| `shutdown_races` | 2 workers, no punctuality, no grace | `ShutdownInv`; nil means drained; no send after close; cut workers are reported; the state moves forward; a batch in flight gets its whole timeout; `Run` implements `RunContract` |
| `shutdown_ends` | punctual goroutines, one stubborn worker, fairness | `main` reaches the publisher's Close within the sum of its time-outs, only a stubborn worker outlives it, the others return, the process ends |
| `ingest` | 3 requests, 2 event ids, 2 connections, fairness | `IngestInv`; event iff outbox row; a duplicate finds the event; write-once register; every request ends |
| `bench` | 2 workers, a healthy and a poisoned row, a Kafka that may refuse, the injector's cap equal to the budget of 1, an interrupt at any time, one failed statement or forced cancellation | each row delivered once; a stop strands no row; a capped injector closes no row; the report of a drained run is final; counters agree with rows |
| `startup` | 2 processes, four schemas left by earlier builds, each variable of the environment wrong in every way, 2 disruptions, fairness | whoever serves has a usable configuration and the whole schema; the schema grows by whole files; every process gets to serve |
| `retry_delay` | 5-bit durations, all bounds, 6 retries | no overflow, the bounds (in `RetryInv`), the documented delay up to one unit |
| `doc_stale_timeout` | violation | a stale timeout of three calls is too short for a batch of two |
| `doc_expired_write` | violation | a write that always expires is never a failure, the row circulates for ever |
| `doc_created_at` | violation | the 201 answer has the zero time as `created_at` |

`CHECK_DEADLOCK FALSE` stands where the system ends: a process that exited,
requests that are answered, a function that returned.  The fleet never stops,
and its runs check deadlock.

### Why the bounds are enough

- Two workers show every pairwise race on a row; no action involves three.  Two
  rows with a batch of two show a batch with a first and a last event, and a
  claim that finds part of the rows locked.
- A stale timeout of one tick with unbounded calls lets a reclaim come between
  any two calls of a worker, which a larger one would not add to.
- `MaxDisruptions = 2` allows a crash after a lost COMMIT reply, or a shutdown
  followed by its forced cancellation.  `MaxCopies` only caps a counter that
  properties compare with zero or one; `fleet_prompt`, which compares it with the
  failures and disruptions, counts to six, and no row gets more than the five that
  two failures and two disruptions allow.
- Shutdown timeout 1 and 2 time bounds apart: what matters is the order of the
  time-outs, which unpunctual goroutines make arbitrary.
- In `bench` the budget and the cap are 1, so that one failure too many closes a
  row; `MaxCopies` is 2, so that a second delivery is seen.  Its stale timeout is
  above what a batch may take, as in every benchmark of TESTREADME.md.
- In `startup` two processes are enough for every deadlock: a wait of a third
  adds to a cycle of two.  Two disruptions are a crash in one migration and a lost
  COMMIT reply or a claim that wins in the next.  `MaxInt32` is 2: what matters is
  a number on each side of it.
- Three requests are a writer, one that waits for it and one that comes later.
- Five bits show every relation of base, cap and overflow; `RetryDelayProofs`
  does it for every width.

### Fairness, and why the code justifies it

- A worker that can take a step does (weak fairness): goroutines are scheduled,
  and calls end because contexts, the broker's write timeout or the loss of
  the connection end them.  A mark waits for row locks that claims take again
  and again; PostgreSQL queues lock waiters and the next claim skips the row, so
  marks have strong fairness.  A dead process is restarted
  (`docker-compose.yml`) and time passes.  Inserts, crashes, signals and faults
  have no fairness.
- In `ApiShutdown` goroutines that can go on do; a batch need not end by itself,
  and one that heeds the cancellation returns within `CutBound`.  The pool's
  Close ends once no connection is out.  A worker that ignores the cancellation
  is assumed not to hold a connection, as it is stuck in its publisher.  Signals
  have no fairness.
- In `Startup` a process that can go on does and a dead one is started again
  (`restart: unless-stopped`).  A statement that waits for a lock again and again
  gets it in the end (strong fairness of `LookUp`, `Create`, `Alter` and
  `ClaimUpdate`): PostgreSQL queues the requests for a lock and a later one does
  not overtake.  That a migration is the victim of a deadlock *with a claim* is a
  disruption, and bounded: claims take milliseconds and come seconds apart.  A
  deadlock of two migrations is not bounded: each start that loses leaves behind
  one more process that gets through.
- In `Ingest` handlers go on, and the server ends the transactions of clients
  that are gone.

## 4. What is proved

TLAPS proves the following for any number of workers and rows and for every
value of the other constants, from the assumptions named in the modules
(`RepositoryAssumption`, `WorkerAssumption`, `RunAssumption`, `ApiAssumption`,
`RetryAssumption`, `BenchAssumption`, `StartupAssumption`, those of `Ingest`: the
ranges of the constants, and that workers and the rows of a benchmark are finitely
many).

**The fleet** (`OutboxWorkerProofs`).  None of the properties is inductive.
`PublishedWasDelivered` needs to know that a worker about to call
`MarkPublished` was acknowledged (`AckInv`); `CloseAfterBudget` that a worker
about to call `MarkClose` has a copy at the budget (`CloseInv`) and that copies
may be old but never ahead of the row (`SnapInv`); `PublishedIsFinal` that the
rows of an open claim are locked and PENDING (`LockInv`), because the claim's
UPDATE has no status guard.  `AttemptsBounded` counts: failures on record plus
workers that still hold a copy below the budget (`BudgetInv`).  Their
conjunction is `FleetInv`: `FleetInvariant`, with one lemma for worker steps and
one for everything else in each part.  `FleetKeepsContract` shows that each step
maps to a step of `OutboxContract` or to a stutter.  `FleetObeysRun` does the same
for `RunContract`, and needs that a worker that is down has the contexts of its next
`Run` (`FreshInv`).

**Timing** (`OutboxTimingProofs`).  Under `Prompt` (no reclaim, or
`StaleTimeout > CallBound * (2 * BatchSize + 1)`) `PromptInvariant` shows that a
row in a batch is no older than the calls its worker has made since its claim
(`AgeInv`), so a reclaim never meets it and the copy in memory is the row
(`HoldInv`).  `NoTwoHolders` and `ClosedExactly` follow.  The factor of
`BatchSize` is the one the documentation of `OUTBOX_STALE_TIMEOUT` leaves out.

**Copies** (`OutboxTimingProofs`).  Also under `Prompt`, and without writes that
expire, `CopiesAreAccounted` bounds the copies of a row at the broker by one, the
failures on record and the disruptions.  The bound alone is not inductive: a copy
exists before its failure is recorded, and a worker whose context is cancelled may
still deliver one.  `CopiesInv` therefore counts one more copy for every worker that
was cancelled with the row in hand (`CancelledHolders`), and allows the copy that
nothing pays for only where the last publish was answered (`Answered`): its outcome is
on record or a worker is about to record it.  It needs `HoldInv`: two holders of one
row could each deliver it with nothing to pay for the second copy, as the faulty
`StaleAtOnce` shows.  TLC checked `CopiesInv` on the instance of `fleet_prompt`, whose
configuration keeps the bound that follows from it.

**Shutdown** (`ShutdownProofs`).  `ShutdownInv` says what each place in `Run`,
the watcher and `main` implies: the flag is set before a batch is cut
(`CutInv`), the watcher's timer never overtakes the clock that started with the
signal (`WatchInv`), a state about to be swapped is smaller than the new one
(`StateInv`), results pass from `Run` through the channel to `main`
(`ChannelInv`).  From it: `NilDrained`, `NoSendOnClosed`, `CutReported`,
`StateNeverBack`, `TimeoutGranted`.  `RunKeepsItsContract` shows that every access of
`Run` and its watcher to what they share is a step of `RunContract` or a stutter; it
needs that procCtx is cancelled only after the signal (`ContextInv`).  With `FleetObeysRun`
this joins the two halves of a worker: the contexts assumed by the one are those
provided by the other.

**Shutdown in time** (`ShutdownProofs`).  Where goroutines run as soon as
they can, the process's clock advances only with one of main's two waits
(`ElapsedInv`), so `ExitsWithinBound` follows from the bounds of the two.  While
main waits for a worker that heeds the cancellation, a batch is in flight, and
its shutdown timer and the time its cut call has taken together are no less than
main's wait (`OutliveInv`): a worker that has ended has left its result in the
channel, which has room for all of them (`EndInv`).  With a grace above `CutBound`
main therefore never gives up on it (`OnlyStubbornOutliveMain`).  That a cancelled
call takes less than the grace of five seconds is an assumption; the code has no
bound on it.

**Retry delay** (`RetryDelayProofs`): `RetryInvariant`, `DelayInBounds`,
`NoOverflow`, at every width.  `DelayIsDocumented` compares the loop with the
documented `baseDelay * 2^(retry-1)`: after `n` rounds the delay is the doubled base
as long as that is below the cap (`DoublingInv`), by an induction that shows the
powers of two to be natural and growing; the jitter stays within its half (`BoundsInv`).
The step of induction is proved in `Induction` from the library's well-founded order on
the naturals, as the library's own induction theorems cannot be instantiated here.

**Benchmark** (`BenchProofs`).  `BenchInv` is `FleetInv` and what the setup
implies: nothing is claimed before the workers start, and `TRUNCATE` leaves no row
of an earlier run in PROCESSING.  As every worker step is a step of the fleet, the
theorems of the fleet are cited rather than proved again.  `CappedRowsNotClosed`
counts: failures on record plus workers about to record one never exceed the
failures injected (`CapInv`), which the cap bounds.  `BenchStopStrandsNothing`
needs that no publish ends in an expiry, since `process` then leaves its batch
where it is.  `BenchDeliversAtMostOnce` and `DrainedCountsAreFinal` need `Prompt`:
with a shorter stale timeout a row may be published twice, and a worker may still
hold a row of a table that looked drained.

The report and the counters are sums over rows.  `Induction` defines the count of the
rows with a given status and proves, by induction over finite sets, that the counts of
a partition add up to the whole.  From that, `ReportCountsEveryRow` (whatever the stale
timeout) and, under `Prompt`, `ReportTrue`.  For the counters, `RecordedInv` relates
`published` and `closed` to the rows and `FailedInv` relates `failed` to the sum of
`attempts`: `NoFailureUncounted` without `Prompt`, `CountersAreTrue` with it.

**Startup** (`StartupProofs`).  `MigrationInv` says of an open transaction that it
has added nothing but objects of its own file and dropped nothing but the status
check, which a later statement of the file adds again, and that the statements
before the current one have had their effect (`StatementsDone`).  So a COMMIT adds
a whole file, and nobody serves on less than all of them.  The theorems hold for any
number of processes and any schema left behind.

**Ingestion** (`IngestProofs`).  `IngestInv` relates each handler's place to what its
transaction has written and what is committed.  `IngestIsWriteOnce` shows that a
COMMIT is `Accept` of `IngestContract`, an answer is one of its three answers, and
every other step is a stutter.

Only model-checked: liveness (out of the prover's reach).  Every invariant and every
action property of a passing run is stated by a theorem, and so are the four
refinements.  Where a theorem has a hypothesis on the constants (`Prompt`, a cap within
the budget, `Punctual`, no expiry), the run's instance satisfies it, and section 5 or
the run of a finding shows what happens otherwise.

## 5. What the code does not keep

Shown by a run (details and quotations in `PROJECT.json`):

1. A stale timeout well above the longest publish does not exclude double
   publishing: the age of a row counts the whole batch before it
   (`doc_stale_timeout`).  For the same reason two workers may hold one row and
   close it with more failures on record than the budget, where TESTREADME.md:125-127
   expects none; `AttemptsBounded` says how many more, and `ClosedAtExactBudget`
   that there are none once the timeout covers a whole batch.
2. A write that expires is not treated as a publish failure
   (`doc_expired_write`).
3. `created_at` of a 201 answer is the zero time (`doc_created_at`).

Seen while modelling, visible in the actions and without a run of their own:

- `MarkPublished` has no status guard, so PUBLISHED is reached from PENDING and
  CLOSE too, against the diagram of ARCHITECTURE.md:109-115 (`Confirm` of
  `OutboxContract` allows it);
- a row whose budget is spent is closed without a copy at the broker, against
  "every ingested event reaches Kafka at least once" (ARCHITECTURE.md:146);
- the publisher is closed with a publish in flight when `main` gives up on a
  worker, against main.go:485 (`OnlyStubbornOutlives` makes the exception);
- `ErrShutdownTimeout` may be returned by a `Run` whose batch was not cancelled:
  the timer may fire between the end of the batch and `close(stopped)`;
- `outbox_events_failed_total` counts twice when `MarkFailed` itself fails, and
  `outbox_pending_events` is never set (`CountersMatchRows` bounds the counters
  from one side only);
- `PUBLISH_FAILURE_RATE=NaN` is accepted, since NaN is neither below 0 nor at
  least 1, and injects nothing;
- replicas that start together make each other's start fail (a unique violation
  or a deadlock), which only the supervisor repairs;
- properties that do not fit the schema are answered with 400 where the OpenAPI
  file has 422.

## 6. Abstractions to keep in mind

- One clock: `retryAt` is computed from the process's clock and compared with
  the database's.
- A failed statement takes effect before its caller sees the error, or not at
  all; a statement that is still executing at the server after its worker has
  gone on is modelled for the COMMIT of `Save` only.
- `OUTBOX_STALE_TIMEOUT=0` (no reclaim) is what `NewOutboxWorker` supports and
  the theorems cover; `config.Validate` refuses it, so the API never runs so.
- The pool is modelled for requests, not for workers: a worker's wait for a
  connection is part of the time of its call.
- kafka-go, PostgreSQL, `net/http` and pgxpool are external: only what the code
  relies on is modelled.

## 7. Not modelled, and the plan

Not modelled, and why:

- middleware, routing, the health handler, the mapper, schemas, domain types:
  straight-line code or tables, without state of their own;
- the Kafka counters (nothing reads them), flags and formatting of the benchmark,
  `DeleteTopic` (called by tests only);
- the effect of a statement that reaches the table after its worker has gone on
  (outbox_repository.go:212): it needs statements in flight next to each worker,
  which multiplies the states of the fleet beyond what these runs can hold;
- a clock for each process, and pools smaller than the workers (section 6).

What could follow, in this order: statements that take effect late, in a module of
their own over one row; a clock for each process; a pool that workers share with requests.
