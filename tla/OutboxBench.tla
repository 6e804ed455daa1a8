---------------------------- MODULE OutboxBench ----------------------------
(***************************************************************************)
(* cmd/outboxbench: a fleet of OutboxWorker over a table that is reseeded  *)
(* for the run, a publisher chain that injects failures and counts         *)
(* deliveries,                                                             *)
(*                                                                         *)
(*    FailingPublisher -> benchPublisher -> nothing, or Kafka              *)
(*                                                                         *)
(* and a main goroutine that polls the table until it has drained, stops   *)
(* the workers and reports.  The counters of metrics/outbox.go are here,   *)
(* each incremented in the step of the worker it follows: nobody reads one *)
(* before the workers have ended.                                          *)
(*                                                                         *)
(* Every step of a worker is a step of OutboxWorker.  There is no crash    *)
(* and no restart: the benchmark is one process, and one run.              *)
(***************************************************************************)
EXTENDS OutboxInvariant, Functions

CONSTANTS
    Kafka,           \* -publisher kafka
    TerminalFaults,  \* how its Publish may fail, as in PublisherFaults
    Failing,         \* -failure-rate > 0
    MaxFailures      \* the cap of failures per event given to FailingPublisher

ASSUME BenchAssumption ==
    /\ IsFiniteSet(Rows)
    /\ Kafka \in BOOLEAN /\ Failing \in BOOLEAN /\ MaxFailures \in Nat
    /\ ~Kafka => TerminalFaults = {}
    /\ TerminalFaults \union (IF Failing THEN {"reject"} ELSE {}) = PublisherFaults
    /\ Disruptions \subseteq {"forceCancel", "dbError"}
    /\ \A r \in Rows \ PoisonRows, p \in PoisonRows : r < p  \* seeded first

VARIABLES
    phase,        \* the call of run() that comes next
    topic,        \* of Kafka: "absent", "electing" (no leader yet) or "ready"
    interrupted,  \* rootCtx is cancelled
    counts,       \* the last counts waitDrained has read
    outcome,      \* how waitDrained ended; "none" while it has not
    passed,       \* passed[w]: injectFailure let w's event through
    failures, reached, injected,  \* of FailingPublisher
    calls,        \* benchPublisher.calls
    refused,      \* refused[r]: Kafka itself has refused r
    published, failed, closed     \* the counters of OutboxMetrics

publishing == <<passed, failures, reached, injected, calls, refused>>
metrics == <<published, failed, closed>>
control == <<phase, topic, interrupted, counts, outcome>>
benchVars == <<vars, publishing, metrics, control>>

Injector == INSTANCE FailingPublisher WITH Events <- Rows, Permanent <- PoisonRows

Setup == {"truncate", "seed", "seedPoison", "ensureTopic", "awaitTopic", "start"}

Counted(s) == Cardinality({r \in Rows : status[r] = s})

TableCounts == [s \in Status \ {"ABSENT"} |-> Counted(s)]

BenchTypeOK ==
    /\ TypeOK
    /\ Injector!TypeOK
    /\ phase \in Setup \union {"waiting", "joining", "reported", "failed"}
    /\ topic \in {"absent", "electing", "ready"}
    /\ interrupted \in BOOLEAN
    /\ counts \in [Status \ {"ABSENT"} -> Nat]
    /\ outcome \in {"none", "drained", "timeout", "interrupted", "countError"}
    /\ passed \in [Workers -> BOOLEAN]
    /\ calls \in [Rows -> Nat]
    /\ refused \in [Rows -> BOOLEAN]
    /\ published \in Nat /\ failed \in Nat /\ closed \in Nat

\* The database is reached and migrated (see Startup); the table has what
\* earlier runs left there.
BenchInit ==
    /\ TableInit
    /\ pc = [w \in Workers |-> "down"]
    /\ todo = [w \in Workers |-> {}]
    /\ snap = [w \in Workers |-> NoSnap]
    /\ ctx = [w \in Workers |-> "live"]
    /\ busy = [w \in Workers |-> 0]
    /\ delivered = [r \in Rows |-> 0]
    /\ disruptions = 0
    /\ Injector!Init
    /\ phase = "truncate"
    /\ topic \in {"absent", "electing", "ready"}
    /\ interrupted = FALSE
    /\ counts = [s \in Status \ {"ABSENT"} |-> 0]
    /\ outcome = "none"
    /\ passed = [w \in Workers |-> FALSE]
    /\ calls = [r \in Rows |-> 0]
    /\ refused = [r \in Rows |-> FALSE]
    /\ published = 0 /\ failed = 0 /\ closed = 0

-----------------------------------------------------------------------------
(* run(), up to the workers.  setupCtx bounds it, and any error ends it.   *)

Proceed(from, to) == phase = from /\ phase' = to

OnlySetup == UNCHANGED <<workers, delivered, disruptions, publishing, metrics,
                         interrupted, counts, outcome>>

Truncate ==
    /\ Proceed("truncate", "seed")
    /\ status' = [r \in Rows |-> "ABSENT"]
    /\ attempts' = [r \in Rows |-> 0]
    /\ availableIn' = [r \in Rows |-> 0]
    /\ processingFor' = [r \in Rows |-> 0]
    /\ lockedBy' = [r \in Rows |-> NoWorker]
    /\ OnlySetup /\ UNCHANGED topic

\* seedBatch: one statement, every row PENDING and due
SeedBatch(batch) ==
    /\ status' = [r \in Rows |-> IF r \in batch THEN "PENDING" ELSE status[r]]
    /\ UNCHANGED <<attempts, availableIn, processingFor, lockedBy>>
    /\ OnlySetup /\ UNCHANGED topic

Seed == Proceed("seed", "seedPoison") /\ SeedBatch(Rows \ PoisonRows)

SeedPoison ==
    /\ Proceed("seedPoison", IF Kafka THEN "ensureTopic" ELSE "start")
    /\ SeedBatch(PoisonRows)

\* CreateTopics; TopicAlreadyExists is no error.
EnsureTopic ==
    /\ Proceed("ensureTopic", "awaitTopic")
    /\ topic' = IF topic = "absent" THEN "electing" ELSE topic
    /\ OnlySetup /\ UNCHANGED table

\* WaitTopicReady polls until every partition has a leader.
TopicIsReady ==
    /\ Proceed("awaitTopic", "start")
    /\ topic = "ready"
    /\ OnlySetup /\ UNCHANGED <<table, topic>>

\* The broker elects the leaders.
TopicElects ==
    /\ topic = "electing"
    /\ topic' = "ready"
    /\ OnlySetup /\ UNCHANGED <<table, phase>>

\* A statement or a request fails, or a deadline passes; the topic may exist.
SetupFails ==
    /\ phase \in Setup \ {"start"}
    /\ phase' = "failed"
    /\ OnlySetup /\ UNCHANGED <<table, topic>>

\* The workers run under a context that a signal may have cancelled already.
StartWorkers ==
    /\ Proceed("start", "waiting")
    /\ pc' = [w \in Workers |-> "idle"]
    /\ ctx' = [w \in Workers |-> IF interrupted THEN "stopping" ELSE "live"]
    /\ UNCHANGED <<table, todo, snap, busy, delivered, disruptions, publishing,
                   metrics, topic, interrupted, counts, outcome>>

-----------------------------------------------------------------------------
(* The workers, the publisher chain under them and their counters *)

\* metrics.Failed.Inc(), before the budget is looked at
CountRejectionOfRetries(w, r) ==  \* faulty: only on the way to MarkFailed
    IF BudgetSpent(w, r) THEN UNCHANGED metrics
    ELSE failed' = failed + 1 /\ UNCHANGED <<published, closed>>
CountRejection(w, r) == failed' = failed + 1 /\ UNCHANGED <<published, closed>>

InjectorFails(w, r) ==
    /\ ~passed[w]
    /\ PublishRejected(w, r) /\ UNCHANGED delivered
    /\ Injector!Inject(r)
    /\ CountRejection(w, r)
    /\ UNCHANGED <<passed, calls, refused, control>>

InjectorPasses(w, r) ==
    /\ pc[w] = "publish" /\ IsNext(w, r)
    /\ ~passed[w]
    /\ Injector!Pass(r)
    /\ passed' = [passed EXCEPT ![w] = TRUE]
    /\ UNCHANGED <<vars, calls, refused, metrics, control>>

\* What follows the injector: it is done with w's event.
InnerPublish(w) ==
    /\ passed[w]
    /\ passed' = [passed EXCEPT ![w] = FALSE]
    /\ UNCHANGED <<failures, reached, injected, control>>

Acknowledged(w, r) ==
    /\ InnerPublish(w)
    /\ PublishAcked(w, r)
    /\ calls' = [calls EXCEPT ![r] = @ + 1]
    /\ UNCHANGED <<refused, metrics>>

Refused(w, r) ==
    /\ InnerPublish(w)
    /\ TerminalFaults \intersect {"reject", "lostAck"} # {}
    /\ PublishRejected(w, r)
    /\ "reject" \notin TerminalFaults => delivered' # delivered
    /\ refused' = [refused EXCEPT ![r] = TRUE]
    /\ CountRejection(w, r)
    /\ UNCHANGED calls

\* The latency of benchPublisher, or Kafka, ends with the context's error.
Aborted(w, r) ==
    /\ InnerPublish(w)
    /\ PublishAborted(w, r)
    /\ ~Kafka => UNCHANGED delivered
    /\ UNCHANGED <<calls, refused, metrics>>

\* What the worker may be told of the statement it made: when it had effect
\* the reply may still be lost with the connection.
Told(w) ==
    IF ctx[w] = "cancelled" \/ disruptions' # disruptions THEN {FALSE}
    ELSE IF "dbError" \in Disruptions THEN BOOLEAN
    ELSE {TRUE}

Inc(counter, when) == IF when THEN counter + 1 ELSE counter

RecordsPublished(w, r) ==
    /\ RecordPublished(w, r)
    /\ \E told \in Told(w) : published' = Inc(published, told)
    /\ UNCHANGED <<failed, closed>>

\* MarkFailed returns an error also when no row was PROCESSING.
RecordsFailed(w, r) ==
    /\ RecordFailed(w, r)
    /\ \E told \in Told(w) : failed' = Inc(failed, ~(told /\ Markable(r)))
    /\ UNCHANGED <<published, closed>>

RecordsClosed(w, r) ==
    /\ RecordClosed(w, r)
    /\ \E told \in Told(w) : closed' = Inc(closed, told /\ Markable(r))
    /\ UNCHANGED <<published, failed>>

PublishStep(w) ==
    \E r \in Rows :
        \/ InjectorFails(w, r)
        \/ InjectorPasses(w, r)
        \/ Acknowledged(w, r)
        \/ Refused(w, r)
        \/ Aborted(w, r)

RecordStep(w) ==
    \E r \in Rows :
        /\ RecordsPublished(w, r) \/ RecordsFailed(w, r) \/ RecordsClosed(w, r)
        /\ UNCHANGED <<publishing, control>>

ClaimStep(w) ==
    /\ \/ TickerFires(w)
       \/ Reclaim(w)
       \/ ClaimSelect(w)
       \/ ClaimNothing(w)
       \/ ClaimCommit(w)
       \/ ClaimFails(w)
       \/ Stop(w)
       \/ ForceCancel(w)
    /\ UNCHANGED <<publishing, metrics, control>>

-----------------------------------------------------------------------------
(* main: waitDrained, the end of the workers, the report *)

OnlyMain == UNCHANGED <<table, delivered, publishing, metrics, topic>>

\* A context of the workers ends: they stop between batches.
CancelWorkers ==
    ctx' = [w \in Workers |->
               IF pc[w] # "down" /\ ctx[w] = "live" THEN "stopping" ELSE ctx[w]]

\* SIGINT or SIGTERM
Interrupt ==
    /\ ~interrupted
    /\ phase \notin {"reported", "failed"}
    /\ interrupted' = TRUE
    /\ CancelWorkers
    /\ UNCHANGED <<pc, todo, snap, busy, disruptions, phase, counts, outcome>>
    /\ OnlyMain

\* waitDrained returns, and main calls stopWorkers.
LeaveWaiting(how) ==
    /\ Proceed("waiting", "joining")
    /\ outcome' = how
    /\ CancelWorkers
    /\ UNCHANGED <<pc, todo, snap, busy, interrupted>>
    /\ OnlyMain

DrainedButProcessing(c) == c["PENDING"] = 0  \* faulty: PROCESSING not counted
Drained(c) == c["PENDING"] = 0 /\ c["PROCESSING"] = 0

\* countByStatus, and what follows it in the loop.
CountDrained ==
    /\ Drained(TableCounts)
    /\ counts' = TableCounts
    /\ LeaveWaiting("drained") /\ UNCHANGED disruptions

CountUndrained ==
    /\ ~Drained(TableCounts)
    /\ counts' = TableCounts
    /\ \/ LeaveWaiting("timeout")
       \/ interrupted /\ LeaveWaiting("interrupted")
       \/ /\ phase = "waiting"
          /\ UNCHANGED <<workers, phase, outcome, interrupted>> /\ OnlyMain
    /\ UNCHANGED disruptions

\* The query fails: the counts of the last one that did not are returned.
CountFails ==
    /\ Disrupt("dbError")
    /\ LeaveWaiting("countError")
    /\ UNCHANGED counts

\* group.Wait, and buildResult
Report ==
    /\ Proceed("joining", "reported")
    /\ \A w \in Workers : pc[w] = "down"
    /\ UNCHANGED <<workers, disruptions, interrupted, counts, outcome>>
    /\ OnlyMain

BenchTick == Tick /\ UNCHANGED <<publishing, metrics, control>>

BenchNext ==
    \/ Truncate \/ Seed \/ SeedPoison \/ EnsureTopic \/ TopicIsReady
    \/ TopicElects \/ SetupFails \/ StartWorkers
    \/ \E w \in Workers : PublishStep(w) \/ RecordStep(w) \/ ClaimStep(w)
    \/ Interrupt \/ CountDrained \/ CountUndrained \/ CountFails \/ Report
    \/ BenchTick

BenchSpec == BenchInit /\ [][BenchNext]_benchVars

-----------------------------------------------------------------------------
(* What the benchmark relies on *)

\* Nothing but the injected failures has gone wrong.
Undisturbed == disruptions = 0

\* The report's `duplicate` is 0: two workers never deliver the same row, also
\* when they are stopped in the middle of a run (main.go:353-358).
BenchDeliversOnce ==
    Undisturbed => \A r \in Rows : delivered[r] <= 1 /\ calls[r] <= 1

\* A stop strands no row: one in PROCESSING is in the batch of some worker.
BenchStrandsNothing ==
    Undisturbed /\ phase \notin {"truncate", "failed"} => ProcessingIsHeld

\* TESTREADME.md:90-92: with the cap within the retry budget a run with
\* transient failures converges to PUBLISHED.  A row that is not poison is
\* closed only if the broker itself refused it.
CappedNeverClosed ==
    MaxFailures \in 1..MaxRetries =>
        \A r \in Rows \ PoisonRows : status[r] = "CLOSE" => refused[r]

\* The report counts every seeded row, unless no count ever succeeded; and the
\* counts of a drained run, read while workers still ran, are those of the
\* table when they have ended.
ReportIsTrue ==
    phase = "reported" =>
        /\ outcome # "countError" =>
              FoldFunction(+, 0, counts) = Cardinality(Rows)
        /\ outcome = "drained" => counts = TableCounts

\* The counters of OutboxMetrics never claim more than the table shows, and no
\* failure on record, nor a CLOSE, goes uncounted.
CountersMatchRows ==
    /\ published <= Counted("PUBLISHED")
    /\ closed <= Counted("CLOSE")
    /\ failed >= FoldFunction(+, 0, attempts) + Counted("CLOSE")
=============================================================================
