----------------------------- MODULE BenchProofs -----------------------------
(***************************************************************************)
(* Theorems about OutboxBench, for every number of rows and workers, every *)
(* batch size and every retry budget.  The fleet's own invariants are kept *)
(* by the steps of its workers (OutboxWorkerProofs, OutboxTimingProofs);   *)
(* what is new is the setup, the publisher chain and main.                 *)
(***************************************************************************)
EXTENDS OutboxBench, OutboxTimingProofs, Induction

\* Before the workers start nothing is claimed or recorded; only the rows that
\* earlier runs left, which truncate removes, are in PROCESSING.
Quiet ==
    /\ \A w \in Workers : pc[w] \in {"down", "idle"} /\ todo[w] = {}
    /\ \A r \in Rows :
          /\ status[r] \in {"ABSENT", "PENDING", "PROCESSING"}
          /\ attempts[r] = 0 /\ lockedBy[r] = NoWorker
          /\ delivered[r] = 0 /\ calls[r] = 0

SetupInv ==
    /\ phase \in Setup \union {"waiting", "joining", "reported", "failed"}
    /\ phase \in Setup \union {"failed"} => Quiet /\ \A w \in Workers : pc[w] = "down"
    /\ phase \in Setup \ {"truncate"} => \A r \in Rows : status[r] # "PROCESSING"

ChainTypeOK ==
    /\ Injector!TypeOK
    /\ passed \in [Workers -> BOOLEAN]
    /\ calls \in [Rows -> Nat]
    /\ refused \in [Rows -> BOOLEAN]

BenchInv == FleetInv /\ SetupInv /\ ChainTypeOK

\* The workers about to record a failure of r
Failers(r) == {w \in Workers : pc[w] = "markFailed" /\ IsNext(w, r)}

\* Of a row that is not poison and that the broker has not refused, every
\* failure on record, or about to be, was injected.
CapInv ==
    \A r \in Rows \ PoisonRows :
        /\ failures[r] <= MaxFailures
        /\ ~refused[r] =>
              /\ attempts[r] + Cardinality(Failers(r)) <= failures[r]
              /\ \A w \in Workers : ~(pc[w] = "markClose" /\ IsNext(w, r))
              /\ status[r] # "CLOSE"

\* A row in PROCESSING is in some worker's hands once truncate has run.
HeldInv ==
    /\ Undisturbed => \A w \in Workers : ctx[w] # "cancelled"
    /\ BenchStrandsNothing

\* A row the broker has is PUBLISHED, or its worker is about to record it.
OnceInv ==
    Undisturbed =>
        \A r \in Rows :
            /\ delivered[r] <= 1 /\ calls[r] <= 1
            /\ delivered[r] + calls[r] > 0 =>
                  \/ status[r] = "PUBLISHED"
                  \/ \E w \in Workers : pc[w] = "markPublished" /\ IsNext(w, r)

Resolved == \A r \in Rows : status[r] \notin {"PENDING", "PROCESSING"}

\* A drained table has nothing a worker could still change.
DrainedInv ==
    outcome = "drained" =>
        /\ phase \in {"joining", "reported"}
        /\ Resolved
        /\ counts = TableCounts

-----------------------------------------------------------------------------
(* Which steps of the benchmark are steps of the fleet *)

\* A step of a worker, of the benchmark, is one of OutboxWorker.
LEMMA WorkerStepsAreFleetSteps ==
    ASSUME NEW w \in Workers, PublishStep(w) \/ RecordStep(w) \/ ClaimStep(w)
    PROVE  [Next]_vars
<1>1. CASE PublishStep(w)
  <2>1. PICK r \in Rows :
            \/ InjectorFails(w, r) \/ InjectorPasses(w, r) \/ Acknowledged(w, r)
            \/ Refused(w, r) \/ Aborted(w, r)
    BY <1>1 DEF PublishStep
  <2>2. \/ PublishAcked(w, r) \/ PublishRejected(w, r) \/ PublishAborted(w, r)
        \/ UNCHANGED vars
    BY <2>1 DEF InjectorFails, InjectorPasses, Acknowledged, Refused, Aborted
  <2> QED
    BY <2>2 DEF Next, WorkerStep
<1>2. CASE RecordStep(w)
  BY <1>2 DEF RecordStep, RecordsPublished, RecordsFailed, RecordsClosed, Next, WorkerStep,
              Recording
<1>3. CASE ClaimStep(w)
  BY <1>3 DEF ClaimStep, Next, WorkerStep
<1> QED
  BY <1>1, <1>2, <1>3

MainStep == Interrupt \/ CountDrained \/ CountUndrained \/ CountFails \/ Report

\* Main leaves the table, the broker and what the workers hold alone.
LEMMA MainOnlyCancels ==
    ASSUME TypeOK, MainStep
    PROVE  /\ UNCHANGED <<table, pc, todo, snap, busy, delivered, publishing, metrics, topic>>
           /\ ctx' \in [Workers -> {"live", "stopping", "cancelled"}]
           /\ \A w \in Workers : ctx'[w] = "cancelled" => ctx[w] = "cancelled"
           /\ disruptions' \in 0..MaxDisruptions
           /\ Undisturbed' => Undisturbed
           /\ interrupted' # interrupted => phase' = phase
<1>1. /\ UNCHANGED <<table, pc, todo, snap, busy, delivered, publishing, metrics, topic>>
      /\ ctx' = ctx \/ CancelWorkers
  BY DEF MainStep, Interrupt, CountDrained, CountUndrained, CountFails, Report,
         LeaveWaiting, OnlyMain, workers
<1>2. /\ ctx' \in [Workers -> {"live", "stopping", "cancelled"}]
      /\ \A w \in Workers : ctx'[w] = "cancelled" => ctx[w] = "cancelled"
  BY <1>1 DEF CancelWorkers, TypeOK
<1>3. disruptions' = disruptions \/ Disrupt("dbError")
  BY DEF MainStep, Interrupt, CountDrained, CountUndrained, CountFails, Report
<1>4. disruptions' \in 0..MaxDisruptions /\ (Undisturbed' => Undisturbed)
  BY <1>3, WorkerAssumption DEF Disrupt, Undisturbed, TypeOK
<1>5. interrupted' # interrupted => phase' = phase
  BY DEF MainStep, Interrupt, CountDrained, CountUndrained, CountFails, Report,
         LeaveWaiting
<1> QED
  BY <1>1, <1>2, <1>4, <1>5

\* The steps of a setup that is not over
SetupStep ==
    Truncate \/ Seed \/ SeedPoison \/ EnsureTopic \/ TopicIsReady \/ SetupFails
    \/ StartWorkers

\* The kinds of steps.
LEMMA BenchSteps ==
    ASSUME BenchNext
    PROVE  \/ SetupStep \/ TopicElects \/ MainStep \/ BenchTick
           \/ \E w \in Workers : PublishStep(w) \/ RecordStep(w) \/ ClaimStep(w)
BY DEF BenchNext, SetupStep, MainStep

-----------------------------------------------------------------------------
(* The fleet's invariants hold of the benchmark *)

\* A quiet fleet satisfies all of them.
LEMMA QuietFleet == TypeOK /\ Quiet => FleetInv /\ HoldInv /\ AgeInv /\ ExactInv
<1> SUFFICES ASSUME TypeOK, Quiet PROVE FleetInv /\ HoldInv /\ AgeInv /\ ExactInv
  OBVIOUS
<1> USE DEF Quiet
<1>1. BatchInv /\ LockInv /\ RowInv /\ SnapInv
  BY RepositoryAssumption DEF BatchInv, LockInv, RowInv, SnapInv, Unlocked
<1>2. AckInv /\ CloseInv /\ FailInv /\ PublishedWasDelivered /\ CloseAfterBudget
  BY DEF AckInv, CloseInv, FailInv, PublishedWasDelivered, CloseAfterBudget
<1>3. BudgetInv
  <2> SUFFICES ASSUME NEW r \in Rows
               PROVE  attempts[r] + Cardinality(MayFail(r)) + 1
                          <= MaxRetries + Cardinality(Workers)
    BY DEF BudgetInv
  <2>1. MayFail(r) = {}
    BY DEF MayFail
  <2>2. Cardinality(MayFail(r)) = 0
    BY <2>1, FS_EmptySet
  <2>3. Cardinality(Workers) \in Nat /\ Cardinality(Workers) # 0
    BY RepositoryAssumption, WorkerAssumption, FS_CardinalityType, FS_EmptySet
  <2> QED
    BY <2>2, <2>3, WorkerAssumption
<1>4. AgeInv
  <2> SUFFICES ASSUME NEW w \in Workers PROVE YoungBatch(w)
    BY DEF AgeInv
  <2>1. todo[w] = {} /\ pc[w] # "reclaim"
    OBVIOUS
  <2> QED
    BY <2>1, FS_EmptySet, RepositoryAssumption DEF YoungBatch
<1>5. HoldInv /\ ExactInv
  BY WorkerAssumption DEF HoldInv, ExactInv
<1> QED
  BY <1>1, <1>2, <1>3, <1>4, <1>5 DEF FleetInv

\* A step of the setup leaves the fleet quiet.
LEMMA SetupIsQuiet ==
    ASSUME TypeOK, SetupInv, SetupStep
    PROVE  /\ TypeOK' /\ Quiet' /\ UNCHANGED publishing
           /\ phase' \in Setup \union {"waiting", "failed"}
           /\ phase' # "waiting" => \A w \in Workers : pc'[w] = "down"
           /\ phase' \in Setup \ {"truncate"} => \A r \in Rows : status'[r] # "PROCESSING"
           /\ \A w \in Workers : ctx'[w] = "cancelled" => ctx[w] = "cancelled"
           /\ UNCHANGED <<disruptions, outcome>>
           /\ phase' \notin {"truncate", "failed"} =>
                  \A r \in Rows : status'[r] # "PROCESSING"
<1> USE RepositoryAssumption DEF SetupInv, TypeOK, TableTypeOK, table, workers, OnlySetup, Proceed
<1>1. Quiet /\ phase \in Setup /\ \A w \in Workers : pc[w] = "down"
  BY DEF SetupStep, Truncate, Seed, SeedPoison, EnsureTopic, TopicIsReady, SetupFails,
         StartWorkers, Setup
<1>2. CASE Truncate
  BY <1>1, <1>2 DEF Truncate, Quiet, Setup, publishing, Status
<1>3. CASE Seed \/ SeedPoison
  <2>1. PICK batch : SeedBatch(batch)
    BY <1>3 DEF Seed, SeedPoison
  <2>2. phase \in Setup \ {"truncate"}
    BY <1>3 DEF Seed, SeedPoison, Setup
  <2>3. phase' \in {"seedPoison", "ensureTopic", "start"}
    BY <1>3 DEF Seed, SeedPoison
  <2> QED
    BY <1>1, <2>1, <2>2, <2>3 DEF SeedBatch, Quiet, Setup, publishing, Status
<1>4. CASE EnsureTopic \/ TopicIsReady \/ SetupFails
  <2>1. UNCHANGED <<table, workers, delivered, disruptions, publishing, outcome>>
    BY <1>4 DEF EnsureTopic, TopicIsReady, SetupFails
  <2>2. \/ phase' = "failed"
        \/ phase \in Setup \ {"truncate"} /\ phase' \in Setup \ {"truncate"}
    BY <1>4 DEF EnsureTopic, TopicIsReady, SetupFails, Setup
  <2> QED
    BY <1>1, <2>1, <2>2 DEF Quiet, Setup, publishing
<1>5. CASE StartWorkers
  <2>1. /\ pc' = [w \in Workers |-> "idle"]
        /\ ctx' = [w \in Workers |-> IF interrupted THEN "stopping" ELSE "live"]
        /\ UNCHANGED <<table, todo, snap, busy, delivered, disruptions, publishing, outcome>>
        /\ phase' = "waiting" /\ phase = "start"
    BY <1>5 DEF StartWorkers
  <2> QED
    BY <1>1, <2>1 DEF Quiet, Setup, publishing
<1> QED
  BY <1>2, <1>3, <1>4, <1>5 DEF SetupStep

\* The invariants of the fleet speak of no context.
LEMMA MainKeepsFleet ==
    ASSUME FleetInv, MainStep
    PROVE  /\ FleetInv'
           /\ HoldInv => HoldInv'
           /\ AgeInv => AgeInv'
           /\ ExactInv => ExactInv'
<1>1. TypeOK
  BY DEF FleetInv
<1>2. /\ UNCHANGED <<table, pc, todo, snap, busy, delivered>>
      /\ ctx' \in [Workers -> {"live", "stopping", "cancelled"}]
      /\ disruptions' \in 0..MaxDisruptions
  BY <1>1, MainOnlyCancels
<1>3. TypeOK'
  BY <1>1, <1>2 DEF TypeOK, TableTypeOK, table
<1>4. BudgetInv'
  BY <1>2 DEF FleetInv, BudgetInv, MayFail, table
<1>5. FleetInv'
  BY <1>2, <1>3, <1>4
  DEF FleetInv, BatchInv, LockInv, RowInv, SnapInv, AckInv, CloseInv, FailInv, IsNext,
      PublishedWasDelivered, CloseAfterBudget, Unlocked, table
<1>6. AgeInv => AgeInv'
  BY <1>2 DEF AgeInv, YoungBatch, CallsDone, table
<1>7. (HoldInv => HoldInv') /\ (ExactInv => ExactInv')
  BY <1>2 DEF HoldInv, ExactInv, table
<1> QED
  BY <1>5, <1>6, <1>7

\* A worker that is down or idle and has no batch makes no statement.
LEMMA DownStaysDown ==
    ASSUME TypeOK, \A v \in Workers : pc[v] = "down",
           NEW w \in Workers, PublishStep(w) \/ RecordStep(w) \/ ClaimStep(w)
    PROVE  ClaimStep(w) /\ ForceCancel(w)
<1>1. ~PublishStep(w)
  BY DEF PublishStep, InjectorFails, InjectorPasses, Acknowledged, Refused, Aborted,
         PublishRejected, PublishAcked, PublishAborted
<1>2. ~RecordStep(w)
  BY DEF RecordStep, RecordsPublished, RecordsFailed, RecordsClosed, RecordPublished,
         RecordFailed, RecordClosed, Record
<1> QED
  BY <1>1, <1>2
  DEF ClaimStep, TickerFires, Reclaim, ClaimSelect, ClaimNothing, ClaimCommit, ClaimFails, Stop

\* ... and after a step.
LEMMA QuietFleetNext == TypeOK' /\ Quiet' => FleetInv' /\ HoldInv' /\ AgeInv' /\ ExactInv'
BY QuietFleet, PTL

\* The publisher chain keeps its types, and counts no call before there is one.
LEMMA ChainKeepsType ==
    ASSUME ChainTypeOK, NEW w \in Workers, PublishStep(w)
    PROVE  ChainTypeOK'
<1> USE DEF ChainTypeOK, Injector!TypeOK
<1>1. PICK r \in Rows :
          \/ InjectorFails(w, r) \/ InjectorPasses(w, r) \/ Acknowledged(w, r)
          \/ Refused(w, r) \/ Aborted(w, r)
  BY DEF PublishStep
<1>2. CASE InjectorFails(w, r)
  <2>1. failures' = failures \/ failures' = [failures EXCEPT ![r] = @ + 1]
    BY <1>2 DEF InjectorFails, Injector!Inject, Injector!InjectPermanent,
                Injector!InjectTransient
  <2> QED
    BY <1>2, <2>1 DEF InjectorFails, Injector!Inject
<1>3. CASE InjectorPasses(w, r)
  <2>1. passed' = [passed EXCEPT ![w] = TRUE]
    BY <1>3 DEF InjectorPasses
  <2>2. passed' \in [Workers -> BOOLEAN]
    BY <2>1, Zenon
  <2> QED
    BY <1>3, <2>2 DEF InjectorPasses, Injector!Pass
<1>4. CASE Acknowledged(w, r) \/ Refused(w, r) \/ Aborted(w, r)
  <2>1. passed' = [passed EXCEPT ![w] = FALSE] /\ UNCHANGED <<failures, reached, injected>>
    BY <1>4 DEF Acknowledged, Refused, Aborted, InnerPublish
  <2>2. passed' \in [Workers -> BOOLEAN]
    BY <2>1, Zenon
  <2>3. calls' = calls \/ calls' = [calls EXCEPT ![r] = @ + 1]
    BY <1>4 DEF Acknowledged, Refused, Aborted
  <2>4. refused' = refused \/ refused' = [refused EXCEPT ![r] = TRUE]
    BY <1>4 DEF Acknowledged, Refused, Aborted
  <2>5. refused' \in [Rows -> BOOLEAN]
    BY <2>4, Zenon
  <2> QED
    BY <2>1, <2>2, <2>3, <2>5
<1> QED
  BY <1>1, <1>2, <1>3, <1>4

\* A worker's step, and time, leave main where it is.
LEMMA ControlStays ==
    ASSUME BenchTick \/ TopicElects
           \/ \E w \in Workers : PublishStep(w) \/ RecordStep(w) \/ ClaimStep(w)
    PROVE  UNCHANGED <<phase, interrupted, counts, outcome>>
BY DEF BenchTick, TopicElects, OnlySetup, PublishStep, RecordStep, ClaimStep, control,
       InjectorFails, InjectorPasses, Acknowledged, Refused, Aborted, InnerPublish

\* What the types of the chain depend on.
LEMMA ChainStays ==
    ASSUME BenchTick \/ TopicElects \/ \E w \in Workers : RecordStep(w) \/ ClaimStep(w)
    PROVE  UNCHANGED publishing
BY DEF BenchTick, TopicElects, OnlySetup, RecordStep, ClaimStep

\* Workers that are down stay so, and a quiet table stays quiet.
LEMMA QuietStays ==
    ASSUME TypeOK, Quiet, \A w \in Workers : pc[w] = "down",
           BenchTick \/ TopicElects
           \/ \E w \in Workers : PublishStep(w) \/ RecordStep(w) \/ ClaimStep(w)
    PROVE  Quiet' /\ (\A w \in Workers : pc'[w] = "down") /\ status' = status
<1>1. CASE BenchTick
  BY <1>1 DEF BenchTick, Tick, AdvanceClock, Quiet, publishing
<1>2. CASE TopicElects
  BY <1>2 DEF TopicElects, OnlySetup, Quiet, publishing, table, workers
<1>3. ASSUME NEW w \in Workers, PublishStep(w) \/ RecordStep(w) \/ ClaimStep(w)
      PROVE  Quiet' /\ (\A v \in Workers : pc'[v] = "down") /\ status' = status
  <2>1. ClaimStep(w) /\ ForceCancel(w)
    BY <1>3, DownStaysDown
  <2> QED
    BY <2>1 DEF ClaimStep, ForceCancel, Quiet, publishing, table
<1> QED
  BY <1>1, <1>2, <1>3

\* Every step of the benchmark keeps the fleet's invariant.
LEMMA BenchFleetNext == BenchInv /\ [BenchNext]_benchVars => BenchInv'
<1> SUFFICES ASSUME BenchInv, [BenchNext]_benchVars PROVE BenchInv'
  OBVIOUS
<1>1. TypeOK /\ FleetInv /\ SetupInv /\ ChainTypeOK
  BY DEF BenchInv, FleetInv
<1>2. CASE SetupStep
  <2>1. /\ TypeOK' /\ Quiet' /\ UNCHANGED publishing
        /\ SetupInv'
    BY <1>1, <1>2, SetupIsQuiet DEF SetupInv, Setup
  <2> QED
    BY <1>1, <2>1, QuietFleetNext DEF BenchInv, ChainTypeOK, publishing, Injector!TypeOK
<1>3. CASE MainStep
  <2>1. FleetInv'
    BY <1>1, <1>3, MainKeepsFleet
  <2>2. UNCHANGED <<table, pc, todo, delivered, publishing>>
    BY <1>1, <1>3, MainOnlyCancels
  <2>3. \/ phase' = phase
        \/ phase' \in {"joining", "reported"}
    BY <1>3 DEF MainStep, Interrupt, CountDrained, CountUndrained, CountFails, Report,
                LeaveWaiting, Proceed
  <2>4. SetupInv'
    BY <1>1, <2>2, <2>3 DEF SetupInv, Setup, Quiet, table, publishing
  <2> QED
    BY <1>1, <2>1, <2>2, <2>4 DEF BenchInv, ChainTypeOK, publishing, Injector!TypeOK
<1>4. CASE BenchTick \/ TopicElects
           \/ \E w \in Workers : PublishStep(w) \/ RecordStep(w) \/ ClaimStep(w)
  <2>1. [Next]_vars
    BY <1>4, WorkerStepsAreFleetSteps DEF BenchTick, TopicElects, OnlySetup, Next, vars
  <2>2. FleetInv'
    BY <1>1, <2>1, FleetNext
  <2>3. ChainTypeOK'
    <3>1. UNCHANGED publishing => ChainTypeOK'
      BY <1>1 DEF ChainTypeOK, publishing, Injector!TypeOK
    <3> QED
      BY <1>1, <1>4, <3>1, ChainStays, ChainKeepsType
  <2>4. SetupInv'
    BY <1>1, <1>4, ControlStays, QuietStays DEF SetupInv
  <2> QED
    BY <2>2, <2>3, <2>4 DEF BenchInv
<1>5. CASE UNCHANGED benchVars
  <2>1. UNCHANGED vars /\ UNCHANGED <<publishing, phase>>
    BY <1>5 DEF benchVars, control
  <2>2. FleetInv'
    BY <1>1, <2>1, FleetNext
  <2> QED
    BY <1>1, <2>1, <2>2
    DEF BenchInv, SetupInv, Quiet, ChainTypeOK, publishing, Injector!TypeOK, vars, table, workers
<1> QED
  BY <1>2, <1>3, <1>4, <1>5, BenchSteps

\* The invariant holds at first.
LEMMA BenchFleetInit == BenchInit => BenchInv
<1> SUFFICES ASSUME BenchInit PROVE BenchInv
  OBVIOUS
<1>1. TypeOK
  BY RepositoryAssumption, WorkerAssumption
  DEF BenchInit, TableInit, TypeOK, TableTypeOK, Status, NoSnap, Calls
<1>2. Quiet
  BY DEF BenchInit, TableInit, Quiet
<1>3. FleetInv
  BY <1>1, <1>2, QuietFleet
<1>4. SetupInv
  BY <1>2 DEF BenchInit, SetupInv, Setup
<1>5. ChainTypeOK
  BY DEF BenchInit, ChainTypeOK, Injector!TypeOK, Injector!Init
<1> QED
  BY <1>3, <1>4, <1>5 DEF BenchInv

\* The benchmark runs the fleet of OutboxWorker: its invariant holds.
THEOREM BenchInvariant == BenchSpec => []BenchInv
BY BenchFleetInit, BenchFleetNext, PTL DEF BenchSpec
-----------------------------------------------------------------------------
(* The injected failures stay within the budget *)

CapRow(r) ==
    /\ failures[r] <= MaxFailures
    /\ ~refused[r] =>
          /\ attempts[r] + Cardinality(Failers(r)) <= failures[r]
          /\ \A w \in Workers : ~(pc[w] = "markClose" /\ IsNext(w, r))
          /\ status[r] # "CLOSE"

\* Finitely many workers are about to record a failure.
LEMMA FailersFinite ==
    ASSUME NEW r
    PROVE  /\ IsFiniteSet(Failers(r)) /\ Failers(r) \subseteq Workers
           /\ Cardinality(Failers(r)) \in Nat
           /\ IsFiniteSet(Failers(r)') /\ Failers(r)' \subseteq Workers
           /\ Cardinality(Failers(r)') \in Nat
BY RepositoryAssumption, FS_Subset, FS_CardinalityType DEF Failers

\* A step that injects nothing, records nothing and leads nobody to a record
LEMMA CapRowFrame ==
    ASSUME BenchInv, BenchInv', NEW r \in Rows, CapRow(r),
           attempts'[r] = attempts[r], failures'[r] = failures[r],
           refused[r] => refused'[r], status'[r] = "CLOSE" => status[r] = "CLOSE",
           \A w \in Workers :
               pc'[w] \in {"markFailed", "markClose"} /\ IsNext(w, r)' =>
                   pc'[w] = pc[w] /\ IsNext(w, r)
    PROVE  CapRow(r)'
<1>1. Failers(r)' \subseteq Failers(r)
  BY DEF Failers
<1>2. Cardinality(Failers(r)') <= Cardinality(Failers(r))
  BY <1>1, FailersFinite, FS_Subset
<1>3. attempts[r] \in Nat /\ failures[r] \in Nat
  BY DEF BenchInv, FleetInv, TypeOK, TableTypeOK, ChainTypeOK, Injector!TypeOK
<1> QED
  BY <1>2, <1>3, FailersFinite DEF CapRow

\* There is one event a worker's loop is at.
LEMMA OneIsNext ==
    ASSUME NEW w \in Workers, NEW r \in Rows, NEW s \in Rows, IsNext(w, r), IsNext(w, s)
    PROVE  r = s
BY RepositoryAssumption DEF IsNext

\* A failure the injector adds is one below its cap, and so below the budget.
LEMMA CapInject ==
    ASSUME MaxFailures \in 1..MaxRetries, BenchInv, BenchInv', CapInv,
           NEW w \in Workers, NEW r \in Rows, InjectorFails(w, r),
           NEW s \in Rows \ PoisonRows
    PROVE  CapRow(s)'
<1> USE DEF BenchInv, FleetInv, TypeOK, TableTypeOK, ChainTypeOK, Injector!TypeOK
<1>1. /\ pc[w] = "publish" /\ IsNext(w, r) /\ r \in todo[w]
      /\ pc' = [pc EXCEPT ![w] = AfterRejection(w, r)]
      /\ Injector!Inject(r)
      /\ UNCHANGED <<table, todo, snap, refused>>
  BY DEF InjectorFails, PublishRejected, Goto, IsNext
<1>2. CapRow(s)
  BY DEF CapInv, CapRow
<1>3. CASE s # r
  <2>1. failures'[s] = failures[s]
    BY <1>1, <1>3 DEF Injector!Inject, Injector!InjectPermanent, Injector!InjectTransient
  <2>2. \A v \in Workers : IsNext(v, s)' <=> IsNext(v, s)
    BY <1>1 DEF IsNext
  <2>3. ~IsNext(w, s)
    BY <1>1, <1>3, OneIsNext
  <2> QED
    BY <1>1, <1>2, <2>1, <2>2, <2>3, CapRowFrame DEF table
<1>4. CASE s = r
  <2>1. failures' = [failures EXCEPT ![r] = @ + 1] /\ ~Injector!Spared(r)
    BY <1>1, <1>4 DEF Injector!Inject, Injector!InjectPermanent, Injector!InjectTransient
  <2>2. failures[r] \in Nat /\ failures'[r] = failures[r] + 1 /\ failures[r] < MaxFailures
    BY <2>1, BenchAssumption DEF Injector!Spared
  <2>3. ASSUME ~refused[r]
        PROVE  /\ attempts[r] + Cardinality(Failers(r)') <= failures'[r]
               /\ \A v \in Workers : ~(pc'[v] = "markClose" /\ IsNext(v, r)')
               /\ status'[r] # "CLOSE"
    <3>1. attempts[r] + Cardinality(Failers(r)) <= failures[r]
      BY <1>2, <1>4, <2>3 DEF CapRow
    <3>2. snap[w][r] <= attempts[r] /\ snap[w][r] \in Nat /\ attempts[r] \in Nat
      BY <1>1 DEF SnapInv
    <3>3. snap[w][r] < MaxRetries
      BY <2>2, <3>1, <3>2, FailersFinite, WorkerAssumption, BenchAssumption
    <3>4. pc' = [pc EXCEPT ![w] = "markFailed"]
      <4>1. ~BudgetSpent(w, r)
        BY <3>2, <3>3, WorkerAssumption DEF BudgetSpent
      <4> QED
        BY <1>1, <4>1 DEF AfterRejection
    <3>5. Failers(r)' \subseteq Failers(r) \union {w}
      BY <1>1, <3>4 DEF Failers, IsNext
    <3>6. Cardinality(Failers(r)') <= Cardinality(Failers(r)) + 1
      <4>1. /\ IsFiniteSet(Failers(r) \union {w})
            /\ Cardinality(Failers(r) \union {w}) <= Cardinality(Failers(r)) + 1
        <5>1. Cardinality(Failers(r)) \in Nat /\ IsFiniteSet(Failers(r))
          BY FailersFinite
        <5>2. /\ IsFiniteSet(Failers(r) \union {w})
              /\ \/ Cardinality(Failers(r) \union {w}) = Cardinality(Failers(r))
                 \/ Cardinality(Failers(r) \union {w}) = Cardinality(Failers(r)) + 1
          BY <5>1, FS_AddElement, Zenon
        <5> HIDE DEF FleetInv, BenchInv
        <5> QED
          BY <5>1, <5>2
      <4>2. Cardinality(Failers(r)') <= Cardinality(Failers(r) \union {w})
        BY <3>5, <4>1, FS_Subset
      <4>3. Cardinality(Failers(r) \union {w}) \in Nat
        BY <4>1, FS_CardinalityType
      <4> QED
        BY <4>1, <4>2, <4>3, FailersFinite
    <3>7. \A v \in Workers : ~(pc'[v] = "markClose" /\ IsNext(v, r)')
      BY <1>1, <1>2, <1>4, <2>3, <3>4 DEF CapRow, IsNext
    <3>8. status'[r] # "CLOSE"
      BY <1>1, <1>2, <1>4, <2>3 DEF CapRow, table
    <3> QED
      BY <2>2, <3>1, <3>2, <3>6, <3>7, <3>8, FailersFinite
  <2> QED
    BY <1>1, <1>4, <2>2, <2>3, BenchAssumption DEF CapRow, table
<1> QED
  BY <1>3, <1>4

\* Recording a failure moves it from the worker to the row.
LEMMA CapRecord ==
    ASSUME BenchInv, BenchInv', CapInv, NEW w \in Workers, RecordStep(w),
           NEW s \in Rows \ PoisonRows
    PROVE  CapRow(s)'
<1> USE DEF BenchInv, FleetInv, TypeOK, TableTypeOK, table
<1>1. PICK r \in Rows :
          RecordPublished(w, r) \/ RecordFailed(w, r) \/ RecordClosed(w, r)
  BY DEF RecordStep, RecordsPublished, RecordsFailed, RecordsClosed
<1>2. UNCHANGED <<failures, refused>>
  BY DEF RecordStep, publishing
<1>3. /\ IsNext(w, r) /\ pc[w] \in Marks /\ NextEvent(w, r)
  BY <1>1 DEF RecordPublished, RecordFailed, RecordClosed, Record, Marks
<1>4. /\ pc'[w] \in {"idle", "publish"}
      /\ \A v \in Workers : v # w => pc'[v] = pc[v] /\ todo'[v] = todo[v]
  BY <1>3 DEF NextEvent, Goto
<1>5. CapRow(s)
  BY DEF CapInv, CapRow
<1>6. \A v \in Workers :
          pc'[v] \in {"markFailed", "markClose"} /\ IsNext(v, s)' =>
              pc'[v] = pc[v] /\ IsNext(v, s)
  BY <1>4 DEF IsNext
<1>7. CASE attempts' = attempts /\ (status'[s] = "CLOSE" => status[s] = "CLOSE")
  BY <1>2, <1>5, <1>6, <1>7, CapRowFrame
<1>8. CASE attempts' # attempts
  <2>1. pc[w] = "markFailed" /\ attempts' = [attempts EXCEPT ![r] = @ + 1]
        /\ status' = [status EXCEPT ![r] = "PENDING"]
    BY <1>1, <1>8 DEF RecordPublished, RecordFailed, RecordClosed, Record, MarkPublished,
                      MarkFailed, MarkClose
  <2>2. CASE s # r
    <3>1. attempts'[s] = attempts[s] /\ status'[s] = status[s]
      BY <2>1, <2>2
    <3> QED
      BY <1>2, <1>5, <1>6, <3>1, CapRowFrame
  <2>3. CASE s = r
    <3>1. w \in Failers(r) /\ Failers(r)' \subseteq Failers(r) \ {w}
      BY <1>3, <1>4, <2>1 DEF Failers, IsNext
    <3>2. Cardinality(Failers(r)') + 1 <= Cardinality(Failers(r))
      <4>1. /\ IsFiniteSet(Failers(r) \ {w})
            /\ Cardinality(Failers(r) \ {w}) = Cardinality(Failers(r)) - 1
        BY <3>1, FailersFinite, FS_RemoveElement
      <4>2. Cardinality(Failers(r)') <= Cardinality(Failers(r) \ {w})
        BY <3>1, <4>1, FS_Subset
      <4> QED
        BY <4>1, <4>2, FailersFinite
    <3>3. attempts'[r] = attempts[r] + 1 /\ attempts[r] \in Nat /\ status'[r] = "PENDING"
      BY <2>1
    <3>4. failures[r] \in Nat
      BY DEF ChainTypeOK, Injector!TypeOK
    <3> QED
      BY <1>2, <1>4, <1>5, <1>6, <2>3, <3>2, <3>3, <3>4, FailersFinite DEF CapRow
  <2> QED
    BY <2>2, <2>3
<1>9. CASE attempts' = attempts /\ status'[s] = "CLOSE" /\ status[s] # "CLOSE"
  <2>1. pc[w] = "markClose" /\ s = r
    BY <1>1, <1>9 DEF RecordPublished, RecordFailed, RecordClosed, Record, MarkPublished,
                      MarkFailed, MarkClose
  <2>2. refused[s]
    BY <1>3, <1>5, <2>1 DEF CapRow, ChainTypeOK
  <2> QED
    BY <1>2, <1>5, <2>2 DEF CapRow
<1> QED
  BY <1>7, <1>8, <1>9

\* Every step keeps CapInv.
LEMMA CapNext ==
    ASSUME MaxFailures \in 1..MaxRetries, BenchInv, BenchInv', CapInv, [BenchNext]_benchVars
    PROVE  CapInv'
<1> SUFFICES ASSUME NEW s \in Rows \ PoisonRows PROVE CapRow(s)'
  BY DEF CapInv, CapRow
<1> USE DEF BenchInv, FleetInv, TypeOK, TableTypeOK, table
<1>1. CapRow(s)
  BY DEF CapInv, CapRow
<1>2. CASE SetupStep
  <2>1. Quiet' /\ UNCHANGED publishing
    BY <1>2, SetupIsQuiet
  <2>2. Failers(s)' = {}
    BY <2>1 DEF Quiet, Failers
  <2>3. Cardinality(Failers(s)') = 0
    BY <2>2, FS_EmptySet
  <2>4. failures[s] \in Nat
    BY DEF ChainTypeOK, Injector!TypeOK
  <2>5. /\ failures'[s] = failures[s] /\ attempts'[s] = 0 /\ status'[s] # "CLOSE"
        /\ \A w \in Workers : pc'[w] # "markClose"
    BY <2>1 DEF Quiet, publishing
  <2> QED
    BY <1>1, <2>3, <2>4, <2>5 DEF CapRow
<1>3. CASE MainStep
  BY <1>1, <1>3, MainOnlyCancels, CapRowFrame DEF publishing, IsNext
<1>4. CASE BenchTick
  BY <1>1, <1>4, CapRowFrame DEF BenchTick, Tick, AdvanceClock, publishing, IsNext
<1>5. CASE TopicElects \/ UNCHANGED benchVars
  BY <1>1, <1>5, CapRowFrame
  DEF TopicElects, OnlySetup, workers, benchVars, vars, publishing, IsNext
<1>6. ASSUME NEW w \in Workers, PublishStep(w) PROVE CapRow(s)'
  <2>1. PICK r \in Rows :
            \/ InjectorFails(w, r) \/ InjectorPasses(w, r) \/ Acknowledged(w, r)
            \/ Refused(w, r) \/ Aborted(w, r)
    BY <1>6 DEF PublishStep
  <2>2. CASE InjectorFails(w, r)
    BY <2>2, CapInject
  <2>3. CASE InjectorPasses(w, r)
    BY <1>1, <2>3, CapRowFrame DEF InjectorPasses, Injector!Pass, vars, workers, IsNext
  <2>4. CASE Acknowledged(w, r)
    <3>1. /\ UNCHANGED <<table, todo, failures, refused>>
          /\ pc' = [pc EXCEPT ![w] = "markPublished"]
      BY <2>4 DEF Acknowledged, InnerPublish, PublishAcked, Goto
    <3> QED
      BY <1>1, <3>1, CapRowFrame DEF IsNext
  <2>5. CASE Refused(w, r)
    <3>1. /\ UNCHANGED <<table, todo, failures>> /\ IsNext(w, r)
          /\ pc' = [pc EXCEPT ![w] = AfterRejection(w, r)]
          /\ refused' = [refused EXCEPT ![r] = TRUE]
      BY <2>5 DEF Refused, InnerPublish, PublishRejected, Goto
    <3>2. refused \in [Rows -> BOOLEAN]
      BY DEF ChainTypeOK
    <3>3. CASE s = r
      BY <1>1, <3>1, <3>2, <3>3 DEF CapRow
    <3>4. CASE s # r
      <4>1. ~IsNext(w, s)
        BY <3>1, <3>4, OneIsNext
      <4>2. \A v \in Workers : IsNext(v, s)' <=> IsNext(v, s)
        BY <3>1 DEF IsNext
      <4> QED
        BY <1>1, <3>1, <3>2, <3>4, <4>1, <4>2, CapRowFrame
    <3> QED
      BY <3>3, <3>4
  <2>6. CASE Aborted(w, r)
    <3>1. /\ UNCHANGED <<table, failures, refused>>
          /\ pc' = [pc EXCEPT ![w] = "idle"]
          /\ todo' = [todo EXCEPT ![w] = {}]
      BY <2>6 DEF Aborted, InnerPublish, PublishAborted, DropBatch, Goto
    <3> QED
      BY <1>1, <3>1, CapRowFrame DEF IsNext
  <2> QED
    BY <2>1, <2>2, <2>3, <2>4, <2>5, <2>6
<1>7. ASSUME NEW w \in Workers, RecordStep(w) PROVE CapRow(s)'
  BY <1>7, CapRecord
<1>8. ASSUME NEW w \in Workers, ClaimStep(w) PROVE CapRow(s)'
  <2>1. UNCHANGED <<failures, refused>>
    BY <1>8, ChainStays DEF publishing
  <2>2. /\ attempts' = attempts
        /\ status'[s] = "CLOSE" => status[s] = "CLOSE"
        /\ \A v \in Workers : v # w => pc'[v] = pc[v] /\ todo'[v] = todo[v]
        /\ pc'[w] \notin {"markFailed", "markClose"}
           \/ (pc'[w] = pc[w] /\ todo'[w] = todo[w])
    <3>1. CASE TickerFires(w) \/ ClaimNothing(w) \/ Stop(w) \/ ForceCancel(w)
      BY <3>1 DEF TickerFires, ClaimNothing, Stop, ForceCancel, Goto
    <3>2. CASE Reclaim(w)
      BY <3>2 DEF Reclaim, ReclaimStale, Goto
    <3>3. CASE ClaimSelect(w)
      BY <3>3 DEF ClaimSelect, LockForClaim, Goto
    <3>4. CASE ClaimCommit(w) \/ ClaimFails(w)
      BY <3>4 DEF ClaimCommit, ClaimFails, CommitClaim, RollbackClaim, DropBatch, Goto
    <3> QED
      BY <1>8, <3>1, <3>2, <3>3, <3>4 DEF ClaimStep
  <2> QED
    BY <1>1, <2>1, <2>2, CapRowFrame DEF IsNext
<1> QED
  BY <1>2, <1>3, <1>4, <1>5, <1>6, <1>7, <1>8, BenchSteps

\* With the cap within the budget, no row that is not poison is closed unless
\* the broker refused it (TESTREADME.md:90-92, main.go:60-76).
THEOREM CappedRowsNotClosed == BenchSpec => []CappedNeverClosed
<1>1. CASE MaxFailures \in 1..MaxRetries
  <2>1. BenchInit => CapInv
    <3> SUFFICES ASSUME BenchInit, NEW r \in Rows \ PoisonRows PROVE CapRow(r)
      BY DEF CapInv, CapRow
    <3>1. Failers(r) = {}
      BY DEF BenchInit, Failers
    <3>2. Cardinality(Failers(r)) = 0
      BY <3>1, FS_EmptySet
    <3> QED
      BY <1>1, <3>2 DEF BenchInit, TableInit, CapRow, Injector!Init
  <2>2. BenchInv /\ BenchInv' /\ CapInv /\ [BenchNext]_benchVars => CapInv'
    BY <1>1, CapNext
  <2>3. CapInv => CappedNeverClosed
    BY DEF CapInv, CappedNeverClosed
  <2> QED
    BY <2>1, <2>2, <2>3, BenchInvariant, PTL DEF BenchSpec
<1>2. CASE MaxFailures \notin 1..MaxRetries
  <2>1. CappedNeverClosed
    BY <1>2 DEF CappedNeverClosed
  <2> QED
    BY <2>1, PTL
<1> QED
  BY <1>1, <1>2
-----------------------------------------------------------------------------
(* A stop strands no row *)

\* Disruptions are counted and never forgotten.
LEMMA DisruptionsOnlyGrow ==
    ASSUME TypeOK, Undisturbed', NEW w \in Workers,
           PublishStep(w) \/ RecordStep(w) \/ ClaimStep(w)
    PROVE  Undisturbed
BY DEF Undisturbed, PublishStep, RecordStep, ClaimStep, InjectorFails, InjectorPasses,
       Acknowledged, Refused, Aborted, PublishAcked, PublishRejected, PublishAborted,
       RecordsPublished, RecordsFailed, RecordsClosed, RecordPublished, RecordFailed,
       RecordClosed, Record, TickerFires, Reclaim, ClaimSelect, ClaimNothing, ClaimCommit,
       ClaimFails, Stop, ForceCancel, Succeeds, Errs, Disrupt, vars, TypeOK

\* An undisturbed worker's statements succeed, and it is not cancelled.
LEMMA UndisturbedStep ==
    ASSUME TypeOK, NEW w \in Workers, ctx[w] # "cancelled", Undisturbed',
           PublishStep(w) \/ RecordStep(w) \/ ClaimStep(w)
    PROVE  /\ Undisturbed /\ ~Errs(w) /\ ~ForceCancel(w)
           /\ \A v \in Workers : ctx'[v] = "cancelled" => ctx[v] = "cancelled"
<1> USE DEF TypeOK, Undisturbed
<1>1. ~Disrupt("dbError") /\ ~Disrupt("forceCancel")
  BY DEF Disrupt
<1>2. ~Errs(w) /\ ~ForceCancel(w)
  BY <1>1 DEF Errs, ForceCancel
<1>3. CASE PublishStep(w)
  BY <1>2, <1>3 DEF PublishStep, InjectorFails, InjectorPasses, Acknowledged, Refused, Aborted,
                    PublishAcked, PublishRejected, PublishAborted, vars, workers
<1>4. CASE RecordStep(w)
  BY <1>2, <1>4 DEF RecordStep, RecordsPublished, RecordsFailed, RecordsClosed,
                    RecordPublished, RecordFailed, RecordClosed, Record, Succeeds
<1>5. CASE ClaimStep(w)
  <2>1. CASE TickerFires(w) \/ Reclaim(w) \/ ClaimSelect(w) \/ ClaimNothing(w) \/ ClaimCommit(w)
    BY <1>2, <2>1 DEF TickerFires, Reclaim, ClaimSelect, ClaimNothing, ClaimCommit, Succeeds
  <2>2. CASE Stop(w)
    BY <1>2, <2>2 DEF Stop
  <2>3. ~ClaimFails(w)
    BY <1>2 DEF ClaimFails
  <2> QED
    BY <1>2, <1>5, <2>1, <2>2, <2>3 DEF ClaimStep
<1> QED
  BY <1>2, <1>3, <1>4, <1>5

\* A worker lets go of an event only when it is no longer PROCESSING.
LEMMA HeldWorkerStep ==
    ASSUME BenchInv, ProcessingIsHeld, NEW w \in Workers, ~Errs(w), ctx[w] # "cancelled",
           "expiry" \notin TerminalFaults, ~ForceCancel(w),
           PublishStep(w) \/ RecordStep(w) \/ ClaimStep(w)
    PROVE  ProcessingIsHeld'
<1> USE DEF BenchInv, FleetInv, TypeOK, TableTypeOK, table, ProcessingIsHeld, Holders
<1>1. CASE PublishStep(w)
  <2>1. PICK r \in Rows :
            \/ InjectorFails(w, r) \/ InjectorPasses(w, r) \/ Acknowledged(w, r)
            \/ Refused(w, r) \/ Aborted(w, r)
    BY <1>1 DEF PublishStep
  <2>2. ~Aborted(w, r)
    BY BenchAssumption DEF Aborted, PublishAborted
  <2>3. UNCHANGED <<status, todo>>
    BY <2>1, <2>2 DEF InjectorFails, InjectorPasses, Acknowledged, Refused, PublishAcked,
                      PublishRejected, vars, workers
  <2> QED
    BY <2>3
<1>2. CASE RecordStep(w)
  <2>1. PICK r \in Rows :
            RecordPublished(w, r) \/ RecordFailed(w, r) \/ RecordClosed(w, r)
    BY <1>2 DEF RecordStep, RecordsPublished, RecordsFailed, RecordsClosed
  <2>2. /\ todo' = [todo EXCEPT ![w] = @ \ {r}]
        /\ status'[r] # "PROCESSING"
        /\ \A s \in Rows \ {r} : status'[s] = status[s]
    BY <2>1 DEF RecordPublished, RecordFailed, RecordClosed, Record, NextEvent, MarkPublished,
                MarkFailed, MarkClose, Markable
  <2> QED
    BY <2>2
<1>3. CASE ClaimStep(w)
  <2>1. CASE TickerFires(w) \/ ClaimNothing(w) \/ Stop(w)
    BY <2>1 DEF TickerFires, ClaimNothing, Stop
  <2>2. CASE Reclaim(w)
    BY <2>2 DEF Reclaim, ReclaimStale
  <2>3. CASE ClaimSelect(w)
    <3>1. todo[w] = {} /\ status' = status /\ \A v \in Workers \ {w} : todo'[v] = todo[v]
      BY <2>3 DEF ClaimSelect, LockForClaim, BatchInv
    <3> QED
      BY <3>1
  <2>4. CASE ClaimCommit(w)
    BY <2>4 DEF ClaimCommit, CommitClaim
  <2>5. ~ClaimFails(w)
    BY DEF ClaimFails
  <2> QED
    BY <1>3, <2>1, <2>2, <2>3, <2>4, <2>5 DEF ClaimStep
<1> QED
  BY <1>1, <1>2, <1>3

\* Every step keeps HeldInv.
LEMMA HeldNext ==
    ASSUME "expiry" \notin TerminalFaults, BenchInv, BenchInv', HeldInv, [BenchNext]_benchVars
    PROVE  HeldInv'
<1> USE DEF BenchInv, FleetInv
<1>1. CASE SetupStep
  BY <1>1, SetupIsQuiet
  DEF HeldInv, Undisturbed, BenchStrandsNothing, ProcessingIsHeld
<1>2. CASE MainStep
  <2>1. /\ UNCHANGED <<status, todo>>
        /\ \A w \in Workers : ctx'[w] = "cancelled" => ctx[w] = "cancelled"
        /\ Undisturbed' => Undisturbed
    BY <1>2, MainOnlyCancels DEF table
  <2>2. phase \notin {"truncate", "failed"}
        \/ phase' = phase
    BY <1>2 DEF MainStep, Interrupt, CountDrained, CountUndrained, CountFails, Report,
                LeaveWaiting, Proceed
  <2> QED
    BY <2>1, <2>2 DEF HeldInv, BenchStrandsNothing, ProcessingIsHeld, Holders
<1>3. CASE BenchTick \/ TopicElects \/ UNCHANGED benchVars
  <2>1. UNCHANGED <<status, todo, ctx, disruptions, phase>>
    BY <1>3, ControlStays DEF BenchTick, Tick, AdvanceClock, TopicElects, OnlySetup, workers,
                              table, benchVars, vars, control
  <2> QED
    BY <2>1 DEF HeldInv, BenchStrandsNothing, ProcessingIsHeld, Holders, Undisturbed
<1>4. ASSUME NEW w \in Workers, PublishStep(w) \/ RecordStep(w) \/ ClaimStep(w)
      PROVE  HeldInv'
  <2> SUFFICES ASSUME Undisturbed' PROVE HeldInv'
    BY DEF HeldInv, BenchStrandsNothing
  <2>1. Undisturbed
    BY <1>4, DisruptionsOnlyGrow
  <2>2. \A v \in Workers : ctx[v] # "cancelled"
    BY <2>1 DEF HeldInv
  <2>3. /\ ~Errs(w) /\ ~ForceCancel(w)
        /\ \A v \in Workers : ctx'[v] # "cancelled"
    BY <1>4, <2>2, UndisturbedStep
  <2>4. phase' = phase
    BY <1>4, ControlStays
  <2>5. ProcessingIsHeld => ProcessingIsHeld'
    BY <1>4, <2>2, <2>3, HeldWorkerStep
  <2> QED
    BY <2>1, <2>3, <2>4, <2>5 DEF HeldInv, BenchStrandsNothing
<1> QED
  BY <1>1, <1>2, <1>3, <1>4, BenchSteps

\* HeldInv holds at first.
LEMMA HeldInit == BenchInit => HeldInv
BY DEF BenchInit, HeldInv, BenchStrandsNothing

\* Where the client of the broker sets no time-out of its own, a row in
\* PROCESSING is always in the batch of a worker: an interrupted benchmark, and
\* one that leaves its wait, finish their batches (outbox_worker.go:228-262).
THEOREM BenchStopStrandsNothing ==
    ASSUME "expiry" \notin TerminalFaults
    PROVE  BenchSpec => []BenchStrandsNothing
<1>1. BenchInv /\ BenchInv' /\ HeldInv /\ [BenchNext]_benchVars => HeldInv'
  BY HeldNext
<1>2. HeldInv => BenchStrandsNothing
  BY DEF HeldInv
<1> QED
  BY <1>1, <1>2, HeldInit, BenchInvariant, PTL DEF BenchSpec
-----------------------------------------------------------------------------
(* With a stale timeout longer than a batch *)

BenchPromptInv == HoldInv /\ AgeInv /\ ExactInv

\* The timing invariant holds at first.
LEMMA BenchPromptInit == BenchInit => BenchPromptInv
BY QuietFleet, BenchFleetInit DEF BenchPromptInv, BenchInv, SetupInv, BenchInit, Setup, FleetInv

\* Every step of the benchmark keeps the timing invariant of a prompt fleet.
LEMMA BenchPromptNext ==
    ASSUME Prompt, BenchInv, BenchInv', BenchPromptInv, [BenchNext]_benchVars
    PROVE  BenchPromptInv'
<1> USE DEF BenchInv, BenchPromptInv
<1>1. CASE SetupStep
  BY <1>1, SetupIsQuiet, QuietFleetNext DEF FleetInv
<1>2. CASE MainStep
  BY <1>2, MainKeepsFleet
<1>3. CASE BenchTick \/ TopicElects \/ UNCHANGED benchVars
           \/ \E w \in Workers : PublishStep(w) \/ RecordStep(w) \/ ClaimStep(w)
  <2>1. [Next]_vars
    BY <1>3, WorkerStepsAreFleetSteps
    DEF BenchTick, TopicElects, OnlySetup, Next, vars, benchVars
  <2> QED
    BY <2>1, PromptNext
<1> QED
  BY <1>1, <1>2, <1>3, BenchSteps

OnceRow(r) ==
    /\ delivered[r] <= 1 /\ calls[r] <= 1
    /\ delivered[r] + calls[r] > 0 =>
          \/ status[r] = "PUBLISHED"
          \/ \E w \in Workers : pc[w] = "markPublished" /\ IsNext(w, r)

\* A step that delivers nothing, and takes nobody from an acknowledged event
\* but by recording it
LEMMA OnceFrame ==
    ASSUME NEW r \in Rows, OnceRow(r), delivered'[r] = delivered[r], calls'[r] = calls[r],
           status[r] = "PUBLISHED" => status'[r] = "PUBLISHED",
           \A w \in Workers :
               pc[w] = "markPublished" /\ IsNext(w, r) =>
                   \/ status'[r] = "PUBLISHED"
                   \/ pc'[w] = "markPublished" /\ IsNext(w, r)'
    PROVE  OnceRow(r)'
BY DEF OnceRow

\* An event that a worker is about to publish has not been delivered before.
LEMMA OncePublish ==
    ASSUME BenchInv, BenchPromptInv, \A r \in Rows : OnceRow(r),
           NEW w \in Workers, ctx[w] # "cancelled", TerminalFaults \subseteq {"reject"},
           PublishStep(w), NEW s \in Rows
    PROVE  OnceRow(s)'
<1> USE DEF BenchInv, FleetInv, TypeOK, TableTypeOK, table, ChainTypeOK
<1>1. PICK r \in Rows :
          \/ InjectorFails(w, r) \/ InjectorPasses(w, r) \/ Acknowledged(w, r)
          \/ Refused(w, r) \/ Aborted(w, r)
  BY DEF PublishStep
<1>2. PublisherFaults \subseteq {"reject"}
  BY BenchAssumption
<1>3. ~Aborted(w, r)
  BY <1>2 DEF Aborted, PublishAborted
<1>4. pc[w] = "publish" /\ UNCHANGED <<status, todo>>
  BY <1>1, <1>3 DEF InjectorFails, InjectorPasses, Acknowledged, Refused, PublishAcked,
                    PublishRejected, vars, workers
<1>5. \A v \in Workers : v # w => pc'[v] = pc[v]
  BY <1>1, <1>3 DEF InjectorFails, InjectorPasses, Acknowledged, Refused, PublishAcked,
                    PublishRejected, vars, workers, Goto
<1>6. \A v \in Workers : IsNext(v, s)' <=> IsNext(v, s)
  BY <1>4 DEF IsNext
<1>7. CASE InjectorFails(w, r) \/ InjectorPasses(w, r) \/ Refused(w, r)
  <2>1. UNCHANGED <<delivered, calls>>
    BY <1>2, <1>7 DEF InjectorFails, InjectorPasses, Refused, PublishRejected, vars
  <2> QED
    BY <1>4, <1>5, <1>6, <2>1, OnceFrame
<1>8. CASE Acknowledged(w, r)
  <2>1. /\ IsNext(w, r) /\ r \in todo[w]
        /\ pc' = [pc EXCEPT ![w] = "markPublished"]
        /\ Deliver(r)
        /\ calls' = [calls EXCEPT ![r] = @ + 1]
    BY <1>8 DEF Acknowledged, PublishAcked, Goto, IsNext
  <2>2. CASE s # r
    BY <1>4, <1>5, <1>6, <2>1, <2>2, OnceFrame DEF Deliver
  <2>3. CASE s = r
    <3>1. status[r] = "PROCESSING" /\ \A v \in Workers : r \in todo[v] => v = w
      BY <1>4, <2>1 DEF BenchPromptInv, HoldInv
    <3>2. ~(\E v \in Workers : pc[v] = "markPublished" /\ IsNext(v, r))
      BY <1>4, <3>1 DEF IsNext
    <3>3. delivered[r] \in Nat /\ calls[r] \in Nat
      BY WorkerAssumption
    <3>4. delivered[r] = 0 /\ calls[r] = 0
      <4>1. OnceRow(r) /\ status[r] # "PUBLISHED"
        BY <3>1
      <4>2. ~(delivered[r] + calls[r] > 0)
        BY <3>2, <4>1 DEF OnceRow
      <4>3. \A m, n \in Nat : ~(m + n > 0) => m = 0 /\ n = 0
        <5> HIDE DEF BenchInv, FleetInv, TypeOK, TableTypeOK, table, ChainTypeOK
        <5> QED
          OBVIOUS
      <4> QED
        BY <3>3, <4>2, <4>3, Zenon
    <3>5. delivered'[r] <= 1 /\ calls'[r] = 1
      BY <2>1, <3>4 DEF Deliver
    <3>6. pc'[w] = "markPublished" /\ IsNext(w, r)'
      BY <1>6, <2>1, <2>3
    <3> QED
      BY <2>3, <3>5, <3>6 DEF OnceRow
  <2> QED
    BY <2>2, <2>3
<1> QED
  BY <1>1, <1>3, <1>7, <1>8

\* An acknowledged event is recorded: the worker of an undisturbed run does
\* not lose it between the two calls.
LEMMA OnceOther ==
    ASSUME BenchInv, \A r \in Rows : OnceRow(r), NEW w \in Workers, ~Errs(w), ~ForceCancel(w),
           RecordStep(w) \/ ClaimStep(w), NEW s \in Rows
    PROVE  OnceRow(s)'
<1> USE DEF BenchInv, FleetInv, TypeOK, TableTypeOK, table
<1>1. status[s] = "PUBLISHED" => status'[s] = "PUBLISHED"
  BY WorkerStepsAreFleetSteps, PublishedRowStays
<1>2. UNCHANGED calls
  BY ChainStays DEF publishing
<1>3. CASE RecordStep(w)
  <2>1. PICK r \in Rows :
            RecordPublished(w, r) \/ RecordFailed(w, r) \/ RecordClosed(w, r)
    BY <1>3 DEF RecordStep, RecordsPublished, RecordsFailed, RecordsClosed
  <2>2. /\ IsNext(w, r) /\ UNCHANGED delivered
        /\ \A v \in Workers : v # w => pc'[v] = pc[v] /\ todo'[v] = todo[v]
    BY <2>1 DEF RecordPublished, RecordFailed, RecordClosed, Record, NextEvent, Goto
  <2>3. pc[w] = "markPublished" => status'[r] = "PUBLISHED"
    BY <2>1 DEF RecordPublished, RecordFailed, RecordClosed, Record, MarkPublished
  <2>4. IsNext(w, s) => s = r
    BY <2>2, OneIsNext
  <2> QED
    BY <1>1, <1>2, <2>2, <2>3, <2>4, OnceFrame DEF IsNext
<1>4. CASE ClaimStep(w)
  <2>1. ~ClaimFails(w)
    BY DEF ClaimFails
  <2>2. /\ pc[w] # "markPublished" /\ UNCHANGED delivered
        /\ \A v \in Workers : v # w => pc'[v] = pc[v] /\ todo'[v] = todo[v]
    BY <1>4, <2>1 DEF ClaimStep, TickerFires, Reclaim, ClaimSelect, ClaimNothing, ClaimCommit,
                      Stop, Goto
  <2> QED
    BY <1>1, <1>2, <2>2, OnceFrame DEF IsNext
<1> QED
  BY <1>3, <1>4

\* Every step keeps OnceInv.
LEMMA OnceNext ==
    ASSUME TerminalFaults \subseteq {"reject"}, BenchInv, BenchInv', BenchPromptInv,
           HeldInv, OnceInv, [BenchNext]_benchVars
    PROVE  OnceInv'
<1> SUFFICES ASSUME Undisturbed', NEW s \in Rows PROVE OnceRow(s)'
  BY DEF OnceInv, OnceRow
<1>1. TypeOK /\ SetupInv
  BY DEF BenchInv, FleetInv
<1>2. CASE SetupStep
  BY <1>1, <1>2, SetupIsQuiet DEF Quiet, OnceRow
<1>3. Undisturbed => OnceRow(s)
  BY DEF OnceInv, OnceRow
<1>4. CASE MainStep
  BY <1>1, <1>3, <1>4, MainOnlyCancels, OnceFrame DEF publishing, table, IsNext
<1>5. CASE BenchTick \/ TopicElects \/ UNCHANGED benchVars
  <2>1. UNCHANGED <<status, todo, pc, delivered, calls, disruptions>>
    BY <1>5 DEF BenchTick, Tick, AdvanceClock, TopicElects, OnlySetup, workers, table,
                publishing, benchVars, vars
  <2> QED
    BY <1>3, <2>1, OnceFrame DEF Undisturbed, IsNext
<1>6. ASSUME NEW w \in Workers, PublishStep(w) \/ RecordStep(w) \/ ClaimStep(w)
      PROVE  OnceRow(s)'
  <2>1. Undisturbed
    BY <1>1, <1>6, DisruptionsOnlyGrow
  <2>2. (\A r \in Rows : OnceRow(r)) /\ ctx[w] # "cancelled"
    BY <2>1 DEF OnceInv, OnceRow, HeldInv
  <2>3. ~Errs(w) /\ ~ForceCancel(w)
    BY <1>1, <1>6, <2>2, UndisturbedStep
  <2> QED
    BY <1>6, <2>2, <2>3, OncePublish, OnceOther
<1> QED
  BY <1>2, <1>4, <1>5, <1>6, BenchSteps

\* OnceInv holds at first.
LEMMA OnceInit == BenchInit => OnceInv
BY DEF BenchInit, OnceInv

\* With calls that are bounded and a stale timeout that outlasts a batch, and a
\* broker that refuses or stores, the report's `duplicate` is 0
\* (main.go:353-358, config.go: OUTBOX_STALE_TIMEOUT).
THEOREM BenchDeliversAtMostOnce ==
    ASSUME Prompt, TerminalFaults \subseteq {"reject"}
    PROVE  BenchSpec => []BenchDeliversOnce
<1> DEFINE Inv == BenchPromptInv /\ HeldInv /\ OnceInv
<1>1. BenchInit => Inv
  BY BenchPromptInit, HeldInit, OnceInit
<1>2. BenchInv /\ BenchInv' /\ Inv /\ [BenchNext]_benchVars => Inv'
  BY BenchPromptNext, HeldNext, OnceNext
<1>3. Inv => BenchDeliversOnce
  BY DEF OnceInv, BenchDeliversOnce
<1> QED
  BY <1>1, <1>2, <1>3, BenchInvariant, PTL DEF BenchSpec

-----------------------------------------------------------------------------
(* Drained is final *)

\* The counts of a drained run are those of the table from then on.
CountsAreFinal == outcome = "drained" => Resolved /\ counts = TableCounts

\* When no row waits or is worked on, no worker of a prompt fleet has an event.
LEMMA ResolvedHasNoHolder ==
    ASSUME BenchInv, BenchPromptInv, Resolved, NEW w \in Workers
    PROVE  todo[w] = {}
<1> SUFFICES ASSUME NEW r \in Rows, r \in todo[w] PROVE FALSE
  BY DEF BenchInv, FleetInv, TypeOK
<1>1. CASE pc[w] = "commit"
  <2>1. lockedBy[r] = w /\ w # NoWorker
    BY <1>1, RepositoryAssumption DEF BenchInv, FleetInv, LockInv
  <2> QED
    BY <2>1 DEF BenchInv, FleetInv, LockInv, Unlocked, Resolved
<1>2. CASE pc[w] # "commit"
  BY <1>2 DEF BenchPromptInv, HoldInv, Resolved
<1> QED
  BY <1>1, <1>2

\* So none of them changes the status of a row any more.
LEMMA ResolvedStays ==
    ASSUME BenchInv, BenchPromptInv, Resolved, NEW w \in Workers,
           PublishStep(w) \/ RecordStep(w) \/ ClaimStep(w)
    PROVE  status' = status
<1> USE DEF BenchInv, FleetInv, TypeOK, TableTypeOK, table
<1>1. todo[w] = {}
  BY ResolvedHasNoHolder
<1>2. ~RecordStep(w)
  BY <1>1 DEF RecordStep, RecordsPublished, RecordsFailed, RecordsClosed, RecordPublished,
              RecordFailed, RecordClosed, Record, IsNext
<1>3. CASE PublishStep(w)
  BY <1>3 DEF PublishStep, InjectorFails, InjectorPasses, Acknowledged, Refused, Aborted,
              PublishAcked, PublishRejected, PublishAborted, vars
<1>4. CASE ClaimStep(w)
  <2>1. CASE TickerFires(w) \/ ClaimNothing(w) \/ Stop(w) \/ ForceCancel(w) \/ ClaimSelect(w)
    BY <2>1 DEF TickerFires, ClaimNothing, Stop, ForceCancel, ClaimSelect, LockForClaim
  <2>2. CASE Reclaim(w)
    <3>1. Stale = {}
      BY DEF Stale, Resolved
    <3> QED
      BY <2>2, <3>1 DEF Reclaim, ReclaimStale
  <2>3. CASE ClaimCommit(w) \/ ClaimFails(w)
    BY <1>1, <2>3 DEF ClaimCommit, ClaimFails, CommitClaim, RollbackClaim
  <2> QED
    BY <1>4, <2>1, <2>2, <2>3 DEF ClaimStep
<1> QED
  BY <1>2, <1>3, <1>4

\* countByStatus sees no row to wait for only if there is none.
LEMMA DrainedIsResolved == Drained(TableCounts) => Resolved
<1> SUFFICES ASSUME Drained(TableCounts), NEW r \in Rows, status[r] \in {"PENDING", "PROCESSING"}
             PROVE  FALSE
  BY DEF Resolved
<1> DEFINE Rest(s) == {q \in Rows : status[q] = s}
<1>1. Cardinality(Rest("PENDING")) = 0 /\ Cardinality(Rest("PROCESSING")) = 0
  BY DEF Drained, TableCounts, Counted, Status
<1>2. IsFiniteSet(Rest("PENDING")) /\ IsFiniteSet(Rest("PROCESSING"))
  BY BenchAssumption, FS_Subset
<1>3. Rest("PENDING") = {} /\ Rest("PROCESSING") = {}
  <2> HIDE DEF Rest
  <2> QED
    BY <1>1, <1>2, FS_EmptySet
<1> QED
  BY <1>3

\* Every step keeps DrainedInv.
LEMMA DrainedNext ==
    ASSUME Prompt, BenchInv, BenchInv', BenchPromptInv, DrainedInv, [BenchNext]_benchVars
    PROVE  DrainedInv'
<1>1. status' = status => TableCounts' = TableCounts /\ (Resolved <=> Resolved')
  BY DEF TableCounts, Counted, Resolved
<1>2. TypeOK /\ SetupInv
  BY DEF BenchInv, FleetInv
<1>3. CASE SetupStep
  <2>1. outcome' = outcome
    BY <1>2, <1>3, SetupIsQuiet
  <2>2. phase \in Setup
    BY <1>3 DEF SetupStep, Truncate, Seed, SeedPoison, EnsureTopic, TopicIsReady, SetupFails,
                StartWorkers, Proceed, Setup
  <2> QED
    BY <2>1, <2>2 DEF DrainedInv, Setup
<1>4. CASE MainStep
  <2>1. status' = status
    BY <1>2, <1>4, MainOnlyCancels DEF table
  <2>2. CASE CountDrained
    <3>1. Drained(TableCounts) /\ counts' = TableCounts /\ phase' = "joining"
      BY <2>2 DEF CountDrained, LeaveWaiting, Proceed
    <3> QED
      BY <1>1, <2>1, <3>1, DrainedIsResolved DEF DrainedInv
  <2>3. CASE CountUndrained \/ CountFails
    <3>1. phase = "waiting" /\ (outcome' = outcome \/ outcome' # "drained")
      BY <2>3 DEF CountUndrained, CountFails, LeaveWaiting, Proceed
    <3> QED
      BY <3>1 DEF DrainedInv
  <2>4. CASE Interrupt \/ Report
    <3>1. /\ UNCHANGED <<counts, outcome>>
          /\ phase' = phase \/ phase' = "reported"
      BY <2>4 DEF Interrupt, Report, Proceed
    <3> QED
      BY <1>1, <2>1, <3>1 DEF DrainedInv
  <2> QED
    BY <1>4, <2>2, <2>3, <2>4 DEF MainStep
<1>5. CASE BenchTick \/ TopicElects \/ UNCHANGED benchVars
  <2>1. UNCHANGED <<status, phase, counts, outcome>>
    BY <1>5, ControlStays DEF BenchTick, Tick, AdvanceClock, TopicElects, OnlySetup, table,
                              benchVars, vars, control
  <2> QED
    BY <1>1, <2>1 DEF DrainedInv
<1>6. ASSUME NEW w \in Workers, PublishStep(w) \/ RecordStep(w) \/ ClaimStep(w)
      PROVE  DrainedInv'
  <2>1. UNCHANGED <<phase, counts, outcome>>
    BY <1>6, ControlStays
  <2>2. outcome = "drained" => status' = status
    BY <1>6, ResolvedStays DEF DrainedInv
  <2> QED
    BY <1>1, <2>1, <2>2 DEF DrainedInv
<1> QED
  BY <1>3, <1>4, <1>5, <1>6, BenchSteps

\* What main counted when it found the table drained, while the workers still
\* ran, is what is there when they have ended and ever after: no worker has an
\* event that a late statement could still change (main.go, waitDrained).
THEOREM DrainedCountsAreFinal ==
    ASSUME Prompt
    PROVE  BenchSpec => []CountsAreFinal
<1>1. BenchInit => BenchPromptInv /\ DrainedInv
  BY BenchPromptInit DEF BenchInit, DrainedInv
<1>2. BenchInv /\ BenchInv' /\ BenchPromptInv /\ DrainedInv /\ [BenchNext]_benchVars
          => BenchPromptInv' /\ DrainedInv'
  BY BenchPromptNext, DrainedNext
<1>3. DrainedInv => CountsAreFinal
  BY DEF DrainedInv, CountsAreFinal
<1> QED
  BY <1>1, <1>2, <1>3, BenchInvariant, PTL DEF BenchSpec

-----------------------------------------------------------------------------
(* The report counts every row *)

\* What seeding has put into the table stays there.
SeededInv ==
    /\ phase \in Setup \ {"truncate", "seed"} =>
          \A r \in Rows \ PoisonRows : status[r] # "ABSENT"
    /\ phase \notin {"truncate", "seed", "seedPoison", "failed"} =>
          \A r \in Rows : status[r] # "ABSENT"

\* A count that ended the wait has all of the rows.
ReportInv ==
    /\ phase \in {"joining", "reported"} => outcome # "none"
    /\ outcome \notin {"none", "countError"} => Total(counts) = Cardinality(Rows)

\* No worker removes a row.
LEMMA RowsStay ==
    ASSUME TypeOK, NEW w \in Workers, PublishStep(w) \/ RecordStep(w) \/ ClaimStep(w),
           NEW r \in Rows, status[r] # "ABSENT"
    PROVE  status'[r] # "ABSENT"
<1> USE DEF TypeOK, TableTypeOK, table
<1>1. CASE PublishStep(w)
  BY <1>1 DEF PublishStep, InjectorFails, InjectorPasses, Acknowledged, Refused, Aborted,
              PublishAcked, PublishRejected, PublishAborted, vars
<1>2. CASE RecordStep(w)
  BY <1>2 DEF RecordStep, RecordsPublished, RecordsFailed, RecordsClosed, RecordPublished,
              RecordFailed, RecordClosed, Record, MarkPublished, MarkFailed, MarkClose
<1>3. CASE ClaimStep(w)
  BY <1>3 DEF ClaimStep, TickerFires, Reclaim, ReclaimStale, ClaimSelect, LockForClaim,
              ClaimNothing, ClaimCommit, ClaimFails, CommitClaim, RollbackClaim, Stop, ForceCancel
<1> QED
  BY <1>1, <1>2, <1>3

\* The counts of a seeded table are as many as its rows.
LEMMA CountsAreComplete ==
    ASSUME TypeOK, \A r \in Rows : status[r] # "ABSENT"
    PROVE  Total(TableCounts) = Cardinality(Rows)
<1> DEFINE L == Status \ {"ABSENT"}
<1>1. status \in [Rows -> L]
  BY DEF TypeOK, TableTypeOK
<1>2. IsFiniteSet(L)
  <2>1. L = {"PENDING", "PROCESSING", "PUBLISHED", "CLOSE"}
    BY DEF Status
  <2>2. IsFiniteSet({}) /\ \A S, x : IsFiniteSet(S) => IsFiniteSet(S \union {x})
    BY FS_EmptySet, FS_AddElement
  <2>3. L = ((({} \union {"PENDING"}) \union {"PROCESSING"}) \union {"PUBLISHED"}) \union {"CLOSE"}
    BY <2>1
  <2> HIDE DEF L
  <2> QED
    BY <2>2, <2>3
<1>3. TableCounts = [l \in L |-> Cardinality({r \in Rows : status[r] = l})]
  BY DEF TableCounts, Counted
<1> HIDE DEF L
<1> QED
  BY <1>1, <1>2, <1>3, BenchAssumption, CountedByLabel

\* Every step keeps SeededInv.
LEMMA SeededNext ==
    ASSUME BenchInv, SeededInv, [BenchNext]_benchVars
    PROVE  SeededInv'
<1> USE DEF BenchInv, FleetInv, TypeOK, TableTypeOK, Setup
<1>1. CASE SetupStep
  <2>1. CASE Truncate
    BY <2>1 DEF Truncate, Proceed, SeededInv
  <2>2. CASE Seed
    BY <2>2 DEF Seed, SeedBatch, Proceed, SeededInv
  <2>3. CASE SeedPoison
    BY <2>3 DEF SeedPoison, SeedBatch, Proceed, SeededInv
  <2>4. CASE EnsureTopic \/ TopicIsReady \/ StartWorkers
    BY <2>4 DEF EnsureTopic, TopicIsReady, StartWorkers, Proceed, SeededInv, table
  <2>5. CASE SetupFails
    BY <2>5 DEF SetupFails, SeededInv
  <2> QED
    BY <1>1, <2>1, <2>2, <2>3, <2>4, <2>5 DEF SetupStep
<1>2. CASE MainStep
  <2>1. status' = status
    BY <1>2, MainOnlyCancels DEF table
  <2>2. phase' = phase \/ (phase \in {"waiting", "joining"} /\ phase' \in {"joining", "reported"})
    BY <1>2 DEF MainStep, Interrupt, CountDrained, CountUndrained, CountFails, Report,
                LeaveWaiting, Proceed
  <2> QED
    BY <2>1, <2>2 DEF SeededInv
<1>3. CASE BenchTick \/ TopicElects \/ UNCHANGED benchVars
  <2>1. UNCHANGED <<status, phase>>
    BY <1>3, ControlStays DEF BenchTick, Tick, AdvanceClock, TopicElects, OnlySetup, table,
                              benchVars, vars, control
  <2> QED
    BY <2>1 DEF SeededInv
<1>4. ASSUME NEW w \in Workers, PublishStep(w) \/ RecordStep(w) \/ ClaimStep(w)
      PROVE  SeededInv'
  <2>1. phase' = phase
    BY <1>4, ControlStays
  <2>2. \A r \in Rows : status[r] # "ABSENT" => status'[r] # "ABSENT"
    BY <1>4, RowsStay
  <2> QED
    BY <2>1, <2>2 DEF SeededInv
<1> QED
  BY <1>1, <1>2, <1>3, <1>4, BenchSteps

\* Every step keeps ReportInv.
LEMMA ReportNext ==
    ASSUME BenchInv, SeededInv, ReportInv, [BenchNext]_benchVars
    PROVE  ReportInv'
<1>1. TypeOK /\ SetupInv
  BY DEF BenchInv, FleetInv
<1>2. phase = "waiting" => Total(TableCounts) = Cardinality(Rows)
  BY <1>1, CountsAreComplete DEF SeededInv
<1>3. CASE SetupStep
  <2>1. UNCHANGED <<counts, outcome>>
    BY <1>3 DEF SetupStep, Truncate, Seed, SeedPoison, SeedBatch, EnsureTopic, TopicIsReady,
                SetupFails, StartWorkers, OnlySetup
  <2>2. phase' \notin {"joining", "reported"}
    BY <1>1, <1>3, SetupIsQuiet DEF Setup
  <2> QED
    BY <2>1, <2>2 DEF ReportInv
<1>4. CASE CountDrained \/ CountUndrained
  <2>1. phase = "waiting" /\ counts' = TableCounts
    BY <1>4 DEF CountDrained, CountUndrained, LeaveWaiting, Proceed
  <2>2. \/ phase' = "joining" /\ outcome' \in {"drained", "timeout", "interrupted"}
        \/ phase' = "waiting" /\ outcome' = outcome
    BY <1>4 DEF CountDrained, CountUndrained, LeaveWaiting, Proceed
  <2> QED
    BY <1>2, <2>1, <2>2 DEF ReportInv
<1>5. CASE CountFails
  BY <1>5 DEF CountFails, LeaveWaiting, Proceed, ReportInv
<1>6. CASE Interrupt \/ Report
  <2>1. /\ UNCHANGED <<counts, outcome>>
        /\ phase' = phase \/ (phase = "joining" /\ phase' = "reported")
    BY <1>6 DEF Interrupt, Report, Proceed
  <2> QED
    BY <2>1 DEF ReportInv
<1>7. CASE BenchTick \/ TopicElects \/ UNCHANGED benchVars
           \/ \E w \in Workers : PublishStep(w) \/ RecordStep(w) \/ ClaimStep(w)
  <2>1. UNCHANGED <<phase, counts, outcome>>
    BY <1>7, ControlStays DEF benchVars, control
  <2> QED
    BY <2>1 DEF ReportInv
<1> QED
  BY <1>3, <1>4, <1>5, <1>6, <1>7, BenchSteps DEF MainStep

\* They hold at first.
LEMMA ReportInit == BenchInit => SeededInv /\ ReportInv
BY DEF BenchInit, SeededInv, ReportInv, Setup

\* The counts of the report have every seeded row, unless the last count failed,
\* whatever the stale timeout (main.go, waitDrained and countByStatus).
ReportIsComplete ==
    phase = "reported" /\ outcome # "countError" =>
        FoldFunction(+, 0, counts) = Cardinality(Rows)

THEOREM ReportCountsEveryRow == BenchSpec => []ReportIsComplete
<1>1. BenchInv /\ SeededInv /\ ReportInv /\ [BenchNext]_benchVars => SeededInv' /\ ReportInv'
  BY SeededNext, ReportNext
<1>2. ReportInv => ReportIsComplete
  BY DEF ReportInv, ReportIsComplete, Total, FoldFunction, FoldFunctionOnSet, MapThenFoldSet
<1> QED
  BY <1>1, <1>2, ReportInit, BenchInvariant, PTL DEF BenchSpec

\* What the report says is true: its counts have every row, and those of a
\* drained run are what the table holds when the workers have ended.
THEOREM ReportTrue ==
    ASSUME Prompt
    PROVE  BenchSpec => []ReportIsTrue
<1>1. ReportIsComplete /\ CountsAreFinal => ReportIsTrue
  BY DEF ReportIsComplete, CountsAreFinal, ReportIsTrue, FoldFunction, FoldFunctionOnSet,
         MapThenFoldSet
<1> QED
  BY <1>1, ReportCountsEveryRow, DrainedCountsAreFinal, PTL

-----------------------------------------------------------------------------
(* The counters of OutboxMetrics *)

MetricsTypeOK == published \in Nat /\ failed \in Nat /\ closed \in Nat

Having(s) == {r \in Rows : status[r] = s}

\* The workers with a rejection that is counted and not yet on record
Recorders == {w \in Workers : pc[w] \in {"markFailed", "markClose"}}

\* Every failure on record, and every one about to be, has been counted.
FailedInv == failed >= Total(attempts) + Cardinality(Having("CLOSE")) + Cardinality(Recorders)

\* Whatever was counted as recorded is in the table.
RecordedInv ==
    /\ published <= Cardinality(Having("PUBLISHED"))
    /\ closed <= Cardinality(Having("CLOSE"))

\* These sets are finite.
LEMMA CountedFinite ==
    /\ \A s : /\ IsFiniteSet(Having(s)) /\ Cardinality(Having(s)) \in Nat
             /\ IsFiniteSet(Having(s)') /\ Cardinality(Having(s)') \in Nat
    /\ IsFiniteSet(Recorders) /\ Cardinality(Recorders) \in Nat
    /\ IsFiniteSet(Recorders') /\ Cardinality(Recorders') \in Nat
<1>1. \A S : S \subseteq Rows => IsFiniteSet(S) /\ Cardinality(S) \in Nat
  BY BenchAssumption, FS_Subset, FS_CardinalityType
<1>2. \A S : S \subseteq Workers => IsFiniteSet(S) /\ Cardinality(S) \in Nat
  BY RepositoryAssumption, FS_Subset, FS_CardinalityType
<1>3. \A s : Having(s) \subseteq Rows /\ Having(s)' \subseteq Rows
  BY DEF Having
<1>4. Recorders \subseteq Workers /\ Recorders' \subseteq Workers
  BY DEF Recorders
<1> QED
  BY <1>1, <1>2, <1>3, <1>4

\* The failures on record are a number.
LEMMA AttemptsTotal ==
    ASSUME NEW f \in [Rows -> Nat]
    PROVE  Total(f) \in Nat
<1>1. \A T \in SUBSET Rows : SumOn(f, Rows)[T] \in Nat
  BY BenchAssumption, SumUnfolds
<1> QED
  BY <1>1, TotalIsSum

\* A step that adds no failure, no CLOSE and no worker about to record one
LEMMA FailedFrame ==
    ASSUME BenchInv, MetricsTypeOK, FailedInv, attempts' = attempts, failed' \in Nat,
           failed' >= failed, Having("CLOSE")' \subseteq Having("CLOSE"),
           Recorders' \subseteq Recorders
    PROVE  FailedInv'
<1>1. Total(attempts) \in Nat
  BY AttemptsTotal DEF BenchInv, FleetInv, TypeOK, TableTypeOK
<1>2. Cardinality(Having("CLOSE")') <= Cardinality(Having("CLOSE"))
  BY CountedFinite, PartIsNoMore
<1>3. Cardinality(Recorders') <= Cardinality(Recorders)
  BY CountedFinite, PartIsNoMore
<1>4. \A a, b, c, d, e, f, g \in Nat :
          f >= a + b + c /\ g >= f /\ d <= b /\ e <= c => g >= a + d + e
  OBVIOUS
<1>5. /\ failed \in Nat /\ Cardinality(Having("CLOSE")) \in Nat
      /\ Cardinality(Having("CLOSE")') \in Nat
      /\ Cardinality(Recorders) \in Nat /\ Cardinality(Recorders') \in Nat
  BY CountedFinite DEF MetricsTypeOK
<1>6. Total(attempts') = Total(attempts)
  OBVIOUS
<1>7. failed >= Total(attempts) + Cardinality(Having("CLOSE")) + Cardinality(Recorders)
  BY DEF FailedInv
<1>8. failed' >= Total(attempts) + Cardinality(Having("CLOSE")') + Cardinality(Recorders')
  BY <1>1, <1>2, <1>3, <1>4, <1>5, <1>7
<1> QED
  BY <1>6, <1>8 DEF FailedInv

\* A rejection is counted when it comes back.
LEMMA FailedPublish ==
    ASSUME BenchInv, MetricsTypeOK, FailedInv, NEW w \in Workers, PublishStep(w)
    PROVE  FailedInv'
<1> USE DEF BenchInv, FleetInv, TypeOK, TableTypeOK, table
<1>1. PICK r \in Rows :
          \/ InjectorFails(w, r) \/ InjectorPasses(w, r) \/ Acknowledged(w, r)
          \/ Refused(w, r) \/ Aborted(w, r)
  BY DEF PublishStep
<1>2. pc[w] = "publish" /\ UNCHANGED <<status, attempts>>
  BY <1>1 DEF InjectorFails, InjectorPasses, Acknowledged, Refused, Aborted, PublishAcked,
              PublishRejected, PublishAborted, vars
<1>3. Having("CLOSE")' = Having("CLOSE")
  BY <1>2 DEF Having
<1>4. CASE InjectorPasses(w, r) \/ Acknowledged(w, r) \/ Aborted(w, r)
  <2>1. failed' = failed
    BY <1>4 DEF InjectorPasses, Acknowledged, Aborted, metrics
  <2>2. pc' = pc \/ pc' = [pc EXCEPT ![w] = "markPublished"] \/ pc' = [pc EXCEPT ![w] = "idle"]
    BY <1>4 DEF InjectorPasses, Acknowledged, Aborted, PublishAcked, PublishAborted, DropBatch,
                Goto, vars, workers
  <2>3. Recorders' \subseteq Recorders
    BY <2>2 DEF Recorders
  <2> QED
    BY <1>2, <1>3, <2>1, <2>3, FailedFrame DEF MetricsTypeOK
<1>5. CASE InjectorFails(w, r) \/ Refused(w, r)
  <2>1. failed' = failed + 1
    BY <1>5 DEF InjectorFails, Refused, CountRejection
  <2>2. pc' = [pc EXCEPT ![w] = AfterRejection(w, r)]
    BY <1>5 DEF InjectorFails, Refused, PublishRejected, Goto
  <2>3. Recorders' \subseteq Recorders \union {w}
    BY <2>2 DEF Recorders
  <2>4. Cardinality(Recorders') <= Cardinality(Recorders) + 1
    BY <2>3, CountedFinite, OneMore
  <2>5. Total(attempts) \in Nat
    BY AttemptsTotal
  <2> HIDE DEF BenchInv, FleetInv, TypeOK, TableTypeOK, table
  <2>6. \A a, b, c, e, f \in Nat : f >= a + b + c /\ e <= c + 1 => f + 1 >= a + b + e
    OBVIOUS
  <2>7. /\ failed \in Nat /\ Cardinality(Having("CLOSE")) \in Nat
        /\ Cardinality(Recorders) \in Nat /\ Cardinality(Recorders') \in Nat
    BY CountedFinite DEF MetricsTypeOK
  <2>8. failed >= Total(attempts) + Cardinality(Having("CLOSE")) + Cardinality(Recorders)
    BY DEF FailedInv
  <2>9. failed + 1 >= Total(attempts) + Cardinality(Having("CLOSE")) + Cardinality(Recorders')
    BY <2>4, <2>5, <2>6, <2>7, <2>8
  <2>10. Total(attempts') = Total(attempts)
    BY <1>2
  <2> QED
    BY <1>3, <2>1, <2>9, <2>10 DEF FailedInv
<1> QED
  BY <1>1, <1>4, <1>5

\* Recording one turns a worker about to record into a failure or a CLOSE on
\* record, or loses it.
LEMMA FailedRecord ==
    ASSUME BenchInv, MetricsTypeOK, FailedInv, NEW w \in Workers, RecordStep(w),
           failed' \in Nat, failed' >= failed
    PROVE  FailedInv'
<1> USE DEF BenchInv, FleetInv, TypeOK, TableTypeOK, table
<1>1. PICK r \in Rows :
          RecordPublished(w, r) \/ RecordFailed(w, r) \/ RecordClosed(w, r)
  BY DEF RecordStep, RecordsPublished, RecordsFailed, RecordsClosed
<1>2. /\ pc'[w] \in {"idle", "publish"}
      /\ \A v \in Workers : v # w => pc'[v] = pc[v]
  BY <1>1 DEF RecordPublished, RecordFailed, RecordClosed, Record, NextEvent, Goto
<1>3. CASE UNCHANGED table \/ RecordPublished(w, r)
  <2>1. attempts' = attempts /\ Having("CLOSE")' \subseteq Having("CLOSE")
    BY <1>3 DEF RecordPublished, Record, MarkPublished, Having
  <2>2. Recorders' \subseteq Recorders
    BY <1>2 DEF Recorders
  <2> QED
    BY <2>1, <2>2, FailedFrame
<1>4. CASE ~(UNCHANGED table) /\ (RecordFailed(w, r) \/ RecordClosed(w, r))
  <2>1. w \in Recorders /\ Recorders' \subseteq Recorders \ {w}
    BY <1>2, <1>4 DEF RecordFailed, RecordClosed, Record, Recorders
  <2>2. Cardinality(Recorders') + 1 <= Cardinality(Recorders)
    BY <2>1, CountedFinite, PartIsLess
  <2>3. Total(attempts) \in Nat /\ Total(attempts') \in Nat
    <3>1. attempts \in [Rows -> Nat] /\ attempts' \in [Rows -> Nat]
      BY <1>4 DEF RecordFailed, RecordClosed, Record, MarkFailed, MarkClose
    <3> QED
      BY <3>1, AttemptsTotal
  <2>4. \/ /\ Total(attempts') = Total(attempts) + 1
           /\ Cardinality(Having("CLOSE")') <= Cardinality(Having("CLOSE"))
        \/ /\ Total(attempts') = Total(attempts)
           /\ Cardinality(Having("CLOSE")') <= Cardinality(Having("CLOSE")) + 1
    <3>1. CASE RecordFailed(w, r)
      <4>1. /\ attempts' = [attempts EXCEPT ![r] = @ + 1]
            /\ status' = [status EXCEPT ![r] = "PENDING"]
        BY <1>4, <3>1 DEF RecordFailed, Record, MarkFailed
      <4>2. Total(attempts') = Total(attempts) + 1
        <5>1. /\ attempts \in [Rows -> Nat] /\ attempts' \in [Rows -> Nat]
              /\ attempts'[r] = attempts[r] + 1
              /\ \A q \in Rows \ {r} : attempts'[q] = attempts[q]
          BY <4>1
        <5> HIDE DEF BenchInv, FleetInv, TypeOK, TableTypeOK, table
        <5> QED
          BY <5>1, BenchAssumption, TotalRaised
      <4>3. Having("CLOSE")' \subseteq Having("CLOSE")
        BY <4>1 DEF Having
      <4> QED
        BY <4>2, <4>3, CountedFinite, PartIsNoMore
    <3>2. CASE RecordClosed(w, r)
      <4>1. attempts' = attempts /\ status' = [status EXCEPT ![r] = "CLOSE"]
        BY <1>4, <3>2 DEF RecordClosed, Record, MarkClose
      <4>2. Having("CLOSE")' \subseteq Having("CLOSE") \union {r}
        BY <4>1 DEF Having
      <4>3. Cardinality(Having("CLOSE")') <= Cardinality(Having("CLOSE")) + 1
        BY <4>2, CountedFinite, OneMore
      <4>4. Total(attempts') = Total(attempts)
        BY <4>1
      <4> QED
        BY <4>3, <4>4
    <3> QED
      BY <1>4, <3>1, <3>2
  <2> HIDE DEF BenchInv, FleetInv, TypeOK, TableTypeOK, table
  <2>5. \A a, b, c, d, e, f, g, h \in Nat :
            /\ f >= a + b + c /\ g >= f /\ e + 1 <= c
            /\ (h = a + 1 /\ d <= b) \/ (h = a /\ d <= b + 1)
            => g >= h + d + e
    OBVIOUS
  <2>6. /\ failed \in Nat /\ Cardinality(Having("CLOSE")) \in Nat
        /\ Cardinality(Having("CLOSE")') \in Nat
        /\ Cardinality(Recorders) \in Nat /\ Cardinality(Recorders') \in Nat
    BY CountedFinite DEF MetricsTypeOK
  <2>7. failed >= Total(attempts) + Cardinality(Having("CLOSE")) + Cardinality(Recorders)
    BY DEF FailedInv
  <2>8. failed' >= Total(attempts') + Cardinality(Having("CLOSE")') + Cardinality(Recorders')
    BY <2>2, <2>3, <2>4, <2>5, <2>6, <2>7
  <2> QED
    BY <2>8 DEF FailedInv
<1> QED
  BY <1>1, <1>3, <1>4

\* The counters of a step: none goes down.
LEMMA CountersGrow ==
    ASSUME MetricsTypeOK, NEW w \in Workers, PublishStep(w) \/ RecordStep(w) \/ ClaimStep(w)
    PROVE  /\ MetricsTypeOK' /\ failed' >= failed
           /\ ~RecordStep(w) => UNCHANGED <<published, closed>>
<1> USE DEF MetricsTypeOK
<1>1. CASE PublishStep(w)
  BY <1>1 DEF PublishStep, InjectorFails, InjectorPasses, Acknowledged, Refused, Aborted,
              CountRejection, metrics
<1>2. CASE RecordStep(w)
  <2>1. \A n \in Nat : \A b : Inc(n, b) \in Nat /\ Inc(n, b) >= n
    BY DEF Inc
  <2> QED
    BY <1>2, <2>1 DEF RecordStep, RecordsPublished, RecordsFailed, RecordsClosed
<1>3. CASE ClaimStep(w)
  BY <1>3 DEF ClaimStep, metrics
<1> QED
  BY <1>1, <1>2, <1>3

\* A claim, a reclaim, a stop: nothing is recorded.
LEMMA ClaimRecordsNothing ==
    ASSUME BenchInv, NEW w \in Workers, ClaimStep(w)
    PROVE  /\ attempts' = attempts
           /\ Having("CLOSE")' = Having("CLOSE")
           /\ Having("PUBLISHED")' = Having("PUBLISHED")
           /\ Recorders' \subseteq Recorders
<1> USE DEF BenchInv, FleetInv, TypeOK, TableTypeOK, table
<1>1. /\ attempts' = attempts
      /\ pc'[w] \notin {"markFailed", "markClose"} \/ pc'[w] = pc[w]
      /\ \A v \in Workers : v # w => pc'[v] = pc[v]
  BY DEF ClaimStep, TickerFires, Reclaim, ReclaimStale, ClaimSelect, LockForClaim,
         ClaimNothing, ClaimCommit, ClaimFails, CommitClaim, RollbackClaim, DropBatch, Stop,
         ForceCancel, Goto
<1>2. ASSUME NEW r \in Rows
      PROVE  status'[r] = status[r]
             \/ (status[r] \in {"PENDING", "PROCESSING"} /\ status'[r] \in {"PENDING", "PROCESSING"})
  <2>1. CASE TickerFires(w) \/ ClaimNothing(w) \/ Stop(w) \/ ForceCancel(w) \/ ClaimSelect(w)
    BY <2>1 DEF TickerFires, ClaimNothing, Stop, ForceCancel, ClaimSelect, LockForClaim
  <2>2. CASE Reclaim(w)
    BY <2>2 DEF Reclaim, ReclaimStale, Stale
  <2>3. CASE ClaimCommit(w) \/ ClaimFails(w)
    <3>1. \A q \in todo[w] : status[q] = "PENDING"
      <4>1. pc[w] = "commit" /\ w # NoWorker
        BY <2>3, RepositoryAssumption DEF ClaimCommit, ClaimFails
      <4> QED
        BY <4>1 DEF LockInv, Unlocked
    <3>2. CommitClaim(w, todo[w]) \/ status' = status
      BY <2>3 DEF ClaimCommit, ClaimFails, RollbackClaim
    <3> QED
      BY <3>1, <3>2 DEF CommitClaim
  <2> QED
    BY <2>1, <2>2, <2>3 DEF ClaimStep
<1> HIDE DEF BenchInv, FleetInv, TypeOK, TableTypeOK, table
<1>3. Having("CLOSE")' \subseteq Having("CLOSE") /\ Having("CLOSE") \subseteq Having("CLOSE")'
  BY <1>2 DEF Having
<1>4. /\ Having("PUBLISHED")' \subseteq Having("PUBLISHED")
      /\ Having("PUBLISHED") \subseteq Having("PUBLISHED")'
  BY <1>2 DEF Having
<1>5. Recorders' \subseteq Recorders
  BY <1>1 DEF Recorders
<1> QED
  BY <1>1, <1>3, <1>4, <1>5

\* What is counted does not change while table, workers and counters do not.
LEMMA CountersFrame ==
    ASSUME UNCHANGED <<status, attempts, pc, metrics>>
    PROVE  /\ MetricsTypeOK => MetricsTypeOK'
           /\ FailedInv => FailedInv'
           /\ RecordedInv => RecordedInv'
<1>1. Having("CLOSE")' = Having("CLOSE") /\ Having("PUBLISHED")' = Having("PUBLISHED")
  BY DEF Having
<1>2. Recorders' = Recorders /\ UNCHANGED <<attempts, published, failed, closed>>
  BY DEF Recorders, metrics
<1> QED
  BY <1>1, <1>2 DEF MetricsTypeOK, FailedInv, RecordedInv

\* Before the workers start the counters are zero, and there is nothing to count.
LEMMA CountersSetup ==
    ASSUME BenchInv, MetricsTypeOK, SetupStep
    PROVE  /\ MetricsTypeOK' /\ FailedInv'
           /\ RecordedInv => RecordedInv'
<1>1. TypeOK /\ SetupInv /\ TypeOK' /\ Quiet'
  BY SetupIsQuiet DEF BenchInv, FleetInv
<1>2. Quiet
  BY <1>1 DEF SetupInv, SetupStep, Truncate, Seed, SeedPoison, EnsureTopic, TopicIsReady,
              SetupFails, StartWorkers, Proceed, Setup
<1>3. UNCHANGED metrics
  BY DEF SetupStep, Truncate, Seed, SeedPoison, SeedBatch, EnsureTopic, TopicIsReady,
         SetupFails, StartWorkers, OnlySetup
<1>4. /\ Having("CLOSE") = {} /\ Having("PUBLISHED") = {}
      /\ Having("CLOSE")' = {} /\ Recorders' = {}
  BY <1>1, <1>2 DEF Quiet, Having, Recorders
<1>5. /\ Cardinality(Having("CLOSE")) = 0 /\ Cardinality(Having("PUBLISHED")) = 0
      /\ Cardinality(Having("CLOSE")') = 0 /\ Cardinality(Recorders') = 0
  <2>1. Cardinality({}) = 0
    BY FS_EmptySet
  <2> QED
    BY <1>4, <2>1, Zenon
<1>6. Total(attempts') = 0
  <2>1. attempts' \in [Rows -> Nat] /\ \A r \in Rows : attempts'[r] = 0
    BY <1>1 DEF Quiet, TypeOK, TableTypeOK
  <2> QED
    BY <2>1, BenchAssumption, TotalOfZeroes
<1>7. FailedInv' /\ MetricsTypeOK'
  <2>1. failed' \in Nat /\ MetricsTypeOK'
    BY <1>3 DEF MetricsTypeOK, metrics
  <2>2. failed' >= Total(attempts') + Cardinality(Having("CLOSE")') + Cardinality(Recorders')
    BY <1>5, <1>6, <2>1
  <2> QED
    BY <2>1, <2>2 DEF FailedInv
<1>8. RecordedInv => RecordedInv'
  <2> SUFFICES ASSUME RecordedInv PROVE RecordedInv'
    OBVIOUS
  <2>1. published = 0 /\ closed = 0
    BY <1>5 DEF RecordedInv, MetricsTypeOK
  <2>2. published' = 0 /\ closed' = 0
    BY <1>3, <2>1 DEF metrics
  <2> QED
    BY <2>2, CountedFinite DEF RecordedInv
<1> QED
  BY <1>7, <1>8

\* Every step keeps FailedInv.
LEMMA FailedNext ==
    ASSUME BenchInv, MetricsTypeOK, FailedInv, [BenchNext]_benchVars
    PROVE  MetricsTypeOK' /\ FailedInv'
<1>1. CASE SetupStep
  BY <1>1, CountersSetup
<1>2. CASE MainStep
  BY <1>2, MainOnlyCancels, CountersFrame DEF BenchInv, FleetInv, table
<1>3. CASE BenchTick \/ TopicElects \/ UNCHANGED benchVars
  <2>1. UNCHANGED <<status, attempts, pc, metrics>>
    BY <1>3 DEF BenchTick, Tick, AdvanceClock, TopicElects, OnlySetup, workers, table,
                benchVars, vars
  <2> QED
    BY <2>1, CountersFrame
<1>4. ASSUME NEW w \in Workers, PublishStep(w) \/ RecordStep(w) \/ ClaimStep(w)
      PROVE  MetricsTypeOK' /\ FailedInv'
  <2>1. MetricsTypeOK' /\ failed' >= failed
    BY <1>4, CountersGrow
  <2>2. failed' \in Nat
    BY <2>1 DEF MetricsTypeOK
  <2>3. ClaimStep(w) => FailedInv'
    BY <2>1, <2>2, ClaimRecordsNothing, FailedFrame
  <2> QED
    BY <1>4, <2>1, <2>2, <2>3, FailedPublish, FailedRecord
<1> QED
  BY <1>1, <1>2, <1>3, <1>4, BenchSteps

\* What a worker of a prompt fleet is told it recorded is one more in the table.
LEMMA RecordedRecord ==
    ASSUME BenchInv, BenchPromptInv, MetricsTypeOK, RecordedInv,
           NEW w \in Workers, RecordStep(w)
    PROVE  RecordedInv'
<1> USE DEF BenchInv, FleetInv, TypeOK, TableTypeOK, table
<1>1. PICK r \in Rows :
          RecordsPublished(w, r) \/ RecordsFailed(w, r) \/ RecordsClosed(w, r)
  BY DEF RecordStep
<1>2. status[r] = "PROCESSING"
  <2>1. r \in todo[w] /\ pc[w] # "commit"
    BY <1>1 DEF RecordsPublished, RecordsFailed, RecordsClosed, RecordPublished, RecordFailed,
                RecordClosed, Record, IsNext
  <2> QED
    BY <2>1 DEF BenchPromptInv, HoldInv
<1>3. \A q \in Rows \ {r} : status'[q] = status[q]
  BY <1>1 DEF RecordsPublished, RecordsFailed, RecordsClosed, RecordPublished, RecordFailed,
              RecordClosed, Record, MarkPublished, MarkFailed, MarkClose
<1>4. /\ Having("PUBLISHED") \subseteq Having("PUBLISHED")' \ {r}
      /\ Having("CLOSE") \subseteq Having("CLOSE")' \ {r}
  BY <1>2, <1>3 DEF Having
<1>5. ASSUME NEW told \in Told(w), told PROVE ~Errs(w)
  <2>1. CASE ctx[w] = "cancelled" \/ disruptions' # disruptions
    <3>1. told \in {FALSE}
      BY <2>1, Zenon DEF Told
    <3> QED
      BY <1>5, <3>1
  <2>2. CASE ~(ctx[w] = "cancelled" \/ disruptions' # disruptions)
    BY <2>2 DEF Errs, Disrupt
  <2> QED
    BY <2>1, <2>2
<1>6. /\ Cardinality(Having("PUBLISHED")) <= Cardinality(Having("PUBLISHED")')
      /\ Cardinality(Having("CLOSE")) <= Cardinality(Having("CLOSE")')
  BY <1>4, CountedFinite, PartIsNoMore
<1>7. /\ \/ published' = published
         \/ published' = published + 1 /\ r \in Having("PUBLISHED")'
      /\ \/ closed' = closed
         \/ closed' = closed + 1 /\ r \in Having("CLOSE")'
  <2>1. CASE RecordsPublished(w, r)
    <3>1. PICK told \in Told(w) : published' = Inc(published, told) /\ closed' = closed
      BY <2>1 DEF RecordsPublished
    <3>2. told => status'[r] = "PUBLISHED"
      BY <1>5, <2>1 DEF RecordsPublished, RecordPublished, Record, MarkPublished
    <3> QED
      BY <3>1, <3>2 DEF Inc, Having
  <2>2. CASE RecordsFailed(w, r)
    BY <2>2 DEF RecordsFailed
  <2>3. CASE RecordsClosed(w, r)
    <3>1. PICK told \in Told(w) : closed' = Inc(closed, told /\ Markable(r))
                                 /\ published' = published
      BY <2>3 DEF RecordsClosed
    <3>2. told => status'[r] = "CLOSE"
      BY <1>2, <1>5, <2>3 DEF RecordsClosed, RecordClosed, Record, MarkClose, Markable
    <3> QED
      BY <3>1, <3>2 DEF Inc, Having
  <2> QED
    BY <1>1, <2>1, <2>2, <2>3
<1>8. /\ r \in Having("PUBLISHED")' =>
             Cardinality(Having("PUBLISHED")) + 1 <= Cardinality(Having("PUBLISHED")')
      /\ r \in Having("CLOSE")' =>
             Cardinality(Having("CLOSE")) + 1 <= Cardinality(Having("CLOSE")')
  BY <1>4, CountedFinite, PartIsLess
<1> HIDE DEF BenchInv, FleetInv, TypeOK, TableTypeOK, table
<1>9. published \in Nat /\ closed \in Nat
  BY DEF MetricsTypeOK
<1> QED
  BY <1>6, <1>7, <1>8, <1>9, CountedFinite DEF RecordedInv

\* Every step of a prompt fleet keeps RecordedInv.
LEMMA RecordedNext ==
    ASSUME BenchInv, BenchPromptInv, MetricsTypeOK, RecordedInv, [BenchNext]_benchVars
    PROVE  RecordedInv'
<1>1. CASE SetupStep
  BY <1>1, CountersSetup
<1>2. CASE MainStep
  BY <1>2, MainOnlyCancels, CountersFrame DEF BenchInv, FleetInv, table
<1>3. CASE BenchTick \/ TopicElects \/ UNCHANGED benchVars
  <2>1. UNCHANGED <<status, attempts, pc, metrics>>
    BY <1>3 DEF BenchTick, Tick, AdvanceClock, TopicElects, OnlySetup, workers, table,
                benchVars, vars
  <2> QED
    BY <2>1, CountersFrame
<1>4. ASSUME NEW w \in Workers, PublishStep(w) \/ ClaimStep(w), ~RecordStep(w)
      PROVE  RecordedInv'
  <2>1. UNCHANGED <<published, closed>>
    BY <1>4, CountersGrow
  <2>2. Having("CLOSE")' = Having("CLOSE") /\ Having("PUBLISHED")' = Having("PUBLISHED")
    <3>1. PublishStep(w) => status' = status
      BY DEF PublishStep, InjectorFails, InjectorPasses, Acknowledged, Refused, Aborted,
             PublishAcked, PublishRejected, PublishAborted, vars, table
    <3> QED
      BY <1>4, <3>1, ClaimRecordsNothing DEF Having
  <2> QED
    BY <2>1, <2>2 DEF RecordedInv
<1> QED
  BY <1>1, <1>2, <1>3, <1>4, RecordedRecord, BenchSteps

\* They hold at first.
LEMMA CountersInit == BenchInit => MetricsTypeOK /\ FailedInv /\ RecordedInv
<1> SUFFICES ASSUME BenchInit PROVE MetricsTypeOK /\ FailedInv /\ RecordedInv
  OBVIOUS
<1>1. published = 0 /\ failed = 0 /\ closed = 0
  BY DEF BenchInit
<1>2. attempts \in [Rows -> Nat] /\ \A r \in Rows : attempts[r] = 0
  BY DEF BenchInit, TableInit
<1>3. Having("CLOSE") = {} /\ Recorders = {}
  BY DEF BenchInit, TableInit, Having, Recorders
<1>4. Total(attempts) = 0
  BY <1>2, BenchAssumption, TotalOfZeroes
<1>5. Cardinality({}) = 0
  BY FS_EmptySet
<1>6. FailedInv
  BY <1>1, <1>3, <1>4, <1>5 DEF FailedInv
<1> QED
  BY <1>1, <1>6, CountedFinite DEF MetricsTypeOK, RecordedInv

\* No failure on record, and no CLOSE, goes uncounted, whatever the stale
\* timeout and whatever becomes of the statements (outbox_worker.go:353).
FailuresAreCounted ==
    failed >= FoldFunction(+, 0, attempts) + Counted("CLOSE")

THEOREM NoFailureUncounted == BenchSpec => []FailuresAreCounted
<1>1. BenchInv /\ MetricsTypeOK /\ FailedInv /\ [BenchNext]_benchVars
          => MetricsTypeOK' /\ FailedInv'
  BY FailedNext
<1>2. BenchInv /\ MetricsTypeOK /\ FailedInv => FailuresAreCounted
  <2> SUFFICES ASSUME BenchInv, MetricsTypeOK, FailedInv
               PROVE  failed >= Total(attempts) + Cardinality(Having("CLOSE"))
    BY DEF FailuresAreCounted, Counted, Having, Total, FoldFunction, FoldFunctionOnSet,
           MapThenFoldSet
  <2>1. Total(attempts) \in Nat
    BY AttemptsTotal DEF BenchInv, FleetInv, TypeOK, TableTypeOK
  <2> QED
    BY <2>1, CountedFinite DEF FailedInv, MetricsTypeOK
<1> QED
  BY <1>1, <1>2, CountersInit, BenchInvariant, PTL DEF BenchSpec

\* The counters and the table agree as far as they can: of a prompt fleet each
\* PUBLISHED and each CLOSE that was counted is there, and no failure is
\* missing from the count (outbox_worker.go:328-367, metrics/outbox.go).
THEOREM CountersAreTrue ==
    ASSUME Prompt
    PROVE  BenchSpec => []CountersMatchRows
<1> DEFINE Inv == BenchPromptInv /\ MetricsTypeOK /\ FailedInv /\ RecordedInv
<1>1. BenchInit => Inv
  BY BenchPromptInit, CountersInit
<1>2. BenchInv /\ BenchInv' /\ Inv /\ [BenchNext]_benchVars => Inv'
  BY BenchPromptNext, FailedNext, RecordedNext
<1>3. Inv /\ FailuresAreCounted => CountersMatchRows
  BY DEF RecordedInv, FailuresAreCounted, CountersMatchRows, Counted, Having, FoldFunction,
         FoldFunctionOnSet, MapThenFoldSet
<1> QED
  BY <1>1, <1>2, <1>3, NoFailureUncounted, BenchInvariant, PTL DEF BenchSpec
=============================================================================
