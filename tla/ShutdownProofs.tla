---------------------------- MODULE ShutdownProofs ----------------------------
(***************************************************************************)
(* The end of an API process, for any number of workers, any time-outs and *)
(* any interleaving: what Run returns is true of the batch it had, the     *)
(* lifecycle only moves forward, and no cut batch goes unreported.  Where  *)
(* goroutines run as soon as they can (Punctual), the sum of main's        *)
(* time-outs is enough, and a worker that heeds the cancellation has ended *)
(* when main closes the publisher.                                         *)
(***************************************************************************)
EXTENDS ShutdownInvariant, FiniteSetTheorems, TLAPS

-----------------------------------------------------------------------------
(* The goroutines of the workers *)

\* The part of the invariant that is about the workers alone
RunInv == RunTypeOK /\ StateInv /\ WatchInv /\ ContextInv /\ CutInv

\* The numbers of the lifecycle states
LEMMA StateNumbers ==
    /\ workerState = 0..3
    /\ starting = 0 /\ running = 1 /\ stopping = 2 /\ workerStopped = 3
BY DEF workerState, starting, running, stopping, workerStopped

\* The invariant holds when the workers start.
LEMMA RunInitInv == RunInit => RunInv
<1> SUFFICES ASSUME RunInit PROVE RunInv
  OBVIOUS
<1> USE RunAssumption DEF RunInit
<1>1. RunTypeOK
  <2>1. starting \in workerState
    BY StateNumbers
  <2>2. 0 \in 0..ShutdownTimeout /\ 0 \in 0..CutBound
    OBVIOUS
  <2> QED
    BY <2>1, <2>2 DEF RunTypeOK, RunSteps, WatchSteps
<1>2. StateInv
  BY DEF StateInv
<1>3. WatchInv
  <2>1. ASSUME NEW w \in Workers PROVE timer[w] = 0 /\ watchAt[w] = "waiting"
    OBVIOUS
  <2>2. ASSUME NEW w \in Workers PROVE timer[w] <= drained
    BY <2>1
  <2> QED
    BY <2>1, <2>2 DEF WatchInv
<1>4. CutInv /\ ContextInv
  BY DEF CutInv, NilMeansDrained, ContextInv
<1> QED
  BY <1>1, <1>2, <1>3, <1>4 DEF RunInv

\* Every step of the goroutines of a worker keeps the types.
LEMMA RunTypeStep ==
    ASSUME RunTypeOK, NEW w \in Workers,
           WorkerProgress(w) \/ TickerFires(w) \/ ProcessReturns(w)
    PROVE  RunTypeOK'
<1> USE RunAssumption, StateNumbers
    DEF RunTypeOK, RunSteps, WatchSteps, RunGoes, WatchGoes, clocks, atomics, loaded
<1>1. CASE AdvanceRunning(w)
  BY <1>1 DEF AdvanceRunning, RunLoads, RunSwaps, CompareAndSwap
<1>2. CASE RunDone(w)
  BY <1>2 DEF RunDone
<1>3. CASE AdvanceStopped(w)
  BY <1>3 DEF AdvanceStopped, RunLoads, RunSwaps, CompareAndSwap
<1>4. CASE CheckTimedOut(w)
  BY <1>4 DEF CheckTimedOut
<1>5. CASE CloseStopped(w)
  BY <1>5 DEF CloseStopped
<1>6. CASE RunReturns(w)
  BY <1>6 DEF RunReturns
<1>7. CASE WatcherWakes(w)
  BY <1>7 DEF WatcherWakes
<1>8. CASE AdvanceStopping(w)
  BY <1>8 DEF AdvanceStopping, WatchLoads, WatchSwaps, CompareAndSwap
<1>9. CASE TimerFires(w)
  BY <1>9 DEF TimerFires
<1>10. CASE ForceCancel(w)
  BY <1>10 DEF ForceCancel
<1>11. CASE WatcherEnds(w)
  BY <1>11 DEF WatcherEnds
<1>12. CASE TickerFires(w)
  BY <1>12 DEF TickerFires
<1>13. CASE ProcessReturns(w)
  BY <1>13 DEF ProcessReturns
<1> QED
  BY <1>1, <1>2, <1>3, <1>4, <1>5, <1>6, <1>7, <1>8, <1>9, <1>10, <1>11, <1>12, <1>13
     DEF WorkerProgress

\* Every step of the goroutines of a worker keeps what their places say of
\* the atomics.
LEMMA RunStep ==
    ASSUME RunInv, NEW w \in Workers,
           WorkerProgress(w) \/ TickerFires(w) \/ ProcessReturns(w)
    PROVE  RunInv'
<1>0. RunTypeOK'
  BY RunTypeStep DEF RunInv
<1> USE RunAssumption, StateNumbers
    DEF RunInv, RunTypeOK, StateInv, WatchInv, ContextInv, CutInv, NilMeansDrained,
        RunGoes, WatchGoes, clocks, atomics, loaded
<1>1. CASE AdvanceRunning(w)
  BY <1>0, <1>1 DEF AdvanceRunning, RunLoads, RunSwaps, CompareAndSwap
<1>2. CASE RunDone(w)
  BY <1>0, <1>2 DEF RunDone
<1>3. CASE AdvanceStopped(w)
  BY <1>0, <1>3 DEF AdvanceStopped, RunLoads, RunSwaps, CompareAndSwap
<1>4. CASE CheckTimedOut(w)
  BY <1>0, <1>4 DEF CheckTimedOut
<1>5. CASE CloseStopped(w)
  BY <1>0, <1>5 DEF CloseStopped
<1>6. CASE RunReturns(w)
  BY <1>0, <1>6 DEF RunReturns
<1>7. CASE WatcherWakes(w)
  BY <1>0, <1>7 DEF WatcherWakes
<1>8. CASE AdvanceStopping(w)
  BY <1>0, <1>8 DEF AdvanceStopping, WatchLoads, WatchSwaps, CompareAndSwap
<1>9. CASE TimerFires(w)
  BY <1>0, <1>9 DEF TimerFires, Expired
<1>10. CASE ForceCancel(w)
  BY <1>0, <1>10 DEF ForceCancel
<1>11. CASE WatcherEnds(w)
  BY <1>0, <1>11 DEF WatcherEnds
<1>12. CASE TickerFires(w)
  BY <1>0, <1>12 DEF TickerFires
<1>13. CASE ProcessReturns(w)
  BY <1>0, <1>13 DEF ProcessReturns
<1> QED
  BY <1>1, <1>2, <1>3, <1>4, <1>5, <1>6, <1>7, <1>8, <1>9, <1>10, <1>11, <1>12, <1>13
     DEF WorkerProgress

\* The passing of time keeps it: a watcher's timer never overtakes the clock
\* that started with the signal.
LEMMA RunTickStep == RunInv /\ RunTick => RunInv'
<1> SUFFICES ASSUME RunInv, RunTick PROVE RunInv'
  OBVIOUS
<1> USE RunAssumption DEF RunInv, RunTick, places, atomics, loaded, Advance
<1>1. RunTypeOK'
  BY DEF RunTypeOK
<1>2. StateInv'
  BY DEF StateInv
<1>3. WatchInv'
  <2> SUFFICES ASSUME NEW w \in Workers
               PROVE  /\ timer'[w] <= drained'
                      /\ watchAt[w] = "cancel" => timer'[w] = ShutdownTimeout
    BY DEF WatchInv
  <2>1. timer[w] \in 0..ShutdownTimeout /\ drained \in 0..ShutdownTimeout
    BY DEF RunTypeOK
  <2>2. CASE watchAt[w] = "timer"
    BY <2>1, <2>2 DEF WatchInv
  <2>3. CASE watchAt[w] # "timer"
    BY <2>1, <2>3 DEF WatchInv
  <2> QED
    BY <2>2, <2>3
<1>4. CutInv' /\ ContextInv'
  BY DEF CutInv, NilMeansDrained, ContextInv
<1> QED
  BY <1>1, <1>2, <1>3, <1>4

\* So do the steps of main, which at most cancels the root context.
LEMMA RunSignalStep ==
    ASSUME RunInv, rootDone' \in {rootDone, TRUE},
           UNCHANGED <<places, atomics, clocks, cut>>
    PROVE  RunInv'
<1> USE DEF RunInv, places, atomics, clocks, loaded
<1>1. RunTypeOK'
  BY DEF RunTypeOK
<1>2. StateInv' /\ CutInv'
  BY DEF StateInv, CutInv, NilMeansDrained
<1>3. WatchInv' /\ ContextInv'
  BY DEF WatchInv, ContextInv, RunTypeOK
<1> QED
  BY <1>1, <1>2, <1>3

\* Every step of the process keeps the workers' part of the invariant.
LEMMA RunNext == RunInv /\ [Next]_vars => RunInv'
<1> SUFFICES ASSUME RunInv, [Next]_vars PROVE RunInv'
  OBVIOUS
<1> DEFINE Idle == /\ rootDone' \in {rootDone, TRUE}
                   /\ UNCHANGED <<places, atomics, clocks, cut>>
<1>1. ASSUME NEW w \in Workers, WorkerStep(w) PROVE RunInv'
  BY <1>1, RunStep DEF WorkerStep
<1>2. ASSUME NEW w \in Workers, GoroutineProgress(w) PROVE Idle
  BY <1>2 DEF GoroutineProgress, SendResult, Done, runVars
<1>3. ASSUME CloseWorkersStopped \/ ClosePool \/ ServerFails
             \/ RequestArrives \/ RequestEnds
      PROVE  Idle
  BY <1>3 DEF CloseWorkersStopped, ClosePool, ServerFails, RequestArrives,
              RequestEnds, runVars
<1>4. ASSUME MainProgress PROVE Idle
  BY <1>4 DEF MainProgress, LeaveServing, Stop, ServerShutdown, WorkersDone,
              GiveUpOnWorkers, ReportError, Drained, ClosePublisher, runVars
<1>5. CASE Signal
  BY <1>5, RunSignalStep DEF Signal
<1>6. CASE Tick
  BY <1>6, RunTickStep DEF Tick
<1>7. CASE UNCHANGED vars
  BY <1>7, RunSignalStep DEF vars, runVars
<1>8. Idle => RunInv'
  BY RunSignalStep
<1> QED
  BY <1>1, <1>2, <1>3, <1>4, <1>5, <1>6, <1>7, <1>8 DEF Next

-----------------------------------------------------------------------------
(* main and its channels *)

\* The types of main's variables, the other half of TypeOK
MainTypeOK ==
    /\ main \in MainSteps
    /\ serverError \in BOOLEAN
    /\ handlingSignals \in BOOLEAN
    /\ requestOpen \in BOOLEAN
    /\ workerErrors \subseteq Workers
    /\ errorsClosed \in BOOLEAN
    /\ sent \subseteq Workers
    /\ finished \subseteq Workers
    /\ workersStopped \in BOOLEAN
    /\ reported \subseteq Workers
    /\ httpFor \in 0..ShutdownTimeout
    /\ waitFor \in 0..ShutdownTimeout + Grace
    /\ elapsed \in 0..ExitBound + 1

\* The bound of the process's own clock is a number.
LEMMA BoundsAreNat ==
    ShutdownTimeout \in Nat /\ Grace \in Nat /\ ExitBound \in Nat
BY RunAssumption, ApiAssumption DEF ExitBound

\* A clock that advances stays within its bound.
LEMMA AdvanceInBounds ==
    ASSUME NEW bound \in Nat, NEW clock \in 0..bound
    PROVE  Advance(clock, bound) \in 0..bound
BY DEF Advance

\* Every step of the process keeps the types of main.
LEMMA MainTypeNext == MainTypeOK /\ [Next]_vars => MainTypeOK'
<1> SUFFICES ASSUME MainTypeOK, [Next]_vars PROVE MainTypeOK'
  OBVIOUS
<1> USE DEF MainTypeOK, MainSteps, MainGoes, server, channels, mainClocks
<1>1. ASSUME NEW w \in Workers, WorkerStep(w) PROVE MainTypeOK'
  BY <1>1 DEF WorkerStep
<1>2. ASSUME NEW w \in Workers, GoroutineProgress(w) PROVE MainTypeOK'
  BY <1>2 DEF GoroutineProgress, SendResult, Done
<1>3. CASE CloseWorkersStopped
  BY <1>3 DEF CloseWorkersStopped
<1>4. CASE ClosePool
  BY <1>4 DEF ClosePool
<1>5. CASE ServerFails \/ RequestArrives \/ RequestEnds
  BY <1>5 DEF ServerFails, RequestArrives, RequestEnds
<1>6. CASE LeaveServing \/ Stop \/ ServerShutdown
  BY <1>6 DEF LeaveServing, Stop, ServerShutdown
<1>7. CASE WorkersDone \/ GiveUpOnWorkers \/ Drained \/ ClosePublisher
  BY <1>7 DEF WorkersDone, GiveUpOnWorkers, Drained, ClosePublisher
<1>8. ASSUME NEW w \in Workers, ReportError(w) PROVE MainTypeOK'
  BY <1>8 DEF ReportError
<1>9. CASE Signal
  BY <1>9 DEF Signal
<1>10. CASE Tick
  <2>1. ShutdownTimeout + Grace \in Nat /\ ExitBound + 1 \in Nat
    BY BoundsAreNat
  <2>2. httpFor' \in 0..ShutdownTimeout
    BY <1>10, BoundsAreNat, AdvanceInBounds DEF Tick
  <2>3. waitFor' \in 0..ShutdownTimeout + Grace
    BY <1>10, <2>1, AdvanceInBounds DEF Tick
  <2>4. elapsed' \in 0..ExitBound + 1
    BY <1>10, <2>1, AdvanceInBounds DEF Tick
  <2> QED
    BY <1>10, <2>2, <2>3, <2>4 DEF Tick
<1>11. CASE UNCHANGED vars
  BY <1>11 DEF vars
<1> QED
  BY <1>1, <1>2, <1>3, <1>4, <1>5, <1>6, <1>7, <1>8, <1>9, <1>10, <1>11
     DEF Next, MainProgress

\* A worker whose goroutine has sent its result is past every step of Run, so
\* the result it sent is the one it keeps.
LEMMA SentKeep ==
    ASSUME RunInv, ChannelInv, [Next]_vars, NEW w \in sent, w \in Workers
    PROVE  runAt'[w] = "returned" /\ result'[w] = result[w]
<1>1. runAt[w] = "returned"
  BY DEF ChannelInv
<1>2. ASSUME NEW v \in Workers, WorkerStep(v)
      PROVE  runAt'[w] = "returned" /\ result'[w] = result[w]
  <2> USE <1>1 DEF RunGoes, WatchGoes, atomics, RunInv, RunTypeOK
  <2>1. CASE TickerFires(v) \/ ProcessReturns(v) \/ RunDone(v) \/ AdvanceRunning(v)
    BY <2>1 DEF TickerFires, ProcessReturns, RunDone, AdvanceRunning, RunLoads, RunSwaps
  <2>2. CASE AdvanceStopped(v) \/ CloseStopped(v) \/ RunReturns(v)
    BY <2>2 DEF AdvanceStopped, RunLoads, RunSwaps, CloseStopped, RunReturns
  <2>3. CASE CheckTimedOut(v)
    BY <2>3 DEF CheckTimedOut
  <2>4. CASE WatcherWakes(v) \/ AdvanceStopping(v) \/ TimerFires(v)
             \/ ForceCancel(v) \/ WatcherEnds(v)
    BY <2>4 DEF WatcherWakes, AdvanceStopping, WatchLoads, WatchSwaps, TimerFires,
                ForceCancel, WatcherEnds
  <2> QED
    BY <1>2, <2>1, <2>2, <2>3, <2>4 DEF WorkerStep, WorkerProgress
<1>3. ASSUME ~\E v \in Workers : WorkerStep(v)
      PROVE  UNCHANGED <<runAt, result>>
  <2> USE DEF runVars, places, atomics
  <2>1. ASSUME NEW v \in Workers, GoroutineProgress(v) PROVE UNCHANGED <<runAt, result>>
    BY <2>1 DEF GoroutineProgress, SendResult, Done
  <2>2. ASSUME MainProgress PROVE UNCHANGED <<runAt, result>>
    BY <2>2 DEF MainProgress, LeaveServing, Stop, ServerShutdown, WorkersDone,
                GiveUpOnWorkers, ReportError, Drained, ClosePublisher
  <2> QED
    BY <1>3, <2>1, <2>2
       DEF Next, CloseWorkersStopped, ClosePool, Signal, ServerFails,
           RequestArrives, RequestEnds, Tick, RunTick, vars
<1> QED
  BY <1>1, <1>2, <1>3

\* Every step of the process keeps what the channels say of the workers.
LEMMA ChannelNext ==
    MainTypeOK /\ RunInv /\ ChannelInv /\ [Next]_vars => ChannelInv'
<1> SUFFICES ASSUME MainTypeOK, RunInv, ChannelInv, [Next]_vars PROVE ChannelInv'
  OBVIOUS
<1>0. \A w \in sent : runAt'[w] = "returned" /\ result'[w] = result[w]
  BY SentKeep DEF MainTypeOK
<1> USE <1>0 DEF MainTypeOK, ChannelInv, MainGoes, server, channels, mainClocks
<1>1. ASSUME NEW w \in Workers, WorkerStep(w) PROVE ChannelInv'
  BY <1>1 DEF WorkerStep
<1>2. ASSUME NEW w \in Workers, SendResult(w) PROVE ChannelInv'
  BY <1>2 DEF SendResult, runVars, places
<1>3. ASSUME NEW w \in Workers, Done(w) PROVE ChannelInv'
  BY <1>3 DEF Done
<1>4. CASE CloseWorkersStopped
  BY <1>4 DEF CloseWorkersStopped
<1>5. CASE ClosePool \/ ServerFails \/ RequestArrives \/ RequestEnds
  BY <1>5 DEF ClosePool, ServerFails, RequestArrives, RequestEnds
<1>6. CASE LeaveServing \/ Stop \/ ServerShutdown
  BY <1>6 DEF LeaveServing, Stop, ServerShutdown
<1>7. CASE WorkersDone \/ GiveUpOnWorkers
  BY <1>7 DEF WorkersDone, GiveUpOnWorkers
<1>8. CASE Drained \/ ClosePublisher
  BY <1>8 DEF Drained, ClosePublisher
<1>9. ASSUME NEW w \in Workers, ReportError(w) PROVE ChannelInv'
  BY <1>9 DEF ReportError
<1>10. CASE Signal \/ Tick
  BY <1>10 DEF Signal, Tick
<1>11. CASE UNCHANGED vars
  BY <1>11 DEF vars
<1> QED
  BY <1>1, <1>2, <1>3, <1>4, <1>5, <1>6, <1>7, <1>8, <1>9, <1>10, <1>11
     DEF Next, MainProgress, GoroutineProgress

-----------------------------------------------------------------------------
(* The theorems *)

\* The invariant consists of the two parts that were kept, and the channels.
LEMMA InvariantParts == ShutdownInv <=> RunInv /\ MainTypeOK /\ ChannelInv
BY DEF ShutdownInv, RunInv, MainTypeOK, TypeOK

\* It holds when the process starts.
LEMMA ShutdownInit == Init => ShutdownInv
<1> SUFFICES ASSUME Init PROVE ShutdownInv
  OBVIOUS
<1>1. RunInv
  BY RunInitInv DEF Init
<1>2. MainTypeOK
  <2>1. \A bound \in Nat : 0 \in 0..bound
    OBVIOUS
  <2>2. /\ 0 \in 0..ShutdownTimeout
        /\ 0 \in 0..ShutdownTimeout + Grace
        /\ 0 \in 0..ExitBound + 1
    BY BoundsAreNat, <2>1
  <2> QED
    BY <2>2 DEF Init, MainTypeOK, MainSteps
<1>3. ChannelInv
  <2>1. Workers = {} \/ finished # Workers
    BY DEF Init
  <2> QED
    BY <2>1 DEF Init, ChannelInv
<1> QED
  BY <1>1, <1>2, <1>3, InvariantParts

\* The inductive invariant: what main, the workers, their watchers and their
\* goroutines may assume of one another at every place of their code.
THEOREM ShutdownInvariantHolds == Spec => []ShutdownInv
<1>1. ShutdownInv /\ [Next]_vars => ShutdownInv'
  <2> SUFFICES ASSUME ShutdownInv, [Next]_vars PROVE ShutdownInv'
    OBVIOUS
  <2>1. RunInv' /\ MainTypeOK' /\ ChannelInv'
    BY InvariantParts, RunNext, MainTypeNext, ChannelNext
  <2> QED
    BY <2>1 DEF ShutdownInv, RunInv, MainTypeOK, TypeOK
<1> QED
  BY ShutdownInit, <1>1, PTL DEF Spec

\* Run returns nil only when no batch of its worker was cut off
\* (outbox_worker.go:125-127), however the watcher and Run interleave.
THEOREM NilDrained == Spec => []NilMeansDrained
<1>1. ShutdownInv => NilMeansDrained
  BY DEF ShutdownInv, CutInv
<1> QED
  BY ShutdownInvariantHolds, <1>1, PTL

\* No goroutine sends on workerErrors after main has closed it
\* (main.go:364-369, 458): it would panic.
THEOREM NoSendOnClosed == Spec => []NoSendAfterClose
<1>1. ShutdownInv => NoSendAfterClose
  BY InvariantParts DEF ChannelInv, MainTypeOK, NoSendAfterClose
<1> QED
  BY ShutdownInvariantHolds, <1>1, PTL

\* Every worker whose batch was cut off is logged once main has seen all
\* workers stop (main.go:456-472).
THEOREM CutReported == Spec => []CutWorkersAreReported
<1>1. ShutdownInv => CutWorkersAreReported
  <2> SUFFICES ASSUME ShutdownInv, main \in {"publisher", "pool", "exited"},
                      errorsClosed, NEW w \in cut
               PROVE  w \in reported
    BY DEF CutWorkersAreReported
  <2>1. w \in Workers /\ sent \subseteq Workers
    BY InvariantParts DEF RunInv, RunTypeOK, MainTypeOK
  <2>2. sent = Workers /\ workerErrors = {}
    BY <2>1, InvariantParts DEF ChannelInv
  <2>3. result[w] # "nil"
    BY <2>1, InvariantParts DEF RunInv, CutInv, NilMeansDrained
  <2> QED
    BY <2>1, <2>2, <2>3, InvariantParts DEF ChannelInv
<1> QED
  BY ShutdownInvariantHolds, <1>1, PTL

\* Only a worker's own goroutines touch its lifecycle and its context.
LEMMA AtomicsKept ==
    ASSUME [Next]_vars, ~\E v \in Workers : WorkerStep(v)
    PROVE  UNCHANGED <<state, cancelled>>
<1> USE DEF runVars, atomics
<1>1. ASSUME NEW v \in Workers, GoroutineProgress(v) PROVE UNCHANGED <<state, cancelled>>
  BY <1>1 DEF GoroutineProgress, SendResult, Done
<1>2. ASSUME MainProgress PROVE UNCHANGED <<state, cancelled>>
  BY <1>2 DEF MainProgress, LeaveServing, Stop, ServerShutdown, WorkersDone,
              GiveUpOnWorkers, ReportError, Drained, ClosePublisher
<1> QED
  BY <1>1, <1>2
     DEF Next, CloseWorkersStopped, ClosePool, Signal, ServerFails,
         RequestArrives, RequestEnds, Tick, RunTick, vars

\* What the steps of a worker v do to the lifecycle state of any worker, and
\* to its context: the swap moves it forward, the watcher cancels it late.
LEMMA WorkerAtomics ==
    ASSUME RunInv, NEW v \in Workers, WorkerStep(v), NEW w \in Workers
    PROVE  /\ state'[w] >= state[w]
           /\ runAt[w] = "process" /\ cancelled'[w] /\ ~cancelled[w]
                  => drained = ShutdownTimeout
<1> USE StateNumbers DEF RunInv, RunTypeOK, RunGoes, WatchGoes, atomics
<1>0. state[w] \in 0..3
  OBVIOUS
<1>1. CASE TickerFires(v) \/ ProcessReturns(v) \/ RunDone(v) \/ WatcherWakes(v)
           \/ WatcherEnds(v)
  BY <1>0, <1>1 DEF TickerFires, ProcessReturns, RunDone, WatcherWakes, WatcherEnds
<1>2. CASE CheckTimedOut(v) \/ CloseStopped(v) \/ TimerFires(v)
  BY <1>0, <1>2 DEF CheckTimedOut, CloseStopped, TimerFires
<1>3. CASE AdvanceRunning(v)
  BY <1>0, <1>3 DEF AdvanceRunning, RunLoads, RunSwaps, CompareAndSwap, StateInv
<1>4. CASE AdvanceStopped(v)
  BY <1>0, <1>4 DEF AdvanceStopped, RunLoads, RunSwaps, CompareAndSwap, StateInv
<1>5. CASE AdvanceStopping(v)
  BY <1>0, <1>5 DEF AdvanceStopping, WatchLoads, WatchSwaps, CompareAndSwap, StateInv
<1>6. CASE RunReturns(v)
  BY <1>0, <1>6 DEF RunReturns
<1>7. CASE ForceCancel(v)
  <2>1. state' = state
    BY <1>7 DEF ForceCancel
  <2>2. w # v => cancelled'[w] = cancelled[w]
    BY <1>7 DEF ForceCancel
  <2>3. timer[v] = ShutdownTimeout /\ timer[v] <= drained
    BY <1>7 DEF ForceCancel, WatchInv
  <2>4. drained = ShutdownTimeout
    BY <2>3, RunAssumption
  <2> QED
    BY <1>0, <2>1, <2>2, <2>4
<1> QED
  BY <1>1, <1>2, <1>3, <1>4, <1>5, <1>6, <1>7 DEF WorkerStep, WorkerProgress

\* The lifecycle state never goes back (outbox_worker.go:107-121), although Run
\* and its watcher load and swap it at the same time.
THEOREM StateNeverBack == Spec => StateForward
<1>1. ShutdownInv /\ [Next]_vars => [\A w \in Workers : state'[w] >= state[w]]_state
  <2> SUFFICES ASSUME ShutdownInv, [Next]_vars, state' # state, NEW w \in Workers
               PROVE  state'[w] >= state[w]
    OBVIOUS
  <2>1. PICK v \in Workers : WorkerStep(v)
    BY AtomicsKept
  <2> QED
    BY <2>1, WorkerAtomics, InvariantParts
<1> QED
  BY ShutdownInvariantHolds, <1>1, PTL DEF Spec, StateForward

\* A batch in flight at the signal is cancelled only when the whole shutdown
\* timeout has passed (outbox_worker.go:157-166).
THEOREM TimeoutGranted == Spec => InFlightGetsItsTimeout
<1>1. ShutdownInv /\ [Next]_vars =>
        [\A w \in Workers :
            runAt[w] = "process" /\ cancelled'[w] /\ ~cancelled[w]
                => drained = ShutdownTimeout]_<<runAt, cancelled>>
  <2> SUFFICES ASSUME ShutdownInv, [Next]_vars, NEW w \in Workers,
                      runAt[w] = "process", cancelled'[w], ~cancelled[w]
               PROVE  drained = ShutdownTimeout
    OBVIOUS
  <2>1. cancelled' # cancelled
    OBVIOUS
  <2>2. PICK v \in Workers : WorkerStep(v)
    BY <2>1, AtomicsKept
  <2> QED
    BY <2>2, WorkerAtomics, InvariantParts
<1> QED
  BY ShutdownInvariantHolds, <1>1, PTL DEF Spec, InFlightGetsItsTimeout

-----------------------------------------------------------------------------
(* How long the end takes, and who outlives it, where the grace exceeds    *)
(* the time a cancelled call takes                                         *)

\* What the proofs below start from
TimingInv == ShutdownInv /\ EndInv

-----------------------------------------------------------------------------
(* The steps of a worker *)

\* A worker's goroutines keep what their places say of the channel stopped
\* and of procCtx.
LEMMA EndWorker ==
    ASSUME RunInv, EndInv, NEW v \in Workers, WorkerStep(v)
    PROVE  EndInv'
<1>1. UNCHANGED <<main, waitFor, workerErrors, sent, rootDone>>
  BY DEF WorkerStep, channels, mainClocks, WorkerProgress, TickerFires, ProcessReturns, RunDone,
         AdvanceRunning, AdvanceStopped, AdvanceStopping, RunLoads, RunSwaps, WatchLoads,
         WatchSwaps, CheckTimedOut, CloseStopped, RunReturns, WatcherWakes, TimerFires,
         ForceCancel, WatcherEnds
<1>2. ASSUME NEW w \in Workers
      PROVE  /\ stopped'[w] => runAt'[w] \in {"cancel", "returned"}
             /\ watchAt'[w] = "gone" => stopped'[w] \/ cancelled'[w]
  <2> USE DEF RunInv, RunTypeOK, EndInv, RunGoes, WatchGoes, atomics
  <2>1. CASE TickerFires(v) \/ ProcessReturns(v) \/ RunDone(v) \/ WatcherWakes(v)
             \/ WatcherEnds(v)
    BY <2>1 DEF TickerFires, ProcessReturns, RunDone, WatcherWakes, WatcherEnds
  <2>2. CASE CheckTimedOut(v) \/ CloseStopped(v) \/ TimerFires(v)
    BY <2>2 DEF CheckTimedOut, CloseStopped, TimerFires
  <2>3. CASE AdvanceRunning(v)
    BY <2>3 DEF AdvanceRunning, RunLoads, RunSwaps
  <2>4. CASE AdvanceStopped(v)
    BY <2>4 DEF AdvanceStopped, RunLoads, RunSwaps
  <2>5. CASE AdvanceStopping(v)
    BY <2>5 DEF AdvanceStopping, WatchLoads, WatchSwaps
  <2>6. CASE RunReturns(v)
    BY <2>6 DEF RunReturns
  <2>7. CASE ForceCancel(v)
    BY <2>7 DEF ForceCancel
  <2> QED
    BY <2>1, <2>2, <2>3, <2>4, <2>5, <2>6, <2>7 DEF WorkerStep, WorkerProgress
<1> QED
  BY <1>1, <1>2 DEF EndInv

\* After the signal no batch begins, and the clocks of one in flight are left
\* alone by its worker.
LEMMA WorkerClocks ==
    ASSUME RunInv, rootDone, NEW v \in Workers, WorkerStep(v),
           NEW w \in Workers, runAt'[w] = "process"
    PROVE  runAt[w] = "process" /\ timer'[w] = timer[w] /\ overdue'[w] = overdue[w]
<1> USE DEF RunInv, RunTypeOK, RunGoes, WatchGoes, clocks
<1>1. CASE TickerFires(v) \/ RunDone(v) \/ WatcherWakes(v) \/ WatcherEnds(v)
  BY <1>1 DEF TickerFires, RunDone, WatcherWakes, WatcherEnds
<1>2. CASE ProcessReturns(v)
  BY <1>2 DEF ProcessReturns
<1>3. CASE CheckTimedOut(v) \/ CloseStopped(v) \/ TimerFires(v)
  BY <1>3 DEF CheckTimedOut, CloseStopped, TimerFires
<1>4. CASE AdvanceRunning(v) \/ AdvanceStopped(v)
  BY <1>4 DEF AdvanceRunning, AdvanceStopped, RunLoads, RunSwaps
<1>5. CASE AdvanceStopping(v)
  BY <1>5 DEF AdvanceStopping, WatchLoads, WatchSwaps
<1>6. CASE RunReturns(v) \/ ForceCancel(v)
  BY <1>6 DEF RunReturns, ForceCancel
<1> QED
  BY <1>1, <1>2, <1>3, <1>4, <1>5, <1>6 DEF WorkerStep, WorkerProgress

-----------------------------------------------------------------------------
(* The steps of main, and time *)

\* Every step keeps EndInv.
LEMMA EndNext == RunInv /\ MainTypeOK /\ EndInv /\ [Next]_vars => EndInv'
<1> SUFFICES ASSUME RunInv, MainTypeOK, EndInv, [Next]_vars PROVE EndInv'
  OBVIOUS
<1> USE DEF EndInv, MainTypeOK, MainGoes, channels, mainClocks, runVars, places, atomics
<1>1. ASSUME NEW w \in Workers, WorkerStep(w) PROVE EndInv'
  BY <1>1, EndWorker
<1>2. ASSUME NEW w \in Workers, GoroutineProgress(w) PROVE EndInv'
  BY <1>2 DEF GoroutineProgress, SendResult, Done
<1>3. CASE CloseWorkersStopped \/ ClosePool \/ ServerFails \/ RequestArrives \/ RequestEnds
  BY <1>3 DEF CloseWorkersStopped, ClosePool, ServerFails, RequestArrives, RequestEnds
<1>4. CASE LeaveServing \/ Stop \/ ServerShutdown
  BY <1>4 DEF LeaveServing, Stop, ServerShutdown
<1>5. CASE WorkersDone \/ GiveUpOnWorkers \/ Drained \/ ClosePublisher
  BY <1>5 DEF WorkersDone, GiveUpOnWorkers, Drained, ClosePublisher
<1>6. ASSUME NEW w \in Workers, ReportError(w) PROVE EndInv'
  BY <1>6 DEF ReportError
<1>7. CASE Signal
  BY <1>7 DEF Signal
<1>8. CASE Tick
  BY <1>8 DEF Tick, RunTick
<1>9. CASE UNCHANGED vars
  BY <1>9 DEF vars
<1> QED
  BY <1>1, <1>2, <1>3, <1>4, <1>5, <1>6, <1>7, <1>8, <1>9 DEF Next, MainProgress

\* It holds when the process starts.
LEMMA EndInit == Init => EndInv
BY DEF Init, RunInit, EndInv

\* ShutdownInv and EndInv, together, are invariants.
LEMMA TimingInvariant == Spec => []TimingInv
<1>1. Init => TimingInv
  BY ShutdownInit, EndInit DEF TimingInv
<1>2. ShutdownInv /\ EndInv /\ [Next]_vars => EndInv'
  BY EndNext, InvariantParts
<1> QED
  BY <1>1, <1>2, ShutdownInvariantHolds, PTL DEF Spec, TimingInv

-----------------------------------------------------------------------------
(* The time main takes *)

\* A sum bounds what it bounded when its terms grow.
LEMMA SumGrows ==
    \A total, x, y, x1, y1 \in Nat :
        total <= x + y /\ x <= x1 /\ y <= y1 => total <= x1 + y1
OBVIOUS

\* Where one term grows by one, what the sum bounds may too.
LEMMA SumGrowsByOne ==
    \A total, total1, x, y, x1, y1 \in Nat :
        total <= x + y /\ total1 <= total + 1 /\ x <= x1 /\ y <= y1
            /\ (x1 = x + 1 \/ y1 = y + 1) => total1 <= x1 + y1
OBVIOUS

\* The process's own clock advances only with one of main's two.
LEMMA ElapsedTick ==
    ASSUME MainTypeOK, ElapsedInv, Tick
    PROVE  ElapsedInv'
<1>1. /\ ShutdownTimeout \in Nat /\ ShutdownTimeout + Grace \in Nat /\ ExitBound + 1 \in Nat
      /\ httpFor \in 0..ShutdownTimeout
      /\ waitFor \in 0..ShutdownTimeout + Grace
      /\ elapsed \in 0..ExitBound + 1
  BY BoundsAreNat DEF MainTypeOK
<1>2. /\ httpFor' \in Nat /\ httpFor <= httpFor'
      /\ main = "http" /\ httpFor # ShutdownTimeout => httpFor' = httpFor + 1
  <2>1. httpFor' = IF main = "http" THEN Advance(httpFor, ShutdownTimeout) ELSE httpFor
    BY DEF Tick
  <2> QED
    BY <1>1, <2>1 DEF Advance
<1>3. /\ waitFor' \in Nat /\ waitFor <= waitFor'
      /\ main = "wait" /\ waitFor # ShutdownTimeout + Grace => waitFor' = waitFor + 1
  <2>1. waitFor' = IF main = "wait" THEN Advance(waitFor, ShutdownTimeout + Grace) ELSE waitFor
    BY DEF Tick
  <2> QED
    BY <1>1, <2>1 DEF Advance
<1>4. /\ elapsed' \in Nat /\ elapsed' <= elapsed + 1
      /\ elapsed' # elapsed =>
            \/ main = "http" /\ httpFor # ShutdownTimeout
            \/ main = "wait" /\ waitFor # ShutdownTimeout + Grace
  <2>1. CASE elapsed' = elapsed
    BY <1>1, <2>1
  <2>2. CASE elapsed' # elapsed
    <3>1. elapsed' = Advance(elapsed, ExitBound + 1)
      BY <2>2 DEF Tick
    <3>2. main \in {"http", "wait"} /\ MainAtRest
      BY <2>2 DEF Tick, MainAtRest
    <3> QED
      BY <1>1, <3>1, <3>2 DEF Advance, MainAtRest, ServerStopped, WaitOver
  <2> QED
    BY <2>1, <2>2
<1>5. elapsed <= httpFor + waitFor
  BY DEF ElapsedInv
<1>6. httpFor \in Nat /\ waitFor \in Nat /\ elapsed \in Nat
  BY <1>1
<1>7. elapsed' <= httpFor' + waitFor'
  <2>1. CASE elapsed' = elapsed
    BY <1>2, <1>3, <1>5, <1>6, <2>1, SumGrows
  <2>2. CASE main = "http" /\ httpFor # ShutdownTimeout
    BY <1>2, <1>3, <1>4, <1>5, <1>6, <2>2, SumGrowsByOne
  <2>3. CASE main = "wait" /\ waitFor # ShutdownTimeout + Grace
    BY <1>2, <1>3, <1>4, <1>5, <1>6, <2>3, SumGrowsByOne
  <2> QED
    BY <1>4, <2>1, <2>2, <2>3
<1> QED
  BY <1>7 DEF ElapsedInv

\* Every other step leaves the clocks of main alone.
LEMMA ClocksStay ==
    ASSUME [Next]_vars, ~Tick
    PROVE  UNCHANGED mainClocks
<1>1. ASSUME NEW w \in Workers, WorkerStep(w) PROVE UNCHANGED mainClocks
  BY <1>1 DEF WorkerStep
<1>2. ASSUME NEW w \in Workers, GoroutineProgress(w) PROVE UNCHANGED mainClocks
  BY <1>2 DEF GoroutineProgress, SendResult, Done
<1>3. ASSUME MainProgress PROVE UNCHANGED mainClocks
  BY <1>3 DEF MainProgress, LeaveServing, Stop, ServerShutdown, WorkersDone,
              GiveUpOnWorkers, ReportError, Drained, ClosePublisher
<1> QED
  BY <1>1, <1>2, <1>3
     DEF Next, CloseWorkersStopped, ClosePool, Signal, ServerFails, RequestArrives,
         RequestEnds, vars

\* From the shutdown on, main reaches the publisher's Close within the sum of
\* its time-outs (main.go:427-479), if goroutines run as soon as they can; the
\* clock elapsed does not run otherwise.
THEOREM ExitsWithinBound == Spec => []ExitsInTime
<1>1. Init => ElapsedInv
  BY DEF Init, ElapsedInv
<1>2. ShutdownInv /\ ElapsedInv /\ [Next]_vars => ElapsedInv'
  BY ElapsedTick, ClocksStay, InvariantParts DEF ElapsedInv, mainClocks
<1>3. ShutdownInv /\ ElapsedInv => ExitsInTime
  BY InvariantParts, BoundsAreNat DEF MainTypeOK, ElapsedInv, ExitsInTime, ExitBound
<1> QED
  BY <1>1, <1>2, <1>3, ShutdownInvariantHolds, PTL DEF Spec

-----------------------------------------------------------------------------
(* Who outlives main's wait *)

\* When time passes although a worker is not done, its batch is in flight, and
\* either its timeout runs or its call is being cut off.
LEMMA LateWorkerAtRest ==
    ASSUME TimingInv, Punctual, Tick, main = "wait",
           NEW w \in Workers \ Stubborn, w \notin finished
    PROVE  /\ runAt[w] = "process"
           /\ \/ watchAt[w] = "timer" /\ timer[w] # ShutdownTimeout
              \/ cancelled[w] /\ overdue[w] < CutBound
<1> USE DEF TimingInv
<1>1. MainAtRest /\ AtRest(w) /\ rootDone
  BY DEF Tick, RunTick, EndInv
<1>2. runAt[w] # "returned"
  <2> SUFFICES ASSUME runAt[w] = "returned" PROVE FALSE
    OBVIOUS
  <2>1. w \notin sent /\ Cardinality(workerErrors) >= ErrorsCapacity
    BY <1>1 DEF MainAtRest
  <2>2. workerErrors \subseteq Workers /\ w \notin workerErrors
    BY <2>1, InvariantParts DEF EndInv, MainTypeOK
  <2>3. Cardinality(workerErrors) < Cardinality(Workers)
    <3>1. IsFiniteSet(Workers) /\ workerErrors # Workers
      BY <2>2, ApiAssumption
    <3>2. /\ Cardinality(workerErrors) <= Cardinality(Workers)
          /\ Cardinality(workerErrors) = Cardinality(Workers) => workerErrors = Workers
      BY <2>2, <3>1, FS_Subset
    <3>3. Cardinality(Workers) \in Nat /\ Cardinality(workerErrors) \in Nat
      BY <2>2, <3>1, FS_Subset, FS_CardinalityType
    <3> QED
      BY <3>1, <3>2, <3>3
  <2>4. Cardinality(Workers) \in Nat /\ Cardinality(workerErrors) \in Nat
    BY <2>2, ApiAssumption, FS_Subset, FS_CardinalityType
  <2> QED
    BY <2>1, <2>3, <2>4 DEF ErrorsCapacity
<1>3. runAt[w] = "process"
  BY <1>1, <1>2 DEF AtRest
<1>4. ~stopped[w]
  BY <1>3 DEF EndInv
<1>5. watchAt[w] = "gone" => cancelled[w]
  BY <1>4 DEF EndInv
<1>6. cancelled[w] => overdue[w] < CutBound
  BY <1>3 DEF Tick, RunTick, InFlightCancelled
<1> QED
  BY <1>1, <1>3, <1>4, <1>5, <1>6 DEF AtRest, Expired

\* So its clocks keep up with main's.
LEMMA OutliveTick ==
    ASSUME TimingInv, OutliveInv, Punctual, Tick
    PROVE  OutliveInv'
<1>1. UNCHANGED <<main, finished, runAt>>
  BY DEF Tick, RunTick, channels, places
<1>2. ASSUME NEW w \in Workers \ Stubborn, main = "wait", w \notin finished
      PROVE  /\ waitFor' <= ShutdownTimeout + CutBound
             /\ runAt'[w] = "process" => waitFor' <= timer'[w] + overdue'[w]
  <2> USE RunAssumption, BoundsAreNat
  <2>1. /\ runAt[w] = "process"
        /\ \/ watchAt[w] = "timer" /\ timer[w] # ShutdownTimeout
           \/ cancelled[w] /\ overdue[w] < CutBound
    BY <1>2, LateWorkerAtRest
  <2>2. /\ timer[w] \in 0..ShutdownTimeout /\ overdue[w] \in 0..CutBound
        /\ waitFor \in 0..ShutdownTimeout + Grace
    BY InvariantParts DEF TimingInv, RunInv, RunTypeOK, MainTypeOK
  <2>3. waitFor <= timer[w] + overdue[w]
    BY <1>2, <2>1 DEF OutliveInv
  <2>4. /\ timer'[w] \in 0..ShutdownTimeout /\ timer[w] <= timer'[w]
        /\ watchAt[w] = "timer" /\ timer[w] # ShutdownTimeout => timer'[w] = timer[w] + 1
    <3>1. timer'[w] = IF watchAt[w] = "timer" THEN Advance(timer[w], ShutdownTimeout)
                      ELSE timer[w]
      BY DEF Tick, RunTick
    <3> QED
      BY <2>2, <3>1 DEF Advance
  <2>5. /\ overdue'[w] \in 0..CutBound /\ overdue[w] <= overdue'[w]
        /\ cancelled[w] /\ overdue[w] < CutBound => overdue'[w] = overdue[w] + 1
    <3>1. overdue'[w] = IF InFlightCancelled(w) THEN Advance(overdue[w], CutBound)
                        ELSE overdue[w]
      BY DEF Tick, RunTick
    <3> QED
      BY <2>1, <2>2, <3>1 DEF Advance, InFlightCancelled
  <2>6. waitFor' \in Nat /\ waitFor' <= waitFor + 1
    <3>1. waitFor' = IF main = "wait" THEN Advance(waitFor, ShutdownTimeout + Grace)
                     ELSE waitFor
      BY DEF Tick
    <3> QED
      BY <2>2, <3>1 DEF Advance
  <2>7. waitFor' <= timer'[w] + overdue'[w]
    BY <2>1, <2>2, <2>3, <2>4, <2>5, <2>6
  <2> QED
    BY <2>4, <2>5, <2>6, <2>7
<1> QED
  BY <1>1, <1>2 DEF OutliveInv, OnlyStubbornOutlives

\* The steps of workers begin no batch while main waits.
LEMMA OutliveWorker ==
    ASSUME TimingInv, OutliveInv, NEW v \in Workers, WorkerStep(v)
    PROVE  OutliveInv'
<1>1. UNCHANGED <<main, finished, waitFor>>
  BY DEF WorkerStep, channels, mainClocks
<1>2. ASSUME NEW w \in Workers \ Stubborn, main = "wait", runAt'[w] = "process"
      PROVE  runAt[w] = "process" /\ timer'[w] = timer[w] /\ overdue'[w] = overdue[w]
  BY <1>2, WorkerClocks, InvariantParts DEF TimingInv, EndInv
<1> QED
  BY <1>1, <1>2 DEF OutliveInv, OnlyStubbornOutlives

\* Main gives up on a worker only after the time any of them needs.
LEMMA OutliveMain ==
    ASSUME TimingInv, OutliveInv, CutBound < Grace, MainProgress
    PROVE  OutliveInv'
<1> USE RunAssumption, ApiAssumption
        DEF OutliveInv, OnlyStubbornOutlives, MainGoes, channels, mainClocks, runVars, places,
            clocks
<1>1. CASE LeaveServing \/ Stop
  BY <1>1 DEF LeaveServing, Stop
<1>2. CASE ServerShutdown
  <2>1. waitFor' = 0 /\ main = "http"
    BY <1>2 DEF ServerShutdown, TimingInv, EndInv
  <2>2. ASSUME NEW w \in Workers
        PROVE  timer'[w] \in Nat /\ overdue'[w] \in Nat
    BY <1>2, InvariantParts DEF ServerShutdown, TimingInv, RunInv, RunTypeOK
  <2> QED
    BY <1>2, <2>1, <2>2 DEF ServerShutdown
<1>3. CASE WorkersDone
  BY <1>3 DEF WorkersDone
<1>4. CASE GiveUpOnWorkers
  <2>1. Workers \ Stubborn \subseteq finished
    BY <1>4 DEF GiveUpOnWorkers, WaitOver
  <2> QED
    BY <1>4, <2>1 DEF GiveUpOnWorkers
<1>5. CASE \E w \in Workers : ReportError(w)
  BY <1>5 DEF ReportError
<1>6. CASE Drained
  <2>1. finished = Workers
    BY <1>6, InvariantParts DEF Drained, TimingInv, ChannelInv
  <2> QED
    BY <1>6, <2>1 DEF Drained
<1>7. CASE ClosePublisher
  BY <1>7 DEF ClosePublisher
<1> QED
  BY <1>1, <1>2, <1>3, <1>4, <1>5, <1>6, <1>7 DEF MainProgress

\* Every step keeps OutliveInv.
LEMMA OutliveNext ==
    ASSUME Punctual, CutBound < Grace, TimingInv, OutliveInv, [Next]_vars
    PROVE  OutliveInv'
<1>1. ASSUME NEW w \in Workers, GoroutineProgress(w) PROVE OutliveInv'
  BY <1>1 DEF GoroutineProgress, SendResult, Done, OutliveInv, OnlyStubbornOutlives, runVars,
              places, clocks, mainClocks
<1>2. CASE CloseWorkersStopped \/ ServerFails \/ RequestArrives \/ RequestEnds \/ UNCHANGED vars
  BY <1>2 DEF CloseWorkersStopped, ServerFails, RequestArrives, RequestEnds, OutliveInv, vars,
              OnlyStubbornOutlives, runVars, places, clocks, mainClocks, channels
<1>3. CASE ClosePool \/ Signal
  BY <1>3 DEF ClosePool, Signal, MainGoes, OutliveInv, OnlyStubbornOutlives, runVars, places,
              clocks, mainClocks, channels
<1> QED
  BY <1>1, <1>2, <1>3, OutliveTick, OutliveWorker, OutliveMain DEF Next

\* When main closes the publisher, every worker is done but those whose
\* publisher ignores the cancellation (main.go:474-497): the grace on top of the
\* shutdown timeout covers the time a cancelled call takes to return.
THEOREM OnlyStubbornOutliveMain ==
    ASSUME Punctual, CutBound < Grace
    PROVE  Spec => []OnlyStubbornOutlives
<1>1. Init => OutliveInv
  BY DEF Init, OutliveInv, OnlyStubbornOutlives
<1>2. TimingInv /\ OutliveInv /\ [Next]_vars => OutliveInv'
  BY OutliveNext
<1>3. OutliveInv => OnlyStubbornOutlives
  BY DEF OutliveInv
<1> QED
  BY <1>1, <1>2, <1>3, TimingInvariant, PTL DEF Spec

-----------------------------------------------------------------------------
(* Refinement: Run keeps the promise of RunContract *)

\* A step that shows nothing of itself is none of the contract.
LEMMA LifecycleStutters ==
    ASSUME \A v \in Workers : RunPhase(v)' = RunPhase(v) /\ RunContext(v)' = RunContext(v)
    PROVE  UNCHANGED Lifecycle!vars
BY DEF Lifecycle!vars

\* A step that shows in one worker is a step of the contract if it is one of
\* four, or shows nothing there either.
LEMMA LifecycleStep ==
    ASSUME NEW w \in Workers,
           \A v \in Workers \ {w} :
              RunPhase(v)' = RunPhase(v) /\ RunContext(v)' = RunContext(v),
           \/ /\ RunPhase(w) = "idle" /\ RunContext(w) = "live"
              /\ RunPhase(w)' = "process" /\ RunContext(w)' = RunContext(w)
           \/ /\ RunPhase(w) = "process"
              /\ RunPhase(w)' = "idle" /\ RunContext(w)' = RunContext(w)
           \/ /\ RunContext(w) = "stopping" /\ RunContext(w)' = "cancelled"
              /\ RunPhase(w)' = RunPhase(w)
           \/ /\ RunPhase(w) = "idle" /\ RunContext(w) # "live"
              /\ RunPhase(w)' = "down" /\ RunContext(w)' = "cancelled"
           \/ /\ RunPhase(w)' = RunPhase(w) /\ RunContext(w)' = RunContext(w)
    PROVE  [Lifecycle!Next]_(Lifecycle!vars)
<1> DEFINE phase == [v \in Workers |-> RunPhase(v)]
           context == [v \in Workers |-> RunContext(v)]
<1>1. /\ phase' = [phase EXCEPT ![w] = RunPhase(w)']
      /\ context' = [context EXCEPT ![w] = RunContext(w)']
  OBVIOUS
<1>2. phase[w] = RunPhase(w) /\ context[w] = RunContext(w)
  OBVIOUS
<1>3. /\ RunPhase(w)' = RunPhase(w) => phase' = phase
      /\ RunContext(w)' = RunContext(w) => context' = context
  OBVIOUS
<1>4. /\ Lifecycle!Begin(w) <=> /\ phase[w] = "idle" /\ context[w] = "live"
                                /\ phase' = [phase EXCEPT ![w] = "process"]
                                /\ context' = context
      /\ Lifecycle!End(w) <=> /\ phase[w] = "process"
                              /\ phase' = [phase EXCEPT ![w] = "idle"]
                              /\ context' = context
      /\ Lifecycle!Cancel(w) <=> /\ context[w] = "stopping"
                                 /\ context' = [context EXCEPT ![w] = "cancelled"]
                                 /\ phase' = phase
      /\ Lifecycle!Return(w) <=> /\ phase[w] = "idle" /\ context[w] # "live"
                                 /\ phase' = [phase EXCEPT ![w] = "down"]
                                 /\ context' = [context EXCEPT ![w] = "cancelled"]
      /\ Lifecycle!vars' = Lifecycle!vars <=> phase' = phase /\ context' = context
  BY DEF Lifecycle!Begin, Lifecycle!End, Lifecycle!Cancel, Lifecycle!Return, Lifecycle!vars
<1> HIDE DEF phase, context
<1> QED
  BY <1>1, <1>2, <1>3, <1>4 DEF Lifecycle!Next

\* What the contract sees of a worker, by its place and the contexts
LEMMA SameView ==
    ASSUME NEW v \in Workers,
           runAt'[v] = runAt[v], cancelled'[v] = cancelled[v], rootDone' = rootDone
    PROVE  RunPhase(v)' = RunPhase(v) /\ RunContext(v)' = RunContext(v)
BY DEF RunPhase, RunContext

\* Every step of the goroutines of a worker is a step of the contract or none.
LEMMA LifecycleWorker ==
    ASSUME RunInv, NEW w \in Workers,
           WorkerProgress(w) \/ TickerFires(w) \/ ProcessReturns(w)
    PROVE  [Lifecycle!Next]_(Lifecycle!vars)
<1> USE DEF RunInv, RunTypeOK, RunGoes, WatchGoes, clocks, atomics, loaded
<1>1. rootDone' = rootDone
  BY DEF WorkerProgress, AdvanceRunning, RunLoads, RunSwaps, RunDone, AdvanceStopped,
         CheckTimedOut, CloseStopped, RunReturns, WatcherWakes, AdvanceStopping, WatchLoads,
         WatchSwaps, TimerFires, ForceCancel, WatcherEnds, TickerFires, ProcessReturns
<1>2. \A v \in Workers \ {w} : runAt'[v] = runAt[v] /\ cancelled'[v] = cancelled[v]
  BY DEF WorkerProgress, AdvanceRunning, RunLoads, RunSwaps, RunDone, AdvanceStopped,
         CheckTimedOut, CloseStopped, RunReturns, WatcherWakes, AdvanceStopping, WatchLoads,
         WatchSwaps, TimerFires, ForceCancel, WatcherEnds, TickerFires, ProcessReturns
<1>3. \A v \in Workers \ {w} : RunPhase(v)' = RunPhase(v) /\ RunContext(v)' = RunContext(v)
  BY <1>1, <1>2, SameView
<1>4. CASE AdvanceRunning(w) \/ RunDone(w) \/ AdvanceStopped(w) \/ CheckTimedOut(w)
           \/ CloseStopped(w)
  \* Run is between its batches and stays there.
  <2>1. /\ runAt[w] \notin {"process", "returned"} /\ runAt'[w] \notin {"process", "returned"}
        /\ cancelled' = cancelled
    BY <1>4 DEF AdvanceRunning, RunLoads, RunSwaps, RunDone, AdvanceStopped, CheckTimedOut,
                CloseStopped
  <2>2. RunPhase(w)' = RunPhase(w) /\ RunContext(w)' = RunContext(w)
    BY <1>1, <2>1 DEF RunPhase, RunContext
  <2> QED
    BY <1>3, <2>2, LifecycleStep
<1>5. CASE WatcherWakes(w) \/ AdvanceStopping(w) \/ TimerFires(w) \/ WatcherEnds(w)
  <2>1. runAt' = runAt /\ cancelled' = cancelled
    BY <1>5 DEF WatcherWakes, AdvanceStopping, WatchLoads, WatchSwaps, TimerFires, WatcherEnds
  <2>2. RunPhase(w)' = RunPhase(w) /\ RunContext(w)' = RunContext(w)
    BY <1>1, <2>1 DEF RunPhase, RunContext
  <2> QED
    BY <1>3, <2>2, LifecycleStep
<1>6. CASE ForceCancel(w)
  \* The watcher is here only after the signal.
  <2>1. /\ watchAt[w] = "cancel" /\ runAt' = runAt
        /\ cancelled' = [cancelled EXCEPT ![w] = TRUE]
    BY <1>6 DEF ForceCancel
  <2>2. rootDone /\ RunPhase(w)' = RunPhase(w) /\ cancelled'[w]
    BY <2>1 DEF WatchInv, RunPhase
  <2>3. RunContext(w)' = "cancelled"
    BY <2>2 DEF RunContext
  <2>4. RunContext(w) \in {"stopping", "cancelled"}
    BY <2>2 DEF RunContext
  <2> QED
    BY <1>3, <2>2, <2>3, <2>4, LifecycleStep
<1>7. CASE RunReturns(w)
  <2>1. /\ runAt[w] = "cancel" /\ runAt'[w] = "returned" /\ cancelled'[w]
    BY <1>7 DEF RunReturns
  <2>2. RunPhase(w) = "idle" /\ RunPhase(w)' = "down" /\ RunContext(w)' = "cancelled"
    BY <2>1 DEF RunPhase, RunContext
  <2>3. RunContext(w) # "live"
    BY <2>1 DEF ContextInv, RunContext
  <2> QED
    BY <1>3, <2>2, <2>3, LifecycleStep
<1>8. CASE TickerFires(w)
  \* Nothing is cancelled before the signal.
  <2>1. ~rootDone /\ runAt[w] = "select" /\ runAt'[w] = "process" /\ cancelled' = cancelled
    BY <1>8 DEF TickerFires
  <2>2. RunPhase(w) = "idle" /\ RunPhase(w)' = "process" /\ RunContext(w)' = RunContext(w)
    BY <1>1, <2>1 DEF RunPhase, RunContext
  <2>3. RunContext(w) = "live"
    BY <2>1 DEF ContextInv, RunContext
  <2> QED
    BY <1>3, <2>2, <2>3, LifecycleStep
<1>9. CASE ProcessReturns(w)
  <2>1. runAt[w] = "process" /\ runAt'[w] = "select" /\ cancelled' = cancelled
    BY <1>9 DEF ProcessReturns
  <2>2. RunPhase(w) = "process" /\ RunPhase(w)' = "idle" /\ RunContext(w)' = RunContext(w)
    BY <1>1, <2>1 DEF RunPhase, RunContext
  <2> QED
    BY <1>3, <2>2, LifecycleStep
<1> QED
  BY <1>4, <1>5, <1>6, <1>7, <1>8, <1>9 DEF WorkerProgress

\* The signal reaches every worker at once, and finds none cancelled.
LEMMA LifecycleSignal ==
    ASSUME RunInv, rootDone' = rootDone \/ rootDone' = TRUE,
           runAt' = runAt, cancelled' = cancelled
    PROVE  [Lifecycle!Next]_(Lifecycle!vars)
<1>1. \A v \in Workers : RunPhase(v)' = RunPhase(v)
  BY DEF RunPhase
<1>2. CASE rootDone' = rootDone
  BY <1>2, SameView, LifecycleStutters
<1>3. CASE ~rootDone /\ rootDone'
  <2>1. \A v \in Workers : ~cancelled[v] /\ runAt[v] # "returned"
    BY <1>3 DEF RunInv, ContextInv
  <2>2. \A v \in Workers : /\ RunContext(v) = "live" /\ RunContext(v)' = "stopping"
                           /\ RunPhase(v) # "down"
    BY <1>3, <2>1 DEF RunContext, RunPhase
  <2> DEFINE phase == [v \in Workers |-> RunPhase(v)]
             context == [v \in Workers |-> RunContext(v)]
  <2>3. Lifecycle!Signal(Workers) <=>
           /\ \A v \in Workers : phase[v] # "down" /\ context[v] = "live"
           /\ context' = [v \in Workers |-> IF v \in Workers THEN "stopping" ELSE context[v]]
           /\ phase' = phase
    BY DEF Lifecycle!Signal
  <2>4. phase' = phase /\ context' = [v \in Workers |-> "stopping"]
    BY <1>1, <2>2
  <2>5. Lifecycle!Signal(Workers)
    BY <2>2, <2>3, <2>4
  <2> QED
    BY <2>5 DEF Lifecycle!Next
<1> QED
  BY <1>2, <1>3 DEF RunInv, RunTypeOK

\* Every step of the process is a step of the contract or none.
LEMMA LifecycleNext ==
    ASSUME RunInv, [Next]_vars
    PROVE  [Lifecycle!Next]_(Lifecycle!vars)
<1>1. ASSUME NEW w \in Workers, WorkerStep(w) PROVE [Lifecycle!Next]_(Lifecycle!vars)
  BY <1>1, LifecycleWorker DEF WorkerStep
<1>2. CASE ~\E w \in Workers : WorkerStep(w)
  <2>1. cancelled' = cancelled
    BY <1>2, AtomicsKept
  <2>2. runAt' = runAt /\ (rootDone' = rootDone \/ rootDone' = TRUE)
    <3> DEFINE Kept == runAt' = runAt /\ (rootDone' = rootDone \/ rootDone' = TRUE)
    <3>1. ASSUME NEW v \in Workers, GoroutineProgress(v) PROVE Kept
      BY <3>1 DEF GoroutineProgress, SendResult, Done, runVars, places
    <3>2. ASSUME MainProgress PROVE Kept
      BY <3>2 DEF MainProgress, LeaveServing, Stop, ServerShutdown, WorkersDone,
                  GiveUpOnWorkers, ReportError, Drained, ClosePublisher, runVars, places
    <3>3. ASSUME CloseWorkersStopped \/ ClosePool PROVE Kept
      BY <3>3 DEF CloseWorkersStopped, ClosePool, runVars, places
    <3>6. ASSUME ServerFails \/ RequestArrives \/ RequestEnds PROVE Kept
      BY <3>6 DEF ServerFails, RequestArrives, RequestEnds, runVars, places
    <3>4. ASSUME Signal \/ Tick PROVE Kept
      BY <3>4 DEF Signal, Tick, RunTick, places
    <3>5. ASSUME UNCHANGED vars PROVE Kept
      BY <3>5 DEF vars, runVars, places
    <3> QED
      BY <1>2, <3>1, <3>2, <3>3, <3>4, <3>5, <3>6 DEF Next
  <2> QED
    <3>1. CASE rootDone' = rootDone
      BY <2>1, <2>2, <3>1, LifecycleSignal, Zenon
    <3>2. CASE rootDone' = TRUE
      BY <2>1, <2>2, <3>2, LifecycleSignal, Zenon
    <3> QED
      BY <2>2, <3>1, <3>2, Zenon
<1> QED
  BY <1>1, <1>2

\* A worker that has not begun is idle, under contexts that are live.
LEMMA LifecycleInit == Init => Lifecycle!Init
<1>1. ASSUME Init, NEW w \in Workers PROVE RunPhase(w) = "idle" /\ RunContext(w) = "live"
  <2>1. runAt[w] = "toRunning"
    BY <1>1 DEF Init, RunInit
  <2>2. ~cancelled[w] /\ ~rootDone
    BY <1>1, Zenon DEF Init, RunInit
  <2>3. RunPhase(w) = "idle"
    BY <2>1 DEF RunPhase
  <2>4. RunContext(w) = "live"
    BY <2>2, Zenon DEF RunContext
  <2> QED
    BY <2>3, <2>4
<1>2. ASSUME Init PROVE Lifecycle!Init
  BY <1>1, <1>2 DEF Lifecycle!Init
<1> QED
  BY <1>2

\* Run with its watcher, in every interleaving of the two and of any number of
\* workers, keeps what it promises to the batches it runs: none is begun after the
\* signal, none is cut before it, and Run returns between two of them.
THEOREM RunKeepsItsContract == Spec => KeepsRunContract
<1>1. Init => Lifecycle!Init
  BY LifecycleInit
<1>2. ShutdownInv /\ [Next]_vars => [Lifecycle!Next]_(Lifecycle!vars)
  BY LifecycleNext, InvariantParts
<1> QED
  BY <1>1, <1>2, ShutdownInvariantHolds, PTL DEF Spec, KeepsRunContract, Lifecycle!Spec
=============================================================================
