------------------------------ MODULE WorkerRun ------------------------------
(***************************************************************************)
(* The life of the outbox workers of one process: OutboxWorker.Run         *)
(* (internal/event/application/outbox_worker.go).  Run starts a second     *)
(* goroutine, the watcher, that waits for the shutdown and cancels procCtx *)
(* when the batch in flight outlives the shutdown timeout.  The two share  *)
(* three atomics, a channel and a context, and every access is a step.     *)
(*                                                                         *)
(*   rootDone      ctx of Run, shared by all workers, is cancelled         *)
(*   runAt[w], watchAt[w]      where Run, and its watcher, are             *)
(*   state[w]      the atomic lifecycle state                              *)
(*   runSeen[w], watchSeen[w]  what advanceState last loaded in either     *)
(*   timedOut[w]   the atomic flag                                         *)
(*   cancelled[w]  procCtx is cancelled                                    *)
(*   stopped[w]    the channel is closed                                   *)
(*   result[w]     what Run returns                                        *)
(*   timer[w]      ticks the watcher's timer has run                       *)
(*   overdue[w]    ticks the batch in flight has outlived procCancel       *)
(*   cut           workers whose batch was cancelled in flight (history)   *)
(*   drained       ticks since rootDone (history)                          *)
(*                                                                         *)
(* A batch is one step here: OutboxWorker has its calls.                   *)
(***************************************************************************)
EXTENDS Naturals

CONSTANTS
    Workers,
    ShutdownTimeout,  \* ticks
    CutBound,         \* ticks a call takes to notice that procCtx is cancelled
    Stubborn,         \* workers whose publisher ignores the cancellation
    Punctual          \* no goroutine that can go on is kept waiting for a tick

ASSUME RunAssumption ==
    /\ ShutdownTimeout \in Nat
    /\ CutBound \in Nat
    /\ Stubborn \subseteq Workers
    /\ Punctual \in BOOLEAN

VARIABLES
    rootDone, runAt, watchAt, state, runSeen, watchSeen, timedOut, cancelled, stopped,
    result, timer, overdue, cut, drained

loaded == <<runSeen, watchSeen>>
places == <<runAt, watchAt, loaded>>
atomics == <<state, timedOut, cancelled, stopped, result>>
clocks == <<timer, overdue, drained>>
runVars == <<rootDone, places, atomics, clocks, cut>>

starting == 0
running == 1
stopping == 2
workerStopped == 3
workerState == starting..workerStopped

RunSteps == {"toRunning", "swapRunning", "select", "process", "toStopped",
             "swapStopped", "check", "close", "cancel", "returned"}
WatchSteps == {"waiting", "toStopping", "swapStopping", "timer", "cancel", "gone"}

RunTypeOK ==
    /\ rootDone \in BOOLEAN
    /\ runAt \in [Workers -> RunSteps]
    /\ watchAt \in [Workers -> WatchSteps]
    /\ state \in [Workers -> workerState]
    /\ runSeen \in [Workers -> workerState]
    /\ watchSeen \in [Workers -> workerState]
    /\ timedOut \in [Workers -> BOOLEAN]
    /\ cancelled \in [Workers -> BOOLEAN]
    /\ stopped \in [Workers -> BOOLEAN]
    /\ result \in [Workers -> {"none", "nil", "timeout"}]
    /\ timer \in [Workers -> 0..ShutdownTimeout]
    /\ overdue \in [Workers -> 0..CutBound]
    /\ cut \subseteq Workers
    /\ drained \in 0..ShutdownTimeout

RunInit ==
    /\ rootDone = FALSE
    /\ runAt = [w \in Workers |-> "toRunning"]
    /\ watchAt = [w \in Workers |-> "waiting"]
    /\ state = [w \in Workers |-> starting]
    /\ runSeen = [w \in Workers |-> starting]
    /\ watchSeen = [w \in Workers |-> starting]
    /\ timedOut = [w \in Workers |-> FALSE]
    /\ cancelled = [w \in Workers |-> FALSE]
    /\ stopped = [w \in Workers |-> FALSE]
    /\ result = [w \in Workers |-> "none"]
    /\ timer = [w \in Workers |-> 0]
    /\ overdue = [w \in Workers |-> 0]
    /\ cut = {}
    /\ drained = 0

RunGoes(w, from, to) ==
    /\ runAt[w] = from
    /\ runAt' = [runAt EXCEPT ![w] = to]
    /\ UNCHANGED watchAt

WatchGoes(w, from, to) ==
    /\ watchAt[w] = from
    /\ watchAt' = [watchAt EXCEPT ![w] = to]
    /\ UNCHANGED runAt

-----------------------------------------------------------------------------
(* advanceState(s), in either goroutine: at `from` it loads, at `swap` it  *)
(* swaps, and goes on to `next`.                                           *)

\* current := w.state.Load(), and the return when s is no step forward
RunLoads(w, s, from, swap, next) ==
    /\ RunGoes(w, from, IF s <= state[w] THEN next ELSE swap)
    /\ runSeen' = [runSeen EXCEPT ![w] = state[w]]
    /\ UNCHANGED <<rootDone, watchSeen, atomics, clocks, cut>>

WatchLoads(w, s, from, swap, next) ==
    /\ WatchGoes(w, from, IF s <= state[w] THEN next ELSE swap)
    /\ watchSeen' = [watchSeen EXCEPT ![w] = state[w]]
    /\ UNCHANGED <<rootDone, runSeen, atomics, clocks, cut>>

\* CompareAndSwap(seen, s), whose failure leads to another round
Store(w, seen, s) == state' = [state EXCEPT ![w] = s]  \* faulty: no comparison
CompareAndSwap(w, seen, s) ==
    state' = [state EXCEPT ![w] = IF @ = seen THEN s ELSE @]

RunSwaps(w, s, swap, from, next) ==
    /\ RunGoes(w, swap, IF state[w] = runSeen[w] THEN next ELSE from)
    /\ CompareAndSwap(w, runSeen[w], s)
    /\ UNCHANGED <<rootDone, loaded, timedOut, cancelled, stopped, result,
                   clocks, cut>>

WatchSwaps(w, s, swap, from, next) ==
    /\ WatchGoes(w, swap, IF state[w] = watchSeen[w] THEN next ELSE from)
    /\ CompareAndSwap(w, watchSeen[w], s)
    /\ UNCHANGED <<rootDone, loaded, timedOut, cancelled, stopped, result,
                   clocks, cut>>

-----------------------------------------------------------------------------
(* The goroutine of Run *)

AdvanceRunning(w) ==
    \/ RunLoads(w, running, "toRunning", "swapRunning", "select")
    \/ RunSwaps(w, running, "swapRunning", "toRunning", "select")

\* case <-ticker.C, and process.  With ctx cancelled it is `continue`.
TickerFiresAlways(w) ==  \* faulty: ctx.Err() is not checked
    /\ RunGoes(w, "select", "process")
    /\ UNCHANGED <<rootDone, loaded, atomics, clocks, cut>>
TickerFires(w) ==
    /\ ~rootDone
    /\ RunGoes(w, "select", "process")
    /\ UNCHANGED <<rootDone, loaded, atomics, clocks, cut>>

\* process returns: its batch is done, or it noticed the cancellation.
ProcessReturns(w) ==
    /\ RunGoes(w, "process", "select")
    /\ overdue' = [overdue EXCEPT ![w] = 0]
    /\ UNCHANGED <<rootDone, loaded, atomics, timer, drained, cut>>

\* case <-ctx.Done()
RunDone(w) ==
    /\ rootDone
    /\ RunGoes(w, "select", "toStopped")
    /\ UNCHANGED <<rootDone, loaded, atomics, clocks, cut>>

AdvanceStopped(w) ==
    \/ RunLoads(w, workerStopped, "toStopped", "swapStopped", "check")
    \/ RunSwaps(w, workerStopped, "swapStopped", "toStopped", "check")

\* timedOut.Load() decides what Run returns.
CheckTimedOut(w) ==
    /\ RunGoes(w, "check", "close")
    /\ result' = [result EXCEPT ![w] = IF timedOut[w] THEN "timeout" ELSE "nil"]
    /\ UNCHANGED <<rootDone, loaded, state, timedOut, cancelled, stopped, clocks, cut>>

\* The deferred calls, last first: close(stopped), then procCancel
CloseStopped(w) ==
    /\ RunGoes(w, "close", "cancel")
    /\ stopped' = [stopped EXCEPT ![w] = TRUE]
    /\ UNCHANGED <<rootDone, loaded, state, timedOut, cancelled, result, clocks, cut>>

RunReturns(w) ==
    /\ RunGoes(w, "cancel", "returned")
    /\ cancelled' = [cancelled EXCEPT ![w] = TRUE]
    /\ UNCHANGED <<rootDone, loaded, state, timedOut, stopped, result, clocks, cut>>

-----------------------------------------------------------------------------
(* The watcher *)

\* case <-ctx.Done()
WatcherWakes(w) ==
    /\ rootDone
    /\ WatchGoes(w, "waiting", "toStopping")
    /\ UNCHANGED <<rootDone, loaded, atomics, clocks, cut>>

AdvanceStopping(w) ==
    \/ WatchLoads(w, stopping, "toStopping", "swapStopping", "timer")
    \/ WatchSwaps(w, stopping, "swapStopping", "toStopping", "timer")

\* case <-timer.C: the flag is set first, and procCtx is cancelled after it.
ExpiredAtOnce(w) == TRUE  \* faulty: no timer
Expired(w) == timer[w] = ShutdownTimeout
TimerFiresSilently(w) ==  \* faulty: timedOut is not set
    /\ Expired(w)
    /\ WatchGoes(w, "timer", "cancel")
    /\ UNCHANGED <<rootDone, loaded, atomics, clocks, cut>>
TimerFires(w) ==
    /\ Expired(w)
    /\ WatchGoes(w, "timer", "cancel")
    /\ timedOut' = [timedOut EXCEPT ![w] = TRUE]
    /\ UNCHANGED <<rootDone, loaded, state, cancelled, stopped, result, clocks, cut>>

\* procCancel, whether or not a batch is still in flight
ForceCancelSkipped(w) ==  \* faulty: procCancel is forgotten
    /\ WatchGoes(w, "cancel", "gone")
    /\ UNCHANGED <<rootDone, loaded, atomics, clocks, cut>>
ForceCancel(w) ==
    /\ WatchGoes(w, "cancel", "gone")
    /\ cancelled' = [cancelled EXCEPT ![w] = TRUE]
    /\ cut' = cut \union {v \in {w} : runAt[v] = "process"}
    /\ UNCHANGED <<rootDone, loaded, state, timedOut, stopped, result, clocks>>

\* case <-stopped, of either select.  With the other case ready as well, the
\* runtime picks either.
WatcherEnds(w) ==
    /\ stopped[w]
    /\ WatchGoes(w, "waiting", "gone") \/ WatchGoes(w, "timer", "gone")
    /\ UNCHANGED <<rootDone, loaded, atomics, clocks, cut>>

-----------------------------------------------------------------------------
(* Steps a goroutine takes as soon as it is scheduled *)
WorkerProgress(w) ==
    \/ AdvanceRunning(w)
    \/ RunDone(w)
    \/ AdvanceStopped(w)
    \/ CheckTimedOut(w)
    \/ CloseStopped(w)
    \/ RunReturns(w)
    \/ WatcherWakes(w)
    \/ AdvanceStopping(w)
    \/ TimerFires(w)
    \/ ForceCancel(w)
    \/ WatcherEnds(w)

\* None of them is possible.
AtRest(w) ==
    /\ \/ runAt[w] \in {"process", "returned"}
       \/ runAt[w] = "select" /\ ~rootDone
    /\ \/ watchAt[w] = "gone"
       \/ watchAt[w] = "waiting" /\ ~rootDone /\ ~stopped[w]
       \/ watchAt[w] = "timer" /\ ~Expired(w) /\ ~stopped[w]

InFlightCancelled(w) == runAt[w] = "process" /\ cancelled[w]

Advance(clock, bound) == IF clock < bound THEN clock + 1 ELSE clock

\* Time passes.  A cancelled call that is not stubborn returns within CutBound.
RunTick ==
    /\ Punctual => \A w \in Workers : AtRest(w)
    /\ \A w \in Workers \ Stubborn : InFlightCancelled(w) => overdue[w] < CutBound
    /\ timer' = [w \in Workers |->
           IF watchAt[w] = "timer" THEN Advance(timer[w], ShutdownTimeout) ELSE timer[w]]
    /\ overdue' = [w \in Workers |->
           IF InFlightCancelled(w) THEN Advance(overdue[w], CutBound) ELSE overdue[w]]
    /\ drained' = IF rootDone THEN Advance(drained, ShutdownTimeout) ELSE drained
    /\ UNCHANGED <<rootDone, places, atomics, cut>>

-----------------------------------------------------------------------------
(* Properties *)

\* The lifecycle state never goes back, although Run and the watcher advance
\* it at the same time (outbox_worker.go:107-108).
StateForward ==
    [][\A w \in Workers : state'[w] >= state[w]]_state

\* Run returns nil only if nothing was cut off: no batch in flight was
\* cancelled (outbox_worker.go:125-127).
NilMeansDrained ==
    \A w \in Workers : result[w] = "nil" => w \notin cut

\* A batch in flight at the signal gets the whole shutdown timeout.
InFlightGetsItsTimeout ==
    [][\A w \in Workers :
          runAt[w] = "process" /\ cancelled'[w] /\ ~cancelled[w]
              => drained = ShutdownTimeout]_<<runAt, cancelled>>

\* What Run shows of itself: a batch is in process, Run has ended, or neither;
\* and what has become of ctx and procCtx.
RunPhase(w) ==
    CASE runAt[w] = "process" -> "process"
      [] runAt[w] = "returned" -> "down"
      [] OTHER -> "idle"
RunContext(w) ==
    IF cancelled[w] THEN "cancelled" ELSE IF rootDone THEN "stopping" ELSE "live"

Lifecycle == INSTANCE RunContract WITH
    phase <- [w \in Workers |-> RunPhase(w)],
    context <- [w \in Workers |-> RunContext(w)]

\* Run and its watcher, in every interleaving, keep what Run promises to the
\* batches: none begun after the signal, none cut before it, and no return in the
\* middle of one (outbox_worker.go:120-211).
KeepsRunContract == Lifecycle!Spec
=============================================================================
