----------------------------- MODULE ApiShutdown -----------------------------
(***************************************************************************)
(* The end of an API process: main of cmd/api/main.go from the start of    *)
(* the workers on, with the workers of WorkerRun.                          *)
(*                                                                         *)
(* A signal, or the HTTP server's failure, makes main cancel rootCtx, shut *)
(* the server down, wait for the workers, report their errors, close the   *)
(* publisher and, deferred, the pool.  Each wait has its own time-out, and *)
(* the workers drain while main is still waiting for the server.           *)
(*                                                                         *)
(*   main            where main is                                         *)
(*   serverError     an error waits in serverErrors                        *)
(*   handlingSignals main still has the signals (stop() not called)        *)
(*   requestOpen     a request is in flight                                *)
(*   workerErrors    the channel: the workers whose results are in it      *)
(*   errorsClosed    it is closed                                          *)
(*   sent, finished  workers whose goroutine has sent, is Done             *)
(*   workersStopped  the channel is closed                                 *)
(*   reported        workers whose error was logged                        *)
(*   httpFor, waitFor  ticks in server.Shutdown, in the wait for workers   *)
(*   elapsed         ticks since main began to shut down (history, kept    *)
(*                   where Punctual)                                       *)
(***************************************************************************)
EXTENDS WorkerRun, FiniteSets

CONSTANTS Grace  \* what main waits for the workers beyond ShutdownTimeout

ASSUME ApiAssumption == Grace \in Nat /\ IsFiniteSet(Workers)

VARIABLES
    main, serverError, handlingSignals, requestOpen,
    workerErrors, errorsClosed, sent, finished, workersStopped, reported,
    httpFor, waitFor, elapsed

channels == <<workerErrors, errorsClosed, sent, finished, workersStopped>>
mainClocks == <<httpFor, waitFor, elapsed>>
server == <<serverError, handlingSignals, requestOpen>>
vars == <<runVars, main, server, channels, reported, mainClocks>>

MainSteps == {"serving", "stop", "http", "wait", "drain", "publisher", "pool",
              "exited", "killed"}

\* The longest main may take from the shutdown to the publisher's Close
ExitBound == 2 * ShutdownTimeout + Grace

TypeOK ==
    /\ RunTypeOK
    /\ main \in MainSteps
    /\ serverError \in BOOLEAN
    /\ handlingSignals \in BOOLEAN
    /\ requestOpen \in BOOLEAN
    /\ workerErrors \subseteq Workers
    /\ errorsClosed \in BOOLEAN
    /\ sent \subseteq Workers
    /\ finished \subseteq Workers
    /\ workersStopped \in BOOLEAN
    /\ reported \subseteq Workers
    /\ httpFor \in 0..ShutdownTimeout
    /\ waitFor \in 0..ShutdownTimeout + Grace
    /\ elapsed \in 0..ExitBound + 1

Init ==
    /\ RunInit
    /\ main = "serving"
    /\ serverError = FALSE
    /\ handlingSignals = TRUE
    /\ requestOpen = FALSE
    /\ workerErrors = {}
    /\ errorsClosed = FALSE
    /\ sent = {}
    /\ finished = {}
    /\ workersStopped = FALSE
    /\ reported = {}
    /\ httpFor = 0
    /\ waitFor = 0
    /\ elapsed = 0

Alive == main \notin {"exited", "killed"}

MainGoes(from, to) == main = from /\ main' = to

-----------------------------------------------------------------------------
(* The goroutine around each Run, and the one that waits for all of them *)

\* workerErrors <- outboxWorker.Run(rootCtx); the channel holds one per worker.
ErrorsCapacityOne == 1  \* faulty: as serverErrors has it
ErrorsCapacity == Cardinality(Workers)
SendResult(w) ==
    /\ runAt[w] = "returned"
    /\ w \notin sent
    /\ Cardinality(workerErrors) < ErrorsCapacity
    /\ workerErrors' = workerErrors \union {w}
    /\ sent' = sent \union {w}
    /\ UNCHANGED <<runVars, main, server, errorsClosed, finished, workersStopped,
                   reported, mainClocks>>

\* defer workerGroup.Done()
DoneBeforeSend(w) ==  \* faulty: not deferred
    /\ runAt[w] = "returned"
    /\ w \notin finished
    /\ finished' = finished \union {w}
    /\ UNCHANGED <<runVars, main, server, workerErrors, errorsClosed, sent,
                   workersStopped, reported, mainClocks>>
Done(w) ==
    /\ w \in sent \ finished
    /\ finished' = finished \union {w}
    /\ UNCHANGED <<runVars, main, server, workerErrors, errorsClosed, sent,
                   workersStopped, reported, mainClocks>>

\* workerGroup.Wait(); close(workersStopped)
CloseWorkersStopped ==
    /\ finished = Workers
    /\ ~workersStopped
    /\ workersStopped' = TRUE
    /\ UNCHANGED <<runVars, main, server, workerErrors, errorsClosed, sent, finished,
                   reported, mainClocks>>

-----------------------------------------------------------------------------
(* main *)

\* <-serverErrors, or <-rootCtx.Done()
LeaveServing ==
    /\ serverError \/ rootDone
    /\ MainGoes("serving", "stop")
    /\ UNCHANGED <<runVars, server, channels, reported, mainClocks>>

\* stop(): rootCtx is cancelled, and the next signal kills.
Stop ==
    /\ MainGoes("stop", "http")
    /\ handlingSignals' = FALSE
    /\ rootDone' = TRUE
    /\ UNCHANGED <<places, atomics, clocks, cut, serverError, requestOpen, channels,
                   reported, mainClocks>>

\* server.Shutdown returns: no request is in flight, or shutdownCtx is over.
ServerStoppedNoDeadline == ~requestOpen  \* faulty: context.Background()
ServerStopped == ~requestOpen \/ httpFor = ShutdownTimeout
ServerShutdown ==
    /\ ServerStopped
    /\ MainGoes("http", "wait")
    /\ UNCHANGED <<runVars, server, channels, reported, mainClocks>>

\* case <-workersStopped: close(workerErrors)
WorkersDone ==
    /\ workersStopped
    /\ MainGoes("wait", "drain")
    /\ errorsClosed' = TRUE
    /\ UNCHANGED <<runVars, server, workerErrors, sent, finished, workersStopped,
                   reported, mainClocks>>

\* case <-time.After(cfg.ShutdownTimeout + 5*time.Second)
WaitOverNever == FALSE                          \* faulty: no time.After
WaitOver == waitFor = ShutdownTimeout + Grace
GiveUpOnWorkers ==
    /\ WaitOver
    /\ MainGoes("wait", "publisher")
    /\ UNCHANGED <<runVars, server, channels, reported, mainClocks>>

\* for err := range workerErrors
ReportError(w) ==
    /\ main = "drain"
    /\ w \in workerErrors
    /\ workerErrors' = workerErrors \ {w}
    /\ reported' = IF result[w] = "nil" THEN reported ELSE reported \union {w}
    /\ UNCHANGED <<runVars, main, server, errorsClosed, sent, finished, workersStopped,
                   mainClocks>>
Drained ==
    /\ workerErrors = {}
    /\ MainGoes("drain", "publisher")
    /\ UNCHANGED <<runVars, server, channels, reported, mainClocks>>

\* kafkaPublisher.Close()
ClosePublisher ==
    /\ MainGoes("publisher", "pool")
    /\ UNCHANGED <<runVars, server, channels, reported, mainClocks>>

\* The deferred db.Close(): it waits until every connection is back.  A
\* request, or a batch, in flight may hold one or not.
ClosePool ==
    /\ MainGoes("pool", "exited")
    /\ UNCHANGED <<runVars, server, channels, reported, mainClocks>>

NoConnectionOut ==
    /\ ~requestOpen
    /\ \A w \in Workers \ Stubborn : runAt[w] # "process"

-----------------------------------------------------------------------------
(* Around main *)

\* SIGINT or SIGTERM: the first cancels rootCtx, one after stop() kills.
Signal ==
    /\ IF handlingSignals
       THEN rootDone' = TRUE /\ UNCHANGED main
       ELSE main' = "killed" /\ UNCHANGED rootDone
    /\ UNCHANGED <<places, atomics, clocks, cut, server, channels, reported, mainClocks>>

\* ListenAndServe fails.
ServerFails ==
    /\ main \in {"serving", "stop"}
    /\ ~serverError
    /\ serverError' = TRUE
    /\ UNCHANGED <<runVars, main, handlingSignals, requestOpen, channels, reported,
                   mainClocks>>

RequestArrives ==
    /\ main \in {"serving", "stop"}
    /\ ~serverError /\ ~requestOpen
    /\ requestOpen' = TRUE
    /\ UNCHANGED <<runVars, main, serverError, handlingSignals, channels, reported,
                   mainClocks>>

RequestEnds ==
    /\ requestOpen
    /\ requestOpen' = FALSE
    /\ UNCHANGED <<runVars, main, serverError, handlingSignals, channels, reported,
                   mainClocks>>

MainProgress ==
    \/ LeaveServing
    \/ Stop
    \/ ServerShutdown
    \/ WorkersDone
    \/ GiveUpOnWorkers
    \/ \E w \in Workers : ReportError(w)
    \/ Drained
    \/ ClosePublisher

GoroutineProgress(w) == SendResult(w) \/ Done(w)

\* No step of main, or of a goroutine of main, is due.
MainAtRest ==
    /\ \/ main = "serving" /\ ~serverError /\ ~rootDone
       \/ main = "http" /\ ~ServerStopped
       \/ main = "wait" /\ ~workersStopped /\ ~WaitOver
       \/ main = "pool"
    /\ \A w \in Workers : runAt[w] = "returned" =>
          IF w \in sent THEN w \in finished ELSE Cardinality(workerErrors) >= ErrorsCapacity
    /\ finished = Workers => workersStopped

Tick ==
    /\ Punctual => MainAtRest
    /\ RunTick
    /\ httpFor' = IF main = "http" THEN Advance(httpFor, ShutdownTimeout) ELSE httpFor
    /\ waitFor' = IF main = "wait" THEN Advance(waitFor, ShutdownTimeout + Grace) ELSE waitFor
    /\ elapsed' = IF Punctual /\ main \in {"stop", "http", "wait", "drain", "publisher"}
                  THEN Advance(elapsed, ExitBound + 1) ELSE elapsed
    /\ UNCHANGED <<main, server, channels, reported>>

WorkerStep(w) ==
    /\ WorkerProgress(w) \/ TickerFires(w) \/ ProcessReturns(w)
    /\ UNCHANGED <<main, server, channels, reported, mainClocks>>

Next ==
    /\ Alive
    /\ \/ \E w \in Workers : WorkerStep(w) \/ GoroutineProgress(w)
       \/ CloseWorkersStopped
       \/ MainProgress
       \/ ClosePool
       \/ Signal
       \/ ServerFails
       \/ RequestArrives
       \/ RequestEnds
       \/ Tick

Spec == Init /\ [][Next]_vars

\* Goroutines that can go on do, time passes, and a request in flight ends.  A
\* batch need not end by itself; the one that heeds the cancellation is held to
\* CutBound by Tick, so it returns because time passes.
FairSpec ==
    /\ Spec
    /\ \A w \in Workers :
          /\ WF_vars(Alive /\ WorkerProgress(w) /\ UNCHANGED <<main, server, channels, reported, mainClocks>>)
          /\ WF_vars(Alive /\ GoroutineProgress(w))
          /\ WF_vars(Alive /\ w \notin Stubborn /\ overdue[w] = CutBound /\ cancelled[w]
                     /\ ProcessReturns(w)
                     /\ UNCHANGED <<main, server, channels, reported, mainClocks>>)
    /\ WF_vars(Alive /\ CloseWorkersStopped)
    /\ WF_vars(MainProgress)
    /\ WF_vars(NoConnectionOut /\ ClosePool)
    /\ WF_vars(Alive /\ RequestEnds)
    /\ WF_vars(Alive /\ Tick)

-----------------------------------------------------------------------------
(* Properties *)

\* No goroutine sends on workerErrors after main has closed it (main.go:458).
NoSendAfterClose == errorsClosed => sent = Workers

\* Every worker whose batch was cancelled is reported when main has waited for
\* the workers (main.go:460-467).
CutWorkersAreReported ==
    main \in {"publisher", "pool", "exited"} /\ errorsClosed => cut \subseteq reported

\* The publisher is closed only after the workers are done (main.go:485), but
\* for those whose publisher ignores the cancellation.
OnlyStubbornOutlives ==
    main \in {"pool", "exited"} => Workers \ Stubborn \subseteq finished

\* From the shutdown on, main reaches the publisher's Close in time.
ExitsInTime == elapsed <= ExitBound

\* A worker whose publisher heeds the cancellation returns, unless a second
\* signal kills the process: main does not leave before it.
WorkersReturn ==
    \A w \in Workers \ Stubborn : rootDone ~> result[w] # "none" \/ main = "killed"

\* A process told to stop, or whose server failed, ends.
ProcessEnds == rootDone \/ serverError ~> ~Alive
=============================================================================
