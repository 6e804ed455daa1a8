-------------------------- MODULE ShutdownInvariant --------------------------
(***************************************************************************)
(* The inductive invariant behind the safety properties of WorkerRun and   *)
(* ApiShutdown: what each place in the code of the two goroutines of a     *)
(* worker says of the atomics they share, and what main's place says of    *)
(* the goroutines.                                                         *)
(***************************************************************************)
EXTENDS ApiShutdown

\* What Run knows of the state it is about to swap, and has left behind it
StateInv ==
    \A w \in Workers :
        /\ runAt[w] = "swapRunning" => runSeen[w] < running
        /\ runAt[w] = "swapStopped" => runSeen[w] < workerStopped
        /\ watchAt[w] = "swapStopping" => watchSeen[w] < stopping
        /\ runAt[w] \in {"check", "close", "cancel", "returned"} => state[w] = workerStopped

\* The watcher acts only after the signal, and cancels only after the whole
\* timeout, with the flag set.
WatchInv ==
    \A w \in Workers :
        /\ watchAt[w] \notin {"waiting", "gone"} => rootDone
        /\ timer[w] <= drained
        /\ watchAt[w] = "cancel" => timedOut[w] /\ timer[w] = ShutdownTimeout

\* Run leaves its loop, and procCtx is cancelled, only after the signal.
ContextInv ==
    \A w \in Workers :
        /\ runAt[w] \in {"toStopped", "swapStopped", "check", "close", "cancel", "returned"}
               => rootDone
        /\ cancelled[w] => rootDone
        /\ runAt[w] = "returned" => cancelled[w]

\* A batch is cut off only with the flag set, which Run reads after it.
CutInv ==
    /\ \A w \in cut : timedOut[w]
    /\ \A w \in Workers :
          result[w] # "none" <=> runAt[w] \in {"close", "cancel", "returned"}
    /\ NilMeansDrained

\* Results pass from Run through the channel to main.
ChannelInv ==
    /\ finished \subseteq sent
    /\ \A w \in sent : runAt[w] = "returned"
    /\ workersStopped => finished = Workers
    /\ errorsClosed => workersStopped
    /\ main = "drain" => errorsClosed
    /\ \A w \in sent : w \in workerErrors \/ w \in reported \/ result[w] = "nil"
    /\ main \in {"publisher", "pool", "exited"} /\ errorsClosed => workerErrors = {}
    /\ main \in {"serving", "stop", "http", "wait"} => ~errorsClosed

ShutdownInv ==
    /\ TypeOK
    /\ StateInv
    /\ WatchInv
    /\ ContextInv
    /\ CutInv
    /\ ChannelInv

-----------------------------------------------------------------------------
(* How long it takes *)

\* The watcher leaves only a Run that has stopped or a context it has
\* cancelled; main shuts down only with rootCtx cancelled.
EndInv ==
    /\ \A w \in Workers :
          /\ stopped[w] => runAt[w] \in {"cancel", "returned"}
          /\ watchAt[w] = "gone" => stopped[w] \/ cancelled[w]
    /\ main \in {"http", "wait", "drain", "publisher", "pool", "exited"} => rootDone
    /\ main \in {"serving", "stop", "http"} => waitFor = 0
    /\ workerErrors \subseteq sent

\* Where nothing is late, main only spends time in its two waits.
ElapsedInv == elapsed <= httpFor + waitFor

\* While main waits for the workers, the batch in flight of one that heeds the
\* cancellation is either still in the shutdown timeout or being cut off.
OutliveInv ==
    /\ \A w \in Workers \ Stubborn : main = "wait" /\ w \notin finished =>
          /\ waitFor <= ShutdownTimeout + CutBound
          /\ runAt[w] = "process" => waitFor <= timer[w] + overdue[w]
    /\ main = "publisher" => Workers \ Stubborn \subseteq finished
    /\ OnlyStubbornOutlives
=============================================================================
