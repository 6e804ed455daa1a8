----------------------------- MODULE RunContract -----------------------------
(***************************************************************************)
(* What OutboxWorker.Run promises to the batches it runs (the comment at   *)
(* outbox_worker.go:125-129), with its goroutines and atomics left out.    *)
(*                                                                         *)
(* OutboxWorker has the calls of a batch and takes Run's contexts for      *)
(* granted; WorkerRun has the contexts and takes a batch for one step.     *)
(* Both implement this module, which is what they must agree on.           *)
(***************************************************************************)
CONSTANT Workers

VARIABLES
    phase,   \* phase[w]: "idle", in "process", or "down" when Run has ended
    context  \* "live"; "stopping": ctx is cancelled; "cancelled": procCtx too

vars == <<phase, context>>

Init ==
    /\ phase = [w \in Workers |-> "idle"]
    /\ context = [w \in Workers |-> "live"]

\* No batch is begun once the shutdown has begun.
Begin(w) ==
    /\ phase[w] = "idle"
    /\ context[w] = "live"
    /\ phase' = [phase EXCEPT ![w] = "process"]
    /\ UNCHANGED context

\* A batch ends, in time or because it noticed the cancellation.
End(w) ==
    /\ phase[w] = "process"
    /\ phase' = [phase EXCEPT ![w] = "idle"]
    /\ UNCHANGED context

\* The signal reaches some workers, or all of a process at once.  It leaves
\* batches in flight alone.
Signal(S) ==
    /\ \A w \in S : phase[w] # "down" /\ context[w] = "live"
    /\ context' = [w \in Workers |-> IF w \in S THEN "stopping" ELSE context[w]]
    /\ UNCHANGED phase

\* A batch is cut only after the signal.
Cancel(w) ==
    /\ context[w] = "stopping"
    /\ context' = [context EXCEPT ![w] = "cancelled"]
    /\ UNCHANGED phase

\* Run returns only when told to, between batches, with procCtx cancelled.
Return(w) ==
    /\ phase[w] = "idle"
    /\ context[w] # "live"
    /\ phase' = [phase EXCEPT ![w] = "down"]
    /\ context' = [context EXCEPT ![w] = "cancelled"]

\* The process dies, whatever it was at.
Die(w) ==
    /\ phase[w] # "down"
    /\ phase' = [phase EXCEPT ![w] = "down"]
    /\ context' = [context EXCEPT ![w] = "cancelled"]

\* A new process, a new Run, new contexts
Start(w) ==
    /\ phase[w] = "down"
    /\ phase' = [phase EXCEPT ![w] = "idle"]
    /\ context' = [context EXCEPT ![w] = "live"]

Next ==
    \/ \E w \in Workers :
          Begin(w) \/ End(w) \/ Cancel(w) \/ Return(w) \/ Die(w) \/ Start(w)
    \/ \E S \in SUBSET Workers : Signal(S)

Spec == Init /\ [][Next]_vars
=============================================================================
