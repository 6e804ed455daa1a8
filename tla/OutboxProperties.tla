--------------------------- MODULE OutboxProperties ---------------------------
(***************************************************************************)
(* What the fleet of OutboxWorker must do, and what the repository's       *)
(* documents say it does.                                                  *)
(***************************************************************************)
EXTENDS OutboxWorker

Holders(r) == {w \in Workers : r \in todo[w]}

-----------------------------------------------------------------------------
(* Safety, whatever crashes, times out, is reclaimed or arrives late *)

\* A row is PUBLISHED only if the broker holds a copy of it: no path to
\* MarkPublished goes around the acknowledgement (outbox_worker.go:264-371).
PublishedWasDelivered ==
    \A r \in Rows : status[r] = "PUBLISHED" => delivered[r] > 0

\* A row is closed only after MaxRetries failures were recorded against it,
\* although the worker decides on the copy of attempts it read when it claimed
\* (outbox_worker.go:278).
CloseAfterBudget ==
    \A r \in Rows : status[r] = "CLOSE" => attempts[r] >= MaxRetries

\* The retry budget is overrun by at most one failure for every other worker,
\* however often slow workers and reclaim race for the same row.
AttemptsBounded ==
    \A r \in Rows : attempts[r] + 1 <= MaxRetries + Cardinality(Workers)

\* A PUBLISHED row never changes again: late MarkFailed and MarkClose calls of
\* a worker that lost the row find no PROCESSING row, and a claim's UPDATE,
\* which has no status guard, is protected by its row locks.
PublishedIsFinal ==
    [][\A r \in Rows : status[r] = "PUBLISHED" => status'[r] = "PUBLISHED"]_vars

Phase(r) ==
    CASE status[r] = "ABSENT" -> "absent"
      [] status[r] \in {"PENDING", "PROCESSING"} -> "queued"
      [] status[r] = "PUBLISHED" -> "published"
      [] status[r] = "CLOSE" -> "closed"

Contract == INSTANCE OutboxContract WITH
    phase <- [r \in Rows |-> Phase(r)],
    failures <- attempts,
    copies <- delivered

\* The fleet keeps the promise of the outbox: every step is a step of
\* OutboxContract or leaves what it speaks of alone.
KeepsContract == Contract!Spec

\* Where Run is, and its contexts; of a Run that has ended both are cancelled.
RunPhase(w) == IF pc[w] \in Calls THEN "process" ELSE pc[w]
RunContext(w) == IF pc[w] = "down" THEN "cancelled" ELSE ctx[w]

Lifecycle == INSTANCE RunContract WITH
    phase <- [w \in Workers |-> RunPhase(w)],
    context <- [w \in Workers |-> RunContext(w)]

\* The contexts the fleet works under are those Run provides: no batch is begun
\* after the signal and none is cut before it (outbox_worker.go:120-211).
ObeysRunContract == Lifecycle!Spec

-----------------------------------------------------------------------------
(* Safety, where calls are bounded or reclaim is off *)

\* No two workers have the same event in hand.
ExclusiveHold == \A r \in Rows : Cardinality(Holders(r)) <= 1

\* Delivery is at least once, and no more often than something went wrong
\* (ARCHITECTURE.md:144-166): every copy of an event but the first is owed to a
\* failure on record, or to a crash, a cancellation or a failed statement, which
\* is owed at most one copy of each event.  A write that expires is neither.
CopiesAccounted == \A r \in Rows : delivered[r] <= 1 + attempts[r] + disruptions

\* The broker gets no event twice.
DeliveredOnce == \A r \in Rows : delivered[r] <= 1

\* Workers that are not killed never strand a row: one in PROCESSING is in
\* the batch of some worker, through a graceful shutdown too.
ProcessingIsHeld ==
    \A r \in Rows : status[r] = "PROCESSING" => Holders(r) # {}

-----------------------------------------------------------------------------
(* Liveness *)

Unresolved(r) == status[r] \in {"PENDING", "PROCESSING"}

\* No accepted row circulates for ever.
EventuallyResolved ==
    \A r \in Rows : Unresolved(r) ~> ~Unresolved(r)

\* A row no Publish accepts ends in CLOSE (publisher.go:22-24).
PoisonIsClosed ==
    \A r \in PoisonRows : Unresolved(r) ~> status[r] = "CLOSE"

\* A row the broker accepts ends in PUBLISHED, also behind one it does not, and
\* also when a crash or a lost COMMIT reply has left it in PROCESSING.
HealthyIsPublished ==
    \A r \in Rows \ PoisonRows : Unresolved(r) ~> status[r] = "PUBLISHED"

\* A worker told to stop stops, once its batch is done or cancelled.
ShutdownCompletes ==
    \A w \in Workers : ctx[w] # "live" ~> pc[w] = "down"

-----------------------------------------------------------------------------
(* What the documents say and the code does not keep *)

\* TESTREADME.md:125-128: a closed row was tried MaxRetries times, exactly.
ClosedAtExactBudget ==
    \A r \in Rows : status[r] = "CLOSE" => attempts[r] = MaxRetries
=============================================================================
