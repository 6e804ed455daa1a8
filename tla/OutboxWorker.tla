----------------------------- MODULE OutboxWorker -----------------------------
(***************************************************************************)
(* The fleet of outbox workers over one table and one broker               *)
(* (internal/event/application/outbox_worker.go).  Each worker repeats     *)
(*                                                                         *)
(*   ticker -> ReclaimStale -> ClaimPending -> for each event of the batch *)
(*             Publish -> MarkPublished | MarkFailed | MarkClose           *)
(*                                                                         *)
(* and every arrow is a step another worker, the clock, a crash or the     *)
(* shutdown signal may come between.  Workers share nothing but the table  *)
(* and the broker, so those of one process and those of several replicas   *)
(* behave alike; a process that dies is a crash of each of its workers.    *)
(*                                                                         *)
(*   pc[w]      the call worker w makes next, or is making                 *)
(*   todo[w]    the events of its batch it has not finished                *)
(*   snap[w]    event.Attempts of each of them, as the claim read it       *)
(*   ctx[w]     "live"; "stopping": ctx of Run cancelled, procCtx not;     *)
(*              "cancelled": procCtx cancelled too                         *)
(*   busy[w]    ticks spent in the current call                            *)
(*   delivered  copies of each row the broker holds                        *)
(*   disruptions  how many of the bounded disruptions have happened        *)
(***************************************************************************)
EXTENDS OutboxRepository

CONSTANTS
    MaxRetries,       \* maxRetries of NewOutboxWorker
    MaxCopies,        \* copies are counted up to this bound
    CallBound,        \* ticks a call of a worker may take; 0: no bound
    Disruptions,      \* what may go wrong: see Disrupt
    MaxDisruptions,   \* bound on how often it goes wrong
    PublisherFaults,  \* how Publish may fail: see PublishRejected, PublishAborted
    PoisonRows        \* rows whose payload no Publish accepts (ErrEmptyPayload)

ASSUME WorkerAssumption ==
    /\ Workers # {}
    /\ MaxRetries \in Nat
    /\ MaxCopies \in Nat \ {0}
    /\ CallBound \in Nat
    /\ Disruptions \subseteq {"crash", "shutdown", "forceCancel", "dbError"}
    /\ MaxDisruptions \in Nat
    /\ PublisherFaults \subseteq {"reject", "lostAck", "expiry"}
    /\ PoisonRows \subseteq Rows

VARIABLES pc, todo, snap, ctx, busy, delivered, disruptions

workers == <<pc, todo, snap, ctx, busy>>
vars == <<table, workers, delivered, disruptions>>

Marks == {"markPublished", "markFailed", "markClose"}
Calls == {"reclaim", "claim", "commit", "publish"} \union Marks

TypeOK ==
    /\ TableTypeOK
    /\ pc \in [Workers -> Calls \union {"down", "idle"}]
    /\ todo \in [Workers -> SUBSET Rows]
    /\ snap \in [Workers -> [Rows -> Nat]]
    /\ ctx \in [Workers -> {"live", "stopping", "cancelled"}]
    /\ busy \in [Workers -> 0..CallBound]
    /\ delivered \in [Rows -> 0..MaxCopies]
    /\ disruptions \in 0..MaxDisruptions

NoSnap == [r \in Rows |-> 0]

Init ==
    /\ TableInit
    /\ pc = [w \in Workers |-> "idle"]
    /\ todo = [w \in Workers |-> {}]
    /\ snap = [w \in Workers |-> NoSnap]
    /\ ctx = [w \in Workers |-> "live"]
    /\ busy = [w \in Workers |-> 0]
    /\ delivered = [r \in Rows |-> 0]
    /\ disruptions = 0

-----------------------------------------------------------------------------
(* Control of one worker *)

\* Worker w goes on to call `to`, which starts now.
Goto(w, to) ==
    /\ pc' = [pc EXCEPT ![w] = to]
    /\ busy' = [busy EXCEPT ![w] = 0]

\* r is the event the loop is at: the batch is in created_at order.
IsNext(w, r) == r \in todo[w] /\ \A s \in todo[w] : r <= s

\* `continue`: the next event of the batch, or back to the select of Run
NextEventReturns(w, r) ==  \* faulty: return
    /\ todo' = [todo EXCEPT ![w] = {}]
    /\ snap' = [snap EXCEPT ![w] = NoSnap]
    /\ Goto(w, "idle")
NextEvent(w, r) ==
    /\ todo' = [todo EXCEPT ![w] = @ \ {r}]
    /\ snap' = [snap EXCEPT ![w][r] = 0]
    /\ Goto(w, IF todo[w] = {r} THEN "idle" ELSE "publish")

\* process returns, or the worker dies: what is left of the batch is dropped.
DropBatch(w, to) ==
    /\ todo' = [todo EXCEPT ![w] = {}]
    /\ snap' = [snap EXCEPT ![w] = NoSnap]
    /\ Goto(w, to)

Disrupt(kind) ==
    /\ kind \in Disruptions
    /\ disruptions < MaxDisruptions
    /\ disruptions' = disruptions + 1

\* A statement takes effect and its caller is told so.  Once procCtx is
\* cancelled no statement is started.
Succeeds(w) == ctx[w] # "cancelled" /\ UNCHANGED disruptions

\* A statement fails without effect: procCtx is cancelled, or the database
\* is not reachable.  One that takes effect and loses its reply leads process
\* the same way as one that succeeds, except in the claim.
Errs(w) ==
    \/ ctx[w] = "cancelled" /\ UNCHANGED disruptions
    \/ Disrupt("dbError")

-----------------------------------------------------------------------------
(* One action per step of a worker *)

\* case <-ticker.C, with the check of ctx.Err(); reclaimStale is skipped when
\* the stale timeout is zero.
TickerFiresAlways(w) ==  \* faulty: ctx.Err() is not checked
    /\ pc[w] = "idle"
    /\ Goto(w, IF StaleTimeout = 0 THEN "claim" ELSE "reclaim")
    /\ UNCHANGED <<table, todo, snap, ctx, delivered, disruptions>>
TickerFires(w) ==
    /\ pc[w] = "idle"
    /\ ctx[w] = "live"
    /\ Goto(w, IF StaleTimeout = 0 THEN "claim" ELSE "reclaim")
    /\ UNCHANGED <<table, todo, snap, ctx, delivered, disruptions>>

\* A reclaim that fails is logged and claiming goes on.
Reclaim(w) ==
    /\ pc[w] = "reclaim"
    /\ \/ Succeeds(w) /\ ReclaimStale
       \/ Errs(w) /\ UNCHANGED table
    /\ Goto(w, "claim")
    /\ UNCHANGED <<todo, snap, ctx, delivered>>

\* ClaimPending up to its SELECT
ClaimSelect(w) ==
    /\ pc[w] = "claim"
    /\ LET batch == Oldest(Claimable)
       IN  /\ batch # {}
           /\ Succeeds(w)
           /\ LockForClaim(w, batch)
           /\ todo' = [todo EXCEPT ![w] = batch]
           /\ snap' = [snap EXCEPT ![w] =
                          [r \in Rows |-> IF r \in batch THEN attempts[r] ELSE 0]]
    /\ Goto(w, "commit")
    /\ UNCHANGED <<ctx, delivered>>

\* Nothing to claim, or Begin or SELECT fails
ClaimNothing(w) ==
    /\ pc[w] = "claim"
    /\ \/ Claimable = {} /\ Succeeds(w)
       \/ Errs(w)
    /\ Goto(w, "idle")
    /\ UNCHANGED <<table, todo, snap, ctx, delivered>>

ClaimCommit(w) ==
    /\ pc[w] = "commit"
    /\ Succeeds(w)
    /\ CommitClaim(w, todo[w])
    /\ Goto(w, "publish")
    /\ UNCHANGED <<todo, snap, ctx, delivered>>

\* UPDATE or COMMIT fails, and process returns.  A COMMIT whose reply was lost
\* has left the rows in PROCESSING with nobody to publish them.
ClaimFails(w) ==
    /\ pc[w] = "commit"
    /\ Errs(w)
    /\ RollbackClaim(w) \/ CommitClaim(w, todo[w])
    /\ DropBatch(w, "idle")
    /\ UNCHANGED <<ctx, delivered>>

\* The broker stores a copy.
Deliver(r) ==
    delivered' = [delivered EXCEPT ![r] = IF @ < MaxCopies THEN @ + 1 ELSE @]

PublishAcked(w, r) ==
    /\ pc[w] = "publish"
    /\ IsNext(w, r)
    /\ r \notin PoisonRows
    /\ Deliver(r)
    /\ Goto(w, "markPublished")
    /\ UNCHANGED <<table, todo, snap, ctx, disruptions>>

\* event.Attempts >= maxRetries, of the claimed copy and not of the row
BudgetSpentEarly(w, r) == snap[w][r] + 1 >= MaxRetries  \* faulty: off by one
BudgetSpentLate(w, r) == snap[w][r] > MaxRetries        \* faulty: off by one
BudgetSpent(w, r) == snap[w][r] >= MaxRetries

AfterRejectionFallsThrough(w, r) == "markPublished"  \* faulty: no `continue`
AfterRejection(w, r) == IF BudgetSpent(w, r) THEN "markClose" ELSE "markFailed"

\* Publish returns an error that is not a context error: the payload is
\* refused, the broker refuses ("reject"), or it stored the message and the
\* acknowledgement was lost ("lostAck").
PublishRejected(w, r) ==
    /\ pc[w] = "publish"
    /\ IsNext(w, r)
    /\ \/ r \in PoisonRows /\ UNCHANGED delivered
       \/ r \notin PoisonRows /\ "reject" \in PublisherFaults /\ UNCHANGED delivered
       \/ r \notin PoisonRows /\ "lostAck" \in PublisherFaults /\ Deliver(r)
    /\ Goto(w, AfterRejection(w, r))
    /\ UNCHANGED <<table, todo, snap, ctx, disruptions>>

\* Publish returns context.Canceled, or context.DeadlineExceeded from a
\* time-out of the client ("expiry"): process returns at once.  The message
\* may have been stored all the same.
PublishAborted(w, r) ==
    /\ pc[w] = "publish"
    /\ IsNext(w, r)
    /\ r \notin PoisonRows
    /\ ctx[w] = "cancelled" \/ "expiry" \in PublisherFaults
    /\ Deliver(r) \/ UNCHANGED delivered
    /\ DropBatch(w, "idle")
    /\ UNCHANGED <<table, ctx, disruptions>>

\* The statement that records the outcome of r.  A failure to record it is
\* logged and the loop goes on.
Record(w, r, step, statement) ==
    /\ pc[w] = step
    /\ IsNext(w, r)
    /\ \/ Succeeds(w) /\ statement
       \/ Errs(w) /\ UNCHANGED table
    /\ NextEvent(w, r)
    /\ UNCHANGED <<ctx, delivered>>

RecordPublished(w, r) == Record(w, r, "markPublished", MarkPublished(r))

\* What is left of RetryDelay when MarkFailed runs
Backoff == 0..MaxDelay
RecordFailed(w, r) ==
    \E delay \in Backoff : Record(w, r, "markFailed", MarkFailed(r, delay))
RecordClosed(w, r) == Record(w, r, "markClose", MarkClose(r))

\* case <-ctx.Done(): Run returns.
Stop(w) ==
    /\ pc[w] = "idle"
    /\ ctx[w] # "live"
    /\ Goto(w, "down")
    /\ ctx' = [ctx EXCEPT ![w] = "live"]
    /\ UNCHANGED <<table, todo, snap, delivered, disruptions>>

Recording(w) ==
    \E r \in Rows : RecordPublished(w, r) \/ RecordFailed(w, r) \/ RecordClosed(w, r)

WorkerStep(w) ==
    \/ TickerFires(w)
    \/ Reclaim(w)
    \/ ClaimSelect(w)
    \/ ClaimNothing(w)
    \/ ClaimCommit(w)
    \/ ClaimFails(w)
    \/ \E r \in Rows :
          \/ PublishAcked(w, r)
          \/ PublishRejected(w, r)
          \/ PublishAborted(w, r)
    \/ Recording(w)
    \/ Stop(w)

-----------------------------------------------------------------------------
(* What happens to a worker, and around it *)

\* SIGTERM, or a failed HTTP server, cancels ctx of Run.
Shutdown(w) ==
    /\ pc[w] # "down"
    /\ ctx[w] = "live"
    /\ Disrupt("shutdown")
    /\ ctx' = [ctx EXCEPT ![w] = "stopping"]
    /\ UNCHANGED <<table, pc, todo, snap, busy, delivered>>

\* shutdownTimeout is over: the watcher calls procCancel.
ForceCancel(w) ==
    /\ ctx[w] = "stopping"
    /\ Disrupt("forceCancel")
    /\ ctx' = [ctx EXCEPT ![w] = "cancelled"]
    /\ UNCHANGED <<table, pc, todo, snap, busy, delivered>>

\* The process dies.  The server rolls an open claim back; what was claimed
\* stays in PROCESSING.
Crash(w) ==
    /\ pc[w] # "down"
    /\ Disrupt("crash")
    /\ RollbackClaim(w)
    /\ DropBatch(w, "down")
    /\ ctx' = [ctx EXCEPT ![w] = "live"]
    /\ UNCHANGED delivered

\* A new process is started in its place.
Restart(w) ==
    /\ pc[w] = "down"
    /\ Goto(w, "idle")
    /\ UNCHANGED <<table, todo, snap, ctx, delivered, disruptions>>

Insert(r) ==
    /\ InsertRow(r)
    /\ UNCHANGED <<workers, delivered, disruptions>>

\* Time passes, for everyone.  With a CallBound, no call takes longer.
Tick ==
    /\ AdvanceClock
    /\ IF CallBound = 0
       THEN UNCHANGED busy
       ELSE /\ \A w \in Workers : pc[w] \in Calls => busy[w] < CallBound
            /\ busy' = [w \in Workers |-> IF pc[w] \in Calls THEN busy[w] + 1 ELSE busy[w]]
    /\ UNCHANGED <<pc, todo, snap, ctx, delivered, disruptions>>

Next ==
    \/ \E w \in Workers :
          WorkerStep(w) \/ Shutdown(w) \/ ForceCancel(w) \/ Crash(w) \/ Restart(w)
    \/ \E r \in Rows : Insert(r)
    \/ Tick

Spec == Init /\ [][Next]_vars

\* A worker that can go on does, a dead one is replaced, and time passes.  A
\* statement that waits for a row lock gets its turn: PostgreSQL queues it, and
\* the next claim skips the row.  Nothing obliges a client to post, a signal to
\* come or a call to fail.
FairSpec ==
    /\ Spec
    /\ WF_vars(Tick)
    /\ \A w \in Workers :
          WF_vars(WorkerStep(w)) /\ SF_vars(Recording(w)) /\ WF_vars(Restart(w))
=============================================================================
