-------------------------- MODULE OutboxRepository --------------------------
(***************************************************************************)
(* The table outbox_events and the SQL statements that change it           *)
(* (internal/platform/postgres/outbox_repository.go, the outbox half of    *)
(* event_repository.go and migrations/002).                                *)
(*                                                                         *)
(* A row is its created_at rank: a smaller number was created earlier.     *)
(* Timestamps are kept as distances from the database clock, in ticks:     *)
(*   availableIn[r]    ticks until available_at (0: available_at <= NOW()) *)
(*   processingFor[r]  ticks since processing_at, up to StaleTimeout,      *)
(*                     where a NULL processing_at counts as StaleTimeout.  *)
(* processing_at is read only of PROCESSING rows, and every way into       *)
(* PROCESSING stamps it, so processingFor is kept at 0 elsewhere.          *)
(*                                                                         *)
(* Every statement but the claim is one SQL statement and so one step.     *)
(* The claim is a transaction that holds row locks between its SELECT and  *)
(* its COMMIT; lockedBy[r] is the worker whose claim holds the lock.       *)
(* READ COMMITTED re-evaluates a WHERE clause after waiting for a lock, so *)
(* a statement on a locked row is a step that waits for the lock to go.    *)
(***************************************************************************)
EXTENDS Naturals, FiniteSets

CONSTANTS
    Rows,          \* outbox rows, ordered by created_at
    LegacyRows,    \* rows left in PROCESSING, processing_at NULL, by an older build
    Workers,       \* outbox workers, of one process or of several
    NoWorker,      \* no claim holds the row's lock
    BatchSize,     \* LIMIT of the claim
    StaleTimeout,  \* ticks in PROCESSING before a row is stale; 0: never reclaimed
    MaxDelay       \* bound on a retry delay, in ticks

ASSUME RepositoryAssumption ==
    /\ Rows \subseteq Nat
    /\ LegacyRows \subseteq Rows
    /\ IsFiniteSet(Workers)
    /\ NoWorker \notin Workers
    /\ BatchSize \in Nat \ {0}
    /\ StaleTimeout \in Nat
    /\ MaxDelay \in Nat

VARIABLES
    status,         \* status[r]; "ABSENT" until the row is inserted
    attempts,       \* attempts[r]: failures recorded against r
    availableIn,
    processingFor,
    lockedBy

table == <<status, attempts, availableIn, processingFor, lockedBy>>

Status == {"ABSENT", "PENDING", "PROCESSING", "PUBLISHED", "CLOSE"}

TableTypeOK ==
    /\ status \in [Rows -> Status]
    /\ attempts \in [Rows -> Nat]
    /\ availableIn \in [Rows -> 0..MaxDelay]
    /\ processingFor \in [Rows -> 0..StaleTimeout]
    /\ lockedBy \in [Rows -> Workers \union {NoWorker}]

TableInit ==
    /\ status = [r \in Rows |-> IF r \in LegacyRows THEN "PROCESSING" ELSE "ABSENT"]
    /\ attempts = [r \in Rows |-> 0]
    /\ availableIn = [r \in Rows |-> 0]
    /\ processingFor = [r \in Rows |-> IF r \in LegacyRows THEN StaleTimeout ELSE 0]
    /\ lockedBy = [r \in Rows |-> NoWorker]

Unlocked(r) == lockedBy[r] = NoWorker

-----------------------------------------------------------------------------
(* Statements *)

\* EventRepository.Save, outbox half: the defaults are PENDING, 0 attempts,
\* available at once.
InsertRow(r) ==
    /\ status[r] = "ABSENT"
    /\ status' = [status EXCEPT ![r] = "PENDING"]
    /\ UNCHANGED <<attempts, availableIn, processingFor, lockedBy>>

\* WHERE status = 'PENDING' AND available_at <= NOW() ... SKIP LOCKED
Claimable == {r \in Rows : status[r] = "PENDING" /\ availableIn[r] = 0 /\ Unlocked(r)}

\* ORDER BY created_at LIMIT BatchSize
Oldest(S) == {r \in S : Cardinality({s \in S : s < r}) < BatchSize}

\* SELECT ... FOR UPDATE SKIP LOCKED.  NOW() in the later UPDATE is the start
\* of this transaction, so the age of the claim counts from here.
LockForClaimWithout(w, batch) ==  \* faulty: no FOR UPDATE
    /\ processingFor' = [r \in Rows |-> IF r \in batch THEN 0 ELSE processingFor[r]]
    /\ UNCHANGED <<status, attempts, availableIn, lockedBy>>
LockForClaim(w, batch) ==
    /\ lockedBy' = [r \in Rows |-> IF r \in batch THEN w ELSE lockedBy[r]]
    /\ processingFor' = [r \in Rows |-> IF r \in batch THEN 0 ELSE processingFor[r]]
    /\ UNCHANGED <<status, attempts, availableIn>>

Unlock(w) == lockedBy' = [r \in Rows |-> IF lockedBy[r] = w THEN NoWorker ELSE lockedBy[r]]

\* UPDATE ... SET status = 'PROCESSING' WHERE id = ANY(ids), and COMMIT.  The
\* rows are named by id alone: only their locks keep others away.
CommitClaim(w, ids) ==
    /\ status' = [r \in Rows |-> IF r \in ids THEN "PROCESSING" ELSE status[r]]
    /\ Unlock(w)
    /\ UNCHANGED <<attempts, availableIn, processingFor>>

\* ROLLBACK, by the deferred call or by the server when the connection dies
RollbackClaim(w) ==
    /\ processingFor' = [r \in Rows |-> IF lockedBy[r] = w THEN 0 ELSE processingFor[r]]
    /\ Unlock(w)
    /\ UNCHANGED <<status, attempts, availableIn>>

\* WHERE status = 'PROCESSING' AND processing_at <= NOW() - StaleTimeout
StaleAtOnce == {r \in Rows : status[r] = "PROCESSING"}  \* faulty: no age
StaleNever == {r \in Rows : status[r] = "PENDING" /\ processingFor[r] >= StaleTimeout}  \* faulty: wrong status
Stale == {r \in Rows : status[r] = "PROCESSING" /\ processingFor[r] >= StaleTimeout}

\* PENDING again, available now; attempts is not touched.
ReclaimStale ==
    /\ status' = [r \in Rows |-> IF r \in Stale THEN "PENDING" ELSE status[r]]
    /\ availableIn' = [r \in Rows |-> IF r \in Stale THEN 0 ELSE availableIn[r]]
    /\ processingFor' = [r \in Rows |-> IF r \in Stale THEN 0 ELSE processingFor[r]]
    /\ UNCHANGED <<attempts, lockedBy>>

\* The one statement with no WHERE status = 'PROCESSING'.
MarkPublished(r) ==
    /\ Unlocked(r)
    /\ status' = [status EXCEPT ![r] = "PUBLISHED"]
    /\ processingFor' = [processingFor EXCEPT ![r] = 0]
    /\ UNCHANGED <<attempts, availableIn, lockedBy>>

\* The status guard that MarkFailed and MarkClose put in their WHERE clause
MarkableAlways(r) == TRUE                    \* faulty: no guard
MarkableIfPending(r) == status[r] = "PENDING" \* faulty: what its error message says
Markable(r) == status[r] = "PROCESSING"

\* delay is what is left of the backoff when the statement runs.
MarkFailed(r, delay) ==
    /\ Unlocked(r)
    /\ IF Markable(r)
       THEN /\ status' = [status EXCEPT ![r] = "PENDING"]
            /\ attempts' = [attempts EXCEPT ![r] = @ + 1]
            /\ availableIn' = [availableIn EXCEPT ![r] = delay]
            /\ processingFor' = [processingFor EXCEPT ![r] = 0]
            /\ UNCHANGED lockedBy
       ELSE UNCHANGED table  \* no row affected: an error for the caller to log

MarkClose(r) ==
    /\ Unlocked(r)
    /\ IF Markable(r)
       THEN /\ status' = [status EXCEPT ![r] = "CLOSE"]
            /\ processingFor' = [processingFor EXCEPT ![r] = 0]
            /\ UNCHANGED <<attempts, availableIn, lockedBy>>
       ELSE UNCHANGED table

\* NOW() moves on by one tick.
AdvanceClock ==
    /\ availableIn' = [r \in Rows |-> IF availableIn[r] > 0 THEN availableIn[r] - 1 ELSE 0]
    /\ processingFor' = [r \in Rows |->
           IF /\ status[r] = "PROCESSING" \/ ~Unlocked(r)
              /\ processingFor[r] < StaleTimeout
           THEN processingFor[r] + 1 ELSE processingFor[r]]
    /\ UNCHANGED <<status, attempts, lockedBy>>
=============================================================================
