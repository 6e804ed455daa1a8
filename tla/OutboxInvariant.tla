--------------------------- MODULE OutboxInvariant ---------------------------
(***************************************************************************)
(* The inductive invariants behind the safety properties of                *)
(* OutboxProperties.  None of those properties is inductive: each depends  *)
(* on what the workers hold in memory, and these say what that is.         *)
(***************************************************************************)
EXTENDS OutboxProperties

\* Only a worker inside process has a batch.
BatchInv ==
    \A w \in Workers : pc[w] \in {"down", "idle", "reclaim", "claim"} => todo[w] = {}

\* The row locks are those of the claims that are open, and a locked row is
\* still PENDING for everyone else.
LockInv ==
    \A r \in Rows :
        /\ \A w \in Workers : lockedBy[r] = w <=> pc[w] = "commit" /\ r \in todo[w]
        /\ ~Unlocked(r) => status[r] = "PENDING"

\* A worker works only on rows the table has.
RowInv ==
    \A w \in Workers : \A r \in todo[w] : status[r] # "ABSENT"

\* A worker's copy of attempts may be old, never ahead.
SnapInv ==
    \A w \in Workers : \A r \in todo[w] : snap[w][r] <= attempts[r]

\* What a worker is about to record is true.
AckInv ==
    \A w \in Workers, r \in Rows :
        pc[w] = "markPublished" /\ IsNext(w, r) => delivered[r] > 0
CloseInv ==
    \A w \in Workers, r \in Rows :
        pc[w] = "markClose" /\ IsNext(w, r) => snap[w][r] >= MaxRetries
FailInv ==
    \A w \in Workers, r \in Rows :
        pc[w] = "markFailed" /\ IsNext(w, r) => snap[w][r] < MaxRetries

\* The workers that may still record a failure of r
MayFail(r) == {w \in Workers : r \in todo[w] /\ snap[w][r] < MaxRetries}

\* The failures recorded and those that still may be stay within bounds.
BudgetInv ==
    \A r \in Rows :
        attempts[r] + Cardinality(MayFail(r)) + 1 <= MaxRetries + Cardinality(Workers)

\* A worker that is down has the contexts of its next Run, which are new.
FreshInv == \A w \in Workers : pc[w] = "down" => ctx[w] = "live"

FleetInv ==
    /\ TypeOK
    /\ BatchInv
    /\ LockInv
    /\ RowInv
    /\ SnapInv
    /\ AckInv
    /\ CloseInv
    /\ FailInv
    /\ PublishedWasDelivered
    /\ CloseAfterBudget
    /\ BudgetInv

-----------------------------------------------------------------------------
(* Where reclaim is off, or calls are bounded and StaleTimeout is longer   *)
(* than a whole batch: the claim's COMMIT and two calls for each event.    *)

Prompt ==
    \/ StaleTimeout = 0
    \/ CallBound > 0 /\ StaleTimeout > CallBound * (2 * BatchSize + 1)

\* Calls worker w has finished since its claim began
CallsDone(w) ==
    CASE pc[w] = "publish" -> 2 * (BatchSize - Cardinality(todo[w])) + 1
      [] pc[w] \in Marks -> 2 * (BatchSize - Cardinality(todo[w])) + 2
      [] OTHER -> 0

\* An event in hand is in no other hands, is as it was when it was claimed,
\* and is no older than the calls its worker has made.
HoldInv ==
    \A w \in Workers : \A r \in todo[w] :
        /\ \A v \in Workers : r \in todo[v] => v = w
        /\ snap[w][r] = attempts[r]
        /\ pc[w] # "commit" => status[r] = "PROCESSING"

YoungBatch(w) ==
    /\ IsFiniteSet(todo[w]) /\ Cardinality(todo[w]) <= BatchSize
    /\ StaleTimeout = 0 => pc[w] # "reclaim"
    /\ StaleTimeout > 0 =>
          \A r \in todo[w] : processingFor[r] <= busy[w] + CallBound * CallsDone(w)

AgeInv == \A w \in Workers : YoungBatch(w)

ExactInv ==
    \A r \in Rows :
        /\ attempts[r] <= MaxRetries
        /\ status[r] = "CLOSE" => attempts[r] = MaxRetries

PromptInv == FleetInv /\ HoldInv /\ AgeInv /\ ExactInv

\* A cancelled worker may still publish what it holds, once, and record nothing.
CancelledHolders(r) == {w \in Workers : ctx[w] = "cancelled" /\ r \in todo[w]}

\* The copy of the last publish of r has been or is about to be recorded.
Answered(r) ==
    \/ status[r] \in {"PUBLISHED", "CLOSE"}
    \/ \E w \in Workers : pc[w] \in Marks /\ IsNext(w, r)

\* What went wrong pays for every copy but one that has been answered.
Copies(r) == delivered[r] + Cardinality(CancelledHolders(r))
Paid(r) == disruptions + attempts[r] + (IF Answered(r) THEN 1 ELSE 0)
CopiesInv == \A r \in Rows : Copies(r) <= Paid(r)
=============================================================================
