-------------------------- MODULE OutboxWorkerProofs --------------------------
(***************************************************************************)
(* Proofs about OutboxWorker, for any set of rows and workers and any      *)
(* value of the other constants.                                           *)
(***************************************************************************)
EXTENDS OutboxInvariant, FiniteSetTheorems, TLAPS

-----------------------------------------------------------------------------
(* Type correctness *)

\* The fleet starts with every variable in its type.
LEMMA TypeInit == Init => TypeOK
BY RepositoryAssumption, WorkerAssumption
   DEF Init, TableInit, TypeOK, TableTypeOK, Status, NoSnap, Calls

WorkersTypeOK ==
    /\ pc \in [Workers -> Calls \union {"down", "idle"}]
    /\ todo \in [Workers -> SUBSET Rows]
    /\ snap \in [Workers -> [Rows -> Nat]]
    /\ ctx \in [Workers -> {"live", "stopping", "cancelled"}]
    /\ busy \in [Workers -> 0..CallBound]

\* Moving on to the next event of the batch, or ending it, keeps the types of
\* the workers: the loop of process.
LEMMA TypeNextEvent ==
    ASSUME TypeOK, NEW w \in Workers, NEW r \in Rows, NextEvent(w, r), UNCHANGED ctx
    PROVE  WorkersTypeOK'
BY WorkerAssumption DEF WorkersTypeOK, TypeOK, NextEvent, Goto, Calls, Marks

\* Every step of a worker keeps every variable in its type.
LEMMA TypeWorkerStep ==
    ASSUME TypeOK, NEW w \in Workers, WorkerStep(w)
    PROVE  TypeOK'
<1> USE RepositoryAssumption, WorkerAssumption
        DEF TypeOK, TableTypeOK, table, Status, Calls, Marks, Goto
<1>1. CASE TickerFires(w)
  BY <1>1 DEF TickerFires
<1>2. CASE Reclaim(w)
  BY <1>2 DEF Reclaim, Succeeds, Errs, Disrupt, ReclaimStale, Stale
<1>3. CASE ClaimSelect(w)
  BY <1>3 DEF ClaimSelect, Succeeds, LockForClaim, Oldest, Claimable
<1>4. CASE ClaimNothing(w)
  BY <1>4 DEF ClaimNothing, Succeeds, Errs, Disrupt
<1>5. CASE ClaimCommit(w)
  BY <1>5 DEF ClaimCommit, Succeeds, CommitClaim, Unlock
<1>6. CASE ClaimFails(w)
  BY <1>6 DEF ClaimFails, Errs, Disrupt, CommitClaim, RollbackClaim, Unlock, DropBatch, NoSnap
<1>7. ASSUME NEW r \in Rows, PublishAcked(w, r) PROVE TypeOK'
  BY <1>7 DEF PublishAcked, Deliver
<1>8. ASSUME NEW r \in Rows, PublishRejected(w, r) PROVE TypeOK'
  BY <1>8 DEF PublishRejected, Deliver, AfterRejection
<1>9. ASSUME NEW r \in Rows, PublishAborted(w, r) PROVE TypeOK'
  BY <1>9 DEF PublishAborted, Deliver, DropBatch, NoSnap
<1>10. ASSUME NEW r \in Rows, RecordPublished(w, r) PROVE TypeOK'
  <2>1. WorkersTypeOK'
    BY <1>10, TypeNextEvent DEF RecordPublished, Record
  <2>2. TableTypeOK'
    BY <1>10 DEF RecordPublished, Record, MarkPublished
  <2>3. delivered' \in [Rows -> 0..MaxCopies] /\ disruptions' \in 0..MaxDisruptions
    BY <1>10 DEF RecordPublished, Record, Succeeds, Errs, Disrupt
  <2> QED
    BY <2>1, <2>2, <2>3 DEF WorkersTypeOK
<1>11. ASSUME NEW r \in Rows, RecordFailed(w, r) PROVE TypeOK'
  <2>1. WorkersTypeOK'
    BY <1>11, TypeNextEvent DEF RecordFailed, Record
  <2>2. TableTypeOK'
    BY <1>11 DEF RecordFailed, Backoff, Record, MarkFailed
  <2>3. delivered' \in [Rows -> 0..MaxCopies] /\ disruptions' \in 0..MaxDisruptions
    BY <1>11 DEF RecordFailed, Record, Succeeds, Errs, Disrupt
  <2> QED
    BY <2>1, <2>2, <2>3 DEF WorkersTypeOK
<1>12. ASSUME NEW r \in Rows, RecordClosed(w, r) PROVE TypeOK'
  <2>1. WorkersTypeOK'
    BY <1>12, TypeNextEvent DEF RecordClosed, Record
  <2>2. TableTypeOK'
    BY <1>12 DEF RecordClosed, Record, MarkClose
  <2>3. delivered' \in [Rows -> 0..MaxCopies] /\ disruptions' \in 0..MaxDisruptions
    BY <1>12 DEF RecordClosed, Record, Succeeds, Errs, Disrupt
  <2> QED
    BY <2>1, <2>2, <2>3 DEF WorkersTypeOK
<1>13. CASE Stop(w)
  BY <1>13 DEF Stop
<1> QED
  BY <1>1, <1>2, <1>3, <1>4, <1>5, <1>6, <1>7, <1>8, <1>9, <1>10, <1>11, <1>12, <1>13
     DEF WorkerStep, Recording

\* So does everything that happens around the workers.
LEMMA TypeNext == TypeOK /\ [Next]_vars => TypeOK'
<1> USE RepositoryAssumption, WorkerAssumption
        DEF TypeOK, TableTypeOK, table, workers, Status, Calls, Marks, Goto
<1> SUFFICES ASSUME TypeOK, [Next]_vars PROVE TypeOK'
  OBVIOUS
<1>1. ASSUME NEW w \in Workers, WorkerStep(w) PROVE TypeOK'
  BY <1>1, TypeWorkerStep
<1>2. ASSUME NEW w \in Workers, Shutdown(w) PROVE TypeOK'
  BY <1>2 DEF Shutdown, Disrupt
<1>3. ASSUME NEW w \in Workers, ForceCancel(w) PROVE TypeOK'
  BY <1>3 DEF ForceCancel, Disrupt
<1>4. ASSUME NEW w \in Workers, Crash(w) PROVE TypeOK'
  BY <1>4 DEF Crash, Disrupt, RollbackClaim, Unlock, DropBatch, NoSnap
<1>5. ASSUME NEW w \in Workers, Restart(w) PROVE TypeOK'
  BY <1>5 DEF Restart
<1>6. ASSUME NEW r \in Rows, Insert(r) PROVE TypeOK'
  BY <1>6 DEF Insert, InsertRow
<1>7. CASE Tick
  BY <1>7 DEF Tick, AdvanceClock, Unlocked
<1>8. CASE UNCHANGED vars
  BY <1>8 DEF vars
<1> QED
  BY <1>1, <1>2, <1>3, <1>4, <1>5, <1>6, <1>7, <1>8 DEF Next

\* Every variable of the fleet keeps its type.
THEOREM TypeCorrect == Spec => []TypeOK
<1>1. Init => TypeOK
  BY TypeInit
<1>2. TypeOK /\ [Next]_vars => TypeOK'
  BY TypeNext
<1> QED
  BY <1>1, <1>2, PTL DEF Spec

-----------------------------------------------------------------------------
(* The invariants *)

CoreInv ==
    /\ BatchInv
    /\ LockInv
    /\ RowInv
    /\ SnapInv
    /\ AckInv
    /\ CloseInv
    /\ FailInv
    /\ PublishedWasDelivered
    /\ CloseAfterBudget

\* Every statement a worker makes keeps what the workers hold in memory true of
\* the table: batches, row locks, snapshots and what is about to be recorded.
LEMMA CoreWorkerStep ==
    ASSUME TypeOK, CoreInv, NEW w \in Workers, WorkerStep(w), TypeOK'
    PROVE  CoreInv'
<1> USE RepositoryAssumption, WorkerAssumption
        DEF CoreInv, BatchInv, LockInv, RowInv, SnapInv, AckInv, CloseInv, FailInv,
            PublishedWasDelivered, CloseAfterBudget, IsNext, Unlocked,
            TypeOK, TableTypeOK, table, Status, Calls, Marks, Goto
<1>1. CASE TickerFires(w)
  BY <1>1 DEF TickerFires
<1>2. CASE Reclaim(w)
  BY <1>2 DEF Reclaim, Succeeds, ReclaimStale, Stale
<1>3. CASE ClaimSelect(w)
  <2> DEFINE batch == Oldest(Claimable)
  <2>1. /\ batch \subseteq Rows
        /\ \A r \in batch : status[r] = "PENDING" /\ lockedBy[r] = NoWorker
    BY DEF Oldest, Claimable
  <2>2. /\ pc[w] = "claim" /\ pc' = [pc EXCEPT ![w] = "commit"]
        /\ todo' = [todo EXCEPT ![w] = batch]
        /\ snap' = [snap EXCEPT ![w] =
                      [r \in Rows |-> IF r \in batch THEN attempts[r] ELSE 0]]
        /\ lockedBy' = [r \in Rows |-> IF r \in batch THEN w ELSE lockedBy[r]]
        /\ UNCHANGED <<status, attempts, delivered>>
    BY <1>3 DEF ClaimSelect, LockForClaim
  <2> HIDE DEF batch
  <2>3. BatchInv' /\ LockInv' /\ RowInv'
    BY <2>1, <2>2
  <2>4. SnapInv' /\ AckInv' /\ CloseInv' /\ FailInv'
    BY <2>1, <2>2
  <2> QED
    BY <2>2, <2>3, <2>4
<1>4. CASE ClaimNothing(w)
  BY <1>4 DEF ClaimNothing
<1>5. CASE ClaimCommit(w)
  <2>1. BatchInv' /\ LockInv' /\ RowInv' /\ SnapInv'
    BY <1>5 DEF ClaimCommit, CommitClaim, Unlock
  <2>2. AckInv' /\ CloseInv' /\ FailInv'
    BY <1>5 DEF ClaimCommit, CommitClaim, Unlock
  <2>3. PublishedWasDelivered' /\ CloseAfterBudget'
    BY <1>5 DEF ClaimCommit, CommitClaim, Unlock
  <2> QED
    BY <2>1, <2>2, <2>3
<1>6. CASE ClaimFails(w)
  <2>1. BatchInv' /\ LockInv' /\ RowInv' /\ SnapInv'
    BY <1>6 DEF ClaimFails, CommitClaim, RollbackClaim, Unlock, DropBatch, NoSnap
  <2>2. AckInv' /\ CloseInv' /\ FailInv'
    BY <1>6 DEF ClaimFails, CommitClaim, RollbackClaim, Unlock, DropBatch, NoSnap
  <2>3. PublishedWasDelivered' /\ CloseAfterBudget'
    BY <1>6 DEF ClaimFails, CommitClaim, RollbackClaim, Unlock, DropBatch, NoSnap
  <2> QED
    BY <2>1, <2>2, <2>3
<1>7. ASSUME NEW r \in Rows, PublishAcked(w, r) PROVE CoreInv'
  <2>1. BatchInv' /\ LockInv' /\ RowInv' /\ SnapInv'
    BY <1>7 DEF PublishAcked, Deliver
  <2>2. AckInv' /\ CloseInv' /\ FailInv'
    BY <1>7 DEF PublishAcked, Deliver
  <2>3. PublishedWasDelivered' /\ CloseAfterBudget'
    BY <1>7 DEF PublishAcked, Deliver
  <2> QED
    BY <2>1, <2>2, <2>3
<1>8. ASSUME NEW r \in Rows, PublishRejected(w, r) PROVE CoreInv'
  <2> DEFINE step == AfterRejection(w, r)
  <2>1. /\ pc[w] = "publish" /\ IsNext(w, r)
        /\ pc' = [pc EXCEPT ![w] = step]
        /\ UNCHANGED <<table, todo, snap>>
    BY <1>8 DEF PublishRejected
  <2>2. \A s \in Rows : delivered'[s] >= delivered[s]
    BY <1>8 DEF PublishRejected, Deliver
  <2>3. \/ step = "markClose" /\ snap[w][r] >= MaxRetries
        \/ step = "markFailed" /\ snap[w][r] < MaxRetries
    BY DEF AfterRejection, BudgetSpent
  <2> HIDE DEF step
  <2>4. BatchInv' /\ LockInv' /\ RowInv' /\ SnapInv' /\ AckInv'
    BY <2>1, <2>2, <2>3
  <2>5. CloseInv' /\ FailInv'
    <3>1. \A s \in Rows : IsNext(w, s) => s = r
      BY <2>1
    <3>2. \A v \in Workers, s \in Rows : IsNext(v, s)' = IsNext(v, s)
      BY <2>1
    <3>3. ASSUME NEW v \in Workers, NEW s \in Rows, IsNext(v, s)
          PROVE  /\ pc'[v] = "markClose" => snap[v][s] >= MaxRetries
                 /\ pc'[v] = "markFailed" => snap[v][s] < MaxRetries
      <4>1. CASE v = w
        <5>1. s = r
          BY <3>1, <3>3, <4>1
        <5>2. pc'[v] = step
          BY <2>1, <4>1
        <5> QED
          BY <2>3, <4>1, <5>1, <5>2
      <4>2. CASE v # w
        <5>1. pc'[v] = pc[v]
          BY <2>1, <4>2
        <5>2. pc[v] = "markClose" => snap[v][s] >= MaxRetries
          BY <3>3
        <5>3. pc[v] = "markFailed" => snap[v][s] < MaxRetries
          BY <3>3
        <5> QED
          BY <5>1, <5>2, <5>3
      <4> QED
        BY <4>1, <4>2
    <3>4. CloseInv'
      <4> SUFFICES ASSUME NEW v \in Workers, NEW s \in Rows,
                          pc'[v] = "markClose", IsNext(v, s)'
                   PROVE  snap'[v][s] >= MaxRetries
        OBVIOUS
      <4> QED
        BY <2>1, <3>2, <3>3
    <3>5. FailInv'
      <4> SUFFICES ASSUME NEW v \in Workers, NEW s \in Rows,
                          pc'[v] = "markFailed", IsNext(v, s)'
                   PROVE  snap'[v][s] < MaxRetries
        OBVIOUS
      <4> QED
        BY <2>1, <3>2, <3>3
    <3> QED
      BY <3>4, <3>5
  <2>6. PublishedWasDelivered' /\ CloseAfterBudget'
    BY <2>1, <2>2
  <2> QED
    BY <2>4, <2>5, <2>6
<1>9. ASSUME NEW r \in Rows, PublishAborted(w, r) PROVE CoreInv'
  <2>1. BatchInv' /\ LockInv' /\ RowInv' /\ SnapInv'
    BY <1>9 DEF PublishAborted, Deliver, DropBatch, NoSnap
  <2>2. AckInv' /\ CloseInv' /\ FailInv'
    BY <1>9 DEF PublishAborted, Deliver, DropBatch, NoSnap
  <2>3. PublishedWasDelivered' /\ CloseAfterBudget'
    BY <1>9 DEF PublishAborted, Deliver, DropBatch, NoSnap
  <2> QED
    BY <2>1, <2>2, <2>3
<1>10. ASSUME NEW r \in Rows, RecordPublished(w, r) PROVE CoreInv'
  <2>1. BatchInv' /\ LockInv' /\ RowInv' /\ SnapInv'
    BY <1>10 DEF RecordPublished, Record, MarkPublished, NextEvent
  <2>2. AckInv' /\ CloseInv' /\ FailInv'
    BY <1>10 DEF RecordPublished, Record, MarkPublished, NextEvent
  <2>3. PublishedWasDelivered' /\ CloseAfterBudget'
    BY <1>10 DEF RecordPublished, Record, MarkPublished, NextEvent
  <2> QED
    BY <2>1, <2>2, <2>3
<1>11. ASSUME NEW r \in Rows, RecordFailed(w, r) PROVE CoreInv'
  <2>1. BatchInv' /\ LockInv' /\ RowInv' /\ SnapInv'
    BY <1>11 DEF RecordFailed, Record, MarkFailed, Markable, NextEvent
  <2>2. AckInv' /\ CloseInv' /\ FailInv'
    BY <1>11 DEF RecordFailed, Record, MarkFailed, Markable, NextEvent
  <2>3. PublishedWasDelivered' /\ CloseAfterBudget'
    BY <1>11 DEF RecordFailed, Record, MarkFailed, Markable, NextEvent
  <2> QED
    BY <2>1, <2>2, <2>3
<1>12. ASSUME NEW r \in Rows, RecordClosed(w, r) PROVE CoreInv'
  <2>1. BatchInv' /\ LockInv' /\ RowInv' /\ SnapInv'
    BY <1>12 DEF RecordClosed, Record, MarkClose, Markable, NextEvent
  <2>2. AckInv' /\ CloseInv' /\ FailInv'
    BY <1>12 DEF RecordClosed, Record, MarkClose, Markable, NextEvent
  <2>3. PublishedWasDelivered' /\ CloseAfterBudget'
    BY <1>12 DEF RecordClosed, Record, MarkClose, Markable, NextEvent
  <2> QED
    BY <2>1, <2>2, <2>3
<1>13. CASE Stop(w)
  BY <1>13 DEF Stop
<1> QED
  BY <1>1, <1>2, <1>3, <1>4, <1>5, <1>6, <1>7, <1>8, <1>9, <1>10, <1>11, <1>12, <1>13
     DEF WorkerStep, Recording

\* So does everything around the workers: inserts, time, shutdown, crashes.
LEMMA CoreNext ==
    ASSUME TypeOK, CoreInv, [Next]_vars, TypeOK'
    PROVE  CoreInv'
<1> USE RepositoryAssumption, WorkerAssumption
        DEF CoreInv, BatchInv, LockInv, RowInv, SnapInv, AckInv, CloseInv, FailInv,
            PublishedWasDelivered, CloseAfterBudget, IsNext, Unlocked,
            TypeOK, TableTypeOK, table, workers, Status, Calls, Marks, Goto
<1>1. ASSUME NEW w \in Workers, WorkerStep(w) PROVE CoreInv'
  BY <1>1, CoreWorkerStep
<1>2. ASSUME NEW w \in Workers, Shutdown(w) PROVE CoreInv'
  BY <1>2 DEF Shutdown
<1>3. ASSUME NEW w \in Workers, ForceCancel(w) PROVE CoreInv'
  BY <1>3 DEF ForceCancel
<1>4. ASSUME NEW w \in Workers, Crash(w) PROVE CoreInv'
  BY <1>4 DEF Crash, RollbackClaim, Unlock, DropBatch, NoSnap
<1>5. ASSUME NEW w \in Workers, Restart(w) PROVE CoreInv'
  BY <1>5 DEF Restart
<1>6. ASSUME NEW r \in Rows, Insert(r) PROVE CoreInv'
  BY <1>6 DEF Insert, InsertRow
<1>7. CASE Tick
  BY <1>7 DEF Tick, AdvanceClock
<1>8. CASE UNCHANGED vars
  BY <1>8 DEF vars
<1> QED
  BY <1>1, <1>2, <1>3, <1>4, <1>5, <1>6, <1>7, <1>8 DEF Next

\* At the start no worker holds anything.
LEMMA CoreInit == Init => CoreInv
BY RepositoryAssumption, WorkerAssumption
   DEF Init, TableInit, CoreInv, BatchInv, LockInv, RowInv, SnapInv, AckInv, CloseInv, FailInv,
       PublishedWasDelivered, CloseAfterBudget, IsNext, Unlocked

-----------------------------------------------------------------------------
(* The retry budget *)

\* The workers that may still record a failure of a row are finitely many.
LEMMA MayFailFinite ==
    ASSUME NEW r
    PROVE  /\ IsFiniteSet(MayFail(r)) /\ MayFail(r) \subseteq Workers
           /\ IsFiniteSet(MayFail(r)') /\ MayFail(r)' \subseteq Workers
BY RepositoryAssumption, FS_Subset DEF MayFail

\* A step that records no failure, and gives no new worker a copy below the
\* budget, keeps the bound on the failures.
LEMMA BudgetKept ==
    ASSUME TypeOK, TypeOK', BudgetInv,
           \A r \in Rows : attempts'[r] = attempts[r] /\ MayFail(r)' \subseteq MayFail(r)
    PROVE  BudgetInv'
<1> SUFFICES ASSUME NEW r \in Rows
             PROVE  attempts'[r] + Cardinality(MayFail(r)') + 1 <= MaxRetries + Cardinality(Workers)
  BY DEF BudgetInv
<1>1. attempts[r] + Cardinality(MayFail(r)) + 1 <= MaxRetries + Cardinality(Workers)
  BY DEF BudgetInv
<1>2. Cardinality(MayFail(r)') <= Cardinality(MayFail(r))
  BY MayFailFinite, FS_Subset
<1>3. /\ Cardinality(MayFail(r)') \in Nat
      /\ Cardinality(MayFail(r)) \in Nat
      /\ Cardinality(Workers) \in Nat
  BY MayFailFinite, FS_Subset, FS_CardinalityType, RepositoryAssumption
<1> QED
  BY <1>1, <1>2, <1>3, WorkerAssumption DEF TypeOK, TableTypeOK

\* Every statement of a worker keeps the bound: a failure recorded (MarkFailed)
\* costs its worker the copy it was recorded from, and a claim that adds a
\* worker to those that may fail finds the row below the budget.
LEMMA BudgetWorkerStep ==
    ASSUME TypeOK, TypeOK', CoreInv, BudgetInv, NEW w \in Workers, WorkerStep(w)
    PROVE  BudgetInv'
<1> USE RepositoryAssumption, WorkerAssumption
        DEF TypeOK, TableTypeOK, table, Goto
<1>1. CASE TickerFires(w)
  BY <1>1, BudgetKept DEF TickerFires, MayFail
<1>2. CASE Reclaim(w)
  BY <1>2, BudgetKept DEF Reclaim, ReclaimStale, MayFail
<1>3. CASE ClaimSelect(w)
  \* The claimer may add itself to those that may fail r, and does so only if
  \* the budget is not spent.
  <2> SUFFICES ASSUME NEW r \in Rows
               PROVE  attempts'[r] + Cardinality(MayFail(r)') + 1
                          <= MaxRetries + Cardinality(Workers)
    BY DEF BudgetInv
  <2>1. attempts'[r] = attempts[r]
    BY <1>3 DEF ClaimSelect, LockForClaim
  <2>2. /\ IsFiniteSet(MayFail(r)) /\ Cardinality(MayFail(r)) \in Nat
        /\ IsFiniteSet(MayFail(r)') /\ Cardinality(MayFail(r)') \in Nat
        /\ Cardinality(MayFail(r)') <= Cardinality(Workers)
        /\ Cardinality(Workers) \in Nat
    BY MayFailFinite, FS_Subset, FS_CardinalityType
  <2>3. CASE attempts[r] < MaxRetries
    BY <2>1, <2>2, <2>3
  <2>4. CASE attempts[r] >= MaxRetries
    <3>1. MayFail(r)' \subseteq MayFail(r)
      <4> SUFFICES ASSUME NEW v \in MayFail(r)' PROVE v \in MayFail(r)
        OBVIOUS
      <4>1. v \in Workers /\ r \in todo'[v] /\ snap'[v][r] < MaxRetries
        BY DEF MayFail
      <4>2. v # w
        <5>1. /\ todo'[w] = Oldest(Claimable)
              /\ snap'[w] = [q \in Rows |-> IF q \in Oldest(Claimable) THEN attempts[q] ELSE 0]
          BY <1>3 DEF ClaimSelect
        <5>2. r \in todo'[w] => snap'[w][r] = attempts[r]
          BY <5>1
        <5> QED
          BY <2>4, <4>1, <5>2
      <4> QED
        BY <1>3, <4>1, <4>2 DEF ClaimSelect, MayFail
    <3>2. Cardinality(MayFail(r)') <= Cardinality(MayFail(r))
      BY <3>1, <2>2, FS_Subset
    <3>3. attempts[r] + Cardinality(MayFail(r)) + 1 <= MaxRetries + Cardinality(Workers)
      BY DEF BudgetInv
    <3> QED
      BY <2>1, <2>2, <3>2, <3>3
  <2> QED
    BY <2>3, <2>4
<1>4. CASE ClaimNothing(w)
  BY <1>4, BudgetKept DEF ClaimNothing, MayFail
<1>5. CASE ClaimCommit(w)
  BY <1>5, BudgetKept DEF ClaimCommit, CommitClaim, MayFail
<1>6. CASE ClaimFails(w)
  BY <1>6, BudgetKept DEF ClaimFails, CommitClaim, RollbackClaim, DropBatch, MayFail
<1>7. ASSUME NEW r \in Rows, PublishAcked(w, r) PROVE BudgetInv'
  BY <1>7, BudgetKept DEF PublishAcked, MayFail
<1>8. ASSUME NEW r \in Rows, PublishRejected(w, r) PROVE BudgetInv'
  BY <1>8, BudgetKept DEF PublishRejected, MayFail
<1>9. ASSUME NEW r \in Rows, PublishAborted(w, r) PROVE BudgetInv'
  BY <1>9, BudgetKept DEF PublishAborted, DropBatch, MayFail
<1>10. ASSUME NEW r \in Rows, RecordPublished(w, r) PROVE BudgetInv'
  BY <1>10, BudgetKept DEF RecordPublished, Record, MarkPublished, NextEvent, MayFail
<1>11. ASSUME NEW r \in Rows, RecordFailed(w, r) PROVE BudgetInv'
  \* One failure more is recorded, and one worker fewer may record one.
  <2> SUFFICES ASSUME NEW q \in Rows
               PROVE  attempts'[q] + Cardinality(MayFail(q)') + 1
                          <= MaxRetries + Cardinality(Workers)
    BY DEF BudgetInv
  <2>1. attempts[q] + Cardinality(MayFail(q)) + 1 <= MaxRetries + Cardinality(Workers)
    BY DEF BudgetInv
  <2>2. /\ IsFiniteSet(MayFail(q)) /\ Cardinality(MayFail(q)) \in Nat
        /\ IsFiniteSet(MayFail(q)') /\ Cardinality(MayFail(q)') \in Nat
        /\ Cardinality(Workers) \in Nat
    BY MayFailFinite, FS_Subset, FS_CardinalityType
  <2>3. pc[w] = "markFailed" /\ IsNext(w, r) /\ NextEvent(w, r)
    BY <1>11 DEF RecordFailed, Record
  <2>4. CASE q = r
    <3>1. w \in MayFail(r)
      BY <2>3 DEF CoreInv, FailInv, IsNext, MayFail
    <3>2. MayFail(r)' \subseteq MayFail(r) \ {w}
      BY <2>3 DEF NextEvent, MayFail
    <3>3. /\ IsFiniteSet(MayFail(r) \ {w})
          /\ Cardinality(MayFail(r) \ {w}) = Cardinality(MayFail(r)) - 1
      BY <2>2, <2>4, <3>1, FS_RemoveElement
    <3>4. Cardinality(MayFail(r)') <= Cardinality(MayFail(r)) - 1
      BY <3>2, <3>3, FS_Subset
    <3>5. attempts'[r] <= attempts[r] + 1
      BY <1>11 DEF RecordFailed, Record, MarkFailed
    <3> QED
      BY <2>1, <2>2, <2>4, <3>4, <3>5
  <2>5. CASE q # r
    <3>1. attempts'[q] = attempts[q]
      BY <1>11, <2>5 DEF RecordFailed, Record, MarkFailed
    <3>2. MayFail(q)' \subseteq MayFail(q)
      BY <2>3 DEF NextEvent, MayFail
    <3>3. Cardinality(MayFail(q)') <= Cardinality(MayFail(q))
      BY <3>2, <2>2, FS_Subset
    <3> QED
      BY <2>1, <2>2, <3>1, <3>3
  <2> QED
    BY <2>4, <2>5
<1>12. ASSUME NEW r \in Rows, RecordClosed(w, r) PROVE BudgetInv'
  BY <1>12, BudgetKept DEF RecordClosed, Record, MarkClose, NextEvent, MayFail
<1>13. CASE Stop(w)
  BY <1>13, BudgetKept DEF Stop, MayFail
<1> QED
  BY <1>1, <1>2, <1>3, <1>4, <1>5, <1>6, <1>7, <1>8, <1>9, <1>10, <1>11, <1>12, <1>13
     DEF WorkerStep, Recording

\* So does everything around the workers.
LEMMA BudgetNext ==
    ASSUME TypeOK, TypeOK', CoreInv, BudgetInv, [Next]_vars
    PROVE  BudgetInv'
<1> USE RepositoryAssumption, WorkerAssumption
        DEF TypeOK, TableTypeOK, table, workers, Goto
<1>1. ASSUME NEW w \in Workers, WorkerStep(w) PROVE BudgetInv'
  BY <1>1, BudgetWorkerStep
<1>2. ASSUME NEW w \in Workers, Shutdown(w) PROVE BudgetInv'
  BY <1>2, BudgetKept DEF Shutdown, MayFail
<1>3. ASSUME NEW w \in Workers, ForceCancel(w) PROVE BudgetInv'
  BY <1>3, BudgetKept DEF ForceCancel, MayFail
<1>4. ASSUME NEW w \in Workers, Crash(w) PROVE BudgetInv'
  BY <1>4, BudgetKept DEF Crash, RollbackClaim, DropBatch, MayFail
<1>5. ASSUME NEW w \in Workers, Restart(w) PROVE BudgetInv'
  BY <1>5, BudgetKept DEF Restart, MayFail
<1>6. ASSUME NEW r \in Rows, Insert(r) PROVE BudgetInv'
  BY <1>6, BudgetKept DEF Insert, InsertRow, MayFail
<1>7. CASE Tick
  BY <1>7, BudgetKept DEF Tick, AdvanceClock, MayFail
<1>8. CASE UNCHANGED vars
  BY <1>8, BudgetKept DEF vars, MayFail
<1> QED
  BY <1>1, <1>2, <1>3, <1>4, <1>5, <1>6, <1>7, <1>8 DEF Next

\* At the start no failure is on record and nobody may record one.
LEMMA BudgetInit == Init => BudgetInv
<1> SUFFICES ASSUME Init, NEW r \in Rows
             PROVE  attempts[r] + Cardinality(MayFail(r)) + 1
                        <= MaxRetries + Cardinality(Workers)
  BY DEF BudgetInv
<1>1. MayFail(r) = {}
  BY DEF Init, MayFail
<1>2. Cardinality(MayFail(r)) = 0
  BY <1>1, FS_EmptySet
<1>3. Cardinality(Workers) \in Nat \ {0}
  BY RepositoryAssumption, WorkerAssumption, FS_EmptySet, FS_CardinalityType
<1> QED
  BY <1>2, <1>3, WorkerAssumption DEF Init, TableInit

-----------------------------------------------------------------------------
(* Safety *)

\* Every step of the fleet keeps its invariant.
LEMMA FleetNext == FleetInv /\ [Next]_vars => FleetInv'
BY TypeNext, CoreNext, BudgetNext DEF FleetInv, CoreInv

\* The inductive invariant of the fleet: what each worker holds in memory
\* between its statements is true of the table, whatever the other workers,
\* the clock, crashes and lost answers did in between.
THEOREM FleetInvariant == Spec => []FleetInv
<1>1. Init => FleetInv
  BY TypeInit, CoreInit, BudgetInit DEF FleetInv, CoreInv
<1> QED
  BY <1>1, FleetNext, PTL DEF Spec

\* No row is PUBLISHED without a copy at the broker, whatever crashes, is
\* reclaimed, or is recorded late.
THEOREM PublishedDelivered == Spec => []PublishedWasDelivered
BY FleetInvariant, PTL DEF FleetInv

\* No row is closed before MaxRetries failures are on record.
THEOREM ClosedAfterBudget == Spec => []CloseAfterBudget
BY FleetInvariant, PTL DEF FleetInv

\* The budget is overrun by at most one failure per other worker.
THEOREM AttemptsWithinBound == Spec => []AttemptsBounded
<1>1. FleetInv => AttemptsBounded
  <2> SUFFICES ASSUME FleetInv, NEW r \in Rows
               PROVE  attempts[r] + 1 <= MaxRetries + Cardinality(Workers)
    BY DEF AttemptsBounded
  <2>1. attempts[r] + Cardinality(MayFail(r)) + 1 <= MaxRetries + Cardinality(Workers)
    BY DEF FleetInv, BudgetInv
  <2>2. Cardinality(MayFail(r)) \in Nat /\ Cardinality(Workers) \in Nat
    BY MayFailFinite, FS_CardinalityType, RepositoryAssumption
  <2> QED
    BY <2>1, <2>2, WorkerAssumption DEF FleetInv, TypeOK, TableTypeOK
<1> QED
  BY <1>1, FleetInvariant, PTL

\* No step of the fleet takes a row out of PUBLISHED.
LEMMA PublishedRowStays ==
    ASSUME FleetInv, [Next]_vars, NEW q \in Rows, status[q] = "PUBLISHED"
    PROVE  status'[q] = "PUBLISHED"
<1> USE DEF FleetInv, TypeOK, TableTypeOK, table, workers
<1>1. ASSUME NEW w \in Workers, WorkerStep(w) PROVE status'[q] = "PUBLISHED"
  <2>1. pc[w] = "commit" => q \notin todo[w]
    BY <1>1, RepositoryAssumption DEF LockInv, Unlocked
  <2>2. CASE ClaimCommit(w) \/ ClaimFails(w)
    <3>1. \/ pc[w] = "commit" /\ CommitClaim(w, todo[w])
          \/ RollbackClaim(w)
      BY <2>2 DEF ClaimCommit, ClaimFails
    <3> QED
      BY <2>1, <3>1 DEF CommitClaim, RollbackClaim
  <2>3. CASE TickerFires(w) \/ ClaimSelect(w) \/ ClaimNothing(w) \/ Stop(w)
    BY <2>3 DEF TickerFires, ClaimSelect, LockForClaim, ClaimNothing, Stop
  <2>4. CASE Reclaim(w)
    BY <2>4 DEF Reclaim, ReclaimStale, Stale
  <2>5. ASSUME NEW r \in Rows,
               PublishAcked(w, r) \/ PublishRejected(w, r) \/ PublishAborted(w, r)
        PROVE  status'[q] = "PUBLISHED"
    BY <2>5 DEF PublishAcked, PublishRejected, PublishAborted
  <2>6. ASSUME NEW r \in Rows, RecordPublished(w, r) PROVE status'[q] = "PUBLISHED"
    BY <2>6 DEF RecordPublished, Record, MarkPublished
  <2>7. ASSUME NEW r \in Rows, RecordFailed(w, r) PROVE status'[q] = "PUBLISHED"
    BY <2>7 DEF RecordFailed, Record, MarkFailed, Markable
  <2>8. ASSUME NEW r \in Rows, RecordClosed(w, r) PROVE status'[q] = "PUBLISHED"
    BY <2>8 DEF RecordClosed, Record, MarkClose, Markable
  <2> QED
    BY <1>1, <2>2, <2>3, <2>4, <2>5, <2>6, <2>7, <2>8 DEF WorkerStep, Recording
<1>2. ASSUME NEW w \in Workers,
             Shutdown(w) \/ ForceCancel(w) \/ Crash(w) \/ Restart(w)
      PROVE  status'[q] = "PUBLISHED"
  BY <1>2 DEF Shutdown, ForceCancel, Crash, Restart, RollbackClaim
<1>3. ASSUME NEW r \in Rows, Insert(r) PROVE status'[q] = "PUBLISHED"
  BY <1>3 DEF Insert, InsertRow
<1>4. CASE Tick \/ UNCHANGED vars
  BY <1>4 DEF Tick, AdvanceClock, vars
<1> QED
  BY <1>1, <1>2, <1>3, <1>4 DEF Next

\* A PUBLISHED row stays PUBLISHED: the late records of a worker that lost the
\* row find no PROCESSING row, and a claim's COMMIT names only rows it locked
\* while they were PENDING.
THEOREM PublishedStays == Spec => PublishedIsFinal
<1>1. FleetInv /\ [Next]_vars
          => [\A r \in Rows : status[r] = "PUBLISHED" => status'[r] = "PUBLISHED"]_vars
  BY PublishedRowStays
<1> QED
  BY <1>1, FleetInvariant, PTL DEF Spec, PublishedIsFinal

-----------------------------------------------------------------------------
(* Refinement: the fleet keeps the promise of OutboxContract *)

\* The rows as the contract sees them
phaseBar == [r \in Rows |-> Phase(r)]
contractVars == <<phaseBar, attempts, delivered>>

\* A step that leaves the table and the broker alone leaves the contract alone.
LEMMA ContractVars == UNCHANGED contractVars => UNCHANGED Contract!vars
BY DEF Contract!vars, contractVars, phaseBar

\* The status of a row determines its phase in the contract.
LEMMA SamePhase ==
    ASSUME NEW r \in Rows, status'[r] = status[r]
    PROVE  Phase(r)' = Phase(r)
BY DEF Phase

\* The fleet starts where the contract starts.
LEMMA InitRefines == Init => Contract!Init
<1> SUFFICES ASSUME Init PROVE Contract!Init
  OBVIOUS
<1>1. \A r \in Rows : Phase(r) \in {"absent", "queued"}
  BY DEF Init, TableInit, Phase
<1> QED
  BY <1>1 DEF Init, TableInit, Contract!Init

\* Steps that leave the rows' fate, their failures and their copies alone
LEMMA Stutters ==
    ASSUME \A r \in Rows : Phase(r)' = Phase(r), UNCHANGED <<attempts, delivered>>
    PROVE  UNCHANGED contractVars
BY DEF contractVars, phaseBar

\* Steps that change the fate of one row
LEMMA OnePhase ==
    ASSUME TypeOK, NEW r \in Rows, NEW s, status' = [status EXCEPT ![r] = s]
    PROVE  phaseBar' = [phaseBar EXCEPT ![r] = Phase(r)']
<1>1. \A q \in Rows : q # r => status'[q] = status[q]
  BY DEF TypeOK, TableTypeOK
<1>2. \A q \in Rows : q # r => Phase(q)' = Phase(q)
  BY <1>1, SamePhase
<1> QED
  BY <1>2 DEF phaseBar

\* The broker stores a copy, or has stored as many as are counted.
LEMMA DeliverRefines ==
    ASSUME FleetInv, NEW r \in Rows, status[r] # "ABSENT", Deliver(r),
           UNCHANGED <<status, attempts>>
    PROVE  Contract!Deliver(r) \/ UNCHANGED contractVars
<1>1. phaseBar' = phaseBar
  BY DEF phaseBar, Phase
<1>2. CASE delivered[r] < MaxCopies
  <2>1. delivered' = [delivered EXCEPT ![r] = @ + 1]
    BY <1>2 DEF Deliver, FleetInv, TypeOK
  <2>2. phaseBar[r] # "absent"
    BY DEF phaseBar, Phase, FleetInv, TypeOK, TableTypeOK, Status
  <2> QED
    BY <1>1, <1>2, <2>1, <2>2 DEF Contract!Deliver, phaseBar
<1>3. CASE ~(delivered[r] < MaxCopies)
  <2>1. delivered' = delivered
    BY <1>3 DEF Deliver, FleetInv, TypeOK
  <2> QED
    BY <1>1, <2>1 DEF contractVars
<1> QED
  BY <1>2, <1>3

\* Recording an outcome of r is one step of the contract, or none.
LEMMA RecordRefines ==
    ASSUME FleetInv, NEW w \in Workers, NEW r \in Rows,
           RecordPublished(w, r) \/ RecordFailed(w, r) \/ RecordClosed(w, r)
    PROVE  Contract!Next \/ UNCHANGED contractVars
<1> USE DEF FleetInv, TypeOK, TableTypeOK
<1>1. IsNext(w, r) /\ r \in todo[w] /\ status[r] # "ABSENT" /\ UNCHANGED delivered
  BY DEF RecordPublished, RecordFailed, RecordClosed, Record, IsNext, RowInv
<1>2. CASE UNCHANGED table
  BY <1>1, <1>2 DEF table, contractVars, phaseBar, Phase
<1>3. CASE RecordPublished(w, r) /\ ~UNCHANGED table
  <2>1. MarkPublished(r) /\ pc[w] = "markPublished"
    BY <1>3 DEF RecordPublished, Record
  <2>2. delivered[r] > 0
    BY <1>1, <2>1 DEF AckInv
  <2>3. phaseBar' = [phaseBar EXCEPT ![r] = "published"]
    <3>1. Phase(r)' = "published"
      BY <2>1 DEF MarkPublished, Phase
    <3> QED
      BY <2>1, <3>1, OnePhase DEF MarkPublished
  <2>4. CASE status[r] = "PUBLISHED"
    <3>1. UNCHANGED <<status, attempts, delivered>>
      BY <1>1, <2>1, <2>4 DEF MarkPublished
    <3> QED
      BY <3>1, SamePhase, Stutters
  <2>5. CASE status[r] # "PUBLISHED"
    <3>1. phaseBar[r] \in {"queued", "closed"}
      BY <1>1, <2>5 DEF phaseBar, Phase, Status
    <3>2. Contract!Confirm(r)
      BY <1>1, <2>1, <2>2, <2>3, <3>1 DEF Contract!Confirm, phaseBar, MarkPublished
    <3> QED
      BY <3>2 DEF Contract!Next
  <2> QED
    BY <2>4, <2>5
<1>4. CASE RecordFailed(w, r) /\ ~UNCHANGED table
  <2>1. PICK delay \in Backoff : MarkFailed(r, delay)
    BY <1>4 DEF RecordFailed, Record
  <2>2. /\ status[r] = "PROCESSING"
        /\ status' = [status EXCEPT ![r] = "PENDING"]
        /\ attempts' = [attempts EXCEPT ![r] = @ + 1]
    BY <1>4, <2>1 DEF MarkFailed, Markable
  <2>3. Phase(r) = "queued" /\ Phase(r)' = "queued"
    BY <2>2 DEF Phase
  <2>4. phaseBar' = phaseBar
    BY <2>2, <2>3, OnePhase DEF phaseBar
  <2>5. Contract!Fail(r)
    BY <1>1, <2>2, <2>3, <2>4 DEF Contract!Fail, phaseBar
  <2> QED
    BY <2>5 DEF Contract!Next
<1>5. CASE RecordClosed(w, r) /\ ~UNCHANGED table
  <2>1. /\ pc[w] = "markClose"
        /\ status[r] = "PROCESSING"
        /\ status' = [status EXCEPT ![r] = "CLOSE"]
        /\ UNCHANGED attempts
    BY <1>5 DEF RecordClosed, Record, MarkClose, Markable
  <2>2. attempts[r] >= MaxRetries
    BY <1>1, <2>1, WorkerAssumption DEF CloseInv, SnapInv
  <2>3. Phase(r) = "queued" /\ Phase(r)' = "closed"
    BY <2>1 DEF Phase
  <2>4. phaseBar' = [phaseBar EXCEPT ![r] = "closed"]
    BY <2>1, <2>3, OnePhase
  <2>5. Contract!GiveUp(r)
    BY <1>1, <2>1, <2>2, <2>3, <2>4 DEF Contract!GiveUp, phaseBar
  <2> QED
    BY <2>5 DEF Contract!Next
<1> QED
  BY <1>2, <1>3, <1>4, <1>5

\* Every step of the fleet is a step of the contract, or none.
LEMMA NextRefines == FleetInv /\ [Next]_vars => [Contract!Next]_(Contract!vars)
<1> SUFFICES ASSUME FleetInv, [Next]_vars
             PROVE  Contract!Next \/ UNCHANGED contractVars
  BY ContractVars
<1> USE DEF FleetInv, TypeOK, TableTypeOK, table, workers
<1>1. ASSUME NEW w \in Workers, WorkerStep(w)
      PROVE  Contract!Next \/ UNCHANGED contractVars
  <2>1. CASE TickerFires(w) \/ ClaimSelect(w) \/ ClaimNothing(w) \/ Stop(w)
    <3>1. UNCHANGED <<status, attempts, delivered>>
      BY <2>1 DEF TickerFires, ClaimSelect, LockForClaim, ClaimNothing, Stop
    <3> QED
      BY <3>1, SamePhase, Stutters
  <2>2. CASE Reclaim(w)
    <3>1. /\ UNCHANGED <<attempts, delivered>>
          /\ \A r \in Rows : \/ status'[r] = status[r]
                             \/ status[r] = "PROCESSING" /\ status'[r] = "PENDING"
      BY <2>2 DEF Reclaim, ReclaimStale, Stale
    <3>2. \A r \in Rows : Phase(r)' = Phase(r)
      BY <3>1 DEF Phase
    <3> QED
      BY <3>1, <3>2, Stutters
  <2>3. CASE ClaimCommit(w) \/ ClaimFails(w)
    <3>1. \A r \in todo[w] : pc[w] = "commit" => status[r] = "PENDING"
      BY <1>1, RepositoryAssumption DEF LockInv, Unlocked
    <3>2. /\ UNCHANGED <<attempts, delivered>>
          /\ \A r \in Rows : \/ status'[r] = status[r]
                             \/ status[r] = "PENDING" /\ status'[r] = "PROCESSING"
      <4>1. CommitClaim(w, todo[w]) \/ RollbackClaim(w)
        BY <2>3 DEF ClaimCommit, ClaimFails
      <4>2. pc[w] = "commit" /\ UNCHANGED delivered
        BY <2>3 DEF ClaimCommit, ClaimFails
      <4> QED
        BY <3>1, <4>1, <4>2 DEF CommitClaim, RollbackClaim
    <3>3. \A r \in Rows : Phase(r)' = Phase(r)
      BY <3>2 DEF Phase
    <3> QED
      BY <3>2, <3>3, Stutters
  <2>4. ASSUME NEW r \in Rows,
               PublishAcked(w, r) \/ PublishRejected(w, r) \/ PublishAborted(w, r)
        PROVE  Contract!Next \/ UNCHANGED contractVars
    <3>1. IsNext(w, r) /\ UNCHANGED <<status, attempts>>
      BY <2>4 DEF PublishAcked, PublishRejected, PublishAborted
    <3>2. status[r] # "ABSENT"
      BY <1>1, <3>1 DEF IsNext, RowInv
    <3>3. CASE UNCHANGED delivered
      BY <3>1, <3>3, SamePhase, Stutters
    <3>4. CASE Deliver(r)
      BY <3>1, <3>2, <3>4, DeliverRefines DEF Contract!Next
    <3> QED
      BY <2>4, <3>3, <3>4 DEF PublishAcked, PublishRejected, PublishAborted
  <2>5. ASSUME NEW r \in Rows,
               RecordPublished(w, r) \/ RecordFailed(w, r) \/ RecordClosed(w, r)
        PROVE  Contract!Next \/ UNCHANGED contractVars
    BY <1>1, <2>5, RecordRefines
  <2> QED
    BY <1>1, <2>1, <2>2, <2>3, <2>4, <2>5 DEF WorkerStep, Recording
<1>2. ASSUME NEW w \in Workers, Shutdown(w) \/ ForceCancel(w) \/ Crash(w) \/ Restart(w)
      PROVE  UNCHANGED contractVars
  <2>1. UNCHANGED <<status, attempts, delivered>>
    BY <1>2 DEF Shutdown, ForceCancel, Crash, Restart, RollbackClaim
  <2> QED
    BY <2>1, SamePhase, Stutters
<1>3. ASSUME NEW r \in Rows, Insert(r)
      PROVE  Contract!Next
  <2>1. status[r] = "ABSENT" /\ status' = [status EXCEPT ![r] = "PENDING"]
        /\ UNCHANGED <<attempts, delivered>>
    BY <1>3 DEF Insert, InsertRow
  <2>2. Phase(r) = "absent" /\ Phase(r)' = "queued"
    BY <2>1 DEF Phase
  <2>3. phaseBar' = [phaseBar EXCEPT ![r] = "queued"]
    BY <2>1, <2>2, OnePhase
  <2>4. Contract!Accept(r)
    BY <2>1, <2>2, <2>3 DEF Contract!Accept, phaseBar
  <2> QED
    BY <2>4 DEF Contract!Next
<1>4. CASE Tick \/ UNCHANGED vars
  <2>1. UNCHANGED <<status, attempts, delivered>>
    BY <1>4 DEF Tick, AdvanceClock, vars
  <2> QED
    BY <2>1, SamePhase, Stutters
<1> QED
  BY <1>1, <1>2, <1>3, <1>4 DEF Next

\* The fleet implements the contract: whatever the workers, the clock and the
\* failures do, the rows move only as OutboxContract allows.
THEOREM FleetKeepsContract == Spec => KeepsContract
<1>1. Init => Contract!Init
  BY InitRefines
<1>2. FleetInv /\ [Next]_vars => [Contract!Next]_(Contract!vars)
  BY NextRefines
<1> QED
  BY <1>1, <1>2, FleetInvariant, PTL DEF Spec, KeepsContract, Contract!Spec

-----------------------------------------------------------------------------
(* Refinement: the fleet works under the contexts that RunContract provides *)

\* A step that leaves every worker where Run is, under the contexts it has
LEMMA LifecycleStutters ==
    ASSUME \A v \in Workers : RunPhase(v)' = RunPhase(v) /\ RunContext(v)' = RunContext(v)
    PROVE  UNCHANGED Lifecycle!vars
BY DEF Lifecycle!vars

\* A step that shows in one worker alone
LEMMA LifecycleStep ==
    ASSUME NEW w \in Workers,
           \A v \in Workers \ {w} :
              RunPhase(v)' = RunPhase(v) /\ RunContext(v)' = RunContext(v),
           \/ /\ RunPhase(w) = "idle" /\ RunContext(w) = "live"
              /\ RunPhase(w)' = "process" /\ RunContext(w)' = RunContext(w)
           \/ /\ RunPhase(w) = "process"
              /\ RunPhase(w)' = "idle" /\ RunContext(w)' = RunContext(w)
           \/ /\ RunPhase(w) # "down" /\ RunContext(w) = "live"
              /\ RunPhase(w)' = RunPhase(w) /\ RunContext(w)' = "stopping"
           \/ /\ RunContext(w) = "stopping" /\ RunContext(w)' = "cancelled"
              /\ RunPhase(w)' = RunPhase(w)
           \/ /\ RunPhase(w) = "idle" /\ RunContext(w) # "live"
              /\ RunPhase(w)' = "down" /\ RunContext(w)' = "cancelled"
           \/ /\ RunPhase(w) # "down"
              /\ RunPhase(w)' = "down" /\ RunContext(w)' = "cancelled"
           \/ /\ RunPhase(w) = "down"
              /\ RunPhase(w)' = "idle" /\ RunContext(w)' = "live"
           \/ /\ RunPhase(w)' = RunPhase(w) /\ RunContext(w)' = RunContext(w)
    PROVE  [Lifecycle!Next]_(Lifecycle!vars)
<1> DEFINE phase == [v \in Workers |-> RunPhase(v)]
           context == [v \in Workers |-> RunContext(v)]
<1>1. /\ phase' = [phase EXCEPT ![w] = RunPhase(w)']
      /\ context' = [context EXCEPT ![w] = RunContext(w)']
  OBVIOUS
<1>2. phase[w] = RunPhase(w) /\ context[w] = RunContext(w)
  OBVIOUS
<1>3. /\ RunPhase(w)' = RunPhase(w) => phase' = phase
      /\ RunContext(w)' = RunContext(w) => context' = context
  OBVIOUS
<1>4. RunContext(w)' = "stopping"
          => context' = [v \in Workers |-> IF v \in {w} THEN "stopping" ELSE context[v]]
  OBVIOUS
<1>5. /\ Lifecycle!Begin(w) <=> /\ phase[w] = "idle" /\ context[w] = "live"
                                /\ phase' = [phase EXCEPT ![w] = "process"]
                                /\ context' = context
      /\ Lifecycle!End(w) <=> /\ phase[w] = "process"
                              /\ phase' = [phase EXCEPT ![w] = "idle"]
                              /\ context' = context
      /\ Lifecycle!Signal({w}) <=>
            /\ \A v \in {w} : phase[v] # "down" /\ context[v] = "live"
            /\ context' = [v \in Workers |-> IF v \in {w} THEN "stopping" ELSE context[v]]
            /\ phase' = phase
      /\ Lifecycle!Cancel(w) <=> /\ context[w] = "stopping"
                                 /\ context' = [context EXCEPT ![w] = "cancelled"]
                                 /\ phase' = phase
  BY DEF Lifecycle!Begin, Lifecycle!End, Lifecycle!Signal, Lifecycle!Cancel
<1>6. /\ Lifecycle!Return(w) <=> /\ phase[w] = "idle" /\ context[w] # "live"
                                 /\ phase' = [phase EXCEPT ![w] = "down"]
                                 /\ context' = [context EXCEPT ![w] = "cancelled"]
      /\ Lifecycle!Die(w) <=> /\ phase[w] # "down"
                              /\ phase' = [phase EXCEPT ![w] = "down"]
                              /\ context' = [context EXCEPT ![w] = "cancelled"]
      /\ Lifecycle!Start(w) <=> /\ phase[w] = "down"
                                /\ phase' = [phase EXCEPT ![w] = "idle"]
                                /\ context' = [context EXCEPT ![w] = "live"]
      /\ Lifecycle!vars' = Lifecycle!vars <=> phase' = phase /\ context' = context
  BY DEF Lifecycle!Return, Lifecycle!Die, Lifecycle!Start, Lifecycle!vars
<1> HIDE DEF phase, context
<1>7. {w} \in SUBSET Workers
  OBVIOUS
<1> QED
  BY <1>1, <1>2, <1>3, <1>4, <1>5, <1>6, <1>7 DEF Lifecycle!Next

\* Where Run is and what its contexts are, by where its worker is
LEMMA SameView ==
    ASSUME NEW v \in Workers, pc'[v] = pc[v], ctx'[v] = ctx[v]
    PROVE  RunPhase(v)' = RunPhase(v) /\ RunContext(v)' = RunContext(v)
BY DEF RunPhase, RunContext

\* A worker begins a batch, goes through its calls, ends it, or returns.
LEMMA LifecycleWorker ==
    ASSUME TypeOK, NEW w \in Workers, WorkerStep(w)
    PROVE  [Lifecycle!Next]_(Lifecycle!vars)
<1> USE DEF TypeOK, Goto, DropBatch, NextEvent
<1>1. CASE TickerFires(w)
  <2>1. /\ pc[w] = "idle" /\ ctx[w] = "live" /\ ctx' = ctx
        /\ pc'[w] \in {"claim", "reclaim"} /\ \A v \in Workers \ {w} : pc'[v] = pc[v]
    BY <1>1 DEF TickerFires
  <2>2. /\ RunPhase(w) = "idle" /\ RunContext(w) = "live"
        /\ RunPhase(w)' = "process" /\ RunContext(w)' = RunContext(w)
    BY <2>1 DEF RunPhase, RunContext, Calls, Marks
  <2> QED
    BY <2>1, <2>2, SameView, LifecycleStep
<1>2. CASE Stop(w)
  <2>1. /\ pc[w] = "idle" /\ ctx[w] # "live" /\ pc'[w] = "down"
        /\ \A v \in Workers \ {w} : pc'[v] = pc[v] /\ ctx'[v] = ctx[v]
    BY <1>2 DEF Stop
  <2>2. /\ RunPhase(w) = "idle" /\ RunContext(w) # "live"
        /\ RunPhase(w)' = "down" /\ RunContext(w)' = "cancelled"
    BY <2>1 DEF RunPhase, RunContext, Calls, Marks
  <2> QED
    BY <2>1, <2>2, SameView, LifecycleStep
<1>3. CASE ~TickerFires(w) /\ ~Stop(w)
  <2>1. /\ pc[w] \in Calls /\ pc'[w] \in Calls \union {"idle"} /\ ctx' = ctx
        /\ \A v \in Workers \ {w} : pc'[v] = pc[v]
    <3> DEFINE Moves == /\ pc[w] \in Calls /\ pc'[w] \in Calls \union {"idle"} /\ ctx' = ctx
                        /\ \A v \in Workers \ {w} : pc'[v] = pc[v]
    <3>1. CASE Reclaim(w) \/ ClaimSelect(w) \/ ClaimNothing(w) \/ ClaimCommit(w) \/ ClaimFails(w)
      BY <3>1 DEF Reclaim, ClaimSelect, ClaimNothing, ClaimCommit, ClaimFails, Calls
    <3>2. ASSUME NEW r \in Rows, PublishAcked(w, r) \/ PublishRejected(w, r) \/ PublishAborted(w, r)
          PROVE  Moves
      BY <3>2 DEF PublishAcked, PublishRejected, PublishAborted, AfterRejection, Calls, Marks
    <3>3. ASSUME NEW r \in Rows, RecordPublished(w, r) \/ RecordFailed(w, r) \/ RecordClosed(w, r)
          PROVE  Moves
      BY <3>3 DEF RecordPublished, RecordFailed, RecordClosed, Record, Calls, Marks
    <3> QED
      BY <1>3, <3>1, <3>2, <3>3 DEF WorkerStep, Recording
  <2>2. RunPhase(w) = "process" /\ RunPhase(w)' \in {"process", "idle"}
    BY <2>1 DEF RunPhase, Calls, Marks
  <2>3. RunContext(w)' = RunContext(w)
    BY <2>1 DEF RunContext, Calls, Marks
  <2> QED
    BY <2>1, <2>2, <2>3, SameView, LifecycleStep
<1> QED
  BY <1>1, <1>2, <1>3

\* A Run that ends leaves nothing of its contexts to the next.
LEMMA FreshNext == TypeOK /\ FreshInv /\ [Next]_vars => FreshInv'
<1> SUFFICES ASSUME TypeOK, FreshInv, [Next]_vars, NEW v \in Workers, pc'[v] = "down"
             PROVE  ctx'[v] = "live"
  BY DEF FreshInv
<1> USE DEF TypeOK, FreshInv, Goto, DropBatch, NextEvent, workers
<1>1. ASSUME NEW w \in Workers, WorkerStep(w), ~Stop(w) PROVE ctx'[v] = "live"
  <2> DEFINE Moves == ctx' = ctx /\ (pc'[v] = "down" => pc[v] = "down")
  <2>1. CASE \/ TickerFires(w) \/ Reclaim(w) \/ ClaimSelect(w) \/ ClaimNothing(w)
             \/ ClaimCommit(w) \/ ClaimFails(w)
    BY <2>1 DEF TickerFires, Reclaim, ClaimSelect, ClaimNothing, ClaimCommit, ClaimFails
  <2>2. ASSUME NEW r \in Rows, PublishAcked(w, r) \/ PublishRejected(w, r) \/ PublishAborted(w, r)
        PROVE  Moves
    BY <2>2 DEF PublishAcked, PublishRejected, PublishAborted, AfterRejection
  <2>3. ASSUME NEW r \in Rows, RecordPublished(w, r) \/ RecordFailed(w, r) \/ RecordClosed(w, r)
        PROVE  Moves
    BY <2>3 DEF RecordPublished, RecordFailed, RecordClosed, Record
  <2> QED
    BY <1>1, <2>1, <2>2, <2>3 DEF WorkerStep, Recording
<1>2. ASSUME NEW w \in Workers, Stop(w) \/ Crash(w) PROVE ctx'[v] = "live"
  BY <1>2 DEF Stop, Crash
<1>3. ASSUME NEW w \in Workers, Shutdown(w) \/ ForceCancel(w) \/ Restart(w)
      PROVE  ctx'[v] = "live"
  BY <1>3 DEF Shutdown, ForceCancel, Restart
<1>4. ASSUME (\E r \in Rows : Insert(r)) \/ Tick \/ UNCHANGED vars PROVE ctx'[v] = "live"
  BY <1>4 DEF Insert, Tick, vars
<1> QED
  BY <1>1, <1>2, <1>3, <1>4 DEF Next

\* Every step of the fleet is a step of the contract or none.
LEMMA LifecycleNext ==
    ASSUME TypeOK, FreshInv, [Next]_vars
    PROVE  [Lifecycle!Next]_(Lifecycle!vars)
<1> USE DEF TypeOK, workers
<1>1. ASSUME NEW w \in Workers, WorkerStep(w) PROVE [Lifecycle!Next]_(Lifecycle!vars)
  BY <1>1, LifecycleWorker
<1>2. ASSUME NEW w \in Workers, Shutdown(w) PROVE [Lifecycle!Next]_(Lifecycle!vars)
  <2>1. /\ pc[w] # "down" /\ ctx[w] = "live" /\ ctx'[w] = "stopping" /\ pc' = pc
        /\ \A v \in Workers \ {w} : ctx'[v] = ctx[v]
    BY <1>2 DEF Shutdown
  <2>2. /\ RunPhase(w) # "down" /\ RunContext(w) = "live"
        /\ RunPhase(w)' = RunPhase(w) /\ RunContext(w)' = "stopping"
    BY <2>1 DEF RunPhase, RunContext
  <2> QED
    BY <2>1, <2>2, SameView, LifecycleStep
<1>3. ASSUME NEW w \in Workers, ForceCancel(w) PROVE [Lifecycle!Next]_(Lifecycle!vars)
  <2>1. /\ ctx[w] = "stopping" /\ ctx'[w] = "cancelled" /\ pc' = pc
        /\ \A v \in Workers \ {w} : ctx'[v] = ctx[v]
    BY <1>3 DEF ForceCancel
  <2>2. /\ RunPhase(w)' = RunPhase(w) /\ RunContext(w)' = "cancelled"
        /\ RunContext(w) \in {"stopping", "cancelled"}
    BY <2>1 DEF RunPhase, RunContext
  <2> QED
    BY <2>1, <2>2, SameView, LifecycleStep
<1>4. ASSUME NEW w \in Workers, Crash(w) PROVE [Lifecycle!Next]_(Lifecycle!vars)
  <2>1. /\ pc[w] # "down" /\ pc'[w] = "down"
        /\ \A v \in Workers \ {w} : pc'[v] = pc[v] /\ ctx'[v] = ctx[v]
    BY <1>4 DEF Crash, DropBatch, Goto
  <2>2. RunPhase(w) # "down" /\ RunPhase(w)' = "down" /\ RunContext(w)' = "cancelled"
    BY <2>1 DEF RunPhase, RunContext, Calls, Marks
  <2> QED
    BY <2>1, <2>2, SameView, LifecycleStep
<1>5. ASSUME NEW w \in Workers, Restart(w) PROVE [Lifecycle!Next]_(Lifecycle!vars)
  <2>1. /\ pc[w] = "down" /\ pc'[w] = "idle" /\ ctx' = ctx
        /\ \A v \in Workers \ {w} : pc'[v] = pc[v]
    BY <1>5 DEF Restart, Goto
  <2>2. /\ RunPhase(w) = "down" /\ RunPhase(w)' = "idle"
        /\ RunContext(w)' = "live"
    BY <2>1 DEF RunPhase, RunContext, Calls, Marks, FreshInv
  <2> QED
    BY <2>1, <2>2, SameView, LifecycleStep
<1>6. ASSUME (\E r \in Rows : Insert(r)) \/ Tick \/ UNCHANGED vars
      PROVE  [Lifecycle!Next]_(Lifecycle!vars)
  <2>1. pc' = pc /\ ctx' = ctx
    BY <1>6 DEF Insert, Tick, vars
  <2> QED
    BY <2>1, SameView, LifecycleStutters
<1> QED
  BY <1>1, <1>2, <1>3, <1>4, <1>5, <1>6 DEF Next

\* The fleet implements the contract of Run, and so does WorkerRun: the
\* contexts the batches of the fleet work under are those its Run provides.
THEOREM FleetObeysRun == Spec => ObeysRunContract
<1>1. Init => FreshInv /\ Lifecycle!Init
  BY DEF Init, FreshInv, RunPhase, RunContext, Calls, Marks, Lifecycle!Init
<1>2. TypeOK /\ FreshInv /\ [Next]_vars => [Lifecycle!Next]_(Lifecycle!vars)
  BY LifecycleNext
<1> QED
  BY <1>1, <1>2, FreshNext, TypeCorrect, PTL DEF Spec, ObeysRunContract, Lifecycle!Spec

=============================================================================
