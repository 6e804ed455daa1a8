-------------------------- MODULE OutboxTimingProofs --------------------------
(***************************************************************************)
(* What a stale timeout longer than a whole batch buys, for any number of  *)
(* workers and rows: no event is in two workers' hands, a row is closed    *)
(* with exactly MaxRetries failures on record, and every copy of an event  *)
(* but the first is accounted for.                                         *)
(***************************************************************************)
EXTENDS OutboxWorkerProofs

-----------------------------------------------------------------------------
(* A claim returns at most BatchSize rows: the number of older rows numbers *)
(* the rows of the claim from 0, without repetition.                        *)

\* A claim takes at most BatchSize rows (LIMIT $1).
LEMMA OldestBounded ==
    ASSUME NEW S, S \subseteq Rows
    PROVE  IsFiniteSet(Oldest(S)) /\ Cardinality(Oldest(S)) <= BatchSize
<1> USE RepositoryAssumption
<1> DEFINE older(r) == {s \in S : s < r}
           rank == [r \in Oldest(S) |-> Cardinality(older(r))]
<1>1. \A r \in S : IsFiniteSet(older(r)) /\ Cardinality(older(r)) \in Nat
  <2> SUFFICES ASSUME NEW r \in S PROVE IsFiniteSet(older(r))
    BY FS_CardinalityType
  <2>1. \A s \in older(r) : s <= r
    OBVIOUS
  <2>2. older(r) \in SUBSET Nat /\ r \in Nat
    OBVIOUS
  <2> QED
    BY <2>1, <2>2, FS_BoundedSetOfNaturals
<1>2. rank \in [Oldest(S) -> 0..(BatchSize - 1)]
  <2> SUFFICES ASSUME NEW r \in Oldest(S)
               PROVE  Cardinality(older(r)) \in 0..(BatchSize - 1)
    OBVIOUS
  <2>1. r \in S /\ Cardinality(older(r)) < BatchSize
    BY DEF Oldest
  <2> QED
    BY <1>1, <2>1
<1>3. ASSUME NEW q \in Oldest(S), NEW r \in Oldest(S), q < r
      PROVE  rank[q] < rank[r]
  <2>1. q \in S /\ r \in S /\ q \in Nat /\ r \in Nat
    BY DEF Oldest
  <2>2. older(q) \subseteq older(r)
    <3> SUFFICES ASSUME NEW s \in S, s < q PROVE s < r
      OBVIOUS
    <3> QED
      BY <1>3, <2>1
  <2>5. q \in older(r) /\ q \notin older(q)
    BY <1>3, <2>1
  <2>3. Cardinality(older(q)) <= Cardinality(older(r))
    BY <1>1, <2>1, <2>2, FS_Subset
  <2>4. Cardinality(older(q)) # Cardinality(older(r))
    BY <1>1, <2>1, <2>2, <2>5, FS_Subset
  <2> QED
    BY <1>1, <2>1, <2>3, <2>4
<1>4. rank \in Injection(Oldest(S), 0..(BatchSize - 1))
  <2>1. \A q, r \in Oldest(S) : q \in Nat /\ r \in Nat
    BY DEF Oldest
  <2>2. \A r \in Oldest(S) : rank[r] \in Nat
    BY <1>2
  <2>3. \A q, r \in Oldest(S) : rank[q] = rank[r] => q = r
    BY <1>3, <2>1, <2>2
  <2> QED
    BY <1>2, <2>3 DEF Injection, IsInjective
<1>5. IsFiniteSet(0..(BatchSize - 1)) /\ Cardinality(0..(BatchSize - 1)) = BatchSize
  BY FS_Interval
<1> HIDE DEF rank
<1> QED
  BY <1>4, <1>5, FS_Injection

-----------------------------------------------------------------------------
(* Arithmetic of calls *)

\* More calls take longer.
LEMMA CallsMonotone ==
    ASSUME NEW m \in Nat, NEW n \in Nat, m <= n
    PROVE  CallBound * m <= CallBound * n
BY WorkerAssumption

\* One more call takes CallBound longer.
LEMMA OneMoreCall ==
    ASSUME NEW n \in Nat
    PROVE  CallBound * (n + 1) = CallBound * n + CallBound
BY WorkerAssumption

\* The time of any number of calls is a number.
LEMMA CallsNat ==
    ASSUME NEW n \in Nat
    PROVE  CallBound * n \in Nat
BY WorkerAssumption

\* A worker with a batch in hand has made at most two calls for each event.
LEMMA CallsDoneBounds ==
    ASSUME NEW w \in Workers, AgeInv, todo[w] # {}
    PROVE  CallsDone(w) \in 0..(2 * BatchSize)
<1>1. Cardinality(todo[w]) \in 1..BatchSize
  BY FS_CardinalityType, FS_EmptySet, RepositoryAssumption DEF AgeInv, YoungBatch
<1> QED
  BY <1>1, RepositoryAssumption DEF CallsDone, Marks

\* A worker is done with its batch before the batch is stale.
LEMMA HeldIsFresh ==
    ASSUME FleetInv, HoldInv, AgeInv, Prompt, StaleTimeout > 0,
           NEW w \in Workers, NEW r \in todo[w]
    PROVE  r \notin Stale
<1> USE RepositoryAssumption, WorkerAssumption DEF FleetInv, TypeOK, TableTypeOK
<1>1. CASE pc[w] = "commit"
  BY <1>1 DEF LockInv, Unlocked, Stale
<1>2. CASE pc[w] # "commit"
  <2>1. CallsDone(w) \in 0..(2 * BatchSize)
    BY CallsDoneBounds
  <2>2. CallBound * CallsDone(w) <= CallBound * (2 * BatchSize)
    BY <2>1, CallsMonotone
  <2>3. CallBound * (2 * BatchSize + 1) = CallBound * (2 * BatchSize) + CallBound
    BY OneMoreCall
  <2>4. /\ CallBound * CallsDone(w) \in Nat
        /\ CallBound * (2 * BatchSize) \in Nat
    BY <2>1, CallsNat
  <2>5. processingFor[r] <= busy[w] + CallBound * CallsDone(w)
    BY DEF AgeInv, YoungBatch
  <2>6. StaleTimeout > CallBound * (2 * BatchSize + 1)
    BY DEF Prompt
  <2>7. /\ busy[w] \in Nat /\ busy[w] <= CallBound
        /\ processingFor[r] \in Nat
    OBVIOUS
  <2>8. processingFor[r] < StaleTimeout
    BY <2>2, <2>3, <2>4, <2>5, <2>6, <2>7
  <2> QED
    BY <2>7, <2>8 DEF Stale
<1> QED
  BY <1>1, <1>2

-----------------------------------------------------------------------------
(* Ages *)

\* A worker that does not move, and whose rows grow no older
LEMMA YoungFrame ==
    ASSUME TypeOK, TypeOK', NEW v \in Workers, YoungBatch(v),
           pc'[v] = pc[v], todo'[v] = todo[v], busy'[v] = busy[v],
           \A r \in Rows : processingFor'[r] <= processingFor[r]
    PROVE  YoungBatch(v)'
<1>1. CallsDone(v)' = CallsDone(v)
  BY DEF CallsDone
<1>2. ASSUME StaleTimeout > 0, NEW r \in todo[v]
      PROVE  processingFor'[r] <= busy'[v] + CallBound * CallsDone(v)'
  <2>1. CallsDone(v) \in Int /\ CallBound * CallsDone(v) \in Int
    <3>1. Cardinality(todo[v]) \in Nat
      BY FS_CardinalityType DEF YoungBatch
    <3>2. CallsDone(v) \in Int
      BY <3>1, RepositoryAssumption DEF CallsDone
    <3> QED
      BY <3>2, WorkerAssumption
  <2>2. /\ processingFor[r] \in Nat /\ processingFor'[r] \in Nat
        /\ busy[v] \in Nat /\ processingFor'[r] <= processingFor[r]
    BY RepositoryAssumption, WorkerAssumption DEF TypeOK, TableTypeOK
  <2>3. processingFor[r] <= busy[v] + CallBound * CallsDone(v)
    BY <1>2 DEF YoungBatch
  <2> QED
    BY <1>1, <2>1, <2>2, <2>3
<1> QED
  BY <1>2 DEF YoungBatch

\* A worker with no batch
LEMMA YoungEmpty ==
    ASSUME NEW v \in Workers, todo'[v] = {}, StaleTimeout = 0 => pc'[v] # "reclaim"
    PROVE  YoungBatch(v)'
BY FS_EmptySet, RepositoryAssumption DEF YoungBatch

\* A worker that goes from one call to the next, one more call done
LEMMA YoungNextCall ==
    ASSUME TypeOK, TypeOK', NEW v \in Workers, YoungBatch(v), todo[v] # {},
           pc'[v] # "reclaim", busy'[v] = 0,
           todo'[v] \subseteq todo[v],
           CallsDone(v) \in Nat, CallsDone(v)' = CallsDone(v) + 1,
           \A r \in Rows : processingFor'[r] <= processingFor[r]
    PROVE  YoungBatch(v)'
<1>1. IsFiniteSet(todo'[v]) /\ Cardinality(todo'[v]) <= BatchSize
  <2>1. /\ Cardinality(todo'[v]) <= Cardinality(todo[v])
        /\ IsFiniteSet(todo'[v])
    BY FS_Subset DEF YoungBatch
  <2>2. Cardinality(todo'[v]) \in Nat /\ Cardinality(todo[v]) \in Nat
    BY <2>1, FS_CardinalityType DEF YoungBatch
  <2> QED
    BY <2>1, <2>2, RepositoryAssumption DEF YoungBatch
<1>2. ASSUME StaleTimeout > 0, NEW r \in todo'[v]
      PROVE  processingFor'[r] <= busy'[v] + CallBound * CallsDone(v)'
  <2>1. processingFor[r] <= busy[v] + CallBound * CallsDone(v)
    BY <1>2 DEF YoungBatch
  <2>2. r \in Rows
    BY DEF TypeOK
  <2>3. /\ processingFor[r] \in Nat /\ processingFor'[r] \in Nat
        /\ busy[v] \in Nat /\ busy[v] <= CallBound /\ CallBound \in Nat
        /\ processingFor'[r] <= processingFor[r]
    BY <2>2, RepositoryAssumption, WorkerAssumption DEF TypeOK, TableTypeOK
  <2>4. CallBound * CallsDone(v)' = CallBound * CallsDone(v) + CallBound
    BY OneMoreCall
  <2>5. CallBound * CallsDone(v) \in Nat
    BY CallsNat
  <2> QED
    BY <2>1, <2>3, <2>4, <2>5
<1> QED
  BY <1>1, <1>2 DEF YoungBatch

\* Every statement but the passing of time makes rows younger or no older.
LEMMA NoOlder ==
    ASSUME TypeOK, NEW w \in Workers, WorkerStep(w), NEW r \in Rows
    PROVE  processingFor'[r] <= processingFor[r]
<1> USE RepositoryAssumption DEF TypeOK, TableTypeOK, table
<1>1. CASE TickerFires(w) \/ ClaimNothing(w) \/ Stop(w)
  BY <1>1 DEF TickerFires, ClaimNothing, Stop
<1>2. CASE Reclaim(w)
  BY <1>2 DEF Reclaim, ReclaimStale
<1>3. CASE ClaimSelect(w)
  BY <1>3 DEF ClaimSelect, LockForClaim
<1>4. CASE ClaimCommit(w) \/ ClaimFails(w)
  BY <1>4 DEF ClaimCommit, ClaimFails, CommitClaim, RollbackClaim
<1>5. ASSUME NEW q \in Rows, PublishAcked(w, q) \/ PublishRejected(w, q) \/ PublishAborted(w, q)
      PROVE  processingFor'[r] <= processingFor[r]
  BY <1>5 DEF PublishAcked, PublishRejected, PublishAborted
<1>6. ASSUME NEW q \in Rows, RecordPublished(w, q) \/ RecordFailed(w, q) \/ RecordClosed(w, q)
      PROVE  processingFor'[r] <= processingFor[r]
  BY <1>6 DEF RecordPublished, RecordFailed, RecordClosed, Record,
              MarkPublished, MarkFailed, MarkClose
<1> QED
  BY <1>1, <1>2, <1>3, <1>4, <1>5, <1>6 DEF WorkerStep, Recording

\* A worker's step touches the control state of no other worker.
LEMMA OthersStay ==
    ASSUME TypeOK, NEW w \in Workers, WorkerStep(w), NEW v \in Workers, v # w
    PROVE  pc'[v] = pc[v] /\ todo'[v] = todo[v] /\ snap'[v] = snap[v] /\ busy'[v] = busy[v]
<1> USE DEF TypeOK, Goto, DropBatch, NextEvent
<1>1. CASE TickerFires(w) \/ Reclaim(w) \/ ClaimNothing(w) \/ ClaimCommit(w) \/ Stop(w)
  BY <1>1 DEF TickerFires, Reclaim, ClaimNothing, ClaimCommit, Stop
<1>2. CASE ClaimSelect(w) \/ ClaimFails(w)
  BY <1>2 DEF ClaimSelect, ClaimFails
<1>3. ASSUME NEW q \in Rows, PublishAcked(w, q) \/ PublishRejected(w, q) \/ PublishAborted(w, q)
      PROVE  pc'[v] = pc[v] /\ todo'[v] = todo[v] /\ snap'[v] = snap[v] /\ busy'[v] = busy[v]
  BY <1>3 DEF PublishAcked, PublishRejected, PublishAborted
<1>4. ASSUME NEW q \in Rows, RecordPublished(w, q) \/ RecordFailed(w, q) \/ RecordClosed(w, q)
      PROVE  pc'[v] = pc[v] /\ todo'[v] = todo[v] /\ snap'[v] = snap[v] /\ busy'[v] = busy[v]
  BY <1>4 DEF RecordPublished, RecordFailed, RecordClosed, Record
<1> QED
  BY <1>1, <1>2, <1>3, <1>4 DEF WorkerStep, Recording

\* Every statement of a worker keeps each event in hand no older than the calls
\* its worker has made.
LEMMA AgeWorkerStep ==
    ASSUME FleetInv, FleetInv', AgeInv, NEW w \in Workers, WorkerStep(w)
    PROVE  AgeInv'
<1> USE DEF FleetInv
<1>1. ASSUME NEW v \in Workers, v # w PROVE YoungBatch(v)'
  BY <1>1, NoOlder, OthersStay, YoungFrame DEF AgeInv
<1>2. YoungBatch(w)
  BY DEF AgeInv
<1>3. \A r \in Rows : processingFor'[r] <= processingFor[r]
  BY NoOlder
<1>4. ASSUME TickerFires(w) \/ Reclaim(w) \/ ClaimNothing(w) \/ Stop(w)
      PROVE  YoungBatch(w)'
  <2>1. todo'[w] = {} /\ (StaleTimeout = 0 => pc'[w] # "reclaim")
    BY <1>4 DEF TickerFires, Reclaim, ClaimNothing, Stop, Goto, BatchInv, TypeOK
  <2> QED
    BY <2>1, YoungEmpty
<1>5. ASSUME ClaimFails(w) \/ \E r \in Rows : PublishAborted(w, r)
      PROVE  YoungBatch(w)'
  <2>1. todo'[w] = {} /\ pc'[w] = "idle"
    BY <1>5 DEF ClaimFails, PublishAborted, DropBatch, Goto, TypeOK
  <2> QED
    BY <2>1, YoungEmpty
<1>6. ASSUME ClaimSelect(w)
      PROVE  YoungBatch(w)'
  <2>1. /\ todo'[w] = Oldest(Claimable) /\ pc'[w] = "commit" /\ busy'[w] = 0
        /\ \A r \in todo'[w] : processingFor'[r] = 0
    BY <1>6 DEF ClaimSelect, LockForClaim, Goto, TypeOK, TableTypeOK, Oldest, Claimable
  <2>2. IsFiniteSet(todo'[w]) /\ Cardinality(todo'[w]) <= BatchSize
    BY <2>1, OldestBounded DEF Claimable
  <2>3. CallsDone(w)' = 0
    BY <2>1 DEF CallsDone, Marks
  <2>4. CallBound * 0 = 0
    BY WorkerAssumption
  <2> QED
    BY <2>1, <2>2, <2>3, <2>4 DEF YoungBatch
<1>7. ASSUME ClaimCommit(w)
      PROVE  YoungBatch(w)'
  <2>1. /\ pc[w] = "commit" /\ pc'[w] = "publish" /\ busy'[w] = 0
        /\ todo'[w] = todo[w]
    BY <1>7 DEF ClaimCommit, Goto, TypeOK
  <2>2. Cardinality(todo[w]) \in Nat /\ Cardinality(todo[w]) <= BatchSize
    BY <1>2, FS_CardinalityType DEF YoungBatch
  <2>3. CASE todo[w] = {}
    BY <2>1, <2>3, YoungEmpty
  <2>4. CASE todo[w] # {}
    \* The batch may be short of BatchSize, which leaves it time to spare.
    <3>1. /\ CallsDone(w) = 0
          /\ CallsDone(w)' = 2 * (BatchSize - Cardinality(todo[w])) + 1
      BY <2>1 DEF CallsDone, Marks
    <3>2. CallsDone(w)' \in Nat /\ 1 <= CallsDone(w)'
      BY <2>2, <3>1, RepositoryAssumption
    <3>3. CallBound * 1 <= CallBound * CallsDone(w)' /\ CallBound * CallsDone(w)' \in Nat
      BY <3>2, CallsMonotone, CallsNat
    <3>4. ASSUME StaleTimeout > 0, NEW r \in todo[w]
          PROVE  processingFor'[r] <= busy'[w] + CallBound * CallsDone(w)'
      <4>1. processingFor[r] <= busy[w] + CallBound * 0
        BY <1>2, <3>1, <3>4 DEF YoungBatch
      <4>2. r \in Rows
        BY DEF TypeOK
      <4>3. /\ processingFor'[r] <= processingFor[r] /\ busy[w] <= CallBound
            /\ processingFor[r] \in Nat /\ processingFor'[r] \in Nat
            /\ busy[w] \in Nat /\ CallBound \in Nat
        BY <1>3, <4>2, RepositoryAssumption, WorkerAssumption DEF TypeOK, TableTypeOK
      <4> QED
        BY <2>1, <3>3, <4>1, <4>3
    <3> QED
      BY <1>2, <2>1, <3>4 DEF YoungBatch
  <2> QED
    BY <2>3, <2>4
<1>8. ASSUME NEW r \in Rows, PublishAcked(w, r) \/ PublishRejected(w, r)
      PROVE  YoungBatch(w)'
  <2>1. /\ pc[w] = "publish" /\ r \in todo[w]
        /\ todo' = todo /\ busy'[w] = 0 /\ pc'[w] \in Marks
    BY <1>8 DEF PublishAcked, PublishRejected, AfterRejection, Goto, IsNext, Marks, TypeOK
  <2>2. CallsDone(w) \in Nat
    BY <2>1, CallsDoneBounds, RepositoryAssumption
  <2>3. Cardinality(todo[w]) \in Nat
    BY <1>2, FS_CardinalityType DEF YoungBatch
  <2>4. CallsDone(w)' = CallsDone(w) + 1
    BY <2>1, <2>3, RepositoryAssumption DEF CallsDone, Marks
  <2> QED
    BY <1>2, <1>3, <2>1, <2>2, <2>4, YoungNextCall DEF Marks
<1>9. ASSUME NEW r \in Rows, RecordPublished(w, r) \/ RecordFailed(w, r) \/ RecordClosed(w, r)
      PROVE  YoungBatch(w)'
  <2>1. /\ pc[w] \in Marks /\ r \in todo[w] /\ busy'[w] = 0
        /\ todo'[w] = todo[w] \ {r}
        /\ pc'[w] = IF todo[w] = {r} THEN "idle" ELSE "publish"
    BY <1>9 DEF RecordPublished, RecordFailed, RecordClosed, Record, NextEvent, Goto,
                IsNext, Marks, TypeOK
  <2>2. CASE todo[w] = {r}
    BY <2>1, <2>2, YoungEmpty
  <2>3. CASE todo[w] # {r}
    <3>1. CallsDone(w) \in Nat
      BY <2>1, CallsDoneBounds, RepositoryAssumption
    <3>2. /\ Cardinality(todo[w]) \in Nat
          /\ Cardinality(todo'[w]) = Cardinality(todo[w]) - 1
      BY <1>2, <2>1, FS_CardinalityType, FS_RemoveElement DEF YoungBatch
    <3>3. /\ CallsDone(w) = 2 * (BatchSize - Cardinality(todo[w])) + 2
          /\ CallsDone(w)' = 2 * (BatchSize - Cardinality(todo'[w])) + 1
      BY <2>1, <2>3 DEF CallsDone, Marks
    <3>4. CallsDone(w)' = CallsDone(w) + 1
      BY <3>2, <3>3, RepositoryAssumption
    <3> QED
      BY <1>2, <1>3, <2>1, <2>3, <3>1, <3>4, YoungNextCall
  <2> QED
    BY <2>2, <2>3
<1>10. YoungBatch(w)'
  BY <1>4, <1>5, <1>6, <1>7, <1>8, <1>9 DEF WorkerStep, Recording
<1> QED
  BY <1>1, <1>10 DEF AgeInv

-----------------------------------------------------------------------------
(* Holds *)

\* Rows in hand stay as they are, and no worker takes one more.
LEMMA HoldFrame ==
    ASSUME TypeOK, HoldInv,
           \A v \in Workers :
              /\ todo'[v] \subseteq todo[v]
              /\ pc[v] = "commit" /\ todo'[v] # {} => pc'[v] = "commit"
              /\ \A r \in todo'[v] :
                    /\ snap'[v][r] = snap[v][r]
                    /\ attempts'[r] = attempts[r]
                    /\ status'[r] = status[r]
    PROVE  HoldInv'
BY DEF HoldInv

\* Every statement of a prompt worker keeps each event in hand in no other
\* hands, and as it was when it was claimed: a reclaim finds no event in hand.
LEMMA HoldWorkerStep ==
    ASSUME FleetInv, HoldInv, AgeInv, Prompt, NEW w \in Workers, WorkerStep(w)
    PROVE  HoldInv'
<1> USE RepositoryAssumption DEF FleetInv, TypeOK, TableTypeOK, table
<1>1. CASE TickerFires(w) \/ ClaimNothing(w) \/ Stop(w)
  BY <1>1, HoldFrame DEF TickerFires, ClaimNothing, Stop, Goto
<1>2. CASE Reclaim(w)
  <2>1. StaleTimeout > 0
    BY <1>2 DEF Reclaim, AgeInv, YoungBatch
  <2>2. \A v \in Workers : \A r \in todo[v] : r \notin Stale
    BY <2>1, HeldIsFresh
  <2>3. \A v \in Workers : \A r \in todo[v] : status'[r] = status[r]
    BY <1>2, <2>2 DEF Reclaim, ReclaimStale
  <2>4. /\ pc[w] = "reclaim" /\ pc' = [pc EXCEPT ![w] = "claim"]
        /\ UNCHANGED <<todo, snap, attempts>>
    BY <1>2 DEF Reclaim, ReclaimStale, Goto
  <2> QED
    BY <2>3, <2>4, HoldFrame
<1>3. CASE ClaimSelect(w)
  <2> DEFINE batch == Oldest(Claimable)
  <2>1. \A r \in batch : status[r] = "PENDING" /\ lockedBy[r] = NoWorker /\ r \in Rows
    BY DEF Oldest, Claimable, Unlocked
  <2>2. \A v \in Workers : \A r \in todo[v] : r \notin batch
    BY <2>1 DEF HoldInv, LockInv
  <2>3. /\ pc' = [pc EXCEPT ![w] = "commit"]
        /\ todo' = [todo EXCEPT ![w] = batch]
        /\ snap' = [snap EXCEPT ![w] = [r \in Rows |-> IF r \in batch THEN attempts[r] ELSE 0]]
        /\ UNCHANGED <<attempts, status>>
    BY <1>3 DEF ClaimSelect, LockForClaim, Goto
  <2> HIDE DEF batch
  <2>4. ASSUME NEW v \in Workers, NEW r \in todo'[v]
        PROVE  /\ \A u \in Workers : r \in todo'[u] => u = v
               /\ snap'[v][r] = attempts'[r]
               /\ pc'[v] # "commit" => status'[r] = "PROCESSING"
    <3>1. CASE v = w
      BY <2>1, <2>2, <2>3, <2>4, <3>1
    <3>2. CASE v # w
      BY <2>2, <2>3, <2>4, <3>2 DEF HoldInv
    <3> QED
      BY <3>1, <3>2
  <2> QED
    BY <2>4 DEF HoldInv
<1>4. CASE ClaimCommit(w)
  <2>1. /\ pc[w] = "commit" /\ pc' = [pc EXCEPT ![w] = "publish"]
        /\ status' = [r \in Rows |-> IF r \in todo[w] THEN "PROCESSING" ELSE status[r]]
        /\ UNCHANGED <<todo, snap, attempts>>
    BY <1>4 DEF ClaimCommit, CommitClaim, Goto
  <2> QED
    BY <2>1 DEF HoldInv
<1>5. CASE ClaimFails(w)
  <2>1. /\ todo' = [todo EXCEPT ![w] = {}] /\ snap' = [snap EXCEPT ![w] = NoSnap]
        /\ pc' = [pc EXCEPT ![w] = "idle"]
        /\ \A r \in Rows : r \notin todo[w] => status'[r] = status[r]
        /\ UNCHANGED attempts
    BY <1>5 DEF ClaimFails, CommitClaim, RollbackClaim, DropBatch, Goto
  <2>2. \A v \in Workers : v # w => \A r \in todo[v] : r \notin todo[w]
    BY DEF HoldInv
  <2> QED
    BY <2>1, <2>2, HoldFrame
<1>6. ASSUME NEW q \in Rows, PublishAcked(w, q) \/ PublishRejected(w, q)
      PROVE  HoldInv'
  <2>1. /\ pc[w] = "publish" /\ UNCHANGED <<table, todo, snap>>
        /\ \A v \in Workers : v # w => pc'[v] = pc[v]
    BY <1>6 DEF PublishAcked, PublishRejected, Goto
  <2> QED
    BY <2>1, HoldFrame
<1>7. ASSUME NEW q \in Rows, PublishAborted(w, q) PROVE HoldInv'
  <2>1. /\ todo' = [todo EXCEPT ![w] = {}] /\ snap' = [snap EXCEPT ![w] = NoSnap]
        /\ pc' = [pc EXCEPT ![w] = "idle"]
        /\ UNCHANGED table
    BY <1>7 DEF PublishAborted, DropBatch, Goto
  <2> QED
    BY <2>1, HoldFrame
<1>8. ASSUME NEW q \in Rows, RecordPublished(w, q) \/ RecordFailed(w, q) \/ RecordClosed(w, q)
      PROVE  HoldInv'
  <2>1. /\ pc[w] \in Marks /\ q \in todo[w]
        /\ todo' = [todo EXCEPT ![w] = @ \ {q}] /\ snap' = [snap EXCEPT ![w][q] = 0]
        /\ \A v \in Workers : v # w => pc'[v] = pc[v]
    BY <1>8 DEF RecordPublished, RecordFailed, RecordClosed, Record, NextEvent, Goto,
                IsNext, Marks
  <2>2. \A r \in Rows : r # q => status'[r] = status[r] /\ attempts'[r] = attempts[r]
    BY <1>8 DEF RecordPublished, RecordFailed, RecordClosed, Record,
                MarkPublished, MarkFailed, MarkClose
  <2>3. \A v \in Workers : q \notin todo'[v]
    BY <2>1 DEF HoldInv
  <2>4. \A v \in Workers : \A r \in todo'[v] : r \in Rows /\ r # q /\ snap'[v][r] = snap[v][r]
    BY <2>1, <2>3
  <2>5. pc[w] # "commit"
    BY <2>1 DEF Marks
  <2> QED
    BY <2>1, <2>2, <2>4, <2>5, HoldFrame
<1> QED
  BY <1>1, <1>2, <1>3, <1>4, <1>5, <1>6, <1>7, <1>8 DEF WorkerStep, Recording

-----------------------------------------------------------------------------
(* The exact budget *)

\* A step that records no failure and closes no row keeps the exact budget.
LEMMA ExactFrame ==
    ASSUME ExactInv,
           \A r \in Rows :
              /\ attempts'[r] = attempts[r]
              /\ status'[r] = "CLOSE" => status[r] = "CLOSE"
    PROVE  ExactInv'
BY DEF ExactInv

\* Every statement of a prompt worker keeps it: the copy a failure is recorded
\* from is the row itself.
LEMMA ExactWorkerStep ==
    ASSUME FleetInv, HoldInv, ExactInv, NEW w \in Workers, WorkerStep(w)
    PROVE  ExactInv'
<1> USE RepositoryAssumption, WorkerAssumption DEF FleetInv, TypeOK, TableTypeOK, table
<1>1. CASE TickerFires(w) \/ ClaimSelect(w) \/ ClaimNothing(w) \/ Stop(w)
  BY <1>1, ExactFrame DEF TickerFires, ClaimSelect, LockForClaim, ClaimNothing, Stop
<1>2. CASE Reclaim(w)
  BY <1>2, ExactFrame DEF Reclaim, ReclaimStale
<1>3. CASE ClaimCommit(w) \/ ClaimFails(w)
  BY <1>3, ExactFrame DEF ClaimCommit, ClaimFails, CommitClaim, RollbackClaim
<1>4. ASSUME NEW q \in Rows, PublishAcked(w, q) \/ PublishRejected(w, q) \/ PublishAborted(w, q)
      PROVE  ExactInv'
  BY <1>4, ExactFrame DEF PublishAcked, PublishRejected, PublishAborted
<1>5. ASSUME NEW q \in Rows, RecordPublished(w, q) PROVE ExactInv'
  BY <1>5, ExactFrame DEF RecordPublished, Record, MarkPublished
<1>6. ASSUME NEW q \in Rows, RecordFailed(w, q) PROVE ExactInv'
  <2>1. pc[w] = "markFailed" /\ IsNext(w, q) /\ q \in todo[w]
    BY <1>6 DEF RecordFailed, Record, IsNext
  <2>2. attempts[q] < MaxRetries
    BY <2>1 DEF HoldInv, FailInv
  <2>3. \/ UNCHANGED table
        \/ /\ attempts' = [attempts EXCEPT ![q] = @ + 1]
           /\ status' = [status EXCEPT ![q] = "PENDING"]
    BY <1>6 DEF RecordFailed, Record, MarkFailed
  <2> QED
    BY <2>2, <2>3 DEF ExactInv
<1>7. ASSUME NEW q \in Rows, RecordClosed(w, q) PROVE ExactInv'
  <2>1. pc[w] = "markClose" /\ IsNext(w, q) /\ q \in todo[w]
    BY <1>7 DEF RecordClosed, Record, IsNext
  <2>2. attempts[q] >= MaxRetries
    BY <2>1 DEF HoldInv, CloseInv
  <2>3. \/ UNCHANGED table
        \/ UNCHANGED attempts /\ status' = [status EXCEPT ![q] = "CLOSE"]
    BY <1>7 DEF RecordClosed, Record, MarkClose
  <2>4. attempts[q] = MaxRetries
    <3>1. attempts[q] <= MaxRetries
      BY DEF ExactInv
    <3>2. attempts[q] \in Nat
      OBVIOUS
    <3> QED
      BY <2>2, <3>1, <3>2
  <2> QED
    BY <2>3, <2>4 DEF ExactInv
<1> QED
  BY <1>1, <1>2, <1>3, <1>4, <1>5, <1>6, <1>7 DEF WorkerStep, Recording

-----------------------------------------------------------------------------
(* All together *)

\* A tick makes a row in hand one tick older, and the call in which it is.
LEMMA AgeTick ==
    ASSUME FleetInv, FleetInv', AgeInv, Prompt, Tick
    PROVE  AgeInv'
<1> USE RepositoryAssumption, WorkerAssumption DEF FleetInv, TypeOK, TableTypeOK
<1> SUFFICES ASSUME NEW v \in Workers PROVE YoungBatch(v)'
  BY DEF AgeInv
<1>1. YoungBatch(v) /\ pc' = pc /\ todo' = todo
  BY DEF AgeInv, Tick
<1>2. CallsDone(v)' = CallsDone(v)
  BY <1>1 DEF CallsDone
<1>3. ASSUME StaleTimeout > 0, NEW r \in todo[v]
      PROVE  processingFor'[r] <= busy'[v] + CallBound * CallsDone(v)'
  <2>1. pc[v] \in Calls
    BY DEF BatchInv, Calls, Marks
  <2>2. CallBound > 0
    BY <1>3 DEF Prompt
  <2>3. busy'[v] = busy[v] + 1
    BY <2>1, <2>2 DEF Tick
  <2>4. processingFor'[r] <= processingFor[r] + 1
    BY DEF Tick, AdvanceClock
  <2>5. CallBound * CallsDone(v) \in Nat
    BY CallsDoneBounds, CallsNat
  <2>6. processingFor[r] <= busy[v] + CallBound * CallsDone(v)
    BY <1>1, <1>3 DEF YoungBatch
  <2>7. processingFor[r] \in Nat /\ processingFor'[r] \in Nat /\ busy[v] \in Nat
    OBVIOUS
  <2> QED
    BY <1>2, <2>3, <2>4, <2>5, <2>6, <2>7
<1> QED
  BY <1>1, <1>3 DEF YoungBatch

\* At the start no worker holds anything.
LEMMA PromptInit == Init => HoldInv /\ AgeInv /\ ExactInv
<1> SUFFICES ASSUME Init PROVE HoldInv /\ AgeInv /\ ExactInv
  OBVIOUS
<1>1. \A w \in Workers : todo[w] = {} /\ pc[w] = "idle"
  BY DEF Init
<1>2. AgeInv
  <2> SUFFICES ASSUME NEW w \in Workers PROVE YoungBatch(w)
    BY DEF AgeInv
  <2>1. todo[w] = {} /\ pc[w] = "idle"
    BY <1>1
  <2> QED
    BY <2>1, FS_EmptySet, RepositoryAssumption DEF YoungBatch
<1>3. ExactInv
  BY WorkerAssumption DEF Init, TableInit, ExactInv
<1> QED
  BY <1>1, <1>2, <1>3 DEF HoldInv

\* Every step of a prompt fleet keeps the three parts of the timing invariant.
LEMMA PromptNext ==
    ASSUME Prompt, FleetInv, FleetInv', HoldInv, AgeInv, ExactInv, [Next]_vars
    PROVE  HoldInv' /\ AgeInv' /\ ExactInv'
<1> USE DEF FleetInv, TypeOK, TableTypeOK, table, workers
<1>1. ASSUME NEW w \in Workers, WorkerStep(w)
      PROVE  HoldInv' /\ AgeInv' /\ ExactInv'
  BY <1>1, HoldWorkerStep, AgeWorkerStep, ExactWorkerStep
<1>2. ASSUME NEW w \in Workers, Shutdown(w) \/ ForceCancel(w)
      PROVE  HoldInv' /\ AgeInv' /\ ExactInv'
  <2>1. UNCHANGED <<table, pc, todo, snap, busy>>
    BY <1>2 DEF Shutdown, ForceCancel
  <2>2. AgeInv'
    BY <2>1 DEF AgeInv, YoungBatch, CallsDone
  <2> QED
    BY <2>1, <2>2 DEF HoldInv, ExactInv
<1>3. ASSUME NEW w \in Workers, Crash(w)
      PROVE  HoldInv' /\ AgeInv' /\ ExactInv'
  <2>1. /\ todo' = [todo EXCEPT ![w] = {}] /\ snap' = [snap EXCEPT ![w] = NoSnap]
        /\ pc' = [pc EXCEPT ![w] = "down"] /\ busy' = [busy EXCEPT ![w] = 0]
        /\ UNCHANGED <<status, attempts>>
        /\ \A r \in Rows : processingFor'[r] <= processingFor[r]
    BY <1>3, RepositoryAssumption DEF Crash, RollbackClaim, DropBatch, Goto
  <2>2. HoldInv'
    BY <2>1, HoldFrame
  <2>3. YoungBatch(w)'
    BY <2>1, YoungEmpty
  <2>4. \A v \in Workers : v # w => YoungBatch(v)'
    BY <2>1, YoungFrame DEF AgeInv
  <2> QED
    BY <2>1, <2>2, <2>3, <2>4 DEF AgeInv, ExactInv
<1>4. ASSUME NEW w \in Workers, Restart(w)
      PROVE  HoldInv' /\ AgeInv' /\ ExactInv'
  <2>1. /\ pc[w] = "down" /\ todo[w] = {}
        /\ pc' = [pc EXCEPT ![w] = "idle"] /\ busy' = [busy EXCEPT ![w] = 0]
        /\ UNCHANGED <<table, todo, snap>>
    BY <1>4 DEF Restart, Goto, BatchInv
  <2>2. HoldInv' /\ ExactInv'
    BY <2>1 DEF HoldInv, ExactInv
  <2>3. YoungBatch(w)'
    BY <2>1, YoungEmpty
  <2>4. \A v \in Workers : v # w => YoungBatch(v)'
    BY <2>1, YoungFrame, RepositoryAssumption DEF AgeInv
  <2> QED
    BY <2>2, <2>3, <2>4 DEF AgeInv
<1>5. ASSUME NEW r \in Rows, Insert(r)
      PROVE  HoldInv' /\ AgeInv' /\ ExactInv'
  <2>1. /\ status[r] = "ABSENT" /\ status' = [status EXCEPT ![r] = "PENDING"]
        /\ UNCHANGED <<attempts, processingFor, lockedBy, pc, todo, snap, busy>>
    BY <1>5 DEF Insert, InsertRow
  <2>2. \A v \in Workers : r \notin todo[v]
    BY <2>1 DEF RowInv
  <2>3. HoldInv'
    BY <2>1, <2>2 DEF HoldInv
  <2>4. AgeInv'
    BY <2>1 DEF AgeInv, YoungBatch, CallsDone
  <2> QED
    BY <2>1, <2>3, <2>4 DEF ExactInv
<1>6. CASE Tick
  BY <1>6, AgeTick DEF Tick, AdvanceClock, HoldInv, ExactInv
<1>7. CASE UNCHANGED vars
  <2>1. AgeInv'
    BY <1>7 DEF vars, AgeInv, YoungBatch, CallsDone
  <2> QED
    BY <1>7, <2>1 DEF vars, HoldInv, ExactInv
<1> QED
  BY <1>1, <1>2, <1>3, <1>4, <1>5, <1>6, <1>7 DEF Next

\* The inductive invariant of a prompt fleet: calls are bounded and the stale
\* timeout outlasts a whole batch (or reclaim is off), so that no event is ever
\* in two hands although nothing in the table names its holder.
THEOREM PromptInvariant == ASSUME Prompt PROVE Spec => []PromptInv
<1>1. Init => PromptInv
  BY TypeInit, CoreInit, BudgetInit, PromptInit DEF PromptInv, FleetInv, CoreInv
<1>2. PromptInv /\ [Next]_vars => PromptInv'
  BY FleetNext, PromptNext DEF PromptInv
<1> QED
  BY <1>1, <1>2, PTL DEF Spec

\* With a stale timeout longer than a batch, or without reclaim, no event is
\* ever in the hands of two workers, of any number, whoever crashes.
THEOREM NoTwoHolders == ASSUME Prompt PROVE Spec => []ExclusiveHold
<1>1. PromptInv => ExclusiveHold
  <2> SUFFICES ASSUME PromptInv, NEW r \in Rows PROVE Cardinality(Holders(r)) <= 1
    BY DEF ExclusiveHold
  <2>1. \A v, w \in Holders(r) : v = w
    BY DEF PromptInv, HoldInv, Holders
  <2>2. CASE Holders(r) = {}
    BY <2>2, FS_EmptySet
  <2>3. CASE Holders(r) # {}
    <3>1. PICK w : Holders(r) = {w}
      BY <2>1, <2>3
    <3>2. Cardinality({w}) = 1
      BY FS_Singleton
    <3> QED
      BY <3>1, <3>2
  <2> QED
    BY <2>2, <2>3
<1> QED
  BY <1>1, PromptInvariant, PTL

\* Then a row is closed with exactly MaxRetries failures on record, as
\* TESTREADME.md has it.
THEOREM ClosedExactly == ASSUME Prompt PROVE Spec => []ClosedAtExactBudget
<1>1. PromptInv => ClosedAtExactBudget
  BY DEF PromptInv, ExactInv, ClosedAtExactBudget
<1> QED
  BY <1>1, PromptInvariant, PTL

-----------------------------------------------------------------------------
(* Copies *)

\* Both sides of CopiesInv are numbers.
LEMMA CopiesNat ==
    ASSUME TypeOK, NEW r \in Rows
    PROVE  /\ IsFiniteSet(CancelledHolders(r))
           /\ Cardinality(CancelledHolders(r)) \in Nat
           /\ Copies(r) \in Nat /\ Paid(r) \in Nat
<1>1. IsFiniteSet(CancelledHolders(r))
  BY FS_Subset, RepositoryAssumption DEF CancelledHolders
<1>2. delivered[r] \in Nat /\ attempts[r] \in Nat /\ disruptions \in Nat
  BY DEF TypeOK, TableTypeOK
<1> QED
  BY <1>1, <1>2, FS_CardinalityType DEF Copies, Paid

\* And so they are after a step.
LEMMA CopiesNatAfter ==
    ASSUME TypeOK', NEW r \in Rows
    PROVE  Copies(r)' \in Nat /\ Paid(r)' \in Nat
<1>1. IsFiniteSet(CancelledHolders(r)')
  <2>1. CancelledHolders(r)' \subseteq Workers
    BY DEF CancelledHolders
  <2> QED
    BY <2>1, FS_Subset, RepositoryAssumption
<1>2. Cardinality(CancelledHolders(r)') \in Nat
  BY <1>1, FS_CardinalityType
<1>3. delivered'[r] \in Nat /\ attempts'[r] \in Nat /\ disruptions' \in Nat
  BY DEF TypeOK, TableTypeOK
<1> QED
  BY <1>2, <1>3 DEF Copies, Paid

\* A step that adds no cancelled holder adds no more than it delivers.
LEMMA CopiesKept ==
    ASSUME TypeOK, TypeOK', NEW r \in Rows, NEW k \in Nat,
           CancelledHolders(r)' \subseteq CancelledHolders(r),
           delivered'[r] <= delivered[r] + k
    PROVE  Copies(r)' <= Copies(r) + k
<1>1. Cardinality(CancelledHolders(r)') <= Cardinality(CancelledHolders(r))
  BY CopiesNat, FS_Subset
<1>2. Cardinality(CancelledHolders(r)) \in Nat /\ delivered[r] \in Nat
  BY CopiesNat DEF TypeOK
<1>3. Cardinality(CancelledHolders(r)') \in Nat /\ delivered'[r] \in Nat
  <2>1. IsFiniteSet(CancelledHolders(r)')
    BY CopiesNat, FS_Subset
  <2> QED
    BY <2>1, FS_CardinalityType DEF TypeOK
<1>4. \A a, b, c, d \in Nat : a <= b /\ c <= d + k => c + a <= d + b + k
  OBVIOUS
<1> QED
  BY <1>1, <1>2, <1>3, <1>4 DEF Copies

\* A cancelled worker that lets go of r makes room for one copy.
LEMMA CopiesLetGo ==
    ASSUME TypeOK, TypeOK', NEW r \in Rows, NEW k \in Nat, NEW w \in CancelledHolders(r),
           CancelledHolders(r)' \subseteq CancelledHolders(r) \ {w},
           delivered'[r] <= delivered[r] + k
    PROVE  Copies(r)' + 1 <= Copies(r) + k
<1>1. /\ Cardinality(CancelledHolders(r) \ {w}) = Cardinality(CancelledHolders(r)) - 1
      /\ IsFiniteSet(CancelledHolders(r) \ {w})
  BY CopiesNat, FS_RemoveElement
<1>2. /\ Cardinality(CancelledHolders(r)') <= Cardinality(CancelledHolders(r) \ {w})
      /\ IsFiniteSet(CancelledHolders(r)')
  BY <1>1, FS_Subset
<1>3. /\ Cardinality(CancelledHolders(r)) \in Nat /\ delivered[r] \in Nat
      /\ Cardinality(CancelledHolders(r)') \in Nat /\ delivered'[r] \in Nat
  BY <1>2, CopiesNat, FS_CardinalityType DEF TypeOK
<1>4. \A a, b, c, d \in Nat : a <= b - 1 /\ c <= d + k => c + a + 1 <= d + b + k
  OBVIOUS
<1> QED
  BY <1>1, <1>2, <1>3, <1>4 DEF Copies

\* One more cancelled worker is one more copy to come.
LEMMA CopiesOneMore ==
    ASSUME TypeOK, TypeOK', NEW r \in Rows, NEW w,
           CancelledHolders(r)' \subseteq CancelledHolders(r) \union {w},
           delivered'[r] = delivered[r]
    PROVE  Copies(r)' <= Copies(r) + 1
<1>1. /\ IsFiniteSet(CancelledHolders(r) \union {w})
      /\ Cardinality(CancelledHolders(r) \union {w}) <= Cardinality(CancelledHolders(r)) + 1
  <2>1. IsFiniteSet(CancelledHolders(r)) /\ Cardinality(CancelledHolders(r)) \in Nat
    BY CopiesNat
  <2>2. Cardinality(CancelledHolders(r) \union {w})
            = IF w \in CancelledHolders(r) THEN Cardinality(CancelledHolders(r))
                                            ELSE Cardinality(CancelledHolders(r)) + 1
    BY <2>1, FS_AddElement
  <2> QED
    BY <2>1, <2>2, FS_AddElement
<1>2. /\ Cardinality(CancelledHolders(r)') <= Cardinality(CancelledHolders(r) \union {w})
      /\ IsFiniteSet(CancelledHolders(r)')
  BY <1>1, FS_Subset
<1>3. /\ Cardinality(CancelledHolders(r)) \in Nat /\ delivered[r] \in Nat
      /\ Cardinality(CancelledHolders(r)') \in Nat /\ delivered'[r] \in Nat
      /\ Cardinality(CancelledHolders(r) \union {w}) \in Nat
  BY <1>1, <1>2, CopiesNat, FS_CardinalityType DEF TypeOK
<1>4. \A a, b, c, d \in Nat : a <= b /\ b <= c + 1 => d + a <= d + c + 1
  OBVIOUS
<1> QED
  BY <1>1, <1>2, <1>3, <1>4 DEF Copies

\* What pays, as the steps of the fleet change it.
LEMMA PaidChanges ==
    ASSUME TypeOK, TypeOK', NEW r \in Rows,
           disruptions <= disruptions', attempts[r] <= attempts'[r]
    PROVE  /\ (Answered(r) => Answered(r)') => Paid(r) <= Paid(r)'
           /\ ~Answered(r) /\ Answered(r)' => Paid(r) + 1 <= Paid(r)'
           /\ Paid(r) <= Paid(r)' + 1
           /\ disruptions < disruptions' \/ attempts[r] < attempts'[r] => Paid(r) <= Paid(r)'
           /\ disruptions < disruptions' /\ (Answered(r) => Answered(r)') => Paid(r) + 1 <= Paid(r)'
<1>1. /\ disruptions \in Nat /\ disruptions' \in Nat
      /\ attempts[r] \in Nat /\ attempts'[r] \in Nat
  BY DEF TypeOK, TableTypeOK
<1> DEFINE one == IF Answered(r) THEN 1 ELSE 0
           oneThen == IF Answered(r)' THEN 1 ELSE 0
<1>2. /\ one \in 0..1 /\ oneThen \in 0..1
      /\ (Answered(r) => Answered(r)') => one <= oneThen
      /\ ~Answered(r) /\ Answered(r)' => one = 0 /\ oneThen = 1
  OBVIOUS
<1>3. Paid(r) = disruptions + attempts[r] + one /\ Paid(r)' = disruptions' + attempts'[r] + oneThen
  BY DEF Paid
<1> HIDE DEF one, oneThen
<1>4. /\ Paid(r) <= Paid(r)' + 1
      /\ disruptions < disruptions' \/ attempts[r] < attempts'[r] => Paid(r) <= Paid(r)'
  BY <1>1, <1>2, <1>3
<1>5. (Answered(r) => Answered(r)') =>
         /\ Paid(r) <= Paid(r)'
         /\ disruptions < disruptions' => Paid(r) + 1 <= Paid(r)'
  BY <1>1, <1>2, <1>3
<1>6. ~Answered(r) /\ Answered(r)' => Paid(r) + 1 <= Paid(r)'
  BY <1>1, <1>2, <1>3
<1> QED
  BY <1>4, <1>5, <1>6

\* No step of a worker takes a row out of PUBLISHED and CLOSE.
LEMMA OutcomeStays ==
    ASSUME FleetInv, NEW w \in Workers, WorkerStep(w),
           NEW q \in Rows, status[q] \in {"PUBLISHED", "CLOSE"}
    PROVE  status'[q] \in {"PUBLISHED", "CLOSE"}
<1> USE DEF FleetInv, TypeOK, TableTypeOK, table
<1>1. pc[w] = "commit" => q \notin todo[w]
  BY RepositoryAssumption DEF LockInv, Unlocked
<1>2. CASE ClaimCommit(w) \/ ClaimFails(w)
  <2>1. \/ pc[w] = "commit" /\ CommitClaim(w, todo[w])
        \/ RollbackClaim(w)
    BY <1>2 DEF ClaimCommit, ClaimFails
  <2> QED
    BY <1>1, <2>1 DEF CommitClaim, RollbackClaim
<1>3. CASE TickerFires(w) \/ ClaimSelect(w) \/ ClaimNothing(w) \/ Stop(w)
  BY <1>3 DEF TickerFires, ClaimSelect, LockForClaim, ClaimNothing, Stop
<1>4. CASE Reclaim(w)
  BY <1>4 DEF Reclaim, ReclaimStale, Stale
<1>5. ASSUME NEW r \in Rows, PublishAcked(w, r) \/ PublishRejected(w, r) \/ PublishAborted(w, r)
      PROVE  status'[q] \in {"PUBLISHED", "CLOSE"}
  BY <1>5 DEF PublishAcked, PublishRejected, PublishAborted
<1>6. ASSUME NEW r \in Rows, RecordPublished(w, r) PROVE status'[q] \in {"PUBLISHED", "CLOSE"}
  BY <1>6 DEF RecordPublished, Record, MarkPublished
<1>7. ASSUME NEW r \in Rows, RecordFailed(w, r) PROVE status'[q] \in {"PUBLISHED", "CLOSE"}
  BY <1>7 DEF RecordFailed, Record, MarkFailed, Markable
<1>8. ASSUME NEW r \in Rows, RecordClosed(w, r) PROVE status'[q] \in {"PUBLISHED", "CLOSE"}
  BY <1>8 DEF RecordClosed, Record, MarkClose, Markable
<1> QED
  BY <1>2, <1>3, <1>4, <1>5, <1>6, <1>7, <1>8 DEF WorkerStep, Recording

\* What was answered for r stays so, unless the step ends the worker's record of r.
LEMMA AnsweredStays ==
    ASSUME FleetInv, NEW w \in Workers, WorkerStep(w), NEW r \in Rows, Answered(r),
           pc[w] \in Marks => ~IsNext(w, r)
    PROVE  Answered(r)'
<1>1. CASE status[r] \in {"PUBLISHED", "CLOSE"}
  BY <1>1, OutcomeStays DEF Answered
<1>2. ASSUME NEW v \in Workers, pc[v] \in Marks, IsNext(v, r) PROVE Answered(r)'
  <2>1. v # w
    BY <1>2
  <2>2. pc'[v] = pc[v] /\ todo'[v] = todo[v]
    BY <2>1, OthersStay DEF FleetInv
  <2>3. pc'[v] \in Marks /\ IsNext(v, r)'
    BY <1>2, <2>2 DEF IsNext
  <2> QED
    BY <2>3 DEF Answered
<1> QED
  BY <1>1, <1>2 DEF Answered

\* No step of a worker adds a cancelled holder: a cancelled worker claims nothing.
LEMMA NoNewHolder ==
    ASSUME FleetInv, NEW w \in Workers, WorkerStep(w), NEW r \in Rows
    PROVE  CancelledHolders(r)' \subseteq CancelledHolders(r)
<1> USE DEF FleetInv, TypeOK
<1> SUFFICES ASSUME NEW v \in Workers, ctx'[v] = "cancelled", r \in todo'[v]
             PROVE  ctx[v] = "cancelled" /\ r \in todo[v]
  BY DEF CancelledHolders
<1>1. ctx' = ctx \/ Stop(w)
  BY DEF WorkerStep, TickerFires, Reclaim, ClaimSelect, ClaimNothing, ClaimCommit, ClaimFails,
         PublishAcked, PublishRejected, PublishAborted, Recording, RecordPublished,
         RecordFailed, RecordClosed, Record
<1>2. ctx[v] = "cancelled"
  BY <1>1 DEF Stop
<1>3. CASE v # w
  BY <1>2, <1>3, OthersStay
<1>4. CASE v = w
  <2>1. CASE ClaimSelect(w)
    <3>1. ctx[w] # "cancelled"
      BY <2>1 DEF ClaimSelect, Succeeds
    <3> QED
      BY <1>2, <1>4, <3>1
  <2>2. CASE TickerFires(w) \/ Reclaim(w) \/ ClaimNothing(w) \/ ClaimCommit(w) \/ Stop(w)
    BY <1>2, <1>4, <2>2 DEF TickerFires, Reclaim, ClaimNothing, ClaimCommit, Stop
  <2>3. CASE ClaimFails(w)
    BY <1>2, <1>4, <2>3 DEF ClaimFails, DropBatch
  <2>4. ASSUME NEW q \in Rows, PublishAcked(w, q) \/ PublishRejected(w, q) \/ PublishAborted(w, q)
        PROVE  r \in todo[v]
    BY <1>4, <2>4 DEF PublishAcked, PublishRejected, PublishAborted, DropBatch
  <2>5. ASSUME NEW q \in Rows, RecordPublished(w, q) \/ RecordFailed(w, q) \/ RecordClosed(w, q)
        PROVE  r \in todo[v]
    BY <1>4, <2>5 DEF RecordPublished, RecordFailed, RecordClosed, Record, NextEvent
  <2> QED
    BY <1>2, <2>1, <2>2, <2>3, <2>4, <2>5 DEF WorkerStep, Recording
<1> QED
  BY <1>3, <1>4

\* An event being published has not been answered, and a row in one worker's
\* hands is being recorded by no other.
LEMMA HeldUnanswered ==
    ASSUME FleetInv, HoldInv, NEW w \in Workers, NEW r \in todo[w], pc[w] = "publish"
    PROVE  ~Answered(r)
<1>1. status[r] = "PROCESSING"
  BY DEF HoldInv
<1>2. ASSUME NEW v \in Workers, pc[v] \in Marks, IsNext(v, r) PROVE FALSE
  <2>1. v = w
    BY <1>2 DEF HoldInv, IsNext
  <2> QED
    BY <1>2, <2>1 DEF Marks
<1> QED
  BY <1>1, <1>2 DEF Answered

\* A publish that ends with an answer: one more copy at most, which is answered.
LEMMA CopiesPublish ==
    ASSUME FleetInv, FleetInv', HoldInv, CopiesInv, NEW w \in Workers, WorkerStep(w),
           NEW q \in Rows, PublishAcked(w, q) \/ PublishRejected(w, q), NEW r \in Rows
    PROVE  Copies(r)' <= Paid(r)'
<1> USE DEF FleetInv
<1>1. /\ pc[w] = "publish" /\ IsNext(w, q) /\ pc'[w] \in Marks
      /\ UNCHANGED <<table, todo, disruptions>>
      /\ delivered'[r] <= delivered[r] + 1
      /\ r # q => delivered'[r] = delivered[r]
  BY DEF PublishAcked, PublishRejected, AfterRejection, Goto, Deliver, Marks, TypeOK
<1>2. /\ disruptions <= disruptions' /\ attempts[r] <= attempts'[r]
      /\ delivered[r] \in Nat
  BY <1>1 DEF table, TypeOK, TableTypeOK
<1>3. Copies(r) \in Nat /\ Paid(r) \in Nat /\ Copies(r) <= Paid(r)
  BY CopiesNat DEF CopiesInv
<1>4. Copies(r)' \in Nat /\ Paid(r)' \in Nat
  BY CopiesNatAfter
<1>5. CancelledHolders(r)' \subseteq CancelledHolders(r)
  BY NoNewHolder
<1>6. CASE r = q
  <2>1. ~Answered(r)
    BY <1>1, <1>6, HeldUnanswered DEF IsNext
  <2>2. Answered(r)'
    <3>1. IsNext(w, q)'
      BY <1>1 DEF IsNext
    <3> QED
      BY <1>1, <1>6, <3>1 DEF Answered
  <2>3. Paid(r) + 1 <= Paid(r)'
    BY <1>2, <2>1, <2>2, PaidChanges
  <2>4. Copies(r)' <= Copies(r) + 1
    BY <1>1, <1>5, CopiesKept
  <2> QED
    BY <1>3, <1>4, <2>3, <2>4
<1>7. CASE r # q
  <2>1. Answered(r) => Answered(r)'
    BY <1>1, AnsweredStays DEF Marks
  <2>2. Paid(r) <= Paid(r)'
    BY <1>2, <2>1, PaidChanges
  <2>3. delivered'[r] <= delivered[r] + 0
    BY <1>1, <1>2, <1>7
  <2>4. Copies(r)' <= Copies(r) + 0
    BY <1>5, <2>3, CopiesKept
  <2> QED
    BY <1>3, <1>4, <2>2, <2>4
<1> QED
  BY <1>6, <1>7

\* A publish that is cut off: its worker is cancelled and lets go of the batch.
LEMMA CopiesAborted ==
    ASSUME FleetInv, FleetInv', HoldInv, CopiesInv, NEW w \in Workers, WorkerStep(w),
           "expiry" \notin PublisherFaults,
           NEW q \in Rows, PublishAborted(w, q), NEW r \in Rows
    PROVE  Copies(r)' <= Paid(r)'
<1> USE DEF FleetInv
<1>1. /\ pc[w] = "publish" /\ q \in todo[w] /\ ctx[w] = "cancelled"
      /\ todo'[w] = {} /\ ctx' = ctx
      /\ UNCHANGED <<table, disruptions>>
      /\ delivered'[r] <= delivered[r] + 1
      /\ r # q => delivered'[r] = delivered[r]
  BY DEF PublishAborted, DropBatch, Goto, Deliver, IsNext, TypeOK
<1>2. /\ disruptions <= disruptions' /\ attempts[r] <= attempts'[r]
      /\ delivered[r] \in Nat
  BY <1>1 DEF table, TypeOK, TableTypeOK
<1>3. /\ Copies(r) \in Nat /\ Paid(r) \in Nat /\ Copies(r) <= Paid(r)
      /\ Copies(r)' \in Nat /\ Paid(r)' \in Nat
  BY CopiesNat, CopiesNatAfter DEF CopiesInv
<1>4. CancelledHolders(r)' \subseteq CancelledHolders(r)
  BY NoNewHolder
<1>5. Answered(r) => Answered(r)'
  BY <1>1, AnsweredStays DEF Marks
<1>6. Paid(r) <= Paid(r)'
  BY <1>2, <1>5, PaidChanges
<1>7. CASE r = q
  <2>1. w \in CancelledHolders(r)
    BY <1>1, <1>7 DEF CancelledHolders
  <2>2. CancelledHolders(r)' \subseteq CancelledHolders(r) \ {w}
    BY <1>1, <1>4 DEF CancelledHolders
  <2>3. Copies(r)' + 1 <= Copies(r) + 1
    BY <1>1, <2>1, <2>2, CopiesLetGo
  <2> QED
    BY <1>3, <1>6, <2>3
<1>8. CASE r # q
  <2>1. delivered'[r] <= delivered[r] + 0
    BY <1>1, <1>2, <1>8
  <2>2. Copies(r)' <= Copies(r) + 0
    BY <1>4, <2>1, CopiesKept
  <2> QED
    BY <1>3, <1>6, <2>2
<1> QED
  BY <1>7, <1>8

\* A record: it succeeds and the row keeps the answer or the failure; or it fails,
\* for a cancelled worker that lets go of the row or at the price of a disruption.
LEMMA CopiesRecorded ==
    ASSUME FleetInv, FleetInv', HoldInv, CopiesInv, NEW w \in Workers, WorkerStep(w),
           NEW q \in Rows, RecordPublished(w, q) \/ RecordFailed(w, q) \/ RecordClosed(w, q),
           NEW r \in Rows
    PROVE  Copies(r)' <= Paid(r)'
<1> USE DEF FleetInv
<1>1. /\ pc[w] \in Marks /\ IsNext(w, q) /\ q \in todo[w]
      /\ todo'[w] = todo[w] \ {q} /\ ctx' = ctx /\ delivered' = delivered
  BY DEF RecordPublished, RecordFailed, RecordClosed, Record, NextEvent, IsNext, Marks, TypeOK
<1>2. status[q] = "PROCESSING"
  BY <1>1 DEF HoldInv, Marks
<1>3. \/ /\ UNCHANGED disruptions
         /\ \/ status'[q] \in {"PUBLISHED", "CLOSE"} /\ attempts' = attempts
            \/ attempts' = [attempts EXCEPT ![q] = @ + 1]
      \/ /\ UNCHANGED <<disruptions, table>>
         /\ ctx[w] = "cancelled"
      \/ /\ disruptions' = disruptions + 1
         /\ UNCHANGED table
  <2>1. CASE RecordPublished(w, q)
    BY <2>1 DEF RecordPublished, Record, Succeeds, Errs, Disrupt, MarkPublished,
                TypeOK, TableTypeOK
  <2>2. CASE RecordFailed(w, q)
    BY <1>2, <2>2 DEF RecordFailed, Record, Succeeds, Errs, Disrupt, MarkFailed, Markable,
                TypeOK, TableTypeOK
  <2>3. CASE RecordClosed(w, q)
    BY <1>2, <2>3 DEF RecordClosed, Record, Succeeds, Errs, Disrupt, MarkClose, Markable,
                TypeOK, TableTypeOK
  <2> QED
    BY <2>1, <2>2, <2>3
<1>4. /\ disruptions \in Nat /\ attempts[r] \in Nat /\ delivered[r] \in Nat
      /\ attempts \in [Rows -> Nat]
  BY DEF TypeOK, TableTypeOK
<1>5. disruptions <= disruptions' /\ attempts[r] <= attempts'[r]
  BY <1>3, <1>4 DEF table
<1>6. /\ Copies(r) \in Nat /\ Paid(r) \in Nat /\ Copies(r) <= Paid(r)
      /\ Copies(r)' \in Nat /\ Paid(r)' \in Nat
  BY CopiesNat, CopiesNatAfter DEF CopiesInv
<1>7. CancelledHolders(r)' \subseteq CancelledHolders(r)
  BY NoNewHolder
<1>8. delivered'[r] <= delivered[r] + 0
  BY <1>1, <1>4
<1>9. Copies(r)' <= Copies(r) + 0
  BY <1>7, <1>8, CopiesKept
<1>10. CASE r # q
  <2>1. ~IsNext(w, r)
    <3> SUFFICES ASSUME IsNext(w, r) PROVE FALSE
      OBVIOUS
    <3>1. r <= q /\ q <= r
      BY <1>1 DEF IsNext
    <3> QED
      BY <1>10, <3>1, RepositoryAssumption
  <2>2. Answered(r) => Answered(r)'
    BY <2>1, AnsweredStays
  <2>3. Paid(r) <= Paid(r)'
    BY <1>5, <2>2, PaidChanges
  <2> QED
    BY <1>6, <1>9, <2>3
<1>11. CASE r = q
  <2>1. CASE status'[q] \in {"PUBLISHED", "CLOSE"}
    <3>1. Answered(r)'
      BY <1>11, <2>1 DEF Answered
    <3>2. Paid(r) <= Paid(r)'
      BY <1>5, <3>1, PaidChanges
    <3> QED
      BY <1>6, <1>9, <3>2
  <2>2. CASE attempts' = [attempts EXCEPT ![q] = @ + 1] \/ disruptions' = disruptions + 1
    <3>1. disruptions < disruptions' \/ attempts[r] < attempts'[r]
      BY <1>4, <1>11, <2>2
    <3>2. Paid(r) <= Paid(r)'
      BY <1>5, <3>1, PaidChanges
    <3> QED
      BY <1>6, <1>9, <3>2
  <2>3. CASE ctx[w] = "cancelled"
    <3>1. w \in CancelledHolders(r)
      BY <1>1, <1>11, <2>3 DEF CancelledHolders
    <3>2. CancelledHolders(r)' \subseteq CancelledHolders(r) \ {w}
      BY <1>1, <1>7, <1>11 DEF CancelledHolders
    <3>3. Copies(r)' + 1 <= Copies(r) + 0
      BY <1>8, <3>1, <3>2, CopiesLetGo
    <3>4. Paid(r) <= Paid(r)' + 1
      BY <1>5, PaidChanges
    <3> QED
      BY <1>6, <3>3, <3>4
  <2> QED
    BY <1>3, <2>1, <2>2, <2>3
<1> QED
  BY <1>10, <1>11

\* The other steps of a worker publish nothing and record nothing.
LEMMA CopiesWorkerStep ==
    ASSUME FleetInv, FleetInv', HoldInv, CopiesInv, "expiry" \notin PublisherFaults,
           NEW w \in Workers, WorkerStep(w)
    PROVE  CopiesInv'
<1> SUFFICES ASSUME NEW r \in Rows PROVE Copies(r)' <= Paid(r)'
  BY DEF CopiesInv
<1>1. ASSUME \/ TickerFires(w) \/ Reclaim(w) \/ ClaimSelect(w) \/ ClaimNothing(w)
             \/ ClaimCommit(w) \/ ClaimFails(w) \/ Stop(w)
      PROVE  Copies(r)' <= Paid(r)'
  <2>1. /\ pc[w] \notin Marks
        /\ delivered' = delivered /\ attempts' = attempts
        /\ disruptions' = disruptions \/ disruptions' = disruptions + 1
    BY <1>1 DEF TickerFires, Reclaim, ClaimSelect, ClaimNothing, ClaimCommit, ClaimFails, Stop,
                ReclaimStale, LockForClaim, CommitClaim, RollbackClaim, Succeeds, Errs, Disrupt,
                Marks, table
  <2>2. disruptions \in Nat /\ attempts[r] \in Nat /\ delivered[r] \in Nat
    BY DEF FleetInv, TypeOK, TableTypeOK
  <2>3. /\ disruptions <= disruptions' /\ attempts[r] <= attempts'[r]
        /\ delivered'[r] <= delivered[r] + 0
    BY <2>1, <2>2
  <2>4. Answered(r) => Answered(r)'
    BY <2>1, AnsweredStays
  <2>5. Paid(r) <= Paid(r)'
    BY <2>3, <2>4, PaidChanges DEF FleetInv
  <2>6. Copies(r)' <= Copies(r) + 0
    BY <2>3, NoNewHolder, CopiesKept DEF FleetInv
  <2>7. /\ Copies(r) \in Nat /\ Paid(r) \in Nat /\ Copies(r) <= Paid(r)
        /\ Copies(r)' \in Nat /\ Paid(r)' \in Nat
    BY CopiesNat, CopiesNatAfter DEF CopiesInv, FleetInv
  <2> QED
    BY <2>5, <2>6, <2>7
<1> QED
  BY <1>1, CopiesPublish, CopiesAborted, CopiesRecorded DEF WorkerStep, Recording

\* A disruption pays for the copy it may cause.
LEMMA CopiesNext ==
    ASSUME FleetInv, FleetInv', HoldInv, CopiesInv, "expiry" \notin PublisherFaults, [Next]_vars
    PROVE  CopiesInv'
<1> USE DEF FleetInv, table, workers
<1> SUFFICES ASSUME NEW r \in Rows PROVE Copies(r)' <= Paid(r)'
  BY DEF CopiesInv
<1>1. /\ Copies(r) \in Nat /\ Paid(r) \in Nat /\ Copies(r) <= Paid(r)
      /\ Copies(r)' \in Nat /\ Paid(r)' \in Nat
      /\ disruptions \in Nat /\ attempts[r] \in Nat /\ delivered[r] \in Nat
  BY CopiesNat, CopiesNatAfter DEF CopiesInv, TypeOK, TableTypeOK
<1>2. ASSUME NEW w \in Workers, WorkerStep(w) PROVE Copies(r)' <= Paid(r)'
  BY <1>2, CopiesWorkerStep DEF CopiesInv
<1>3. ASSUME NEW w \in Workers, ForceCancel(w) PROVE Copies(r)' <= Paid(r)'
  <2>1. /\ disruptions' = disruptions + 1 /\ ctx' = [ctx EXCEPT ![w] = "cancelled"]
        /\ UNCHANGED <<table, pc, todo, delivered>>
    BY <1>3 DEF ForceCancel, Disrupt
  <2>2. CancelledHolders(r)' \subseteq CancelledHolders(r) \union {w}
    BY <2>1 DEF CancelledHolders, TypeOK
  <2>3. Answered(r)' = Answered(r)
    BY <2>1 DEF Answered, IsNext
  <2>4. disruptions < disruptions' /\ attempts[r] <= attempts'[r] /\ disruptions <= disruptions'
    BY <1>1, <2>1
  <2>5. Paid(r) + 1 <= Paid(r)'
    BY <2>3, <2>4, PaidChanges
  <2>6. Copies(r)' <= Copies(r) + 1
    BY <2>1, <2>2, CopiesOneMore
  <2> QED
    BY <1>1, <2>5, <2>6
<1>4. ASSUME NEW w \in Workers, Crash(w) PROVE Copies(r)' <= Paid(r)'
  <2>1. /\ disruptions' = disruptions + 1 /\ attempts' = attempts /\ delivered' = delivered
        /\ ctx' = [ctx EXCEPT ![w] = "live"] /\ todo' = [todo EXCEPT ![w] = {}]
    BY <1>4 DEF Crash, RollbackClaim, DropBatch, Disrupt
  <2>2. CancelledHolders(r)' \subseteq CancelledHolders(r)
    BY <2>1 DEF CancelledHolders, TypeOK
  <2>3. /\ disruptions < disruptions' /\ attempts[r] <= attempts'[r]
        /\ disruptions <= disruptions' /\ delivered'[r] <= delivered[r] + 0
    BY <1>1, <2>1
  <2>4. Paid(r) <= Paid(r)'
    BY <2>3, PaidChanges
  <2>5. Copies(r)' <= Copies(r) + 0
    BY <2>2, <2>3, CopiesKept
  <2> QED
    BY <1>1, <2>4, <2>5
<1>5. ASSUME \/ \E w \in Workers : Shutdown(w) \/ Restart(w)
             \/ \E q \in Rows : Insert(q)
             \/ Tick
             \/ UNCHANGED vars
      PROVE  Copies(r)' <= Paid(r)'
  <2>1. /\ attempts' = attempts /\ delivered' = delivered /\ todo' = todo
        /\ disruptions' = disruptions \/ disruptions' = disruptions + 1
    BY <1>5 DEF Shutdown, Restart, Insert, InsertRow, Tick, AdvanceClock, vars, Goto, Disrupt
  <2>2. \A v \in Workers : ctx'[v] = "cancelled" => ctx[v] = "cancelled"
    BY <1>5 DEF Shutdown, Restart, Insert, Tick, vars, TypeOK
  <2>3. status[r] \in {"PUBLISHED", "CLOSE"} => status'[r] = status[r]
    BY <1>5 DEF Shutdown, Restart, Insert, InsertRow, Tick, AdvanceClock, vars, TypeOK, TableTypeOK
  <2>4. \A v \in Workers : pc[v] \in Marks => pc'[v] = pc[v]
    BY <1>5 DEF Shutdown, Restart, Insert, Tick, vars, Goto, Marks, TypeOK
  <2>5. Answered(r) => Answered(r)'
    BY <2>1, <2>3, <2>4 DEF Answered, IsNext
  <2>6. CancelledHolders(r)' \subseteq CancelledHolders(r)
    BY <2>1, <2>2 DEF CancelledHolders
  <2>7. /\ attempts[r] <= attempts'[r] /\ disruptions <= disruptions'
        /\ delivered'[r] <= delivered[r] + 0
    BY <1>1, <2>1
  <2>8. Paid(r) <= Paid(r)'
    BY <2>5, <2>7, PaidChanges
  <2>9. Copies(r)' <= Copies(r) + 0
    BY <2>6, <2>7, CopiesKept
  <2> QED
    BY <1>1, <2>8, <2>9
<1> QED
  BY <1>2, <1>3, <1>4, <1>5 DEF Next

\* At the start the broker holds nothing.
LEMMA CopiesInit == Init => CopiesInv
<1> SUFFICES ASSUME Init, NEW r \in Rows PROVE Copies(r) <= Paid(r)
  BY DEF CopiesInv
<1>1. CancelledHolders(r) = {} /\ delivered[r] = 0 /\ disruptions = 0 /\ attempts[r] = 0
  BY DEF Init, TableInit, CancelledHolders
<1>2. Cardinality({}) = 0
  BY FS_EmptySet
<1>3. Cardinality(CancelledHolders(r)) = 0
  BY <1>1, <1>2, Zenon
<1> QED
  BY <1>1, <1>3 DEF Copies, Paid

\* Of a prompt fleet whose writes do not expire, for any number of workers: the
\* broker gets a second copy of an event only for a failure that is on record, a
\* crash, a cancellation or a failed statement, and one for each at most.
THEOREM CopiesAreAccounted ==
    ASSUME Prompt, "expiry" \notin PublisherFaults
    PROVE  Spec => []CopiesAccounted
<1>1. Init => PromptInv /\ CopiesInv
  BY TypeInit, CoreInit, BudgetInit, PromptInit, CopiesInit DEF PromptInv, FleetInv, CoreInv
<1>2. (PromptInv /\ CopiesInv) /\ [Next]_vars => (PromptInv /\ CopiesInv)'
  BY FleetNext, PromptNext, CopiesNext DEF PromptInv
<1>3. PromptInv /\ CopiesInv => CopiesAccounted
  <2> SUFFICES ASSUME PromptInv, CopiesInv, NEW r \in Rows
               PROVE  delivered[r] <= 1 + attempts[r] + disruptions
    BY DEF CopiesAccounted
  <2>1. /\ delivered[r] \in Nat /\ attempts[r] \in Nat /\ disruptions \in Nat
        /\ Cardinality(CancelledHolders(r)) \in Nat
    BY CopiesNat DEF PromptInv, FleetInv, TypeOK, TableTypeOK
  <2>2. Copies(r) <= Paid(r)
    BY DEF CopiesInv
  <2> QED
    BY <2>1, <2>2 DEF Copies, Paid
<1> QED
  BY <1>1, <1>2, <1>3, PTL DEF Spec
=============================================================================
