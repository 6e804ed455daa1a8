---------------------------- MODULE StartupProofs ----------------------------
(***************************************************************************)
(* Theorems about Startup, for every number of processes, every set of     *)
(* environments, every database earlier builds may have left and every     *)
(* interleaving of the migrations.                                         *)
(***************************************************************************)
EXTENDS Startup, TLAPS

\* Past the configuration, it was accepted.
AcceptedInv ==
    \A p \in Processes : pc[p] \notin {"down", "load"} => Accepted(env)

\* The files before the one a process is at are committed, and so are all of
\* them when it serves.
FilesDone(p) ==
    /\ pc[p] \in {"begin", "migrate"} =>
          \A e \in 1..file[p] - 1 : Objects(e) \subseteq schema
    /\ Serving(p) => schema = Full

\* Only a migration has uncommitted changes: objects of its own file, and
\* nothing dropped that the rest of the file does not add again.
Uncommitted(p) ==
    /\ pc[p] # "migrate" => added[p] = {} /\ removed[p] = {}
    /\ added[p] \subseteq Objects(file[p])
    /\ removed[p] # {} => removed[p] = {"status_check"} /\ file[p] = 2 /\ stmt[p] >= 5

\* The statements before its current one have had their effect.
StatementsDone(p) ==
    pc[p] = "migrate" =>
        /\ stmt[p] <= Len(Files[file[p]]) + 1
        /\ \A i \in DOMAIN Files[file[p]] :
              i < stmt[p] /\ Files[file[p]][i].op # "drop" =>
                  Files[file[p]][i].object \in Seen(p)

MigrationInv ==
    \A p \in Processes : FilesDone(p) /\ Uncommitted(p) /\ StatementsDone(p)

StartupInv == TypeOK /\ AcceptedInv /\ MigrationInv

-----------------------------------------------------------------------------
(* The migrations *)

\* How many statements each file has
LEMMA FilesAre ==
    /\ Len(Files) = 2
    /\ DOMAIN Files = 1..2
    /\ DOMAIN Files[1] = 1..2 /\ Len(Files[1]) = 2
    /\ DOMAIN Files[2] = 1..5 /\ Len(Files[2]) = 5
BY DEF Files, CreateEvents, CreateOutbox

\* What each statement does
LEMMA StatementsAre ==
    /\ Files[1][1].op = "create" /\ Files[1][1].object = "events"
    /\ Files[1][2].op = "index" /\ Files[1][2].object = "events_indexes"
    /\ Files[2][1].op = "create" /\ Files[2][1].object = "outbox"
    /\ Files[2][2].op = "index" /\ Files[2][2].object = "pending_index"
    /\ Files[2][3].op = "add" /\ Files[2][3].object = "processing_at"
    /\ Files[2][4].op = "drop" /\ Files[2][4].object = "status_check"
    /\ Files[2][5].op = "add" /\ Files[2][5].object = "status_check"
BY DEF Files, CreateEvents, CreateOutbox, Stmt

\* The locks they take are on the two tables.
LEMMA LocksAre ==
    \A f \in 1..2 : \A i \in DOMAIN Files[f] :
        Files[f][i].locks \subseteq {"events", "outbox"} \X Modes
<1>1. \A i \in 1..2 : Files[1][i].locks \subseteq {"events", "outbox"} \X Modes
  BY DEF Files, CreateEvents, Stmt, Modes
<1>2. \A i \in 1..5 : Files[2][i].locks \subseteq {"events", "outbox"} \X Modes
  BY DEF Files, CreateOutbox, Stmt, Modes
<1> QED
  BY <1>1, <1>2, FilesAre

\* The objects of each file
LEMMA ObjectsAre ==
    /\ Objects(1) = {"events", "events_indexes"}
    /\ Objects(2) = {"outbox", "pending_index", "processing_at", "status_check"}
    /\ Full = Objects(1) \union Objects(2)
<1>1. Objects(1) = {"events", "events_indexes"}
  BY FilesAre, StatementsAre DEF Objects
<1>2. Objects(2) = {"outbox", "pending_index", "processing_at", "status_check"}
  BY FilesAre, StatementsAre DEF Objects
<1> QED
  BY <1>1, <1>2, FilesAre DEF Full

-----------------------------------------------------------------------------
(* Type correctness *)

\* The initial state is typed.
LEMMA TypeInit == Init => TypeOK
BY StartupAssumption, FilesAre DEF StartupAssumption, Init, TypeOK

\* A statement asks for locks on the two tables.
LEMMA RequestedType ==
    ASSUME TypeOK, NEW p \in Processes
    PROVE  Requested(p) \subseteq {"events", "outbox"} \X Modes
<1>1. Executing(p) => Current(p).locks \subseteq {"events", "outbox"} \X Modes
  <2> SUFFICES ASSUME Executing(p)
               PROVE  Current(p).locks \subseteq {"events", "outbox"} \X Modes
    OBVIOUS
  <2>1. file[p] \in 1..2 /\ stmt[p] \in DOMAIN Files[file[p]]
    BY FilesAre DEF TypeOK, Executing
  <2> QED
    BY <2>1, LocksAre DEF Current
<1>2. ClaimLocks \union ClaimWrites \subseteq {"events", "outbox"} \X Modes
  BY DEF ClaimLocks, ClaimWrites, Modes
<1> QED
  BY <1>1, <1>2 DEF Requested

\* A statement speaks of an object of the schema.
LEMMA CurrentObject ==
    ASSUME TypeOK, NEW p \in Processes, Executing(p)
    PROVE  /\ file[p] \in 1..2
           /\ stmt[p] \in DOMAIN Files[file[p]]
           /\ Current(p).object \in Objects(file[p])
           /\ Current(p).object \in Full
<1>1. file[p] \in 1..2 /\ stmt[p] \in DOMAIN Files[file[p]]
  BY FilesAre DEF TypeOK, Executing
<1>2. Current(p).object \in Objects(file[p])
  BY <1>1 DEF Current, Objects
<1> QED
  BY <1>1, <1>2, ObjectsAre

\* Ending a transaction keeps the types.
LEMMA TypeEnd ==
    ASSUME TypeOK, NEW p \in Processes, EndTransaction(p)
    PROVE  /\ creating' \in [Processes -> BOOLEAN]
           /\ added' \in [Processes -> SUBSET Full]
           /\ removed' \in [Processes -> SUBSET Full]
           /\ held' \in [Processes -> SUBSET ({"events", "outbox"} \X Modes)]
BY DEF TypeOK, EndTransaction

\* The lock set stays one of locks on the two tables.
LEMMA TypeTake ==
    ASSUME TypeOK, NEW p \in Processes, Take(p)
    PROVE  held' \in [Processes -> SUBSET ({"events", "outbox"} \X Modes)]
<1> DEFINE Locks == {"events", "outbox"} \X Modes
<1>1. Requested(p) \subseteq Locks /\ held \in [Processes -> SUBSET Locks]
  BY RequestedType DEF TypeOK
<1>2. held[p] \union Requested(p) \in SUBSET Locks
  BY <1>1
<1> HIDE DEF Locks
<1>3. [held EXCEPT ![p] = @ \union Requested(p)] \in [Processes -> SUBSET Locks]
  BY <1>1, <1>2
<1> QED
  BY <1>3 DEF Take, Locks

\* Disruptions stay within their bound.
LEMMA TypeDisrupt == TypeOK /\ Disrupt => disruptions' \in 0..MaxDisruptions
BY StartupAssumption DEF StartupAssumption, TypeOK, Disrupt

\* A failed migration keeps the types.
LEMMA TypeFails ==
    ASSUME TypeOK, NEW p \in Processes, MigrationFails(p), disruptions' \in 0..MaxDisruptions
    PROVE  TypeOK'
<1> QED
  BY TypeEnd DEF TypeOK, MigrationFails, AfterFailure, Goto

\* Every step keeps the types.
LEMMA TypeNext == TypeOK /\ [Next]_vars => TypeOK'
<1> SUFFICES ASSUME TypeOK, [Next]_vars PROVE TypeOK'
  OBVIOUS
<1>1. CASE UNCHANGED vars
  BY <1>1 DEF vars, transaction, TypeOK
<1>2. ASSUME NEW p \in Processes, LookUp(p) PROVE TypeOK'
  <2>1. held' \in [Processes -> SUBSET ({"events", "outbox"} \X Modes)]
    BY <1>2, TypeTake DEF LookUp
  <2>2. creating' \in [Processes -> BOOLEAN]
    <3>1. creating' = creating \/ creating' = [creating EXCEPT ![p] = TRUE]
      BY <1>2 DEF LookUp
    <3> QED
      BY <3>1, Zenon DEF TypeOK
  <2>3. stmt' \in [Processes -> Nat \ {0}]
    BY <1>2 DEF LookUp, NextStmt, TypeOK
  <2> QED
    BY <1>2, <2>1, <2>2, <2>3 DEF LookUp, TypeOK
<1>3. ASSUME NEW p \in Processes, Create(p) \/ Alter(p) PROVE TypeOK'
  <2>1. held' \in [Processes -> SUBSET ({"events", "outbox"} \X Modes)]
    BY <1>3, TypeTake DEF Create, Alter
  <2>2. Current(p).object \in Full
    BY <1>3, CurrentObject DEF Create, Alter
  <2>3. PICK adds \in {{Current(p).object}, {}}, drops \in {{Current(p).object}, {}} :
            Change(p, adds, drops)
    BY <1>3 DEF Create, Alter
  <2>4. added' \in [Processes -> SUBSET Full] /\ removed' \in [Processes -> SUBSET Full]
    BY <2>2, <2>3 DEF Change, TypeOK
  <2>5. creating' \in [Processes -> BOOLEAN]
    <3>1. creating' = creating \/ creating' = [creating EXCEPT ![p] = FALSE]
      BY <1>3 DEF Create, Alter
    <3> QED
      BY <3>1, Zenon DEF TypeOK
  <2>6. stmt' \in [Processes -> Nat \ {0}]
    <3>1. stmt' = [stmt EXCEPT ![p] = @ + 1]
      BY <1>3 DEF Create, Alter, NextStmt
    <3> QED
      BY <3>1 DEF TypeOK
  <2>7. UNCHANGED <<env, schema, pc, file, disruptions>>
    BY <1>3 DEF Create, Alter, Change
  <2> QED
    BY <2>1, <2>4, <2>5, <2>6, <2>7 DEF TypeOK
<1>4. ASSUME NEW p \in Processes, Commit(p) \/ CommitUnanswered(p) PROVE TypeOK'
  <2>1. schema' \in SUBSET Full
    BY <1>4 DEF Commit, CommitUnanswered, Seen, TypeOK
  <2>2. EndTransaction(p)
    BY <1>4 DEF Commit, CommitUnanswered
  <2>3. /\ pc' \in [Processes -> {"down", "load", "connect", "begin", "migrate",
                                  "serving", "claiming"}]
        /\ file' \in [Processes -> 1..Len(Files)]
    BY <1>4, FilesAre
    DEF Commit, CommitUnanswered, AfterFile, AfterFailure, Goto, TypeOK
  <2>4. disruptions' \in 0..MaxDisruptions
    BY <1>4, TypeDisrupt DEF Commit, CommitUnanswered, TypeOK
  <2> QED
    BY <1>4, <2>1, <2>2, <2>3, <2>4, TypeEnd DEF Commit, CommitUnanswered, TypeOK
<1>5. ASSUME NEW p \in Processes, CreateConflicts(p) \/ StartFails(p) PROVE TypeOK'
  BY <1>5, TypeFails, TypeDisrupt DEF CreateConflicts, StartFails, TypeOK
<1>6. ASSUME NEW p \in Processes, Victim(p) PROVE TypeOK'
  <2>1. CASE pc[p] = "claiming"
    BY <1>6, <2>1, TypeEnd DEF Victim, Goto, TypeOK
  <2>2. CASE pc[p] # "claiming"
    <3>1. MigrationFails(p) /\ (Disrupt \/ UNCHANGED disruptions)
      BY <1>6, <2>2 DEF Victim
    <3>2. disruptions' \in 0..MaxDisruptions
      BY <3>1, TypeDisrupt DEF TypeOK
    <3> QED
      BY <3>1, <3>2, TypeFails
  <2> QED
    BY <2>1, <2>2
<1>7. ASSUME NEW p \in Processes, ClaimSelect(p) PROVE TypeOK'
  <2>1. held' \in [Processes -> SUBSET ({"events", "outbox"} \X Modes)]
    BY <1>7, TypeTake DEF ClaimSelect
  <2> QED
    BY <1>7, <2>1 DEF ClaimSelect, Goto, TypeOK
<1>8. ASSUME NEW p \in Processes, Start(p) \/ LoadConfig(p) \/ Connect(p) \/ Begin(p)
      PROVE  TypeOK'
  BY <1>8, FilesAre DEF Start, LoadConfig, Connect, Begin, Goto, transaction, TypeOK
<1>9. ASSUME NEW p \in Processes, ClaimUpdate(p) PROVE TypeOK'
  BY <1>9, TypeEnd DEF ClaimUpdate, Goto, TypeOK
<1>10. ASSUME NEW p \in Processes, Crash(p) PROVE TypeOK'
  BY <1>10, TypeEnd, TypeDisrupt DEF Crash, Goto, TypeOK
<1> QED
  BY <1>1, <1>2, <1>3, <1>4, <1>5, <1>6, <1>7, <1>8, <1>9, <1>10
  DEF Next, ProcessStep, Migrating

-----------------------------------------------------------------------------
(* The inductive invariant *)

\* The invariant holds at first.
LEMMA StartupInit == Init => StartupInv
<1> SUFFICES ASSUME Init PROVE StartupInv
  OBVIOUS
<1>1. \A p \in Processes :
          pc[p] = "down" /\ added[p] = {} /\ removed[p] = {}
  BY DEF Init
<1> QED
  BY <1>1, TypeInit
  DEF StartupInv, AcceptedInv, MigrationInv, FilesDone, Uncommitted, StatementsDone, Serving

\* What a migration commits is the schema and the objects of its file.
LEMMA CommitAddsFile ==
    ASSUME StartupInv, NEW p \in Processes, pc[p] = "migrate", ~Executing(p)
    PROVE  Seen(p) = schema \union Objects(file[p])
<1>1. FilesDone(p) /\ Uncommitted(p) /\ StatementsDone(p)
  BY DEF StartupInv, MigrationInv
<1>2. file[p] \in 1..2 /\ stmt[p] \in Nat
  BY FilesAre DEF StartupInv, TypeOK
<1>3. stmt[p] > Len(Files[file[p]])
  BY <1>2, FilesAre DEF Executing
<1>4. CASE file[p] = 1
  <2>1. Objects(1) \subseteq Seen(p)
    BY <1>1, <1>2, <1>3, <1>4, FilesAre, StatementsAre, ObjectsAre DEF StatementsDone
  <2> QED
    BY <1>1, <1>4, <2>1 DEF Uncommitted, Seen
<1>5. CASE file[p] = 2
  <2>1. Objects(2) \subseteq Seen(p)
    BY <1>1, <1>2, <1>3, <1>5, FilesAre, StatementsAre, ObjectsAre DEF StatementsDone
  <2>2. removed[p] \subseteq Objects(2) /\ added[p] \subseteq Objects(2)
    BY <1>1, <1>5, ObjectsAre DEF Uncommitted
  <2> QED
    BY <1>5, <2>1, <2>2 DEF Seen
<1> QED
  BY <1>2, <1>4, <1>5

\* When a migration commits its file, the files before it are there.
LEMMA SchemaStep ==
    ASSUME StartupInv, NEW p \in Processes, Commit(p) \/ CommitUnanswered(p)
    PROVE  /\ file[p] \in 1..2
           /\ schema' = schema \union Objects(file[p])
           /\ \A e \in 1..file[p] - 1 : Objects(e) \subseteq schema
<1>1. pc[p] = "migrate" /\ ~Executing(p) /\ schema' = Seen(p)
  BY DEF Commit, CommitUnanswered
<1>2. FilesDone(p) /\ file[p] \in 1..2
  BY FilesAre DEF StartupInv, MigrationInv, TypeOK
<1> QED
  BY <1>1, <1>2, CommitAddsFile DEF FilesDone

\* A process that does nothing keeps its part, if the schema only grows.
LEMMA Bystander ==
    ASSUME StartupInv, NEW q \in Processes,
           schema \subseteq schema', schema' \subseteq Full,
           pc'[q] = pc[q], file'[q] = file[q], stmt'[q] = stmt[q],
           added'[q] = added[q], removed'[q] = removed[q]
    PROVE  (FilesDone(q) /\ Uncommitted(q) /\ StatementsDone(q))'
<1>1. FilesDone(q) /\ Uncommitted(q) /\ StatementsDone(q)
  BY DEF StartupInv, MigrationInv
<1>2. Seen(q) \subseteq Seen(q)'
  BY DEF Seen
<1>3. FilesDone(q)'
  BY <1>1 DEF FilesDone, Serving
<1>4. Uncommitted(q)'
  BY <1>1 DEF Uncommitted
<1>5. StatementsDone(q)'
  BY <1>1, <1>2 DEF StatementsDone
<1> QED
  BY <1>3, <1>4, <1>5

\* A process whose transaction has ended, or that has none, keeps nothing back.
LEMMA NoTransaction ==
    ASSUME TypeOK, NEW p \in Processes, EndTransaction(p)
    PROVE  added'[p] = {} /\ removed'[p] = {}
BY DEF EndTransaction, TypeOK

\* What an action of p leaves alone
LEMMA OthersKeep ==
    ASSUME StartupInv, TypeOK', NEW p \in Processes,
           schema \subseteq schema',
           \A q \in Processes \ {p} :
               /\ pc'[q] = pc[q] /\ file'[q] = file[q] /\ stmt'[q] = stmt[q]
               /\ added'[q] = added[q] /\ removed'[q] = removed[q],
           (FilesDone(p) /\ Uncommitted(p) /\ StatementsDone(p))',
           pc'[p] \notin {"down", "load"} => Accepted(env),
           UNCHANGED env
    PROVE  StartupInv'
<1>1. schema' \subseteq Full
  BY DEF TypeOK
<1>2. MigrationInv'
  BY <1>1, Bystander DEF MigrationInv
<1>3. AcceptedInv'
  <2>1. Accepted(env)' = Accepted(env)
    BY DEF Accepted, Loads, OutboxValid, KafkaValid, DatabaseValid, PublisherAccepted,
           BrokersAccepted, Setting
  <2> QED
    BY <2>1 DEF StartupInv, AcceptedInv
<1> QED
  BY <1>2, <1>3 DEF StartupInv

\* A process that has failed has nothing to keep.
LEMMA DownKeeps ==
    ASSUME StartupInv, TypeOK', NEW p \in Processes,
           pc' = [pc EXCEPT ![p] = "down"], EndTransaction(p),
           schema \subseteq schema',
           UNCHANGED <<env, file, stmt>>
    PROVE  StartupInv'
<1>1. pc'[p] = "down" /\ added'[p] = {} /\ removed'[p] = {}
  BY NoTransaction DEF StartupInv, TypeOK
<1>2. (FilesDone(p) /\ Uncommitted(p) /\ StatementsDone(p))'
  BY <1>1 DEF FilesDone, Uncommitted, StatementsDone, Serving
<1>3. \A q \in Processes \ {p} :
          /\ pc'[q] = pc[q] /\ file'[q] = file[q] /\ stmt'[q] = stmt[q]
          /\ added'[q] = added[q] /\ removed'[q] = removed[q]
  BY DEF EndTransaction, StartupInv, TypeOK
<1> QED
  BY <1>1, <1>2, <1>3, OthersKeep

\* A migration that fails leaves nothing behind.
LEMMA FailsKeeps ==
    ASSUME StartupInv, TypeOK', NEW p \in Processes, MigrationFails(p)
    PROVE  StartupInv'
BY DownKeeps DEF MigrationFails, AfterFailure, Goto

\* A statement that only waits, looks or finds changes no object.
LEMMA LookUpKeeps ==
    ASSUME StartupInv, TypeOK', NEW p \in Processes, LookUp(p)
    PROVE  StartupInv'
<1>1. FilesDone(p) /\ Uncommitted(p) /\ StatementsDone(p)
  BY DEF StartupInv, MigrationInv
<1>2. /\ pc[p] = "migrate" /\ Executing(p)
      /\ file[p] \in 1..2 /\ stmt[p] \in DOMAIN Files[file[p]]
  BY CurrentObject DEF LookUp, Executing, StartupInv
<1>3. UNCHANGED <<env, schema, pc, file, added, removed>>
  BY DEF LookUp
<1>4. stmt'[p] = stmt[p] \/ (stmt'[p] = stmt[p] + 1 /\ Current(p).object \in Seen(p))
  BY DEF LookUp, NextStmt, Found, StartupInv, TypeOK
<1>5. stmt[p] \in Nat /\ stmt[p] <= Len(Files[file[p]])
  BY <1>2 DEF StartupInv, TypeOK, Executing
<1>6. FilesDone(p)'
  BY <1>1, <1>3 DEF FilesDone, Serving
<1>7. Uncommitted(p)'
  BY <1>1, <1>3, <1>4, <1>5 DEF Uncommitted
<1>8. StatementsDone(p)'
  <2>1. Seen(p)' = Seen(p)
    BY <1>3 DEF Seen
  <2>2. stmt'[p] <= Len(Files[file[p]]) + 1
    BY <1>2, <1>4, <1>5, FilesAre
  <2>3. ASSUME NEW i \in DOMAIN Files[file[p]], i < stmt'[p], Files[file[p]][i].op # "drop"
        PROVE  Files[file[p]][i].object \in Seen(p)
    <3>1. i \in Nat
      BY <1>2, FilesAre
    <3>2. CASE i < stmt[p]
      BY <1>1, <1>2, <2>3, <3>2 DEF StatementsDone
    <3>3. CASE i = stmt[p]
      BY <1>4, <1>5, <2>3, <3>3 DEF Current
    <3> QED
      BY <1>4, <1>5, <2>3, <3>1, <3>2, <3>3
  <2> QED
    BY <1>3, <2>1, <2>2, <2>3 DEF StatementsDone
<1>9. \A q \in Processes \ {p} : stmt'[q] = stmt[q]
  BY DEF LookUp, NextStmt, StartupInv, TypeOK
<1>10. pc'[p] \notin {"down", "load"} => Accepted(env)
  BY <1>3 DEF StartupInv, AcceptedInv
<1> QED
  BY <1>3, <1>6, <1>7, <1>8, <1>9, <1>10, OthersKeep

\* Neither does a statement that creates, adds or drops, for anyone else.
LEMMA StatementKeeps ==
    ASSUME StartupInv, TypeOK', NEW p \in Processes, Create(p) \/ Alter(p)
    PROVE  StartupInv'
<1> DEFINE o == Current(p).object
<1>1. FilesDone(p) /\ Uncommitted(p) /\ StatementsDone(p)
  BY DEF StartupInv, MigrationInv
<1>2. /\ pc[p] = "migrate" /\ Executing(p)
      /\ file[p] \in 1..2 /\ stmt[p] \in DOMAIN Files[file[p]]
      /\ o \in Objects(file[p])
  BY CurrentObject DEF Create, Alter, Executing, StartupInv
<1>3. UNCHANGED <<env, schema, pc, file>>
  BY DEF Create, Alter, Change
<1>4. stmt' = [stmt EXCEPT ![p] = @ + 1]
  BY DEF Create, Alter, NextStmt
<1>5. stmt[p] \in Nat /\ stmt[p] <= Len(Files[file[p]]) /\ stmt'[p] = stmt[p] + 1
  BY <1>2, <1>4 DEF StartupInv, TypeOK, Executing
<1>6. \/ /\ Current(p).op # "drop"
         /\ added' = [added EXCEPT ![p] = (@ \ {}) \union {o}]
         /\ removed' = [removed EXCEPT ![p] = @ \union {}]
      \/ /\ Current(p).op = "drop"
         /\ added' = [added EXCEPT ![p] = (@ \ {o}) \union {}]
         /\ removed' = [removed EXCEPT ![p] = @ \union {o}]
  <2>1. CASE Create(p)
    <3>1. Current(p).op # "drop"
      BY <2>1, <1>1 DEF Create
    <3> QED
      BY <2>1, <3>1 DEF Create, Change
  <2>2. CASE Alter(p)
    BY <2>2 DEF Alter, Change
  <2> QED
    BY <2>1, <2>2
<1>7. Current(p).op = "drop" => file[p] = 2 /\ stmt[p] = 4 /\ o = "status_check"
  BY <1>2, FilesAre, StatementsAre DEF Current
<1>8. \/ Current(p).op # "drop" /\ added'[p] = added[p] \union {o} /\ removed'[p] = removed[p]
      \/ /\ Current(p).op = "drop"
         /\ added'[p] = added[p] \ {o} /\ removed'[p] = removed[p] \union {o}
  BY <1>6 DEF StartupInv, TypeOK
<1>9. FilesDone(p)'
  BY <1>1, <1>3 DEF FilesDone, Serving
<1>10. Uncommitted(p)'
  <2>1. added'[p] \subseteq Objects(file[p])
    BY <1>1, <1>2, <1>8 DEF Uncommitted
  <2>2. removed'[p] # {} =>
            removed'[p] = {"status_check"} /\ file[p] = 2 /\ stmt'[p] >= 5
    BY <1>1, <1>5, <1>7, <1>8 DEF Uncommitted
  <2> QED
    BY <1>2, <1>3, <2>1, <2>2 DEF Uncommitted
<1>11. StatementsDone(p)'
  <2>1. stmt'[p] <= Len(Files[file[p]]) + 1
    BY <1>2, <1>5, FilesAre
  <2>2. ASSUME NEW i \in DOMAIN Files[file[p]], i < stmt'[p], Files[file[p]][i].op # "drop"
        PROVE  Files[file[p]][i].object \in Seen(p)'
    <3>1. i \in Nat
      BY <1>2, FilesAre
    <3>2. CASE i < stmt[p]
      <4>1. Files[file[p]][i].object \in Seen(p)
        BY <1>1, <1>2, <2>2, <3>2 DEF StatementsDone
      <4>2. Current(p).op = "drop" => Files[file[p]][i].object # o
        BY <1>2, <1>7, <3>2, FilesAre, StatementsAre
      <4> QED
        BY <1>3, <1>8, <4>1, <4>2 DEF Seen
    <3>3. CASE i = stmt[p]
      BY <1>8, <2>2, <3>3 DEF Current, Seen
    <3> QED
      BY <1>5, <2>2, <3>1, <3>2, <3>3
  <2> QED
    BY <1>3, <2>1, <2>2 DEF StatementsDone
<1>12. \A q \in Processes \ {p} :
           stmt'[q] = stmt[q] /\ added'[q] = added[q] /\ removed'[q] = removed[q]
  BY <1>4, <1>6 DEF StartupInv, TypeOK
<1>13. pc'[p] \notin {"down", "load"} => Accepted(env)
  BY <1>3 DEF StartupInv, AcceptedInv
<1> QED
  BY <1>3, <1>9, <1>10, <1>11, <1>12, <1>13, OthersKeep

\* What is committed is the whole file, and after the last the whole schema.
LEMMA CommitKeeps ==
    ASSUME StartupInv, TypeOK', NEW p \in Processes, Commit(p)
    PROVE  StartupInv'
<1>1. /\ file[p] \in 1..2
      /\ schema' = schema \union Objects(file[p])
      /\ \A e \in 1..file[p] - 1 : Objects(e) \subseteq schema
  BY SchemaStep
<1>2. /\ pc' = [pc EXCEPT ![p] = IF file[p] = 2 THEN "serving" ELSE "begin"]
      /\ file' = [file EXCEPT ![p] = IF file[p] = 2 THEN file[p] ELSE file[p] + 1]
      /\ pc[p] = "migrate" /\ EndTransaction(p) /\ UNCHANGED <<env, stmt>>
  BY FilesAre DEF Commit, AfterFile, Goto
<1>3. added'[p] = {} /\ removed'[p] = {}
  BY <1>2, NoTransaction DEF StartupInv
<1>4. FilesDone(p)'
  <2>1. CASE file[p] = 1
    <3>1. pc'[p] = "begin" /\ file'[p] = 2
      BY <1>2, <2>1 DEF StartupInv, TypeOK
    <3>2. Objects(1) \subseteq schema'
      BY <1>1, <2>1
    <3>3. \A e \in 1..file'[p] - 1 : e = 1
      BY <3>1
    <3> QED
      BY <3>1, <3>2, <3>3 DEF FilesDone, Serving, Objects
  <2>2. CASE file[p] = 2
    <3>1. pc'[p] = "serving"
      BY <1>2, <2>2 DEF StartupInv, TypeOK
    <3>2. schema' = Full
      BY <1>1, <2>2, ObjectsAre DEF StartupInv, TypeOK
    <3> QED
      BY <3>1, <3>2 DEF FilesDone, Full
  <2> QED
    BY <1>1, <2>1, <2>2
<1>5. pc'[p] \in {"serving", "begin"}
  BY <1>2 DEF StartupInv, TypeOK
<1>6. Uncommitted(p)' /\ StatementsDone(p)'
  BY <1>3, <1>5 DEF Uncommitted, StatementsDone
<1>7. \A q \in Processes \ {p} :
          /\ pc'[q] = pc[q] /\ file'[q] = file[q] /\ stmt'[q] = stmt[q]
          /\ added'[q] = added[q] /\ removed'[q] = removed[q]
  BY <1>2 DEF EndTransaction, StartupInv, TypeOK
<1>8. Accepted(env)
  BY <1>2 DEF StartupInv, AcceptedInv
<1> QED
  BY <1>1, <1>2, <1>4, <1>6, <1>7, <1>8, OthersKeep

\* The steps before the migrations
LEMMA BeforeKeeps ==
    ASSUME StartupInv, TypeOK', NEW p \in Processes,
           Start(p) \/ LoadConfig(p) \/ Connect(p) \/ Begin(p)
    PROVE  StartupInv'
<1>1. FilesDone(p) /\ Uncommitted(p)
  BY DEF StartupInv, MigrationInv
<1>2. UNCHANGED <<env, schema, added, removed>>
  BY DEF Start, LoadConfig, Connect, Begin, transaction
<1>3. /\ pc[p] \in {"down", "load", "connect", "begin"}
      /\ pc'[p] \in {"down", "load", "connect", "begin", "migrate"}
      /\ pc'[p] \notin {"down", "load"} => Accepted(env)
  BY DEF Start, LoadConfig, Connect, Begin, Goto, StartupInv, AcceptedInv, TypeOK
<1>4. \A q \in Processes \ {p} :
          /\ pc'[q] = pc[q] /\ file'[q] = file[q] /\ stmt'[q] = stmt[q]
          /\ added'[q] = added[q] /\ removed'[q] = removed[q]
  BY DEF Start, LoadConfig, Connect, Begin, Goto, transaction, StartupInv, TypeOK
<1>5. added'[p] = {} /\ removed'[p] = {}
  BY <1>1, <1>2, <1>3 DEF Uncommitted
<1>6. Uncommitted(p)'
  BY <1>5 DEF Uncommitted
<1>7. FilesDone(p)'
  <2>1. CASE Connect(p)
    <3>1. file'[p] = 1
      BY <2>1 DEF Connect, StartupInv, TypeOK
    <3>2. 1..file'[p] - 1 = {}
      BY <3>1
    <3> QED
      BY <1>3, <3>2 DEF FilesDone, Serving
  <2>2. CASE Begin(p)
    BY <1>1, <1>2, <1>3, <2>2 DEF Begin, FilesDone, Serving
  <2>3. CASE Start(p) \/ LoadConfig(p)
    <3>1. pc'[p] \in {"down", "load", "connect"}
      BY <2>3 DEF Start, LoadConfig, Goto, StartupInv, TypeOK
    <3> QED
      BY <3>1 DEF FilesDone, Serving
  <2> QED
    BY <2>1, <2>2, <2>3
<1>8. StatementsDone(p)'
  <2>1. CASE Begin(p)
    <3>1. stmt'[p] = 1 /\ file'[p] = file[p] /\ file[p] \in 1..2
      BY <2>1, FilesAre DEF Begin, StartupInv, TypeOK
    <3>2. \A i \in DOMAIN Files[file[p]] : ~(i < 1)
      BY <3>1, FilesAre
    <3> QED
      BY <3>1, <3>2, FilesAre DEF StatementsDone
  <2>2. CASE ~Begin(p)
    <3>1. pc'[p] # "migrate"
      BY <2>2 DEF Start, LoadConfig, Connect, Goto, StartupInv, TypeOK
    <3> QED
      BY <3>1 DEF StatementsDone
  <2> QED
    BY <2>1, <2>2
<1> QED
  BY <1>2, <1>3, <1>4, <1>6, <1>7, <1>8, OthersKeep

\* The claims, and a claim that loses a deadlock
LEMMA ClaimKeeps ==
    ASSUME StartupInv, TypeOK', NEW p \in Processes,
           Serving(p), pc' \in {[pc EXCEPT ![p] = "serving"], [pc EXCEPT ![p] = "claiming"]},
           EndTransaction(p) \/ UNCHANGED <<added, removed>>,
           UNCHANGED <<env, schema, file, stmt>>
    PROVE  StartupInv'
<1>1. FilesDone(p) /\ Uncommitted(p)
  BY DEF StartupInv, MigrationInv
<1>2. pc'[p] \in {"serving", "claiming"}
  BY DEF StartupInv, TypeOK
<1>3. added'[p] = {} /\ removed'[p] = {}
  BY <1>1, NoTransaction DEF Uncommitted, StartupInv, Serving
<1>4. (FilesDone(p) /\ Uncommitted(p) /\ StatementsDone(p))'
  BY <1>1, <1>2, <1>3 DEF FilesDone, Uncommitted, StatementsDone, Serving
<1>5. \A q \in Processes \ {p} :
          /\ pc'[q] = pc[q] /\ file'[q] = file[q] /\ stmt'[q] = stmt[q]
          /\ added'[q] = added[q] /\ removed'[q] = removed[q]
  BY DEF EndTransaction, StartupInv, TypeOK
<1>6. Accepted(env)
  BY DEF StartupInv, AcceptedInv, Serving
<1> QED
  BY <1>4, <1>5, <1>6, OthersKeep

\* Every step keeps the invariant.
LEMMA StartupNext == StartupInv /\ [Next]_vars => StartupInv'
<1> SUFFICES ASSUME StartupInv, [Next]_vars PROVE StartupInv'
  OBVIOUS
<1>1. TypeOK'
  BY TypeNext DEF StartupInv
<1>2. CASE UNCHANGED vars
  <2>1. UNCHANGED <<env, schema, pc, file, stmt, added, removed>>
    BY <1>2 DEF vars, transaction
  <2>2. Accepted(env)' = Accepted(env)
    BY <2>1 DEF Accepted, Loads, OutboxValid, KafkaValid, DatabaseValid, PublisherAccepted,
                BrokersAccepted, Setting
  <2>3. \A q \in Processes : (FilesDone(q) /\ Uncommitted(q) /\ StatementsDone(q))'
    BY <1>1, <2>1, Bystander DEF TypeOK
  <2> QED
    BY <1>1, <2>1, <2>2, <2>3 DEF StartupInv, AcceptedInv, MigrationInv
<1>3. ASSUME NEW p \in Processes, LookUp(p) \/ Create(p) \/ Alter(p) \/ Commit(p)
      PROVE  StartupInv'
  BY <1>1, <1>3, LookUpKeeps, StatementKeeps, CommitKeeps
<1>4. ASSUME NEW p \in Processes, CreateConflicts(p) \/ StartFails(p) PROVE StartupInv'
  BY <1>1, <1>4, FailsKeeps DEF CreateConflicts, StartFails
<1>5. ASSUME NEW p \in Processes, CommitUnanswered(p) PROVE StartupInv'
  BY <1>1, <1>5, SchemaStep, DownKeeps DEF CommitUnanswered, AfterFailure, Goto
<1>6. ASSUME NEW p \in Processes, Crash(p) PROVE StartupInv'
  BY <1>1, <1>6, DownKeeps DEF Crash, Goto
<1>7. ASSUME NEW p \in Processes, Start(p) \/ LoadConfig(p) \/ Connect(p) \/ Begin(p)
      PROVE  StartupInv'
  BY <1>1, <1>7, BeforeKeeps
<1>8. ASSUME NEW p \in Processes, ClaimSelect(p) \/ ClaimUpdate(p) PROVE StartupInv'
  BY <1>1, <1>8, ClaimKeeps DEF ClaimSelect, ClaimUpdate, Serving, Goto
<1>9. ASSUME NEW p \in Processes, Victim(p) PROVE StartupInv'
  <2>1. CASE pc[p] = "claiming"
    BY <1>1, <1>9, <2>1, ClaimKeeps DEF Victim, Serving, Goto
  <2>2. CASE pc[p] # "claiming"
    BY <1>1, <1>9, <2>2, FailsKeeps DEF Victim
  <2> QED
    BY <2>1, <2>2
<1> QED
  BY <1>2, <1>3, <1>4, <1>5, <1>6, <1>7, <1>8, <1>9 DEF Next, ProcessStep, Migrating

-----------------------------------------------------------------------------
(* The theorems *)

\* Every reachable state satisfies the invariant.
THEOREM StartupInvariant == Spec => []StartupInv
<1>1. Init => StartupInv
  BY StartupInit
<1>2. StartupInv /\ [Next]_vars => StartupInv'
  BY StartupNext
<1> QED
  BY <1>1, <1>2, PTL DEF Spec

\* A process whose workers run has a usable configuration and the whole schema,
\* however many others migrate at the same time (main.go:53-144).
THEOREM ServesSoundlyAlways == Spec => []ServesSoundly
<1>1. StartupInv => ServesSoundly
  <2> SUFFICES ASSUME StartupInv, NEW p \in Processes, Serving(p)
               PROVE  Usable /\ schema = Full
    BY DEF ServesSoundly
  <2>1. Accepted(env)
    BY DEF StartupInv, AcceptedInv, Serving
  <2>2. schema = Full
    BY DEF StartupInv, MigrationInv, FilesDone
  <2>3. \A v \in Defaulted : Setting(env, v) > 0
    BY <2>1 DEF Accepted, Loads, IsPositiveOrUnset, Setting, Default
  <2>4. \A v \in Connections : env[v].kind = "number" /\ env[v].n \in -MaxInt32 - 1..MaxInt32
    BY <2>1 DEF Accepted, Loads, IsInt32
  <2>5. Setting(env, "DB_MAX_CONNS") = env["DB_MAX_CONNS"].n
        /\ Setting(env, "DB_MIN_CONNS") = env["DB_MIN_CONNS"].n
    BY <2>4 DEF Setting, Connections
  <2>6. \A v \in Connections : env[v].n \in Int
    BY StartupAssumption DEF StartupInv, TypeOK, StartupAssumption, Variables, Connections
  <2>7. /\ Setting(env, "DB_MAX_CONNS") > 0 /\ Setting(env, "DB_MIN_CONNS") >= 0
        /\ Setting(env, "DB_MIN_CONNS") <= Setting(env, "DB_MAX_CONNS")
    BY <2>1 DEF Accepted, DatabaseValid
  <2> QED
    BY <2>2, <2>3, <2>4, <2>5, <2>6, <2>7 DEF Usable, Connections
<1> QED
  BY <1>1, StartupInvariant, PTL

\* The committed schema changes by whole migrations, in their order, and loses
\* nothing (migration.go:98-137).
THEOREM SchemaInStepsAlways == Spec => SchemaInSteps
<1> DEFINE Step ==
        schema' # schema =>
            \E f \in DOMAIN Files :
                /\ schema' = schema \union Objects(f)
                /\ \A e \in 1..f - 1 : Objects(e) \subseteq schema
<1>1. StartupInv /\ [Next]_vars => [Step]_vars
  <2> SUFFICES ASSUME StartupInv, Next, schema' # schema PROVE Step
    BY DEF vars
  <2>1. PICK p \in Processes : Commit(p) \/ CommitUnanswered(p)
    BY DEF Next, ProcessStep, Migrating, Start, LoadConfig, Connect, Begin, LookUp, Create,
           Alter, Change, CreateConflicts, MigrationFails, ClaimSelect, ClaimUpdate, Victim,
           StartFails, Crash
  <2> QED
    BY <2>1, SchemaStep, FilesAre
<1> QED
  BY <1>1, StartupInvariant, PTL DEF Spec, SchemaInSteps
=============================================================================
