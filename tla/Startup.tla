------------------------------- MODULE Startup -------------------------------
(***************************************************************************)
(* Processes that start against one database: main of cmd/api up to the    *)
(* workers, with internal/config and internal/platform/postgres/migration. *)
(* The benchmark migrates the same way, next to an API that may be         *)
(* serving.  There is no table of applied migrations: every start runs     *)
(* every file again, each in a transaction of its own, and relies on IF    *)
(* [NOT] EXISTS.                                                           *)
(*                                                                         *)
(* Catalog and locks are PostgreSQL's, as far as these statements use      *)
(* them.  A lock lasts until its transaction ends.  A statement waits for  *)
(* conflicting locks and, before it creates an object, for a transaction   *)
(* that has created one of that name; if that one commits, it fails.  A    *)
(* transaction in a cycle of waits is chosen as victim and rolled back.    *)
(***************************************************************************)
EXTENDS Config, Naturals, Sequences, FiniteSets

CONSTANTS
    Processes,
    Environments,     \* the environments the processes may be started in
    Schemas,          \* what earlier builds may have left in the database
    MaxDisruptions    \* bound on crashes, time-outs, failures and unlucky victims

VARIABLES
    env,          \* the environment, the same for every process
    schema,       \* the committed objects
    pc,           \* what process p does
    file, stmt,   \* the statement of the migration it is at
    creating,     \* creating[p]: it has seen that its object is not there
    added, removed,  \* what its open transaction has done to the catalog
    held,         \* held[p]: the locks of its open transaction
    disruptions

transaction == <<creating, added, removed, held>>
vars == <<env, schema, pc, file, stmt, transaction, disruptions>>

-----------------------------------------------------------------------------
(* The migrations *)

\* The statement `op` on `object`, under `locks`; CREATE TABLE takes its lock
\* on the referenced table only if it creates.
Stmt(op, object, locks) == [op |-> op, object |-> object, locks |-> locks]

CreateEvents ==
    <<Stmt("create", "events", {}),
      Stmt("index", "events_indexes", {<<"events", "share">>})>>

CreateOutbox ==
    <<Stmt("create", "outbox", {<<"events", "shareRowExclusive">>}),
      Stmt("index", "pending_index", {<<"outbox", "share">>}),
      Stmt("add", "processing_at", {<<"outbox", "accessExclusive">>}),
      Stmt("drop", "status_check", {<<"outbox", "accessExclusive">>}),
      Stmt("add", "status_check", {<<"outbox", "accessExclusive">>})>>

\* The *.sql files of the migration directory, sorted by name
Files == <<CreateEvents, CreateOutbox>>

Objects(f) == {Files[f][i].object : i \in DOMAIN Files[f]}
Full == UNION {Objects(f) : f \in DOMAIN Files}

Modes == {"rowShare", "rowExclusive", "share", "shareRowExclusive", "accessExclusive"}
ClaimLocks == {<<"outbox", "rowShare">>}
ClaimWrites == {<<"outbox", "rowExclusive">>}

\* The conflict table of the lock modes, as far as they are used
Conflicts(a, b) ==
    \/ "accessExclusive" \in {a, b}
    \/ "shareRowExclusive" \in {a, b} /\ {a, b} # {"shareRowExclusive", "rowShare"}
    \/ {a, b} = {"share", "rowExclusive"}

StartupAssumption ==
    /\ Environments \subseteq [Variables -> [kind : {"unset", "malformed", "NaN", "number"}, n : Int]]
    /\ Schemas \subseteq SUBSET Full
    /\ MaxDisruptions \in Nat
ASSUME StartupAssumption

TypeOK ==
    /\ env \in Environments
    /\ schema \in SUBSET Full
    /\ pc \in [Processes -> {"down", "load", "connect", "begin", "migrate",
                             "serving", "claiming"}]
    /\ file \in [Processes -> 1..Len(Files)]
    /\ stmt \in [Processes -> Nat \ {0}]
    /\ creating \in [Processes -> BOOLEAN]
    /\ added \in [Processes -> SUBSET Full]
    /\ removed \in [Processes -> SUBSET Full]
    /\ held \in [Processes -> SUBSET ({"events", "outbox"} \X Modes)]
    /\ disruptions \in 0..MaxDisruptions

Init ==
    /\ env \in Environments
    /\ schema \in Schemas
    /\ pc = [p \in Processes |-> "down"]
    /\ file = [p \in Processes |-> 1]
    /\ stmt = [p \in Processes |-> 1]
    /\ creating = [p \in Processes |-> FALSE]
    /\ added = [p \in Processes |-> {}]
    /\ removed = [p \in Processes |-> {}]
    /\ held = [p \in Processes |-> {}]
    /\ disruptions = 0

Disrupt ==
    /\ disruptions < MaxDisruptions
    /\ disruptions' = disruptions + 1

Goto(p, to) == pc' = [pc EXCEPT ![p] = to]

\* What p's transaction sees: what is committed, and its own changes
Seen(p) == (schema \ removed[p]) \union added[p]

\* COMMIT or ROLLBACK: the locks and the uncommitted changes are gone.
EndTransaction(p) ==
    /\ creating' = [creating EXCEPT ![p] = FALSE]
    /\ added' = [added EXCEPT ![p] = {}]
    /\ removed' = [removed EXCEPT ![p] = {}]
    /\ held' = [held EXCEPT ![p] = {}]

-----------------------------------------------------------------------------
(* Waiting for one another *)

Current(p) == Files[file[p]][stmt[p]]
Executing(p) == pc[p] = "migrate" /\ stmt[p] <= Len(Files[file[p]])

\* The locks p must get to go on
Requested(p) ==
    (IF Executing(p) /\ (Current(p).op = "create" => creating[p])
     THEN Current(p).locks ELSE {})
    \union (IF pc[p] = "serving" THEN ClaimLocks ELSE {})
    \union (IF pc[p] = "claiming" THEN ClaimWrites ELSE {})

\* The processes whose transactions p waits for
Blockers(p) ==
    {q \in Processes \ {p} :
        \/ \E want \in Requested(p), has \in held[q] :
              want[1] = has[1] /\ Conflicts(want[2], has[2])
        \/ Executing(p) /\ creating[p] /\ Current(p).object \in added[q]}

Granted(p) == Blockers(p) = {}
Take(p) == held' = [held EXCEPT ![p] = @ \union Requested(p)]

\* p is in a cycle of waits.
Deadlocked(p) ==
    \E cycle \in SUBSET Processes :
        /\ p \in cycle
        /\ \A q \in cycle :
              /\ Blockers(q) \intersect cycle # {}
              /\ \E other \in cycle : q \in Blockers(other)

-----------------------------------------------------------------------------
(* main, up to the workers *)

\* The supervisor starts a process that has ended (restart: unless-stopped).
Start(p) ==
    /\ pc[p] = "down"
    /\ Goto(p, "load")
    /\ UNCHANGED <<env, schema, file, stmt, transaction, disruptions>>

\* config.Load and the three Validate; main returns on an error.
LoadConfig(p) ==
    /\ pc[p] = "load"
    /\ Goto(p, IF Accepted(env) THEN "connect" ELSE "down")
    /\ UNCHANGED <<env, schema, file, stmt, transaction, disruptions>>

\* NewDB and Ping
Connect(p) ==
    /\ pc[p] = "connect"
    /\ Goto(p, IF UrlParses(env) THEN "begin" ELSE "down")
    /\ file' = [file EXCEPT ![p] = 1]
    /\ UNCHANGED <<env, schema, stmt, transaction, disruptions>>

\* pool.Begin of runMigration
Begin(p) ==
    /\ pc[p] = "begin"
    /\ Goto(p, "migrate")
    /\ stmt' = [stmt EXCEPT ![p] = 1]
    /\ UNCHANGED <<env, schema, file, transaction, disruptions>>

NextStmt(p) == stmt' = [stmt EXCEPT ![p] = @ + 1]

\* The statement's effect, seen by nobody else before the COMMIT
ChangeAtOnce(p, adds, drops) ==  \* faulty: each statement commits
    /\ schema' = (schema \ drops) \union adds
    /\ UNCHANGED <<added, removed>>
Change(p, adds, drops) ==
    /\ added' = [added EXCEPT ![p] = (@ \ drops) \union adds]
    /\ removed' = [removed EXCEPT ![p] = @ \union drops]
    /\ UNCHANGED schema

\* IF NOT EXISTS
FoundNever(p) == FALSE  \* faulty: not written
Found(p) == Current(p).object \in Seen(p)

\* CREATE ... IF NOT EXISTS looks the name up; an index locks its table first.
LookUp(p) ==
    /\ Executing(p)
    /\ Current(p).op \in {"create", "index"}
    /\ ~creating[p]
    /\ Granted(p)
    /\ Take(p)
    /\ IF Found(p)
       THEN NextStmt(p) /\ UNCHANGED creating
       ELSE creating' = [creating EXCEPT ![p] = TRUE] /\ UNCHANGED stmt
    /\ UNCHANGED <<env, schema, pc, file, added, removed, disruptions>>

\* ... and creates what it did not find.
Create(p) ==
    /\ Executing(p)
    /\ Current(p).op \in {"create", "index"}
    /\ creating[p]
    /\ Granted(p)
    /\ Current(p).object \notin schema
    /\ Take(p)
    /\ Change(p, {Current(p).object}, {})
    /\ creating' = [creating EXCEPT ![p] = FALSE]
    /\ NextStmt(p)
    /\ UNCHANGED <<env, pc, file, disruptions>>

\* ALTER TABLE: ADD COLUMN IF NOT EXISTS, DROP CONSTRAINT IF EXISTS, ADD CONSTRAINT
Alter(p) ==
    /\ Executing(p)
    /\ Granted(p)
    /\ Take(p)
    /\ \/ Current(p).op = "add" /\ Change(p, {Current(p).object}, {})
       \/ Current(p).op = "drop" /\ Change(p, {}, {Current(p).object})
    /\ NextStmt(p)
    /\ UNCHANGED <<env, pc, file, creating, disruptions>>

\* The last file is followed by the start of the workers and the server.
AfterFile(p) ==
    /\ Goto(p, IF file[p] = Len(Files) THEN "serving" ELSE "begin")
    /\ file' = [file EXCEPT ![p] = IF @ = Len(Files) THEN @ ELSE @ + 1]

Commit(p) ==
    /\ pc[p] = "migrate"
    /\ ~Executing(p)
    /\ schema' = Seen(p)
    /\ EndTransaction(p)
    /\ AfterFile(p)
    /\ UNCHANGED <<env, stmt, disruptions>>

\* The deferred Rollback runs, Migrate and main return.
AfterFailureGoesOn(p) == AfterFile(p)  \* faulty: Migrate ignores the error
AfterFailure(p) == Goto(p, "down") /\ UNCHANGED file

MigrationFails(p) ==
    /\ EndTransaction(p)
    /\ AfterFailure(p)
    /\ UNCHANGED <<env, schema, stmt>>

\* Somebody else has created the object since p looked: unique violation.
\* An object that is there is found by the next attempt.
CreateConflicts(p) ==
    /\ Executing(p)
    /\ creating[p]
    /\ Granted(p)
    /\ Current(p).object \in schema
    /\ MigrationFails(p)
    /\ UNCHANGED disruptions

-----------------------------------------------------------------------------
(* The claim of a serving process, and what may befall a process *)

\* ClaimPending's SELECT ... FOR UPDATE
ClaimSelect(p) ==
    /\ pc[p] = "serving"
    /\ Granted(p)
    /\ Take(p)
    /\ Goto(p, "claiming")
    /\ UNCHANGED <<env, schema, file, stmt, creating, added, removed, disruptions>>

\* Its UPDATE and COMMIT
ClaimUpdate(p) ==
    /\ pc[p] = "claiming"
    /\ Granted(p)
    /\ EndTransaction(p)
    /\ Goto(p, "serving")
    /\ UNCHANGED <<env, schema, file, stmt, disruptions>>

\* PostgreSQL breaks a deadlock.  A migration that loses to a claim is bad
\* luck, which is bounded: the claim, made every few seconds, takes milliseconds.
Victim(p) ==
    /\ Deadlocked(p)
    /\ IF pc[p] = "claiming"
       THEN /\ EndTransaction(p)
            /\ Goto(p, "serving")
            /\ UNCHANGED <<env, schema, file, stmt, disruptions>>
       ELSE /\ MigrationFails(p)
            /\ IF \E q \in Blockers(p) : pc[q] = "claiming"
               THEN Disrupt
               ELSE UNCHANGED disruptions

\* The database does not answer, or the five seconds of ctx are over.
StartFails(p) ==
    /\ pc[p] \in {"connect", "begin", "migrate"}
    /\ Disrupt
    /\ MigrationFails(p)

\* COMMIT takes effect and its reply is lost.
CommitUnanswered(p) ==
    /\ pc[p] = "migrate"
    /\ ~Executing(p)
    /\ Disrupt
    /\ schema' = Seen(p)
    /\ EndTransaction(p)
    /\ AfterFailure(p)
    /\ UNCHANGED <<env, stmt>>

\* The process dies; the server rolls its transaction back.
Crash(p) ==
    /\ pc[p] # "down"
    /\ Disrupt
    /\ EndTransaction(p)
    /\ Goto(p, "down")
    /\ UNCHANGED <<env, schema, file, stmt>>

Migrating(p) ==
    \/ LookUp(p) \/ Create(p) \/ Alter(p) \/ Commit(p)
    \/ CreateConflicts(p)

ProcessStep(p) ==
    \/ Start(p) \/ LoadConfig(p) \/ Connect(p) \/ Begin(p) \/ Migrating(p)
    \/ ClaimSelect(p) \/ ClaimUpdate(p) \/ Victim(p)

Next ==
    \E p \in Processes :
        ProcessStep(p) \/ StartFails(p) \/ CommitUnanswered(p) \/ Crash(p)

Spec == Init /\ [][Next]_vars

\* A process that can go on does, a dead one is started again.  A statement
\* that waits for a table lock gets its turn: PostgreSQL queues the requests,
\* and one that comes later does not overtake it.
FairSpec ==
    /\ Spec
    /\ \A p \in Processes :
          /\ WF_vars(ProcessStep(p))
          /\ SF_vars(LookUp(p)) /\ SF_vars(Create(p)) /\ SF_vars(Alter(p))
          /\ SF_vars(ClaimUpdate(p))

-----------------------------------------------------------------------------
(* What must hold *)

Serving(p) == pc[p] \in {"serving", "claiming"}

\* What the workers, the pool and the channels are made from is usable:
\* NewTicker panics on an interval of 0, a worker reclaims at once with a
\* negative stale timeout, a pool needs room for one connection.
Usable ==
    /\ \A v \in Defaulted : Setting(env, v) > 0
    /\ Setting(env, "DB_MAX_CONNS") \in 1..MaxInt32
    /\ Setting(env, "DB_MIN_CONNS") \in 0..Setting(env, "DB_MAX_CONNS")

\* A process whose workers run has a usable configuration and the whole
\* schema, also while others migrate: the status check, which each migration
\* drops and adds again, is always there for it (main.go:53-144).
ServesSoundly ==
    (\E p \in Processes : Serving(p)) => Usable /\ schema = Full

\* The committed schema changes by whole migrations, in their order, and
\* loses nothing: no replica sees a half of one, whoever dies or is rolled
\* back (migration.go:98-137).
SchemaInSteps ==
    [][schema' # schema =>
          \E f \in DOMAIN Files :
              /\ schema' = schema \union Objects(f)
              /\ \A e \in 1..f - 1 : Objects(e) \subseteq schema]_vars

\* With an accepted configuration every process gets to serve, although
\* processes that start together make each other's migrations fail.
EventuallyServes ==
    Accepted(env) /\ UrlParses(env) => \A p \in Processes : <>[]Serving(p)
=============================================================================
