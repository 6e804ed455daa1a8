-------------------------------- MODULE Ingest --------------------------------
(***************************************************************************)
(* Ingestion: POST /api/v1/events, from the handler (handle.go) through    *)
(* EventIngestor.Handle (ingest.go) to EventRepository.Save and            *)
(* FindByEventID (event_repository.go).                                    *)
(*                                                                         *)
(* Requests run side by side, in one process or several, and every         *)
(* statement is a step.  A request stands for the event it would create:   *)
(* its generated id and its body.                                          *)
(*                                                                         *)
(*   pc[r]        the statement the handler of r makes next                *)
(*   eventId[r]   event_id of the body, None before it is read             *)
(*   txn[r]       the transaction of Save, as the server has it            *)
(*   written[r]   what it has written and not committed                    *)
(*   events[e], outbox[e]   the committed row of event_id e in each table  *)
(*   conns        requests that hold a connection of the pool              *)
(*   reply[r]     what the client was told                                 *)
(*                                                                         *)
(* A handler that gives up (an error, a client that went away, a process   *)
(* that died) leaves its transaction to the server, which ends it later:   *)
(* it rolls an open one back, and may still commit one whose COMMIT was on *)
(* its way.                                                                *)
(***************************************************************************)
EXTENDS Naturals, FiniteSets

CONSTANTS
    Requests,
    EventIds,
    None,      \* no row, no event
    MaxConns,  \* MaxConns of the pool
    Faults     \* what may be wrong with a request: see Refuse

ASSUME IngestAssumption ==
    /\ None \notin Requests
    /\ None \notin EventIds
    /\ MaxConns \in Nat \ {0}
    /\ Faults \subseteq {"malformed", "unknownType", "badProperties"}

VARIABLES pc, eventId, txn, written, events, outbox, conns, reply

db == <<txn, written, events, outbox>>
vars == <<pc, eventId, db, conns, reply>>

Steps == {"new", "begin", "insertEvent", "insertOutbox", "commit", "find",
          "answered", "gone"}

NoReply == [outcome |-> "none", event |-> None]
Outcomes == {"none", "created", "exists", "notFound", "failed"} \union Faults

TypeOK ==
    /\ pc \in [Requests -> Steps]
    /\ eventId \in [Requests -> EventIds \union {None}]
    /\ txn \in [Requests -> {"none", "open", "committing", "ended"}]
    /\ written \in [Requests -> SUBSET {"event", "outbox"}]
    /\ events \in [EventIds -> Requests \union {None}]
    /\ outbox \in [EventIds -> Requests \union {None}]
    /\ conns \subseteq Requests
    /\ reply \in [Requests -> [outcome : Outcomes, event : Requests \union {None}]]

Init ==
    /\ pc = [r \in Requests |-> "new"]
    /\ eventId = [r \in Requests |-> None]
    /\ txn = [r \in Requests |-> "none"]
    /\ written = [r \in Requests |-> {}]
    /\ events = [e \in EventIds |-> None]
    /\ outbox = [e \in EventIds |-> None]
    /\ conns = {}
    /\ reply = [r \in Requests |-> NoReply]

Goto(r, step) == pc' = [pc EXCEPT ![r] = step]

-----------------------------------------------------------------------------
(* Checks and answers *)

Answer(r, outcome, event) ==
    /\ Goto(r, "answered")
    /\ reply' = [reply EXCEPT ![r] = [outcome |-> outcome, event |-> event]]

\* The status of an answer: mapError, and Ingest
StatusOf(outcome) ==
    CASE outcome = "created" -> 201
      [] outcome = "exists" -> 200
      [] outcome \in {"malformed", "unknownType", "badProperties"} -> 400
      [] OTHER -> 500

\* Its created_at: the event just built still has the zero time.
CreatedAtOf(outcome) ==
    CASE outcome = "created" -> "zero"
      [] outcome = "exists" -> "row"
      [] OTHER -> "none"

\* A request is refused before the database is asked.
Refuse(r, fault) ==
    /\ fault \in Faults
    /\ Answer(r, fault, None)

\* ShouldBindJSON: no JSON, a missing field, no UUID.  validateCommand, after
\* it, finds nothing that it has let through.
BadRequest(r) == Refuse(r, "malformed")

\* No schema for the type and version
UnknownSchema(r) == Refuse(r, "unknownType")

\* The properties do not fit the schema.
BadProperties(r) == Refuse(r, "badProperties")

\* Ingest, and Handle up to Save
Receive(r) ==
    /\ pc[r] = "new"
    /\ \E e \in EventIds : eventId' = [eventId EXCEPT ![r] = e]
    /\ \/ Goto(r, "begin") /\ UNCHANGED reply
       \/ BadRequest(r)
       \/ UnknownSchema(r)
       \/ BadProperties(r)
    /\ UNCHANGED <<db, conns>>

-----------------------------------------------------------------------------
(* EventRepository.Save *)

\* The deferred tx.Rollback, on every return but the one after COMMIT, gives
\* the connection back.
ReleaseForgotten(r) == UNCHANGED conns  \* faulty: no defer tx.Rollback
Release(r) == conns' = conns \ {r}

\* A connection of the pool is free.
PoolHasRoom == Cardinality(conns) < MaxConns

\* Pool.Begin
Begin(r) ==
    /\ pc[r] = "begin"
    /\ PoolHasRoom
    /\ conns' = conns \union {r}
    /\ txn' = [txn EXCEPT ![r] = "open"]
    /\ Goto(r, "insertEvent")
    /\ UNCHANGED <<eventId, written, events, outbox, reply>>

\* Another transaction that has not ended has inserted the same event_id: the
\* unique index makes the INSERT wait for it.
NeverBlocked(r) == FALSE  \* faulty: no unique index
Blocked(r) ==
    \E q \in Requests \ {r} :
        /\ eventId[q] = eventId[r]
        /\ "event" \in written[q]

\* INSERT INTO events ... ON CONFLICT (event_id) DO NOTHING RETURNING id
InsertEventAutocommits(r) ==  \* faulty: on the pool, not on tx
    /\ pc[r] = "insertEvent"
    /\ ~Blocked(r)
    /\ events[eventId[r]] = None
    /\ events' = [events EXCEPT ![eventId[r]] = r]
    /\ Goto(r, "insertOutbox")
    /\ UNCHANGED <<eventId, txn, written, outbox, conns, reply>>
InsertEvent(r) ==
    /\ pc[r] = "insertEvent"
    /\ ~Blocked(r)
    /\ events[eventId[r]] = None
    /\ written' = [written EXCEPT ![r] = {"event"}]
    /\ Goto(r, "insertOutbox")
    /\ UNCHANGED <<eventId, txn, events, outbox, conns, reply>>

\* pgx.ErrNoRows: ErrEventAlreadyExists, and Save rolls back before Handle
\* looks for the event.
InsertConflictsAtOnce(r) ==  \* faulty: does not wait for the other transaction
    /\ pc[r] = "insertEvent"
    /\ Blocked(r) \/ events[eventId[r]] # None
    /\ txn' = [txn EXCEPT ![r] = "ended"]
    /\ Goto(r, "find")
    /\ Release(r)
    /\ UNCHANGED <<eventId, written, events, outbox, reply>>
InsertConflicts(r) ==
    /\ pc[r] = "insertEvent"
    /\ ~Blocked(r)
    /\ events[eventId[r]] # None
    /\ txn' = [txn EXCEPT ![r] = "ended"]
    /\ Goto(r, "find")
    /\ Release(r)
    /\ UNCHANGED <<eventId, written, events, outbox, reply>>

InsertOutbox(r) ==
    /\ pc[r] = "insertOutbox"
    /\ written' = [written EXCEPT ![r] = @ \union {"outbox"}]
    /\ Goto(r, "commit")
    /\ UNCHANGED <<eventId, txn, events, outbox, conns, reply>>

\* The transaction of r is committed: what it wrote is there for all to see.
Commits(r) ==
    /\ txn' = [txn EXCEPT ![r] = "ended"]
    /\ written' = [written EXCEPT ![r] = {}]
    /\ events' = [e \in EventIds |->
           IF e = eventId[r] /\ "event" \in written[r] THEN r ELSE events[e]]
    /\ outbox' = [e \in EventIds |->
           IF e = eventId[r] /\ "outbox" \in written[r] THEN r ELSE outbox[e]]

Commit(r) ==
    /\ pc[r] = "commit"
    /\ Commits(r)
    /\ Answer(r, "created", r)
    /\ conns' = conns \ {r}
    /\ UNCHANGED eventId

-----------------------------------------------------------------------------
(* EventRepository.FindByEventID *)

FindAnswersOwn(r) ==  \* faulty: answers the event of the request
    /\ pc[r] = "find"
    /\ PoolHasRoom
    /\ Answer(r, "exists", r)
    /\ UNCHANGED <<eventId, db, conns>>
FindByEventID(r) ==
    /\ pc[r] = "find"
    /\ PoolHasRoom
    /\ IF events[eventId[r]] = None
       THEN Answer(r, "notFound", None)
       ELSE Answer(r, "exists", events[eventId[r]])
    /\ UNCHANGED <<eventId, db, conns>>

-----------------------------------------------------------------------------
(* Failures *)

\* What the server is left with when the handler of r goes away: a COMMIT may
\* be on its way.
Abandon(r) ==
    /\ txn' = [txn EXCEPT ![r] =
           IF pc[r] = "commit" /\ @ = "open" THEN "committing" ELSE @]
    /\ Release(r)
    /\ UNCHANGED <<eventId, written, events, outbox>>

InSave == {"begin", "insertEvent", "insertOutbox", "commit", "find"}

\* A statement fails: "save event", "find existing event".  So does an INSERT of
\* a value the columns do not take (VARCHAR(100), JSONB).
Fails(r) ==
    /\ pc[r] \in InSave
    /\ Answer(r, "failed", None)
    /\ Abandon(r)

\* The process dies, or the client is gone when the answer comes.
Dies(r) ==
    /\ pc[r] \in InSave
    /\ Goto(r, "gone")
    /\ Abandon(r)
    /\ UNCHANGED reply

\* The server notices that the connection of r is gone.
ServerAborts(r) ==
    /\ pc[r] \in {"answered", "gone"}
    /\ txn[r] \in {"open", "committing"}
    /\ txn' = [txn EXCEPT ![r] = "ended"]
    /\ written' = [written EXCEPT ![r] = {}]
    /\ UNCHANGED <<pc, eventId, events, outbox, conns, reply>>

\* The COMMIT of r arrives after all.
ServerCommits(r) ==
    /\ txn[r] = "committing"
    /\ Commits(r)
    /\ UNCHANGED <<pc, eventId, conns, reply>>

-----------------------------------------------------------------------------
Handler(r) ==
    \/ Receive(r)
    \/ Begin(r)
    \/ InsertEvent(r)
    \/ InsertConflicts(r)
    \/ InsertOutbox(r)
    \/ Commit(r)
    \/ FindByEventID(r)

Next ==
    \E r \in Requests :
        Handler(r) \/ Fails(r) \/ Dies(r) \/ ServerAborts(r) \/ ServerCommits(r)

Spec == Init /\ [][Next]_vars

\* Handlers that can go on do, and the server ends the transactions of the dead.
FairSpec ==
    /\ Spec
    /\ \A r \in Requests :
          /\ WF_vars(Handler(r) /\ pc[r] # "new")
          /\ WF_vars(ServerAborts(r))

-----------------------------------------------------------------------------
(* Properties *)

Contract == INSTANCE IngestContract WITH
    accepted <- events,
    answer <- [r \in Requests |->
        [kind |-> IF reply[r].outcome \in {"none", "created", "exists"}
                  THEN reply[r].outcome ELSE "error",
         event |-> reply[r].event]]

\* Whatever fails, each event_id is a write-once register: the first event
\* accepted for it wins, and every 2xx answer names that event.
IsWriteOnce == Contract!Spec

\* An event is ingested if and only if it will be published: no failure, at
\* any statement, leaves one row without the other (ARCHITECTURE.md:105-107).
EventIffOutbox == events = outbox

\* The event the INSERT ran into is there when FindByEventID looks: "event
\* not found" is never what a duplicate gets (ingest.go:94-108).
DuplicateIsFound ==
    \A r \in Requests : pc[r] = "find" => events[eventId[r]] # None

\* Every request is answered, or is dead: no transaction left behind, and no
\* connection kept, blocks the others for ever.
EveryRequestEnds ==
    \A r \in Requests : pc[r] # "new" ~> pc[r] \in {"answered", "gone"}

-----------------------------------------------------------------------------
(* What the API description says and the code does not keep *)

\* event-flow-api.openapi.yaml:318-321: created_at is when the record was
\* created, of a new event too (its 201 example, :116).
CreatedAtIsTheRecords ==
    \A r \in Requests :
        reply[r].event # None => CreatedAtOf(reply[r].outcome) = "row"
=============================================================================
