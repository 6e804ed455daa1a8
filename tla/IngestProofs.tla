----------------------------- MODULE IngestProofs -----------------------------
(***************************************************************************)
(* Theorems about Ingest, for any number of requests and event ids, any    *)
(* pool, and every interleaving of handlers, failures and late COMMITs.    *)
(***************************************************************************)
EXTENDS IngestInvariant, TLAPS

\* What an answer changes
LEMMA AnswerType ==
    ASSUME TypeOK, NEW r \in Requests, NEW outcome \in Outcomes,
           NEW event \in Requests \union {None}, Answer(r, outcome, event)
    PROVE  /\ pc' \in [Requests -> Steps]
           /\ reply' \in [Requests -> [outcome : Outcomes, event : Requests \union {None}]]
BY DEF TypeOK, Answer, Goto, Steps

\* The initial state is typed.
LEMMA TypeInit == Init => TypeOK
BY DEF Init, TypeOK, Steps, NoReply, Outcomes

\* Every statement, answer and failure keeps every variable in its type.
LEMMA TypeNext == TypeOK /\ HandlerInv /\ [Next]_vars => TypeOK'
<1> SUFFICES ASSUME TypeOK, HandlerInv, [Next]_vars PROVE TypeOK'
  OBVIOUS
<1> USE IngestAssumption DEF TypeOK, Goto, Release, Steps
<1>1. CASE UNCHANGED vars
  BY <1>1 DEF vars, db
<1>2. ASSUME NEW r \in Requests, Receive(r) PROVE TypeOK'
  <2>1. eventId' \in [Requests -> EventIds \union {None}]
    BY <1>2 DEF Receive
  <2>2. /\ pc' \in [Requests -> Steps]
        /\ reply' \in [Requests -> [outcome : Outcomes, event : Requests \union {None}]]
    <3>1. CASE Goto(r, "begin") /\ UNCHANGED reply
      BY <3>1
    <3>2. CASE BadRequest(r) \/ UnknownSchema(r) \/ BadProperties(r)
      <4>1. PICK fault \in Faults : Answer(r, fault, None)
        BY <3>2 DEF BadRequest, UnknownSchema, BadProperties, Refuse
      <4> QED
        BY <4>1, AnswerType DEF Outcomes
    <3> QED
      BY <1>2, <3>1, <3>2 DEF Receive
  <2> QED
    BY <1>2, <2>1, <2>2 DEF Receive, db
<1>3. ASSUME NEW r \in Requests, Begin(r) PROVE TypeOK'
  BY <1>3 DEF Begin
<1>4. ASSUME NEW r \in Requests, InsertEvent(r) \/ InsertConflicts(r) \/ InsertOutbox(r)
      PROVE  TypeOK'
  BY <1>4 DEF InsertEvent, InsertConflicts, InsertOutbox
<1>5. ASSUME NEW r \in Requests, Commit(r) PROVE TypeOK'
  <2>1. /\ pc' \in [Requests -> Steps]
        /\ reply' \in [Requests -> [outcome : Outcomes, event : Requests \union {None}]]
    BY <1>5, AnswerType DEF Commit, Outcomes
  <2> QED
    BY <1>5, <2>1 DEF Commit, Commits
<1>6. ASSUME NEW r \in Requests, FindByEventID(r) PROVE TypeOK'
  <2>1. eventId[r] \in EventIds
    BY <1>6 DEF FindByEventID, HandlerInv, InSave
  <2>2. events[eventId[r]] \in Requests \union {None}
    BY <2>1
  <2>3. /\ pc' \in [Requests -> Steps]
        /\ reply' \in [Requests -> [outcome : Outcomes, event : Requests \union {None}]]
    BY <1>6, <2>2, AnswerType DEF FindByEventID, Outcomes
  <2> QED
    BY <1>6, <2>3 DEF FindByEventID, db
<1>7. ASSUME NEW r \in Requests, Fails(r) \/ Dies(r) PROVE TypeOK'
  <2>1. /\ pc' \in [Requests -> Steps]
        /\ reply' \in [Requests -> [outcome : Outcomes, event : Requests \union {None}]]
    <3>1. CASE Fails(r)
      BY <3>1, AnswerType DEF Fails, Outcomes
    <3>2. CASE Dies(r)
      BY <3>2 DEF Dies
    <3> QED
      BY <1>7, <3>1, <3>2
  <2>2. Abandon(r)
    BY <1>7 DEF Fails, Dies
  <2>3. txn' \in [Requests -> {"none", "open", "committing", "ended"}]
    BY <2>2 DEF Abandon
  <2> QED
    BY <2>1, <2>2, <2>3 DEF Abandon
<1>8. ASSUME NEW r \in Requests, ServerAborts(r) \/ ServerCommits(r) PROVE TypeOK'
  BY <1>8 DEF ServerAborts, ServerCommits, Commits
<1> QED
  BY <1>1, <1>2, <1>3, <1>4, <1>5, <1>6, <1>7, <1>8 DEF Next, Handler

-----------------------------------------------------------------------------
(* The inductive invariant *)

\* The invariant holds at first.
LEMMA IngestInit == Init => IngestInv
<1> SUFFICES ASSUME Init PROVE IngestInv
  OBVIOUS
<1> QED
  BY TypeInit
  DEF Init, IngestInv, WriterInv, HandlerInv, OwnerInv, EventIffOutbox, DuplicateIsFound,
      Live, InSave

\* The transaction of r commits: its event_id was free, and is now r's.
LEMMA CommitsKeeps ==
    ASSUME IngestInv, TypeOK', NEW r \in Requests, written[r] = {"event", "outbox"}, Commits(r),
           UNCHANGED eventId, pc'[r] \in {"answered", "gone"},
           \A q \in Requests \ {r} : pc'[q] = pc[q] /\ reply'[q] = reply[q]
    PROVE  IngestInv'
<1>1. /\ eventId[r] \in EventIds /\ events[eventId[r]] = None
      /\ \A q \in Requests : "event" \in written[q] /\ eventId[q] = eventId[r] => q = r
  BY DEF IngestInv, TypeOK, WriterInv
<1>2. /\ events' = [events EXCEPT ![eventId[r]] = r]
      /\ outbox' = [outbox EXCEPT ![eventId[r]] = r]
      /\ txn' = [txn EXCEPT ![r] = "ended"]
      /\ written' = [written EXCEPT ![r] = {}]
  <2>1. events \in [EventIds -> Requests \union {None}] /\ outbox \in [EventIds -> Requests \union {None}]
    BY DEF IngestInv, TypeOK
  <2>2. events' = [e \in EventIds |-> IF e = eventId[r] THEN r ELSE events[e]]
    BY DEF Commits
  <2>3. outbox' = [e \in EventIds |-> IF e = eventId[r] THEN r ELSE outbox[e]]
    BY DEF Commits
  <2>4. txn' = [txn EXCEPT ![r] = "ended"] /\ written' = [written EXCEPT ![r] = {}]
    BY DEF Commits
  <2> QED
    BY <1>1, <2>1, <2>2, <2>3, <2>4
<1> USE IngestAssumption DEF IngestInv, TypeOK
<1>3. EventIffOutbox'
  BY <1>2 DEF EventIffOutbox
<1>4. WriterInv'
  BY <1>1, <1>2 DEF WriterInv
<1>5. HandlerInv'
  BY <1>2 DEF HandlerInv, InSave, Live
<1>6. OwnerInv'
  BY <1>1, <1>2 DEF OwnerInv
<1>7. DuplicateIsFound'
  BY <1>1, <1>2 DEF DuplicateIsFound
<1> QED
  BY <1>3, <1>4, <1>5, <1>6, <1>7

\* Every step keeps the invariant.
LEMMA IngestNext == IngestInv /\ [Next]_vars => IngestInv'
<1> SUFFICES ASSUME IngestInv, [Next]_vars PROVE IngestInv'
  OBVIOUS
<1>1. TypeOK'
  BY TypeNext DEF IngestInv
<1> USE <1>1, IngestAssumption DEF IngestInv, TypeOK, Goto
<1>2. CASE UNCHANGED vars
  BY <1>2 DEF vars, db, WriterInv, HandlerInv, OwnerInv, EventIffOutbox, DuplicateIsFound
<1>3. ASSUME NEW r \in Requests, Receive(r) PROVE IngestInv'
  <2>1. /\ pc[r] = "new" /\ UNCHANGED db
        /\ eventId'[r] \in EventIds
        /\ \A q \in Requests \ {r} : eventId'[q] = eventId[q]
    BY <1>3 DEF Receive
  <2>2. /\ \/ pc'[r] = "begin" /\ reply'[r] = reply[r]
           \/ pc'[r] = "answered"
        /\ \A q \in Requests \ {r} : pc'[q] = pc[q] /\ reply'[q] = reply[q]
    BY <1>3 DEF Receive, BadRequest, UnknownSchema, BadProperties, Refuse, Answer
  <2>3. reply[r] = NoReply /\ txn[r] = "none" /\ written[r] = {}
    BY <2>1 DEF HandlerInv, Live
  <2>4. WriterInv'
    BY <2>1, <2>3 DEF db, WriterInv
  <2>5. HandlerInv'
    BY <2>1, <2>2, <2>3 DEF db, HandlerInv, InSave, Live
  <2>6. OwnerInv' /\ EventIffOutbox' /\ DuplicateIsFound'
    BY <2>1, <2>2 DEF db, OwnerInv, EventIffOutbox, DuplicateIsFound
  <2> QED
    BY <2>4, <2>5, <2>6
<1>4. ASSUME NEW r \in Requests, Begin(r) PROVE IngestInv'
  <2>1. /\ pc[r] = "begin" /\ pc' = [pc EXCEPT ![r] = "insertEvent"]
        /\ txn' = [txn EXCEPT ![r] = "open"]
        /\ UNCHANGED <<eventId, written, events, outbox, reply>>
    BY <1>4 DEF Begin
  <2>2. txn[r] = "none" /\ written[r] = {}
    BY <2>1 DEF HandlerInv, Live
  <2> QED
    BY <2>1, <2>2
    DEF WriterInv, HandlerInv, OwnerInv, EventIffOutbox, DuplicateIsFound, InSave, Live
<1>5. ASSUME NEW r \in Requests, InsertEvent(r) PROVE IngestInv'
  <2>1. /\ pc[r] = "insertEvent" /\ pc' = [pc EXCEPT ![r] = "insertOutbox"]
        /\ written' = [written EXCEPT ![r] = {"event"}]
        /\ events[eventId[r]] = None
        /\ UNCHANGED <<eventId, txn, events, outbox, reply>>
    BY <1>5 DEF InsertEvent
  <2>2. txn[r] = "open" /\ eventId[r] \in EventIds
    BY <2>1 DEF HandlerInv, InSave
  <2>3. WriterInv'
    BY <1>5, <2>1, <2>2 DEF InsertEvent, Blocked, WriterInv, Live
  <2>4. HandlerInv'
    BY <2>1, <2>2 DEF HandlerInv, InSave, Live
  <2> QED
    BY <2>1, <2>3, <2>4 DEF OwnerInv, EventIffOutbox, DuplicateIsFound
<1>6. ASSUME NEW r \in Requests, InsertConflicts(r) PROVE IngestInv'
  <2>1. /\ pc[r] = "insertEvent" /\ pc' = [pc EXCEPT ![r] = "find"]
        /\ txn' = [txn EXCEPT ![r] = "ended"]
        /\ events[eventId[r]] # None
        /\ UNCHANGED <<eventId, written, events, outbox, reply>>
    BY <1>6 DEF InsertConflicts
  <2>2. written[r] = {}
    BY <2>1 DEF HandlerInv
  <2> QED
    BY <2>1, <2>2
    DEF WriterInv, HandlerInv, OwnerInv, EventIffOutbox, DuplicateIsFound, InSave, Live
<1>7. ASSUME NEW r \in Requests, InsertOutbox(r) PROVE IngestInv'
  <2>1. /\ pc[r] = "insertOutbox" /\ pc' = [pc EXCEPT ![r] = "commit"]
        /\ written' = [written EXCEPT ![r] = @ \union {"outbox"}]
        /\ UNCHANGED <<eventId, txn, events, outbox, reply>>
    BY <1>7 DEF InsertOutbox
  <2>2. txn[r] = "open" /\ written[r] = {"event"} /\ written'[r] = {"event", "outbox"}
    BY <2>1 DEF HandlerInv
  <2> QED
    BY <2>1, <2>2
    DEF WriterInv, HandlerInv, OwnerInv, EventIffOutbox, DuplicateIsFound, InSave, Live
<1>8. ASSUME NEW r \in Requests, Commit(r) PROVE IngestInv'
  <2>1. /\ written[r] = {"event", "outbox"}
        /\ pc'[r] = "answered"
        /\ \A q \in Requests \ {r} : pc'[q] = pc[q] /\ reply'[q] = reply[q]
    BY <1>8 DEF Commit, Answer, HandlerInv
  <2> QED
    BY <1>8, <2>1, CommitsKeeps DEF Commit
<1>9. ASSUME NEW r \in Requests, FindByEventID(r) PROVE IngestInv'
  <2>1. /\ pc[r] = "find" /\ pc'[r] = "answered" /\ UNCHANGED <<eventId, db>>
        /\ \A q \in Requests \ {r} : pc'[q] = pc[q] /\ reply'[q] = reply[q]
    BY <1>9 DEF FindByEventID, Answer
  <2> QED
    BY <2>1 DEF db, WriterInv, HandlerInv, OwnerInv, EventIffOutbox, DuplicateIsFound, InSave,
                Live
<1>10. ASSUME NEW r \in Requests, Fails(r) \/ Dies(r) PROVE IngestInv'
  <2>1. /\ pc[r] \in InSave /\ pc'[r] \in {"answered", "gone"}
        /\ \A q \in Requests \ {r} : pc'[q] = pc[q] /\ reply'[q] = reply[q]
        /\ txn' = [txn EXCEPT ![r] =
               IF pc[r] = "commit" /\ @ = "open" THEN "committing" ELSE @]
        /\ UNCHANGED <<eventId, written, events, outbox>>
    BY <1>10 DEF Fails, Dies, Abandon, Answer
  <2>2. WriterInv'
    BY <2>1 DEF WriterInv, Live
  <2>3. HandlerInv'
    BY <2>1 DEF HandlerInv, InSave, Live
  <2> QED
    BY <2>1, <2>2, <2>3 DEF OwnerInv, EventIffOutbox, DuplicateIsFound, InSave
<1>11. ASSUME NEW r \in Requests, ServerAborts(r) PROVE IngestInv'
  BY <1>11 DEF ServerAborts, WriterInv, HandlerInv, OwnerInv, EventIffOutbox,
               DuplicateIsFound, InSave, Live
<1>12. ASSUME NEW r \in Requests, ServerCommits(r) PROVE IngestInv'
  <2>1. written[r] = {"event", "outbox"} /\ pc[r] \in {"answered", "gone"}
    BY <1>12 DEF ServerCommits, HandlerInv
  <2> QED
    BY <1>12, <2>1, CommitsKeeps DEF ServerCommits
<1> QED
  BY <1>2, <1>3, <1>4, <1>5, <1>6, <1>7, <1>8, <1>9, <1>10, <1>11, <1>12 DEF Next, Handler

\* The inductive invariant: whatever a transaction has written is its own until
\* it ends, and what is committed is a whole event with its outbox row.
THEOREM IngestInvariantHolds == Spec => []IngestInv
BY IngestInit, IngestNext, PTL DEF Spec

\* No failure, at any statement, leaves an event without its outbox row or an
\* outbox row without its event (event_repository.go:26-111).
THEOREM EventIffOutboxAlways == Spec => []EventIffOutbox
BY IngestInvariantHolds, PTL DEF IngestInv

\* The INSERT that finds a conflict waited for the transaction it conflicts
\* with, so that the event is there to be found (ingest.go:94-108).
THEOREM DuplicateIsFoundAlways == Spec => []DuplicateIsFound
BY IngestInvariantHolds, PTL DEF IngestInv

-----------------------------------------------------------------------------
(* Refinement: each event_id is a write-once register *)

\* The answers as the contract sees them
answerBar ==
    [r \in Requests |->
        [kind |-> IF reply[r].outcome \in {"none", "created", "exists"}
                  THEN reply[r].outcome ELSE "error",
         event |-> reply[r].event]]

KindOf(outcome) == IF outcome \in {"none", "created", "exists"} THEN outcome ELSE "error"

\* An answer is one of the contract.
LEMMA AnswerBar ==
    ASSUME TypeOK, NEW r \in Requests, NEW outcome, NEW event, Answer(r, outcome, event)
    PROVE  answerBar' = [answerBar EXCEPT ![r] = [kind |-> KindOf(outcome), event |-> event]]
<1>1. reply' = [reply EXCEPT ![r] = [outcome |-> outcome, event |-> event]]
  BY DEF Answer
<1>2. /\ reply'[r] = [outcome |-> outcome, event |-> event]
      /\ \A q \in Requests \ {r} : reply'[q] = reply[q]
  BY <1>1 DEF TypeOK
<1>3. answerBar'[r] = [kind |-> KindOf(outcome), event |-> event]
  BY <1>2 DEF answerBar, KindOf
<1>4. \A q \in Requests \ {r} : answerBar'[q] = answerBar[q]
  BY <1>2 DEF answerBar
<1>5. answerBar = [q \in Requests |-> answerBar[q]] /\ answerBar' = [q \in Requests |-> answerBar'[q]]
  BY DEF answerBar
<1> HIDE DEF answerBar
<1> QED
  BY <1>3, <1>4, <1>5

\* A request that has no reply has no answer in the contract.
LEMMA NoAnswerYet ==
    ASSUME NEW r \in Requests, reply[r] = NoReply
    PROVE  answerBar[r] = Contract!NoAnswer
BY DEF answerBar, NoReply, Contract!NoAnswer

\* Telling a request something is the contract's Tell.
LEMMA AnswerTells ==
    ASSUME TypeOK, NEW r \in Requests, NEW outcome, NEW event, Answer(r, outcome, event),
           reply[r] = NoReply
    PROVE  Contract!Tell(r, KindOf(outcome), event)
BY AnswerBar, NoAnswerYet DEF Contract!Tell, answerBar

\* A COMMIT is Accept of the contract.
LEMMA CommitsAccepts ==
    ASSUME IngestInv, NEW r \in Requests, written[r] = {"event", "outbox"}, Commits(r)
    PROVE  Contract!Accept(r, eventId[r]) /\ eventId[r] \in EventIds
<1>1. eventId[r] \in EventIds /\ events[eventId[r]] = None
  BY DEF IngestInv, WriterInv
<1>2. events' = [events EXCEPT ![eventId[r]] = r]
  BY <1>1 DEF Commits, IngestInv, TypeOK
<1> QED
  BY <1>1, <1>2 DEF Contract!Accept

\* A step of the handlers is a step of the contract, or none.
LEMMA NextRefines == IngestInv /\ [Next]_vars => [Contract!Next]_(Contract!vars)
<1> SUFFICES ASSUME IngestInv, [Next]_vars
             PROVE  Contract!Next \/ UNCHANGED <<events, reply>>
  BY DEF Contract!vars
<1>1. TypeOK /\ HandlerInv
  BY DEF IngestInv
<1>2. CASE UNCHANGED vars
  BY <1>2 DEF vars, db
<1>3. ASSUME NEW r \in Requests, NEW outcome \in {"failed"} \union Faults,
             Answer(r, outcome, None), reply[r] = NoReply, UNCHANGED events
      PROVE  Contract!Next
  <2>1. KindOf(outcome) = "error"
    BY <1>3, IngestAssumption DEF KindOf
  <2>2. Contract!Tell(r, "error", None)
    BY <1>1, <1>3, <2>1, AnswerTells
  <2> QED
    BY <1>3, <2>2 DEF Contract!Next, Contract!Refused
<1>4. ASSUME NEW r \in Requests, Receive(r)
      PROVE  Contract!Next \/ UNCHANGED <<events, reply>>
  <2>1. reply[r] = NoReply /\ UNCHANGED events
    BY <1>1, <1>4 DEF Receive, HandlerInv, db
  <2> QED
    BY <1>3, <1>4, <2>1 DEF Receive, BadRequest, UnknownSchema, BadProperties, Refuse
<1>5. ASSUME NEW r \in Requests,
             Begin(r) \/ InsertEvent(r) \/ InsertConflicts(r) \/ InsertOutbox(r)
             \/ Dies(r) \/ ServerAborts(r)
      PROVE  UNCHANGED <<events, reply>>
  BY <1>5 DEF Begin, InsertEvent, InsertConflicts, InsertOutbox, Dies, Abandon, ServerAborts
<1>6. ASSUME NEW r \in Requests, Commit(r) PROVE Contract!Next
  <2>1. reply[r] = NoReply /\ written[r] = {"event", "outbox"}
    BY <1>1, <1>6 DEF Commit, HandlerInv, InSave
  <2>2. Contract!Accept(r, eventId[r]) /\ eventId[r] \in EventIds
    BY <1>6, <2>1, CommitsAccepts DEF Commit
  <2>3. Contract!Tell(r, "created", r)
    BY <1>1, <1>6, <2>1, AnswerTells DEF Commit, KindOf
  <2> QED
    BY <2>2, <2>3 DEF Contract!Next, Contract!Created
<1>7. ASSUME NEW r \in Requests, FindByEventID(r) PROVE Contract!Next
  <2>1. pc[r] = "find" /\ reply[r] = NoReply /\ eventId[r] \in EventIds /\ UNCHANGED events
    BY <1>1, <1>7 DEF FindByEventID, HandlerInv, InSave, db
  <2>2. events[eventId[r]] \notin {None, r}
    BY <2>1 DEF IngestInv, DuplicateIsFound, OwnerInv
  <2>3. Answer(r, "exists", events[eventId[r]])
    BY <1>7, <2>2 DEF FindByEventID
  <2>4. Contract!Tell(r, KindOf("exists"), events[eventId[r]])
    <3>1. \A event : Answer(r, "exists", event) => Contract!Tell(r, KindOf("exists"), event)
      BY <1>1, <2>1, AnswerTells
    <3> QED
      BY <2>3, <3>1 DEF Contract!Tell
  <2>5. Contract!Exists(r, eventId[r])
    BY <2>1, <2>2, <2>4 DEF Contract!Exists, KindOf
  <2> QED
    BY <2>1, <2>5 DEF Contract!Next
<1>8. ASSUME NEW r \in Requests, Fails(r) PROVE Contract!Next
  BY <1>1, <1>3, <1>8 DEF Fails, HandlerInv, Abandon
<1>9. ASSUME NEW r \in Requests, ServerCommits(r) PROVE Contract!Next
  <2>1. written[r] = {"event", "outbox"} /\ UNCHANGED reply
    BY <1>1, <1>9 DEF ServerCommits, HandlerInv
  <2>2. Contract!Accept(r, eventId[r]) /\ eventId[r] \in EventIds
    BY <1>9, <2>1, CommitsAccepts DEF ServerCommits
  <2> QED
    BY <2>1, <2>2 DEF Contract!Next, Contract!AcceptLater
<1> QED
  BY <1>2, <1>4, <1>5, <1>6, <1>7, <1>8, <1>9 DEF Next, Handler

\* The initial state is one of the contract.
LEMMA InitRefines == Init => Contract!Init
<1> SUFFICES ASSUME Init PROVE Contract!Init
  OBVIOUS
<1>1. \A r \in Requests : reply[r] = NoReply
  BY DEF Init
<1> QED
  BY <1>1 DEF Init, NoReply, Contract!Init, Contract!NoAnswer

\* Ingestion implements the register: the first event accepted for an event_id
\* wins, and every answer but an error names it.
THEOREM IngestIsWriteOnce == Spec => IsWriteOnce
BY InitRefines, NextRefines, IngestInvariantHolds, PTL DEF Spec, IsWriteOnce, Contract!Spec
=============================================================================
