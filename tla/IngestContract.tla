---------------------------- MODULE IngestContract ----------------------------
(***************************************************************************)
(* What POST /api/v1/events promises, with transactions, connections and   *)
(* failures left out: a write-once register for each event_id.             *)
(*                                                                         *)
(* The first request for an event_id whose event is accepted wins; the     *)
(* event and its outbox row are one fact.  A request is told "created" only*)
(* of its own event and "exists" only of somebody else's, and whatever it  *)
(* is told of was accepted before.  A request that gets an error may have  *)
(* been accepted all the same, before or after the error.                  *)
(***************************************************************************)
CONSTANTS
    Requests, EventIds,
    None  \* no event

VARIABLES
    accepted,  \* accepted[e]: the request whose event holds event_id e
    answer     \* answer[r]: what request r was told

vars == <<accepted, answer>>

NoAnswer == [kind |-> "none", event |-> None]

Init ==
    /\ accepted = [e \in EventIds |-> None]
    /\ answer = [r \in Requests |-> NoAnswer]

Tell(r, kind, event) ==
    /\ answer[r] = NoAnswer
    /\ answer' = [answer EXCEPT ![r] = [kind |-> kind, event |-> event]]

Accept(r, e) ==
    /\ accepted[e] = None
    /\ accepted' = [accepted EXCEPT ![e] = r]

\* The event is accepted, and its request told or not.
AcceptLater(r, e) == Accept(r, e) /\ UNCHANGED answer
Created(r, e) == Accept(r, e) /\ Tell(r, "created", r)

Exists(r, e) ==
    /\ accepted[e] \notin {None, r}
    /\ Tell(r, "exists", accepted[e])
    /\ UNCHANGED accepted

Refused(r) == Tell(r, "error", None) /\ UNCHANGED accepted

Next ==
    \E r \in Requests :
        \/ Refused(r)
        \/ \E e \in EventIds : AcceptLater(r, e) \/ Created(r, e) \/ Exists(r, e)

Spec == Init /\ [][Next]_vars
=============================================================================
