--------------------------- MODULE OutboxContract ---------------------------
(***************************************************************************)
(* What the outbox pipeline promises, with the machinery that keeps the    *)
(* promise left out: no workers, claims, locks, time-outs or crashes.      *)
(*                                                                         *)
(* A row accepted from the ingestion transaction is queued until it is     *)
(* confirmed (PUBLISHED) or given up (CLOSE).  It is confirmed only after  *)
(* the broker holds a copy, given up only after MaxRetries failures were   *)
(* recorded, and a confirmed row never changes again.  The broker may      *)
(* receive any number of copies of an accepted row: delivery is at least   *)
(* once (ARCHITECTURE.md, "Delivery semantics").                           *)
(***************************************************************************)
EXTENDS Naturals

CONSTANTS
    Rows,        \* outbox rows
    MaxRetries,  \* failures recorded before a row may be given up
    MaxCopies    \* copies are counted up to this bound and no further

VARIABLES
    phase,     \* phase[r]: where row r is on its way
    failures,  \* failures[r]: publish failures recorded against r
    copies     \* copies[r]: copies the broker holds, saturating at MaxCopies

vars == <<phase, failures, copies>>

Init ==
    /\ phase \in [Rows -> {"absent", "queued"}]
    /\ failures = [r \in Rows |-> 0]
    /\ copies = [r \in Rows |-> 0]

\* The ingestion transaction commits: "ingested" and "will be published"
\* become one fact.
Accept(r) ==
    /\ phase[r] = "absent"
    /\ phase' = [phase EXCEPT ![r] = "queued"]
    /\ UNCHANGED <<failures, copies>>

\* The broker stores one more copy of an accepted row, whatever became of it.
Deliver(r) ==
    /\ phase[r] # "absent"
    /\ copies[r] < MaxCopies
    /\ copies' = [copies EXCEPT ![r] = @ + 1]
    /\ UNCHANGED <<phase, failures>>

Fail(r) ==
    /\ phase[r] = "queued"
    /\ failures' = [failures EXCEPT ![r] = @ + 1]
    /\ UNCHANGED <<phase, copies>>

\* A row may be confirmed after it was given up: a worker whose publish was
\* acknowledged late still reports it.
Confirm(r) ==
    /\ phase[r] \in {"queued", "closed"}
    /\ copies[r] > 0
    /\ phase' = [phase EXCEPT ![r] = "published"]
    /\ UNCHANGED <<failures, copies>>

GiveUp(r) ==
    /\ phase[r] = "queued"
    /\ failures[r] >= MaxRetries
    /\ phase' = [phase EXCEPT ![r] = "closed"]
    /\ UNCHANGED <<failures, copies>>

Next ==
    \E r \in Rows :
        Accept(r) \/ Deliver(r) \/ Fail(r) \/ Confirm(r) \/ GiveUp(r)

Spec == Init /\ [][Next]_vars
=============================================================================
