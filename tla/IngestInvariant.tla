--------------------------- MODULE IngestInvariant ---------------------------
(***************************************************************************)
(* The inductive invariant behind the safety properties of Ingest: what an *)
(* open transaction has written nobody else has, and what a request was    *)
(* told stays true.                                                        *)
(***************************************************************************)
EXTENDS Ingest

Live == {"open", "committing"}

\* A transaction that has inserted an event_id holds it alone: the id is not
\* in the table, and in no other transaction.
WriterInv ==
    \A r \in Requests :
        "event" \in written[r] =>
            /\ txn[r] \in Live
            /\ eventId[r] \in EventIds
            /\ events[eventId[r]] = None
            /\ \A q \in Requests :
                  "event" \in written[q] /\ eventId[q] = eventId[r] => q = r

\* Where the handler is says what its transaction has done.
HandlerInv ==
    \A r \in Requests :
        /\ pc[r] \in InSave => eventId[r] \in EventIds /\ reply[r] = NoReply
        /\ pc[r] = "new" => reply[r] = NoReply
        /\ pc[r] \in {"new", "begin"} => txn[r] = "none"
        /\ pc[r] = "insertEvent" => txn[r] = "open" /\ written[r] = {}
        /\ pc[r] = "insertOutbox" => txn[r] = "open" /\ written[r] = {"event"}
        /\ pc[r] = "commit" => txn[r] = "open" /\ written[r] = {"event", "outbox"}
        /\ pc[r] = "find" => txn[r] = "ended"
        /\ txn[r] = "committing" => written[r] = {"event", "outbox"}
        /\ txn[r] \notin Live => written[r] = {}
        /\ txn[r] = "committing" => pc[r] \in {"answered", "gone"}

\* An event in the table is that of a request for its event_id whose
\* transaction is over, and which no longer looks for another's.
OwnerInv ==
    \A e \in EventIds :
        events[e] # None =>
            /\ eventId[events[e]] = e
            /\ txn[events[e]] = "ended"
            /\ pc[events[e]] \in {"answered", "gone"}

IngestInv ==
    /\ TypeOK
    /\ WriterInv
    /\ HandlerInv
    /\ OwnerInv
    /\ EventIffOutbox
    /\ DuplicateIsFound
=============================================================================
