------------------------------- MODULE MCStartup -------------------------------
(***************************************************************************)
(* Instances of Startup for TLC: environments with one variable off, and   *)
(* every combination of the two connection counts.                         *)
(***************************************************************************)
EXTENDS Startup, TLC

Good == [v \in Variables |-> Number(1)]

\* What can be wrong with any variable, and with some of them only
Wrong(v) ==
    {Malformed, NotANumber, Number(-1), Number(0)}
    \union (IF v \in Defaulted THEN {} ELSE {Unset})
    \union (IF v \in {"OUTBOX_PUBLISHER", "PUBLISH_FAILURE_RATE", "DB_MAX_CONNS"}
            THEN {Number(100)} ELSE {})

OneOff ==
    UNION {{[Good EXCEPT ![v] = x] : x \in Wrong(v)} : v \in Variables \ {"DATABASE_URL"}}
Url == {[Good EXCEPT !["DATABASE_URL"] = x] : x \in {Unset, Malformed}}
AllDefaults == [v \in Variables |-> IF v \in Defaulted THEN Unset ELSE Good[v]]
ConnectionPairs ==
    {[Good EXCEPT !["DB_MAX_CONNS"] = Number(c[1]), !["DB_MIN_CONNS"] = Number(c[2])] :
        c \in {<<1, 2>>, <<3, 1>>}}

MCEnvironments == OneOff \union Url \union {AllDefaults} \union ConnectionPairs

\* Nothing; 001 alone; the outbox of a build before processing_at; all of it
MCSchemas ==
    {{}, Objects(1), Objects(1) \union {"outbox", "pending_index"}, Full}
=============================================================================
