SPECIFICATION FairSpec
CONSTANTS
    Requests = {r1, r2, r3}
    EventIds = {e1, e2}
    None = none
    MaxConns = 2
    Faults = {"malformed", "unknownType", "badProperties"}
INVARIANTS IngestInv EventIffOutbox DuplicateIsFound
PROPERTIES IsWriteOnce EveryRequestEnds
CHECK_DEADLOCK FALSE
