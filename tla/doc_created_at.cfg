SPECIFICATION Spec
CONSTANTS
    Requests = {r1, r2}
    EventIds = {e1, e2}
    None = none
    MaxConns = 2
    Faults = {"malformed", "badProperties"}
INVARIANTS CreatedAtIsTheRecords
CHECK_DEADLOCK FALSE
