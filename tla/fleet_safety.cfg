SPECIFICATION Spec
CONSTANTS
    Rows = {1, 2}
    LegacyRows = {2}
    Workers = {w1, w2}
    NoWorker = none
    BatchSize = 2
    StaleTimeout = 1
    MaxDelay = 1
    MaxRetries = 2
    MaxCopies = 1
    CallBound = 0
    Disruptions = {"crash", "shutdown", "forceCancel", "dbError"}
    MaxDisruptions = 2
    PublisherFaults = {"reject", "lostAck", "expiry"}
    PoisonRows = {}
SYMMETRY WorkerSymmetry
INVARIANTS FleetInv PublishedWasDelivered AttemptsBounded
PROPERTIES PublishedIsFinal KeepsContract ObeysRunContract
