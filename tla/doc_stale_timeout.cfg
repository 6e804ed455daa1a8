SPECIFICATION Spec
CONSTANTS
    Rows = {1, 2}
    LegacyRows = {}
    Workers = {w1, w2}
    NoWorker = none
    BatchSize = 2
    StaleTimeout = 3
    MaxDelay = 1
    MaxRetries = 1
    MaxCopies = 2
    CallBound = 1
    Disruptions = {}
    MaxDisruptions = 0
    PublisherFaults = {}
    PoisonRows = {}
INVARIANTS DeliveredOnce
