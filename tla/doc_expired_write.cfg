SPECIFICATION FairSpec
CONSTANTS
    Rows = {1}
    LegacyRows = {}
    Workers = {w1}
    NoWorker = none
    BatchSize = 1
    StaleTimeout = 3
    MaxDelay = 1
    MaxRetries = 1
    MaxCopies = 1
    CallBound = 1
    Disruptions = {}
    MaxDisruptions = 0
    PublisherFaults = {"expiry"}
    PoisonRows = {}
PROPERTIES EventuallyResolved
