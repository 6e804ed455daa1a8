SPECIFICATION FairSpec
CONSTANTS
    Rows = {1, 2}
    LegacyRows = {}
    Workers = {w1, w2}
    NoWorker = none
    BatchSize = 2
    StaleTimeout = 6
    MaxDelay = 1
    MaxRetries = 1
    MaxCopies = 1
    CallBound = 1
    Disruptions = {"crash", "shutdown", "forceCancel", "dbError"}
    MaxDisruptions = 2
    PublisherFaults = {}
    PoisonRows = {1}
PROPERTIES PoisonIsClosed HealthyIsPublished ShutdownCompletes
