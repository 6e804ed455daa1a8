SPECIFICATION BenchSpec
CONSTANTS
    Rows = {1, 2}
    LegacyRows = {1}
    Workers = {w1, w2}
    NoWorker = none
    BatchSize = 2
    StaleTimeout = 6
    MaxDelay = 1
    MaxRetries = 1
    MaxCopies = 2
    CallBound = 1
    Disruptions = {"forceCancel", "dbError"}
    MaxDisruptions = 1
    PublisherFaults = {"reject"}
    PoisonRows = {2}
    Kafka = TRUE
    TerminalFaults = {"reject"}
    Failing = TRUE
    MaxFailures = 1
SYMMETRY WorkerSymmetry
INVARIANTS BenchDeliversOnce BenchStrandsNothing CappedNeverClosed ReportIsTrue CountersMatchRows
