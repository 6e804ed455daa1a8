SPECIFICATION Spec
CONSTANTS
    Workers = {w1, w2}
    ShutdownTimeout = 1
    CutBound = 1
    Stubborn = {}
    Punctual = FALSE
    Grace = 0
SYMMETRY WorkerSymmetry
INVARIANTS ShutdownInv NilMeansDrained NoSendAfterClose CutWorkersAreReported
PROPERTIES StateForward InFlightGetsItsTimeout KeepsRunContract
CHECK_DEADLOCK FALSE
