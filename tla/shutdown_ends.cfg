SPECIFICATION FairSpec
CONSTANTS
    Workers = {w1, w2}
    ShutdownTimeout = 1
    CutBound = 1
    Stubborn = {w2}
    Punctual = TRUE
    Grace = 2
INVARIANTS ExitsInTime OnlyStubbornOutlives
PROPERTIES WorkersReturn ProcessEnds
CHECK_DEADLOCK FALSE
