SPECIFICATION Spec
CONSTANTS
    MaxInt = 15
    MaxRetry = 6
INVARIANTS RetryInv DelayNearDocumented
PROPERTIES DoublingIsExact
CHECK_DEADLOCK FALSE
