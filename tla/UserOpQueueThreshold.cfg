SPECIFICATION QueueSpec
CONSTANTS
    Queue = {q1, q2}
    Account = {a1, a2}
    MaxRequests = 2
    IDLE_TIME = 2
    BUNDLE_SIZE_IMMEDIATE = 3
    NaN = NaN
INVARIANT ThresholdSends
CHECK_DEADLOCK FALSE
