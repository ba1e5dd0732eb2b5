SPECIFICATION FairQueueSpec
CONSTANTS
    Queue = {q1, q2}
    Account = {a1, a2}
    MaxRequests = 2
    IDLE_TIME = 2
    BUNDLE_SIZE_IMMEDIATE = 3
    NaN = NaN
INVARIANTS
    TypeOK
    InOrderOnce
    OneBundleAtATime
PROPERTIES
    Outbox
    QueuedIsSent
\* When the process ended, or all requests were made and the timers stopped.
CHECK_DEADLOCK FALSE
