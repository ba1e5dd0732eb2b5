SPECIFICATION WordsSpec
CONSTANTS
    AddressSize = 3
    TimeSize = 4
INVARIANTS
    WordsOK
    RoundTrip
    SimulationExact
    FailureReported
\* Time ends with its last timestamp.
CHECK_DEADLOCK FALSE
