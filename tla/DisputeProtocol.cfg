SPECIFICATION ProtocolSpec
CONSTANTS
    User = {u1, u2}
    Tx = {"a", "b"}
    NoTx = "none"
    Batch <- MCBatch
    BatchId = {0, 1}
    Promise <- MCPromise
    Day = 2
    MaxTime = 4
    MaxBalance = 4
    CommitDelay = 2
    MaxBatches = 2
INVARIANT KeptResolvable
\* Time and the contract's ether are bounded.
CHECK_DEADLOCK FALSE
