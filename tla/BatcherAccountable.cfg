SPECIFICATION Spec
CONSTANTS
    User = {u1, u2}
    Tx = {"a", "b"}
    NoTx = "none"
    Batch <- MCBatch
    BatchId = {0, 1}
    Promise <- MCPromise
    Day = 2
    MaxTime = 5
    MaxBalance = 4
INVARIANTS
    TypeOK
    PaidOncePerDispute
PROPERTY
    ResolvedNeverPaid
\* Time and the contract's ether are bounded.
CHECK_DEADLOCK FALSE
