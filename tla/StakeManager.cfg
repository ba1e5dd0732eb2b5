SPECIFICATION Spec
CONSTANTS
    NumAddr = 2
    Amounts <- MCAmounts
    Delays <- MCDelays
    EthSupply = 3
    MaxUint112 = 2
    MaxTime = 4
    MaxDepth = 2
    CallBudget = 2
INVARIANTS
    TypeOK
    Solvent
    ClaimsBacked
    StakeRecoverable
PROPERTY
    StakeReleasedWhenDue
\* Time and ether are bounded: the last stake may lock the last wei for good.
CHECK_DEADLOCK FALSE
