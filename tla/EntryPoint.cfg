SPECIFICATION FairSpec
CONSTANTS
    NumAddr = 2
    Amounts = {2}
    Delays = {1}
    EthSupply = 8
    MaxUint112 = 4
    MaxTime = 2
    MaxDepth = 2
    CallBudget = 1
    MaxUint120 = 2
    BaseFee = 0
    Contracts = {2}
    Batches <- MCBatches
    Beneficiaries = {0, 1}
    Groups <- MCGroups
    Verdicts <- MCVerdicts
    GasUse = {0, 3}
INVARIANTS
    TypeOK
    Solvent
    ClaimsBacked
    PaymasterHonoured
PROPERTY TransactionsEnd
CHECK_DEADLOCK FALSE
