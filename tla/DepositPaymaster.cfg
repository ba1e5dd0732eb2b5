SPECIFICATION Spec
CONSTANTS
    Account = {a1, a2}
    Owner = owner
    Paymaster = paymaster
    InitialTokens <- MCInitialTokens
    TokensEach = 1
    MaxCosts = {1}
    MaxOps = 2
    MaxDepth = 2
    CallBudget = 2
    OnePerSender = TRUE
    Rates = {1}
    PostCost = 0
    MaxBlock = 2
    a1 = a1
    a2 = a2
    owner = owner
    paymaster = paymaster
SYMMETRY AccountSymmetry
INVARIANTS
    DepositsBacked
    DepositCovers
    PaidAsAgreed
PROPERTIES
    LockHolds
\* The last block has no next one.
CHECK_DEADLOCK FALSE
