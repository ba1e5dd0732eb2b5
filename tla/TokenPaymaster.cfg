SPECIFICATION Spec
CONSTANTS
    Account = {a1}
    Admin = {o1, o2}
    Paymaster = paymaster
    NoOwner = nobody
    MaxCosts = {3, 4}
    MaxOps = 1
    MaxDepth = 2
    CallBudget = 2
    OnePerSender = TRUE
    Rate = 2
    CostOfPost = 1
    MaxTokens = 4
INVARIANTS
    TokensCover
    OnlyOwnerWithdraws
