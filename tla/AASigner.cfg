SPECIFICATION FairSpec
CONSTANTS
    Call = {c1, c2}
    Tx <- MCTx
    c1 = c1
    c2 = c2
    d1 = d1
    d2 = d2
    Counterfactual = Counterfactual
    Existing = Existing
    Owner = Owner
    Deployed = {Existing}
    EntryPoint = EntryPoint
    ChainId = 1
    Index = 0
    MaxBlock = 2
    Null = Null
    AddressZero = AddressZero
    NoBytes = NoBytes
INVARIANTS
    ReportsTruth
    SignedAsSent
    AloneIsValid
    StaysConnected
PROPERTIES
    Noticed
\* When all calls ended.
CHECK_DEADLOCK FALSE
