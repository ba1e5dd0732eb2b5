SPECIFICATION FairSpec
CONSTANTS
    Caller = {warmup, simple, runner, other}
    File = {warmup, simple}
    Runner = runner
    Other = {other}
    warmup = warmup
    simple = simple
    runner = runner
    other = other
    Contract <- MCContract
    Factory = Factory
    Null = Null
    Test <- MCTest
    MaxCount = 2
INVARIANTS
    ReturnedIsDeployed
    TableComplete
    DeltaForOneOp
    OverheadOverExec
    AlonePasses
PROPERTY
    TableWritten
\* The program ends.
CHECK_DEADLOCK FALSE
