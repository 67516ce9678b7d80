SPECIFICATION Spec
CONSTANTS
    Width = 8
    OverflowChecks = TRUE
    Forks <- AllForks
    Receipts <- AllReceipts
    MinDivergence <- TwoPercent
    DriftAfter = 1
    Damping <- InjectedDamping
    NodeFails = TRUE
    Order = 65521
    ScalarBytes = 2
    Signatures <- MixedSignatures
    BaseNonces = {0, 254}
    MaxTrades = 5
INVARIANTS
    TypeOK
    NoTradeWhileTripped
    NonceIsNext
    SentAsSimulated
    DriftHaltsOnSchedule
\* The strategy waits at the bound on trades.
CHECK_DEADLOCK FALSE
