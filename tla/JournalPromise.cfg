SPECIFICATION FairSpec
CONSTANTS
    p1 = p1
    p2 = p2
    a = a
    r = r
    NoEntry = NoEntry
    Procs <- TwoProcs
    PairEntries <- OnePair
    RevertEntries <- OneRevert
    MaxRetained = 4
    MaxEntries = 2
    FaultKinds <- AppendFaults
    MaxFaults = 1
    MaxKills = 1
    OperatorClears = FALSE
PROPERTY
    KeepsOrServes
\* A journal nobody can open any more has stopped for good.
CHECK_DEADLOCK FALSE
