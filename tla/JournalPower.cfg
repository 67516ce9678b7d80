SPECIFICATION PowerSpec
CONSTANTS
    p1 = p1
    p2 = p2
    a = a
    r = r
    NoEntry = NoEntry
    Procs <- TwoProcs
    PairEntries <- OnePair
    RevertEntries <- OneRevert
    MaxRetained = 2
    MaxEntries = 3
    FaultKinds <- NoFaults
    MaxFaults = 0
    MaxKills = 1
    OperatorClears = TRUE
SYMMETRY ProcSymmetry
PROPERTY
    PowerCutIsTruncated
