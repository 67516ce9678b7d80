SPECIFICATION PowerSpec
CONSTANTS
    p1 = p1
    p2 = p2
    a = a
    r = r
    NoEntry = NoEntry
    Procs <- TwoProcs
    PairEntries <- OnePair
    RevertEntries <- OneRevert
    MaxRetained = 1
    MaxEntries = 3
    FaultKinds <- AllFaults
    MaxFaults = 2
    MaxKills = 2
    OperatorClears = TRUE
SYMMETRY ProcSymmetry
INVARIANTS
    SingleWriter
    RecoversContiguousRun
PROPERTY
    PowerCutLeavesARun
