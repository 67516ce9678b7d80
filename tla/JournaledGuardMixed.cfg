SPECIFICATION Spec
CONSTANTS
    p1 = p1
    p2 = p2
    NoEntry = NoEntry
    Procs <- TwoProcs
    PairEntries <- MixedPairs
    RevertEntries <- Reverts
    MaxRetained = 2
    MaxEntries = 5
    FaultKinds <- NoFaults
    MaxFaults = 0
    MaxKills = 1
    OperatorClears = TRUE
    Width = 16
    OverflowChecks = TRUE
    Policy <- ShortWindows
INVARIANT
    DecisionSurvivesRestart
