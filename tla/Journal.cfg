SPECIFICATION FairSpec
CONSTANTS
    p1 = p1
    p2 = p2
    NoEntry = NoEntry
    Procs <- TwoProcs
    PairEntries <- MixedPairs
    RevertEntries <- Reverts
    MaxRetained = 2
    MaxEntries = 4
    FaultKinds <- NoFaults
    MaxFaults = 0
    MaxKills = 3
    OperatorClears = TRUE
    Width = 16
    OverflowChecks = TRUE
    Policy <- ShortWindows
INVARIANTS
    TypeOK
    SingleWriter
    AckedEntriesSurvive
    RevertGuardsSurviveRestart
    PairGuardsSurviveRestart
PROPERTIES
    ImplementsDurableLog
    ServiceResumes
