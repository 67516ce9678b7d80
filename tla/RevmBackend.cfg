SPECIFICATION FairSpec
CONSTANTS
    c1 = c1
    c2 = c2
    c3 = c3
    Callers <- ThreeCallers
    Limit = 2
    Timeout = 2
INVARIANTS
    TypeOK
    PermitsMatchRunningJobs
    AnswersTheCallersQuestion
PROPERTY
    EveryCallReturns
