SPECIFICATION HangingSpec
CONSTANTS
    c1 = c1
    c2 = c2
    c3 = c3
    Callers <- TwoCallers
    Limit = 1
    Timeout = 2
PROPERTY
    EveryCallReturns
