SPECIFICATION FairSpec
CONSTANTS
    t1 = t1
    t2 = t2
    Txs <- TwoTxs
    Decodable <- OneTx
    Intervals = {0, 2}
    Timeout = 2
    RoundTrip = 1
    MaxTime = 7
INVARIANTS
    TypeOK
    HistoryMatchesOutcomes
    ConfirmationOrder
    BoundedOvershoot
PROPERTIES
    PromptReceiptIsNotMissed
    EveryPollReturns
\* The bounded clock stops.
CHECK_DEADLOCK FALSE
