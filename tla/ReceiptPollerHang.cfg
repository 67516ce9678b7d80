SPECIFICATION HangingSpec
CONSTANTS
    t1 = t1
    t2 = t2
    Txs <- OneTx
    Decodable <- OneTx
    Intervals = {2}
    Timeout = 2
\* The clock passes the deadline while the source does not answer.
    RoundTrip = 3
    MaxTime = 7
PROPERTY
    EveryPollReturns
\* The bounded clock stops.
CHECK_DEADLOCK FALSE
