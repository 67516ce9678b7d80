SPECIFICATION SweepSpec
CONSTANTS
    Width = 4
    NarrowWidth = 3
    OverflowChecks = TRUE
    Policy <- AllGuards
    Pairs <- MixedPairs
    Events <- TwoEvents
    MaxEntries = 5
    fast_thresholds <- FastAxis
    slow_thresholds <- SlowAxis
    revert_limits = {2, 3}
    FastWindow = 2
    SlowWindow = 3
INVARIANT SomeBuildDecides
\* The bounded history simply stops growing.
CHECK_DEADLOCK FALSE
