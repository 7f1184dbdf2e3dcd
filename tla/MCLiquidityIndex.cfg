\* More ticks than the limit, and calls that last longer than the deadline.
CONSTANTS
    Asks <- MCAsks
    Events <- MCEvents
    NoZap = "nozap"
    Receipts = {"receipt"}
    Timeout = 4
    Longest = 5
    MaxLimit = 3
SPECIFICATION IndexSpec
INVARIANT OnlyEligible
INVARIANT BestAnswered
CHECK_DEADLOCK FALSE
