\* What the text says of the answer: a limit below zero, and a tag that is no receipt.
CONSTANTS
    Asks <- MCAsks
    Events <- MCEvents
    NoZap = "nozap"
    Receipts = {"receipt"}
    Timeout = 4
    Longest = 2
    MaxLimit = 2
SPECIFICATION IndexSpec
INVARIANT AtMostMax
INVARIANT FeaturedVerified
CHECK_DEADLOCK FALSE
