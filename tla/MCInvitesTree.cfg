\* Two requests at a time.
CONSTANTS
    Procs = {p1, p2}
    Ids = {"ann", "bea", "cat"}
    Codes = {"c1", "c2"}
    NoOne = "none"
    NoCode = "nocode"
    Legacy = "legacy"
    Opening <- MCOpeningLegacy
    Required = TRUE
    MayInvite = {"ann", "bea"}
    Requests <- MCRequests
    MaxArrivals = 4
SPECIFICATION FairSpec
INVARIANT TypeOK
INVARIANT ReferrersOlder
INVARIANT UsesCover
PROPERTY GateKept
PROPERTY RequestsAnswered
CHECK_DEADLOCK FALSE
