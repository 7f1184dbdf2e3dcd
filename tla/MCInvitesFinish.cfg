\* Registering with the code of a user.
CONSTANTS
    Procs = {p1, p2}
    Ids = {"ann", "bea", "cat"}
    Codes = {"c1", "c2"}
    NoOne = "none"
    NoCode = "nocode"
    Legacy = "legacy"
    Opening <- MCOpeningLegacy
    Required = TRUE
    MayInvite = {"ann", "bea"}
    Requests <- MCRequests
    MaxArrivals = 1
SPECIFICATION FairSpec
PROPERTY RegistrationGoesOn
CHECK_DEADLOCK FALSE
