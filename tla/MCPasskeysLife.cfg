\* Two requests at a time.
CONSTANTS
    Procs = {p1, p2}
    Users = {"alice", "bob"}
    Creds = {"c1", "c2"}
    NoOne = "none"
    Requests <- MCRequests
    MaxCount = 1
    MaxOpen = 2
    MaxArrivals = 3
    MaxFaults = 1
SPECIFICATION MCSpec
INVARIANT TypeOK
INVARIANT SessionEarned
INVARIANT ChallengeOnce
INVARIANT ChallengeBound
INVARIANT SessionsHold
PROPERTY CountMonotone
PROPERTY PasskeysOwned
CHECK_DEADLOCK FALSE
