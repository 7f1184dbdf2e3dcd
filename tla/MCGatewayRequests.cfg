\* Two requests at a time.
CONSTANTS
    Procs = {p1, p2}
    Requests <- MCRequests
    Users = {"alice"}
    Accounts = {"acct"}
    Keys = {"k1", "k2"}
    MaxArrivals = 2
    MaxIssues = 1
    MaxFaults = 1
SPECIFICATION MCSpec
INVARIANT OnlyKeyHoldersAct
INVARIANT KeyHolderServed
INVARIANT RefusedUntouched
INVARIANT ClosedStaysClosed
CHECK_DEADLOCK FALSE
