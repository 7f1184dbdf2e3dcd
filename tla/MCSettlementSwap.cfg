SPECIFICATION Spec
CONSTANTS
    alice = alice
    n = n
    q = q
    r = r
    Users = {alice}
    Others = others
    Nobody = nobody
    Bolts = {q}
    Notes = {n}
    Swaps = {q}
    Clerks = {cashier}
    Verb <- MCVerbPrinting
    Passes = {r}
    Deny = {}
    Funds <- MCFunds
    Price <- MCUnits
    Toll <- MCTolls
    Sat = 1
    MaxPrice = 1
    MaxToll = 1
    MaxAsks = 1
    MaxFaults = 0
    teller = teller
    cashier = cashier
    minter = minter
INVARIANT BookedOnce
CHECK_DEADLOCK FALSE
