SPECIFICATION DiligentSpec
CONSTANTS
    alice = alice
    n = n
    p = p
    r = r
    Users = {alice}
    Others = others
    Nobody = nobody
    Bolts = {p}
    Notes = {n}
    Swaps = {}
    Clerks = {teller}
    Verb <- MCVerb
    Passes = {r}
    Deny = {}
    Funds <- MCFunds
    Price <- MCUnits
    Toll <- MCTolls
    Sat = 1
    MaxPrice = 1
    MaxToll = 1
    MaxAsks = 1
    MaxFaults = 1
    teller = teller
    cashier = cashier
    minter = minter
PROPERTY PayerCharged
CHECK_DEADLOCK FALSE
