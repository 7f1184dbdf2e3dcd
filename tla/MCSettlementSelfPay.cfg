SPECIFICATION DiligentSpec
CONSTANTS
    alice = alice
    n = n
    r = r
    Users = {alice}
    Others = others
    Nobody = nobody
    Bolts = {n}
    Notes = {n}
    Swaps = {}
    Clerks = {teller, minter}
    Verb <- MCVerb
    Passes = {r}
    Deny = {}
    Funds <- MCFunds
    Price <- MCUnits
    Toll <- MCTolls
    Sat = 1
    MaxPrice = 1
    MaxToll = 1
    MaxAsks = 1
    MaxFaults = 0
    teller = teller
    cashier = cashier
    minter = minter
PROPERTY CreditFollowsDebit
CHECK_DEADLOCK FALSE
