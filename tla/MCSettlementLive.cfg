SPECIFICATION FairSpec
CONSTANTS
    alice = alice
    n = n
    p = p
    r = r
    Users = {alice}
    Others = others
    Nobody = nobody
    Bolts = {p}
    Notes = {n}
    Swaps = {}
    Clerks = {teller, minter}
    Verb <- MCVerb
    Passes = {r}
    Deny = {}
    Funds <- MCFunds
    Price <- MCUnits
    Toll <- MCTolls
    Sat = 1
    MaxPrice = 1
    MaxToll = 1
    MaxAsks = 2
    MaxFaults = 2
    teller = teller
    cashier = cashier
    minter = minter
PROPERTY EverySettlementBooked
CHECK_DEADLOCK FALSE
