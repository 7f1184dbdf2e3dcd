SPECIFICATION Spec
CONSTANTS
    alice = alice
    n = n
    p = p
    q = q
    Users = {alice}
    Others = others
    Nobody = nobody
    Bolts = {p, q}
    Notes = {n}
    Swaps = {}
    Clerks = {teller}
    Verb <- MCVerb
    Passes = {}
    Deny = {alice}
    Funds <- MCFunds
    Price <- MCUnits
    Toll <- MCTolls
    Sat = 1
    MaxPrice = 1
    MaxToll = 1
    MaxAsks = 2
    MaxFaults = 0
    teller = teller
    cashier = cashier
    minter = minter
INVARIANT PayerSolvent
CHECK_DEADLOCK FALSE
