SPECIFICATION Spec
CONSTANTS
    alice = alice
    bob = bob
    n = n
    p = p
    r = r
    s = s
    Users = {alice, bob}
    Others = others
    Nobody = nobody
    Bolts = {p}
    Notes = {n}
    Swaps = {}
    Clerks = {cashier, teller, minter}
    Verb <- MCVerbWithCli
    Passes = {r, s}
    Deny = {alice}
    Funds <- MCNoFunds
    Price <- MCPrices
    Toll <- MCTolls
    Sat = 2
    MaxPrice = 3
    MaxToll = 1
    MaxAsks = 2
    MaxFaults = 1
    teller = teller
    cashier = cashier
    minter = minter
INVARIANT TypeOK
INVARIANT NoPhantom
INVARIANT ReceiptToOwner
INVARIANT OverdraftBounded
PROPERTY QuietBooksOnce
CHECK_DEADLOCK FALSE
