\* Life
SPECIFICATION FairSpec
CONSTANTS
    Names = {alice}
    alice = alice
    addr1 = addr1
    addr2 = addr2
    coin1 = coin1
    coin2 = coin2
    None = None
    Addresses = {addr1, addr2}
    Coins = {coin1, coin2}
    Dest <- MCTwoDest
    Watchers = {w1}
    w1 = w1
    Keepers = {g1}
    g1 = g1
    Pruners = {p1}
    p1 = p1
    Held = {}
    MaxMoves = 0
    MaxFaults = 1
INVARIANT CreditedOnce
PROPERTY NoCreditBeyondGrace
PROPERTY OpenSpared
PROPERTY DepositSettled
