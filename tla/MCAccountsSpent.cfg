\* Spent
SPECIFICATION FairSpec
CONSTANTS
    Names = {alice}
    alice = alice
    addr1 = addr1
    addr2 = addr2
    coin1 = coin1
    coin2 = coin2
    None = None
    Addresses = {addr1, addr2}
    Coins = {coin1}
    Dest <- MCSameDest
    Watchers = {w1}
    w1 = w1
    Keepers = {}
    Pruners = {}
    Held = {}
    MaxMoves = 0
    MaxFaults = 0
PROPERTY DepositCredited
