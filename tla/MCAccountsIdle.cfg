\* Idle
SPECIFICATION Spec
CONSTANTS
    Names = {alice}
    alice = alice
    addr1 = addr1
    addr2 = addr2
    coin1 = coin1
    coin2 = coin2
    None = None
    Addresses = {addr1, addr2}
    Coins = {coin1}
    Dest <- MCSameDest
    Watchers = {w1}
    w1 = w1
    Keepers = {g1}
    g1 = g1
    Pruners = {}
    Held = {}
    MaxMoves = 1
    MaxFaults = 0
PROPERTY OnlyIdleClosed
