\* Twice
SPECIFICATION Spec
CONSTANTS
    Names = {alice}
    alice = alice
    addr1 = addr1
    addr2 = addr2
    coin1 = coin1
    coin2 = coin2
    None = None
    Addresses = {addr1, addr2}
    Coins = {coin1}
    Dest <- MCSameDest
    Watchers = {w1, w2}
    w1 = w1
    w2 = w2
    Keepers = {}
    Pruners = {}
    Held = {}
    MaxMoves = 0
    MaxFaults = 0
INVARIANT CreditedOnce
