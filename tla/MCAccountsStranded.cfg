\* Stranded
SPECIFICATION Spec
CONSTANTS
    Names = {alice, bob}
    alice = alice
    bob = bob
    addr1 = addr1
    addr2 = addr2
    coin1 = coin1
    coin2 = coin2
    None = None
    Addresses = {addr1, addr2}
    Coins = {coin1}
    Dest <- MCSameDest
    Watchers = {w1}
    w1 = w1
    Keepers = {g1}
    g1 = g1
    Pruners = {}
    Held = {bob}
    MaxMoves = 2
    MaxFaults = 0
INVARIANT CreditSound
INVARIANT NothingStranded
