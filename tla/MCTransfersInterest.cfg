CONSTANTS
    alice = alice
    bob = bob
    Users = {alice, bob}
    House = House
    Nobody = Nobody
    Owner <- MCOwner
    MayIntra = {alice, bob}
    MayInter = {alice, bob}
    Deny = {alice, bob}
    Referrer <- MCReferrer
    Opening <- MCOpening
    Sats = {1, 2}
    FeeBaseMsat = 0
    FeeRatePpm <- MCNegativeRate
    Ppm = 1000000
    DirectPct = 50
    MinActivity = 1000
    DailyCap = 300
    Workers = {w1}
    MaxCalls = 4
SPECIFICATION Spec
INVARIANT AmountCovered
