\* Charges: Overcharge
SPECIFICATION Spec
CONSTANTS
    sale = sale
    lease = lease
    till1 = till1
    till2 = till2
    Buyer = Buyer
    Shop = Shop
    Escrow = Escrow
    None = None
    Charges = {sale}
    Clerks = {till1}
    Amount <- MCAmount
    Handles <- MCShared
    Uses <- MCAnyUse
    Funds = 6
    MaxParts = 3
    MaxPlans = 1
    MaxFaults = 0
INVARIANT NeverOvercharged
\* Every charge may be settled, and the customer's money spent.
CHECK_DEADLOCK FALSE
