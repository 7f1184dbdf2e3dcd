\* Charges: Apart
SPECIFICATION Spec
CONSTANTS
    sale = sale
    lease = lease
    till1 = till1
    till2 = till2
    Buyer = Buyer
    Shop = Shop
    Escrow = Escrow
    None = None
    Charges = {sale, lease}
    Clerks = {till1, till2}
    Amount <- MCAmount
    Handles <- MCOwn
    Uses <- MCByKind
    Funds = 9
    MaxParts = 3
    MaxPlans = 1
    MaxFaults = 1
INVARIANT EscrowExact
INVARIANT EarningsExact
INVARIANT NeverOvercharged
PROPERTY ExclusiveDebitsStaySolvent
\* Every charge may be settled, and the customer's money spent.
CHECK_DEADLOCK FALSE
