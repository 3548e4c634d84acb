SPECIFICATION FairSpec
CONSTANTS
    r1 = r1  r2 = r2  recent = recent  old = old  foreign = foreign
    alice = alice  bob = bob  carol = carol
    None = None
    NoAuto = NoAuto
    Slot = {r1, r2}
    OrderId = {recent, old}
    OrderOf <- TwoOrders
    Owner <- Owners
    CustomerId = {alice, bob, carol}
    Customer <- AliceFlagged
    OrdersInTable = TRUE
    Config <- SmallShop
    AutoRefund = NoAuto
    Special <- NoSpecial
    Message <- FewMessages
    ModelAnswer <- Answers
    Names = {alice, bob}
    MaxFaults = 0
INVARIANTS
    OffersBounded
    RefundsQualify
    ConfirmedOnly
PROPERTIES
    Freed
