SPECIFICATION Spec
CONSTANTS
    r1 = r1  r2 = r2  recent = recent  old = old  foreign = foreign
    alice = alice  bob = bob  carol = carol
    None = None
    NoAuto = NoAuto
    Slot = {r1}
    OrderId = {recent, old, foreign}
    OrderOf <- TwoOrders
    Owner <- Owners
    CustomerId = {alice, bob, carol}
    Customer <- Trusted
    OrdersInTable = TRUE
    Config <- Shop
    AutoRefund <- AfterOneAttempt
    Special <- UsageIsSpecial
    Message <- AllMessages
    ModelAnswer <- Answers
    Names = {alice, bob, None}
    MaxFaults = 1
INVARIANTS
    TypeOK
    RefundsQualify
    ConfirmedOnly
    CalmOffers
    StepUp
