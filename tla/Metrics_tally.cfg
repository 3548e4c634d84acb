SPECIFICATION Spec
CONSTANTS
    r1 = r1  r2 = r2  s1 = s1  s2 = s2  s3 = s3
    None = None
    Slot = {r1, r2}
    Session = {s1, s2, s3}
    Control = {s3}
    Offers <- TwoOffers
    Reviewed = {"not_eligible"}
    Prices = {1}
    MaxTurns = 3
    MaxCost = 2
SYMMETRY Perms
INVARIANTS
    TypeOK
    CountersAgree
    RatesInRange
    CostAgrees
