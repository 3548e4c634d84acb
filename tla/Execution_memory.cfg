SPECIFICATION Spec
CONSTANTS
    w1 = w1  w2 = w2  r1 = r1  r2 = r2
    k1 = k1  k2 = k2  k3 = k3  t1 = t1  t2 = t2  s1 = s1  f1 = f1
    None = None
    UsePostgres = FALSE
    Worker = {w1}
    Slot = {r1}
    Key = {k1, k2}
    Token = {t1, t2}
    Refund = {f1}
    Session = {s1}
    OfferSession <- OneSession
    Call <- RepairedKeyCalls
    Talking = {f1}
    MaxFaults = 1
INVARIANTS
    ExecutedOnce
    ReplayHasCause
