SPECIFICATION FairSpec
CONSTANTS
    w1 = w1  w2 = w2  r1 = r1  r2 = r2
    k1 = k1  k2 = k2  k3 = k3  t1 = t1  t2 = t2  s1 = s1  f1 = f1
    None = None
    UsePostgres = TRUE
    Worker = {w1, w2}
    Slot = {r1, r2}
    Key = {k1}
    Token = {t1}
    Refund = {f1}
    Session = {s1}
    OfferSession <- OneSession
    Call <- OneCall
    Talking = {}
    MaxFaults = 2
PROPERTIES
    CommittedIsConfirmed
