SPECIFICATION Spec
CONSTANTS
    w1 = w1  w2 = w2  r1 = r1  r2 = r2  c1 = c1  c2 = c2
    i1 = i1  i2 = i2  i3 = i3  i4 = i4  i5 = i5
    None = None
    UsePostgres = TRUE
    Worker = {w1, w2}
    Slot = {r1, r2}
    Case = {c1, c2}
    Id = {i1, i2, i3, i4, i5}
    MaxResolved = 1
    MaxFaults = 2
SYMMETRY Perms
INVARIANTS
    TypeOK
    OneReview
    QuotedIsFiled
