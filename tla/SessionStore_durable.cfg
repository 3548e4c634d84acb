SPECIFICATION Spec
CONSTANTS
    w1 = w1  w2 = w2  r1 = r1  r2 = r2  s1 = s1  s2 = s2  p1 = p1  p2 = p2
    o1 = o1  o2 = o2  o3 = o3  o4 = o4  o5 = o5  o6 = o6
    None = None
    Worker = {w1, w2}
    Slot = {r1, r2}
    Session = {s1}
    Object = {o1, o2, o3, o4}
    Pin = {p1, p2}
    MaxTurns = 2
    MaxFaults = 1
SYMMETRY Perms
INVARIANTS
    TypeOK
    PinsAgree
    Remembered
PROPERTIES
    StaysDurable
