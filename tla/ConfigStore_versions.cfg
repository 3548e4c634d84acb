SPECIFICATION Spec
CONSTANTS
    w1 = w1  w2 = w2  r1 = r1  r2 = r2  s1 = s1  s2 = s2  off = off  on = on
    own = own
    NaN = NaN
    Blank = Blank
    Platform = Platform
    Texts <- TwoTexts
    None = None
    Latest = Latest
    NoAuto = NoAuto
    UsePostgres = TRUE
    Worker = {w1, w2}
    Slot = {r1, r2}
    Session = {s1}
    Payload <- Policies
    Seed <- Seeds
    MaxVersions = 2
    MaxFaults = 1
SYMMETRY Perms
INVARIANTS
    TypeOK
    AcksInForce
    DecisionsBounded
    SettingsKept
    NeverLockedOut
    TurnsAgree
    PromisesHold
