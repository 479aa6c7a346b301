SPECIFICATION Spec
CONSTANTS
    Seeded = {}
    Events = {e1}
    Runs = {r1}
    Owners = {o1, o2}
    None = None
    LeaseTimes = {1}
    Deltas <- Up
    Scores = {}
    MaxScore = 2
    SeedScore = 1
    EventScore = 0
    WaitingScore = 2
    BlockedScore = 2
    MaxClock = 1
    MaxLag = 0
    Sessions = {c1, c2}
SYMMETRY PoolSymmetry
INVARIANT LeaseFieldsAgree
PROPERTY BumpsAddUp
PROPERTY ImplementsLifecycle
