SPECIFICATION Spec
CONSTANTS
    Seeded = {}
    Events = {e1}
    Runs = {r1}
    Owners = {o1, o2}
    None = None
    LeaseTimes = {1}
    Deltas <- NoDeltas
    Scores = {}
    MaxScore = 2
    SeedScore = 1
    EventScore = 1
    WaitingScore = 1
    BlockedScore = 2
    MaxClock = 3
    MaxLag = 1
SYMMETRY ClientSymmetry
INVARIANT LeaseFieldsAgree
INVARIANT NoEarlyReturn
PROPERTY LeaseExclusive
PROPERTY DecidedStaysDecided
PROPERTY ImplementsLifecycle
