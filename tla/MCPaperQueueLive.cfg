SPECIFICATION FairSpec
CONSTANTS
    Seeded = {s1}
    Events = {}
    Runs = {r1}
    Owners = {o1}
    None = None
    LeaseTimes = {1}
    Deltas <- UpAndDown
    Scores = {1}
    MaxScore = 2
    SeedScore = 1
    EventScore = 1
    WaitingScore = 1
    BlockedScore = 2
    MaxClock = 2
    MaxLag = 0
INVARIANT TypeOK
PROPERTY BestPaperFirst
PROPERTY ExpiredLeaseReclaimed
PROPERTY DuePaperReturns
