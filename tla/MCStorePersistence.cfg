SPECIFICATION FairSpec
CONSTANTS
    Papers = {p1, p2}
    Windows = {w1}
    Requests = {r1, r2}
    None = None
INVARIANT Durable
PROPERTY MemoryReachesDisk
