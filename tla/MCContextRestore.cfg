SPECIFICATION FairSpec
CONSTANTS
    Ids = {1, 2}
    Pollers = {w1, w2}
    None = None
INVARIANT DoneWasRestored
PROPERTY LiveLeaseHolds
PROPERTY EveryRequestAnswered
