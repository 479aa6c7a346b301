SPECIFICATION FairRouting
CONSTANTS
    e1 = e1
    k1 = k1
    None = None
    Requests = {r1, r2}
    Texts = {e1}
    Keys = {k1}
    KeyOf <- OneKey
    MaxCrashes = 1
    MaxRejections = 1
INVARIANT SentIsTrue
INVARIANT OnlyOverlapsResend
INVARIANT TriggerFiresOnce
PROPERTY FirstRouteStands
PROPERTY NoEventVanishes
PROPERTY EveryEventRouted
PROPERTY EveryAttemptEnds
