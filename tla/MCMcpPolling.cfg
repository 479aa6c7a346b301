SPECIFICATION FairPolling
CONSTANTS
    MaxItems = 4
    Window = 2
    Polls = {q1}
    NoSnapshot = NoSnapshot
INVARIANT CommittedWasRouted
PROPERTY EveryItemRouted
