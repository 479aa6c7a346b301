SPECIFICATION FairSpec
CONSTANTS
    Slots = {k1, k2}
    MaxPresses = 5
INVARIANT OneRestore
INVARIANT PauseHandsOutOne
INVARIANT ReturnSticks
PROPERTY KeysComeBack
CHECK_DEADLOCK FALSE
