SPECIFICATION SpecRestore
CONSTANTS
    N = 2
    a = a
    b = b
    Workspaces = {a, b}
    Places = {1, 2}
    Desktops <- MCDesktops
    Snapshots <- MCSnapshots
    Retries = 4
    MaxMoves = 1
    MaxFaults = 1
    Nothing = Nothing
INVARIANT SettlesVerified
INVARIANT VerifiedIsTrue
INVARIANT LookKeepsFocus
CHECK_DEADLOCK FALSE
