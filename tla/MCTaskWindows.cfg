SPECIFICATION FairWindows
CONSTANTS
    a = a
    b = b
    t = t
    u = u
    v = v
    w = w
    Windows = {v, w}
    Tasks = {t, u}
    Workspaces = {a, b}
    Home <- MCHome
    CreatedOn <- MCCreatedOn
    Desks <- MCDesks
    Seen <- MCSeen
    Tag <- MCTag
    Threshold = 2
    Retries = 2
    MaxActs = 1
    MemoryStore = FALSE
    None = None
INVARIANT ManualSavesOne
PROPERTY DesktopIsSaved
PROPERTY ForeignGoesHome
PROPERTY NoTugOfWar
CHECK_DEADLOCK FALSE
