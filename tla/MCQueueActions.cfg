SPECIFICATION SpecActions
CONSTANTS
    p1 = p1
    p2 = p2
    k1 = k1
    k2 = k2
    t1 = t1
    t3 = t3
    None = None
    Requests = {r1, r2}
    Texts = {p1, p2}
    Keys = {k1, k2}
    KeyOf <- KeyOfPaper
    Tokens = {t1, t3}
    PaperOf <- TwoPapers
    Resumes = {p1}
    MaxCrashes = 1
    MaxFailures = 1
INVARIANT ReplayIsTrue
INVARIANT KeystrokesBounded
