SPECIFICATION Spec
CONSTANTS
    p1 = p1
    p2 = p2
    p3 = p3
    Procs = {p1, p2, p3}
    Unlocked = {p3}
    NoProc = NoProc
    m1 = m1
    m2 = m2
    Muxes = {m1, m2}
    NoMux = NoMux
    Sids = {1, 2, 3}
    Programs <- UniqueSids
    Jobs <- FaultJobs
    PatPid = 0
    SdtPid = 17
    FullPid = 8192
    EitPids <- TwoEitPids
    FilterTable = 5
    Lingers = TRUE
INVARIANTS
    TapsAccounted
    DvrIsPrivate
