SPECIFICATION FairSpec
CONSTANTS
    p1 = p1
    p2 = p2
    p3 = p3
    Procs = {p1, p2}
    Unlocked = {}
    NoProc = NoProc
    m1 = m1
    m2 = m2
    Muxes = {m1, m2}
    NoMux = NoMux
    Sids = {1, 2, 3}
    Programs <- SharedSid
    Jobs <- AllJobs
    PatPid = 0
    SdtPid = 17
    FullPid = 8192
    EitPids <- TwoEitPids
    FilterTable = 5
    Lingers = FALSE
INVARIANTS
    TypeOK
    TapsAccounted
    DvrIsPrivate
    StreamsWhatWasAsked
    ScanFilesRightMux
PROPERTIES
    NoRetuneUnderStream
    ImplementsLease
    LockComesBack
