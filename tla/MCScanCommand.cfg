SPECIFICATION Spec
CONSTANTS
    Scanners = {p1, p2}
    p1 = p1
    p2 = p2
    k1 = k1
    k2 = k2
    k3 = k3
    t1 = t1
    t2 = t2
    c1 = c1
    Keys = {k1, k2, k3}
    Titles = {t1, t2}
    Curated = {c1}
    Programs <- ProgramsOf
    Sdt <- Tables
    Damaged <- Garbled
    StartFiles <- Files
    MaxCopies <- Copies
INVARIANTS
    ListIsBroadcast
    NothingLostUnraced
PROPERTIES
    SectionsKept
    TableComplete
CHECK_DEADLOCK FALSE
