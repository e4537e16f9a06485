SPECIFICATION HarvestSpec
CONSTANTS
    Blocking = FALSE
    StallTicks = 3
    CollectTicks = 2
    Ring = 2
    Pulls = 2
    Broadcast <- Sections
    Garbled <- Damaged
INVARIANT GuideRichest
CHECK_DEADLOCK FALSE
