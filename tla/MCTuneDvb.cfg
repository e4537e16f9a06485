SPECIFICATION FairSpec
CONSTANTS
    Blocking = TRUE
    StallTicks = 3
    CollectTicks = 2
    Ring = 2
    Pulls = 2
PROPERTY SilenceEndsTune
CHECK_DEADLOCK FALSE
