SPECIFICATION Px4Spec
CONSTANTS
    PacketSize = 3
    MaxByte = 12
    MaxRead = 5
    Frequencies <- EdgeFrequencies
INVARIANTS
    CarryBounded
    EveryPacketMet
    StopsWhatItStarted
    TunesWhatWasAsked
PROPERTIES
    InStepForever
    MisreadNeedsStray
