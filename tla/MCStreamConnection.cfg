SPECIFICATION FairSpec
CONSTANTS
    BlockSize = 5
    SizeLength = 1
    MaxBits = 3
    Sizes <- const_Sizes
    MaxSent = 3
    MaxBreaks = 1
INVARIANTS
    StreamInv
    DuplicatesOnlyRetried
PROPERTIES
    ChannelUntilBreak
    EventuallyReceived
CHECK_DEADLOCK FALSE
