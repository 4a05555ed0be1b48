CONSTANTS
    Discs <- SmallDiscs
    FramesPerHunk = 8
    Sizes = {256, 3000, 7056}
    Wanted <- AllWanted
    Files <- SmallFiles
    MaxBuffer = 2
    MaxHashes = 2
SPECIFICATION HashSpec
INVARIANTS
    SoundReadsAreUserData
    ReadsSpanTheTrack
    HashIsOfTheRom
    NoSpillIsLeft
CHECK_DEADLOCK FALSE
