SPECIFICATION BuddySpec
CONSTANTS
    MAX_ORDER = 3
    PageCounts = {1, 2, 3, 8}
    NoFrame = NoFrame
    NoCall = NoCall
    Regions <- MCRegions
INVARIANTS
    BlocksDisjoint
    FramesConserved
    FullyMerged
PROPERTIES
    ImplementsFrames
