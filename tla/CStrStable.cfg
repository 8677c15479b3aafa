SPECIFICATION DocSpec

CONSTANTS
    HeadCap = 6
    PushSizes = {1, 3}
    Aligns = {1, 2}
    SliceHdr = 1
    SliceAlign = 2
    SbInitial = 1
    MaxLen = 3
    MaxScopes = 2
    MaxBlocks = 3
    MaxChunks = 2
    NoBuilder = NoBuilder

INVARIANT CStrStable
