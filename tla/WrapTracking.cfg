\* Checkpoints below 2^63, with half the 32-bit space to spare.
SPECIFICATION TrackingSpec
CONSTANTS
    Mod32 = 8
    Mod64 = 64
    MaxAbs = 27
INVARIANTS
    Tracks
    NearestToCheckpoint
