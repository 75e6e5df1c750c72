SPECIFICATION AssemblySpec
CONSTANTS
    Mod32 = 8
    Mod64 = 64
    InsertedLen = 8
    OutputCapacity = 7
INVARIANTS
    AssemblyTypeOK
    BuffersNormal
    NothingTruncated
PROPERTY KeepsPromise
