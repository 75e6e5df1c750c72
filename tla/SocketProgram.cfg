CONSTANTS
    Mod32 = 8
    Mod64 = 64
    PipeCapacity = 1
    SendCapacity = 1
    RecvCapacity = 1
    Window = 1
    BufferSize = 1
    Typed = 2
    Remote = 2
    Faults = {{"reset"}, {"broken stdout"}, {"silence", "exception"}}
SPECIFICATION Spec
INVARIANTS NothingLost NoBrokenPipe NoBusyWait
PROPERTIES EndReachesRemote ProgramEnds
