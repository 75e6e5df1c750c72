SPECIFICATION Spec
CONSTANTS
    Mod32 = 8
    Mod64 = 64
    Capacity = 3
    MaxBytes = 6
INVARIANT CountersMatchDeque
PROPERTY ImplementsQueue
