SPECIFICATION Spec
CONSTANTS
    Packets <- MCPackets
    Deltas <- MCDeltas
    ReadBufferSize = 64
INVARIANTS RoundTrip DamageNeverAccepted NeverAstray
