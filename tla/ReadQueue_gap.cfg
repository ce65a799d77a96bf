CONSTANTS
    r1 = r1
    r2 = r2
    r3 = r3
    NoPacket = NoPacket
    Reads <- OneRead
    MaxPackets = 2
    ReadsCancelled = FALSE
    PowerCycles = FALSE
    ResourcesFail = FALSE
SPECIFICATION Spec
INVARIANT JustQueuedIsRetrieved
