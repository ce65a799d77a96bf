CONSTANTS
    t1 = t1
    t2 = t2
    r1 = r1
    Pnp = Pnp
    NoPacket = NoPacket
    Routines <- TwoRoutines
    Reads <- OneRead
    MaxPackets = 2
    MaxBatch = 2
    ResourcesFail = TRUE
SPECIFICATION Spec
INVARIANTS
    PumpHasItsResources
    OneReader
PROPERTIES
    D0ExitReturns
    AsReadQueue
