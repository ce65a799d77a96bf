CONSTANTS
    r1 = r1
    r2 = r2
    r3 = r3
    NoPacket = NoPacket
    Reads <- ThreeReads
    MaxPackets = 3
    ReadsCancelled = TRUE
    PowerCycles = TRUE
    ResourcesFail = TRUE
SPECIFICATION Spec
INVARIANTS
    PacketsConserved
    ListInArrivalOrder
    ReadsAccountedFor
PROPERTIES
    StrandedOnlyOutsideD0
    PacketMeetsReader
