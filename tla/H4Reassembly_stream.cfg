CONSTANTS
    Wires <- AllWires
    MaxAclPayload = 3
SPECIFICATION Spec
INVARIANTS
    PacketsAreRunsOfTheWire
    PacketFits
    LongReadsNotChosen
    ReadFitsBuffer
PROPERTY EveryPacketCompletes
