---------------------------- MODULE H4Reassembly ----------------------------
(***************************************************************************)
(* ReadH4PacketReassemble (io.c): how the bytes of the UART, cut into      *)
(* reads of any length, become HCI events and ACL data packets, and how    *)
(* many bytes the completion routine asks for next.                        *)
(*                                                                         *)
(* One step is one turn of the loop over a read; a header takes one turn   *)
(* per byte.  The bytes of a read that are still to be processed are the   *)
(* last BytesRemained of those received.                                   *)
(***************************************************************************)
EXTENDS Integers, Sequences, FiniteSets

CONSTANTS
    Wires,             \* what the controller may send: its bytes, how many precede each
                       \* packet, and whether every packet keeps to the format
    MaxAclPayload      \* HCI_MAX_ACL_PAYLOAD_SIZE

EventType == 4         \* HciPacketEvent
AclType   == 2         \* HciPacketAclData
Bytes     == 0..255

HeaderSize(type) == IF type = EventType THEN 2 ELSE 4
ReadBufferSize   == 1 + 4 + MaxAclPayload      \* MAX_H4_HCI_PACKET_SIZE

INITIAL_H4_READ_SIZE == 1 + HeaderSize(EventType)

\* ParamsCount or DataLength of a packet whose header is complete.
PayloadSize(type, packet) ==
    IF type = EventType THEN packet[2] ELSE packet[3] + 256 * packet[4]

\* Where the packet that starts behind the first s bytes ends, by its own header.
HeaderEnd(bytes, s) == s + 1 + HeaderSize(bytes[s + 1])
PacketEnd(bytes, s) ==
    HeaderEnd(bytes, s) + PayloadSize(bytes[s + 1], SubSeq(bytes, s + 2, HeaderEnd(bytes, s)))

\* Behind the first s bytes there is a whole packet that keeps to the format.
PacketAt(bytes, s) ==
    /\ s < Len(bytes)
    /\ bytes[s + 1] \in {EventType, AclType}
    /\ HeaderEnd(bytes, s) <= Len(bytes)
    /\ PacketEnd(bytes, s) <= Len(bytes)
    /\ bytes[s + 1] = AclType => PacketEnd(bytes, s) - HeaderEnd(bytes, s) <= MaxAclPayload

\* The controller sends the next packet, if any, right behind such a packet.
Follows(w) ==
    \A s \in w.starts : PacketAt(w.bytes, s) =>
        PacketEnd(w.bytes, s) \in w.starts \cup {Len(w.bytes)}

ASSUME H4Assumption ==
    \A w \in Wires :
        /\ w.bytes \in Seq(Bytes)
        /\ w.starts \subseteq 0..Len(w.bytes) /\ 0 \in w.starts
        /\ w.valid \in BOOLEAN
        /\ Follows(w)

ASSUME MaxAclAssumption == MaxAclPayload \in 0..65535

VARIABLES
    wire,                    \* what the controller sends
    received,                \* how many of its bytes reads have returned
    BytesRemained,           \* how many of those the loop has not consumed
    reading,                 \* TRUE: a read is outstanding; FALSE: its bytes are processed
    asked,                   \* the length of the read
    posted,                  \* how it got this length: "chosen" for what is missing, "again" that
                             \* of the read before, or "started" in the middle of a packet (history)
    ReadSegmentState,
    Type,                    \* H4Packet.Type
    Packet,                  \* H4Packet.Packet, as far as it is filled
    BytesReadNextSegment,
    BytesToRead4FullPacket,
    completed,               \* the packets handed to ReadH4PacketComplete
    dropped,                 \* TRUE: some bytes were discarded as out of sync
    torn                     \* TRUE: a restart found a packet half read (history)

context    == <<ReadSegmentState, Type, Packet, BytesReadNextSegment, BytesToRead4FullPacket>>
readLength == <<asked, posted>>
vars == <<wire, received, BytesRemained, reading, readLength, context, completed, dropped, torn>>

\* How many bytes of the wire the loop has consumed, and the next n of them.
Consumed == received - BytesRemained
Ahead(n) == SubSeq(wire.bytes, Consumed + 1, Consumed + n)
Byte     == wire.bytes[Consumed + 1]

Init ==
    /\ wire \in Wires
    /\ received = 0
    /\ BytesRemained = 0
    /\ reading = TRUE
    /\ asked = INITIAL_H4_READ_SIZE
    /\ posted = "chosen"
    /\ ReadSegmentState = "GET_PKT_TYPE"
    /\ Type = 0
    /\ Packet = <<>>
    /\ BytesReadNextSegment = 0
    /\ BytesToRead4FullPacket = 0
    /\ completed = <<>>
    /\ dropped = FALSE
    /\ torn = FALSE

-----------------------------------------------------------------------------
\* The UART returns a read, filled or cut short by its interval timeout.
Read ==
    /\ reading
    /\ \E n \in 1..asked :
          /\ received + n <= Len(wire.bytes)
          /\ received'      = received + n
          /\ BytesRemained' = n
    /\ reading' = FALSE
    /\ UNCHANGED <<wire, readLength, context, completed, dropped, torn>>

\* Mutant: what was collected of the packet before is kept.
SetTypeStateKeepingPacket ==
    /\ ReadSegmentState'       = "GET_PKT_TYPE"
    /\ BytesReadNextSegment'   = 0
    /\ Type'                   = 0
    /\ BytesToRead4FullPacket' = 0
    /\ UNCHANGED Packet

\* ReadSegmentStateSet.
SetTypeState ==
    /\ ReadSegmentState'       = "GET_PKT_TYPE"
    /\ BytesReadNextSegment'   = 0
    /\ Type'                   = 0
    /\ BytesToRead4FullPacket' = 0
    /\ Packet'                 = <<>>

\* ReadH4PacketComplete, then the state for the next packet.  PacketLen is what
\* the header says, not what was collected.
Complete(packet) ==
    /\ completed' = Append(completed,
                           [type   |-> Type,
                            packet |-> packet,
                            length |-> HeaderSize(Type) + PayloadSize(Type, packet),
                            end    |-> received - BytesRemained',
                            torn   |-> torn])
    /\ SetTypeState

Turn == ~reading /\ BytesRemained > 0

\* The rest of the read is dropped and the completion routine resets the state.
OutOfSync ==
    /\ BytesRemained' = 0
    /\ dropped'       = TRUE
    /\ SetTypeState
    /\ UNCHANGED <<wire, received, reading, readLength, completed, torn>>

GetType ==
    /\ Turn
    /\ ReadSegmentState = "GET_PKT_TYPE"
    /\ Byte \in {EventType, AclType}
    /\ BytesRemained'          = BytesRemained - 1
    /\ Type'                   = Byte
    /\ BytesToRead4FullPacket' = HeaderSize(Byte)
    /\ ReadSegmentState'       = "GET_PKT_HEADER"
    /\ BytesReadNextSegment'   = 0
    /\ UNCHANGED <<wire, received, reading, readLength, Packet, completed, dropped, torn>>

GetUnknownType ==
    /\ Turn
    /\ ReadSegmentState = "GET_PKT_TYPE"
    /\ Byte \notin {EventType, AclType}
    /\ OutOfSync

InHeader     == Turn /\ ReadSegmentState = "GET_PKT_HEADER"
LastOfHeader == BytesReadNextSegment = HeaderSize(Type) - 1

\* Mutant: what is left of the header is not brought up to date.
GetHeaderByteOnly ==
    /\ InHeader
    /\ ~LastOfHeader
    /\ BytesRemained'        = BytesRemained - 1
    /\ Packet'               = Append(Packet, Byte)
    /\ BytesReadNextSegment' = BytesReadNextSegment + 1
    /\ UNCHANGED <<wire, received, reading, readLength, ReadSegmentState, Type,
                   BytesToRead4FullPacket, completed, dropped, torn>>

\* A byte of the header that is not its last.
GetHeaderByte ==
    /\ InHeader
    /\ ~LastOfHeader
    /\ BytesRemained'          = BytesRemained - 1
    /\ Packet'                 = Append(Packet, Byte)
    /\ BytesReadNextSegment'   = BytesReadNextSegment + 1
    /\ BytesToRead4FullPacket' = HeaderSize(Type) - (BytesReadNextSegment + 1)
    /\ UNCHANGED <<wire, received, reading, readLength, ReadSegmentState, Type, completed,
                   dropped, torn>>

\* Mutant: no special case for a packet without payload.
GetEmptyPayload ==
    /\ InHeader
    /\ LastOfHeader
    /\ PayloadSize(Type, Append(Packet, Byte)) = 0
    /\ BytesRemained'        = BytesRemained - 1
    /\ Packet'               = Append(Packet, Byte)
    /\ ReadSegmentState'     = "GET_PKT_PAYLOAD"
    /\ BytesReadNextSegment' = 0
    /\ UNCHANGED <<wire, received, reading, readLength, Type, BytesToRead4FullPacket, completed,
                   dropped, torn>>

\* The header is complete and says that nothing follows.
GetEmptyPacket ==
    /\ InHeader
    /\ LastOfHeader
    /\ PayloadSize(Type, Append(Packet, Byte)) = 0
    /\ BytesRemained' = BytesRemained - 1
    /\ Complete(Append(Packet, Byte))
    /\ UNCHANGED <<wire, received, reading, readLength, dropped, torn>>

\* BytesToRead4FullPacket when the header is complete.
Missing(size, have) == IF have < size THEN size - have ELSE BytesToRead4FullPacket

\* The header is complete and a payload follows, in this read or the next.
GetHeaderEnd ==
    /\ InHeader
    /\ LastOfHeader
    /\ PayloadSize(Type, Append(Packet, Byte)) # 0
    /\ BytesRemained'          = BytesRemained - 1
    /\ Packet'                 = Append(Packet, Byte)
    /\ BytesToRead4FullPacket' = Missing(PayloadSize(Type, Packet'), BytesRemained')
    /\ ReadSegmentState'       = "GET_PKT_PAYLOAD"
    /\ BytesReadNextSegment'   = 0
    /\ UNCHANGED <<wire, received, reading, readLength, Type, completed, dropped, torn>>

InPayload == Turn /\ ReadSegmentState = "GET_PKT_PAYLOAD"
Pending   == PayloadSize(Type, Packet) - BytesReadNextSegment

\* Mutant: the length of ACL data is not compared with the maximum.
NeverTooLong == Pending < 0

\* Only ACL data can exceed its maximum; ParamsCount is a byte.
TooLong ==
    \/ Type = AclType /\ PayloadSize(Type, Packet) > MaxAclPayload
    \/ Pending < 0

GetBadLength ==
    /\ InPayload
    /\ TooLong
    /\ OutOfSync

GetPayloadEnd ==
    /\ InPayload
    /\ ~TooLong
    /\ BytesRemained >= Pending
    /\ BytesRemained' = BytesRemained - Pending
    /\ Complete(Packet \o Ahead(Pending))
    /\ UNCHANGED <<wire, received, reading, readLength, dropped, torn>>

GetPayloadPart ==
    /\ InPayload
    /\ ~TooLong
    /\ BytesRemained < Pending
    /\ BytesRemained'          = 0
    /\ Packet'                 = Packet \o Ahead(BytesRemained)
    /\ BytesReadNextSegment'   = BytesReadNextSegment + BytesRemained
    /\ BytesToRead4FullPacket' = PayloadSize(Type, Packet) - BytesReadNextSegment'
    /\ UNCHANGED <<wire, received, reading, readLength, ReadSegmentState, Type, completed,
                   dropped, torn>>

-----------------------------------------------------------------------------
(* The next read.                                                          *)

\* The length chosen by ReadH4PacketCompletionRoutine.
NextLength ==
    IF ReadSegmentState = "GET_PKT_TYPE" THEN INITIAL_H4_READ_SIZE
    ELSE IF BytesToRead4FullPacket # 0 THEN BytesToRead4FullPacket ELSE ReadBufferSize

ReadNext ==
    /\ ~reading
    /\ BytesRemained = 0
    /\ reading' = TRUE
    /\ asked'   = NextLength
    /\ posted'  = "chosen"
    /\ UNCHANGED <<wire, received, BytesRemained, context, completed, dropped, torn>>

\* The loop of ReadH4Packet: the read had completed in WdfRequestSend, and is
\* posted again with the same _BufferLen, whatever its bytes were.
ReadAgain ==
    /\ ~reading
    /\ BytesRemained = 0
    /\ reading' = TRUE
    /\ posted'  = "again"
    /\ UNCHANGED <<wire, received, BytesRemained, asked, context, completed, dropped, torn>>

\* D0Exit cancels the read and D0Entry starts the pump: the controller begins
\* with a new packet, the read context stays as it is.
Restart ==
    /\ reading
    /\ asked'  = INITIAL_H4_READ_SIZE
    /\ posted' = IF ReadSegmentState = "GET_PKT_TYPE" THEN "chosen" ELSE "started"
    /\ torn'   = (torn \/ ReadSegmentState # "GET_PKT_TYPE")
    /\ \E start \in wire.starts :
          /\ start >= received
          /\ ~ \E other \in wire.starts : received <= other /\ other < start
          /\ received' = start
    /\ UNCHANGED <<wire, BytesRemained, reading, context, completed, dropped>>

\* The controller has no more to send.
Silent == reading /\ received = Len(wire.bytes) /\ UNCHANGED vars

Reassemble ==
    \/ GetType \/ GetUnknownType \/ GetHeaderByte \/ GetEmptyPacket \/ GetHeaderEnd
    \/ GetBadLength \/ GetPayloadEnd \/ GetPayloadPart

Next == Read \/ Reassemble \/ ReadNext \/ ReadAgain \/ Restart \/ Silent

\* The loop runs on, and a controller that has something to send is read.
Fairness == WF_vars(Read) /\ WF_vars(Reassemble) /\ WF_vars(ReadNext \/ ReadAgain)

Spec == Init /\ [][Next]_vars /\ Fairness

-----------------------------------------------------------------------------
(* Properties.                                                             *)

\* The range of every variable.
TypeOK ==
    /\ wire \in Wires
    /\ received \in 0..Len(wire.bytes)
    /\ BytesRemained \in 0..received
    /\ reading \in BOOLEAN
    /\ reading => BytesRemained = 0
    /\ asked \in Nat \ {0}
    /\ posted \in {"chosen", "again", "started"}
    /\ ReadSegmentState \in {"GET_PKT_TYPE", "GET_PKT_HEADER", "GET_PKT_PAYLOAD"}
    /\ Type \in {0, EventType, AclType}
    /\ Packet \in Seq(Bytes)
    /\ BytesReadNextSegment \in Nat
    /\ BytesToRead4FullPacket \in Nat
    /\ completed \in Seq([type : {EventType, AclType}, packet : Seq(Bytes), length : Nat,
                          end : Nat, torn : BOOLEAN])
    /\ dropped \in BOOLEAN
    /\ torn \in BOOLEAN

\* The first byte of a completed packet on the wire, its type.
FirstOf(c) == c.end - c.length

\* A completed packet is a run of bytes of the wire, whole by its own header.
IsRunOfTheWire(c) ==
    /\ FirstOf(c) >= 1
    /\ c.packet = SubSeq(wire.bytes, FirstOf(c) + 1, c.end)
    /\ c.type = wire.bytes[FirstOf(c)]
    /\ c.length = HeaderSize(c.type) + PayloadSize(c.type, c.packet)

\* However the stream is cut into reads, the completed packets are runs of the
\* wire in its order, and as long as nothing was out of sync no byte lies
\* between two of them, through power cycles as well: only one that cuts a
\* packet in two joins its beginning to the next one.
PacketsAreRunsOfTheWire ==
    \A i \in 1..Len(completed) : ~completed[i].torn =>
        LET before == IF i = 1 THEN 0 ELSE completed[i - 1].end
        IN  /\ IsRunOfTheWire(completed[i])
            /\ FirstOf(completed[i]) > before
            /\ ~dropped => FirstOf(completed[i]) = before + 1

\* The packet under assembly never outgrows the H4_PACKET that holds it, although
\* the length is only checked when the payload is reached.
PacketFits ==
    Len(Packet) <= HeaderSize(Type) + (IF Type = EventType THEN 255 ELSE MaxAclPayload)

\* An event without parameters, with its type.
ShortestPacket == 3

\* What the packet under assembly misses of its header or of its payload; between
\* two packets, what any packet has.
StillMissing ==
    CASE ReadSegmentState = "GET_PKT_TYPE"    -> ShortestPacket
      [] ReadSegmentState = "GET_PKT_HEADER"  -> HeaderSize(Type) - Len(Packet)
      [] ReadSegmentState = "GET_PKT_PAYLOAD" -> PayloadSize(Type, Packet) - BytesReadNextSegment

\* A read that asks for more than is missing waits for bytes of a packet that may
\* never come, until the interval timeout of the UART ends it, if the board sets
\* one.  There are such reads, but the completion routine asks for none, at any cut
\* (io.c:1171): the loop of ReadH4Packet posts the length of the read before again,
\* that was meant for a packet which is complete by now (io.c:1245-1335), and
\* D0Entry starts in the middle of a packet, with the length of a first read.
LongReadsNotChosen ==
    reading /\ asked > StillMissing =>
        \/ posted = "again"
        \/ posted = "started" /\ torn /\ asked = INITIAL_H4_READ_SIZE

\* The buffer of the code holds more than the parameters of any event; with a small
\* maximum, as in the runs, that has to be said.
HeldByBuffer(n) == n <= ReadBufferSize \/ n <= 255

\* The last read ended with an ACL header that announces more than the maximum.
BehindTooLongHeader ==
    /\ ReadSegmentState = "GET_PKT_PAYLOAD" /\ BytesReadNextSegment = 0
    /\ Type = AclType /\ PayloadSize(Type, Packet) > MaxAclPayload

\* A read longer than ReadBuffer is asked for behind an ACL header that announces
\* more than the maximum and ended the read before.  As soon as one byte of the payload is
\* there the packet has been refused (io.c:906); from then on the loop of
\* ReadH4Packet may post this length again and again, in any segment state
\* (io.c:1245-1335).  There is no other way to one.
ReadFitsBuffer ==
    reading /\ ~HeldByBuffer(asked) =>
        \/ BehindTooLongHeader
        \/ posted = "again" /\ dropped

\* Every packet of a controller that keeps to the format reaches BthPort, unless a
\* power cycle cuts one.
EveryPacketCompletes ==
    wire.valid => <>[](torn \/ (~dropped /\ Len(completed) = Cardinality(wire.starts)))
=============================================================================
