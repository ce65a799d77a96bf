-------------------------- MODULE H4ReassemblyProofs --------------------------
(***************************************************************************)
(* The reassembly for every stream of bytes, every way to cut it into      *)
(* reads and every maximum of the payload.                                 *)
(***************************************************************************)
EXTENDS H4Reassembly, TLAPS, SequenceTheorems

-----------------------------------------------------------------------------
(* Bytes and lengths.                                                      *)

LEMMA WireFacts ==
    ASSUME NEW w \in Wires
    PROVE  /\ w.bytes \in Seq(Bytes) /\ Len(w.bytes) \in Nat
           /\ w.starts \subseteq 0..Len(w.bytes) /\ 0 \in w.starts
           /\ Follows(w)
<1>1. w.bytes \in Seq(Bytes)
  BY H4Assumption
<1>2. w.starts \subseteq 0..Len(w.bytes)
  <2>1. \A s \in w.starts : s \in 0..Len(w.bytes)
    BY H4Assumption
  <2>. QED BY <2>1, Zenon
<1>3. 0 \in w.starts
  BY H4Assumption
<1>4. Follows(w)
  BY H4Assumption
<1>5. Len(w.bytes) \in Nat
  BY <1>1, LenProperties
<1>. QED BY <1>1, <1>2, <1>3, <1>4, <1>5, Zenon

\* A run of a sequence.
LEMMA RunOf ==
    ASSUME NEW s \in Seq(Bytes), NEW a \in Nat, NEW n \in Nat, a + n <= Len(s)
    PROVE  /\ SubSeq(s, a + 1, a + n) \in Seq(Bytes)
           /\ Len(SubSeq(s, a + 1, a + n)) = n
           /\ \A i \in 1..n : SubSeq(s, a + 1, a + n)[i] = s[a + i]
<1> DEFINE first == a + 1
           last  == a + n
<1>1. Len(s) \in Nat /\ first \in 1..Len(s) + 1 /\ last \in first - 1..Len(s)
  BY LenProperties
<1>2. first \in Int /\ last \in Int /\ last - first + 1 = n
  OBVIOUS
<1>3. /\ SubSeq(s, first, last) \in Seq(Bytes)
      /\ Len(SubSeq(s, first, last)) = IF first <= last THEN last - first + 1 ELSE 0
      /\ \A i \in 1..last - first + 1 : SubSeq(s, first, last)[i] = s[first + i - 1]
  BY <1>1, SubSeqProperties
<1>4. Len(SubSeq(s, first, last)) = n
  BY <1>2, <1>3
<1>5. \A i \in 1..n : first + i - 1 = a + i
  OBVIOUS
<1>. QED BY <1>2, <1>3, <1>4, <1>5

LEMMA HeaderSizes == HeaderSize(EventType) = 2 /\ HeaderSize(AclType) = 4 /\ HeaderSize(0) = 4
BY DEF HeaderSize, EventType, AclType

LEMMA Payload ==
    ASSUME NEW type \in {EventType, AclType}, NEW p \in Seq(Bytes), Len(p) >= HeaderSize(type)
    PROVE  /\ PayloadSize(type, p) \in Nat
           /\ type = EventType => PayloadSize(type, p) <= 255
<1>1. \A i \in 1..Len(p) : p[i] \in 0..255
  BY ElementOfSeq DEF Bytes
<1>2. Len(p) \in Nat
  BY LenProperties
<1>3. CASE type = EventType
  <2>1. 2 \in 1..Len(p)
    BY <1>2, <1>3, HeaderSizes
  <2>2. p[2] \in 0..255
    BY <1>1, <2>1
  <2>3. PayloadSize(type, p) = p[2]
    BY <1>3 DEF PayloadSize
  <2>4. PayloadSize(type, p) \in 0..255
    BY <2>2, <2>3
  <2>5. \A n \in 0..255 : n \in Nat /\ n <= 255
    OBVIOUS
  <2>. QED BY <2>4, <2>5, Zenon
<1>4. CASE type = AclType
  <2>1. 3 \in 1..Len(p) /\ 4 \in 1..Len(p)
    BY <1>2, <1>4, HeaderSizes
  <2>2. p[3] \in 0..255 /\ p[4] \in 0..255
    BY <1>1, <2>1
  <2>3. type # EventType
    BY <1>4 DEF AclType, EventType
  <2>4. PayloadSize(type, p) = p[3] + 256 * p[4]
    BY <2>3 DEF PayloadSize
  <2>5. \A i \in 0..255, j \in 0..255 : i + 256 * j \in Nat
    OBVIOUS
  <2>6. p[3] + 256 * p[4] \in Nat
    BY <2>2, <2>5
  <2>7. PayloadSize(type, p) \in Nat
    BY <2>4, <2>6, Zenon
  <2>. QED BY <2>3, <2>7, Zenon
<1>. QED BY <1>3, <1>4

\* The payload does not change what its header says of it.
LEMMA PayloadOfPrefix ==
    ASSUME NEW type \in {EventType, AclType}, NEW p \in Seq(Bytes), NEW q \in Seq(Bytes),
           Len(p) >= HeaderSize(type)
    PROVE  PayloadSize(type, p \o q) = PayloadSize(type, p)
<1>1. \A i \in 1..Len(p) : (p \o q)[i] = p[i]
  <2>1. Len(p) \in Nat /\ Len(q) \in Nat
    BY LenProperties
  <2>2. /\ Len(p \o q) = Len(p) + Len(q)
        /\ \A i \in 1..Len(p) + Len(q) :
              (p \o q)[i] = IF i <= Len(p) THEN p[i] ELSE q[i - Len(p)]
    BY ConcatProperties
  <2>. QED BY <2>1, <2>2
<1>2. Len(p) \in Nat
  BY LenProperties
<1>3. CASE type = EventType
  BY <1>1, <1>2, <1>3, HeaderSizes DEF PayloadSize
<1>4. CASE type = AclType
  <2>1. 3 \in 1..Len(p) /\ 4 \in 1..Len(p)
    BY <1>2, <1>4, HeaderSizes
  <2>2. type # EventType
    BY <1>4 DEF AclType, EventType
  <2>. QED BY <1>1, <2>1, <2>2 DEF PayloadSize
<1>. QED BY <1>3, <1>4

-----------------------------------------------------------------------------
(* The read context in each segment state.                                 *)

AtType ==
    ReadSegmentState = "GET_PKT_TYPE" => Type = 0 /\ Packet = <<>>

AtHeader ==
    ReadSegmentState = "GET_PKT_HEADER" =>
        /\ Type \in {EventType, AclType}
        /\ BytesReadNextSegment < HeaderSize(Type)
        /\ Len(Packet) = BytesReadNextSegment
        /\ BytesToRead4FullPacket = HeaderSize(Type) - BytesReadNextSegment

\* The length of an ACL packet is unchecked as long as none of its payload is there.
AtPayload ==
    ReadSegmentState = "GET_PKT_PAYLOAD" =>
        /\ Type \in {EventType, AclType}
        /\ Len(Packet) = HeaderSize(Type) + BytesReadNextSegment
        /\ BytesReadNextSegment < PayloadSize(Type, Packet)
        /\ Type = AclType /\ BytesReadNextSegment # 0 =>
               PayloadSize(Type, Packet) <= MaxAclPayload
        /\ BytesRemained = 0 =>
               BytesToRead4FullPacket = PayloadSize(Type, Packet) - BytesReadNextSegment

Assembly == AtType /\ AtHeader /\ AtPayload

\* A read of a chosen length asks for no more than is missing, that of a restart in
\* the middle of a packet for an INITIAL_H4_READ_SIZE.
ReadLengths ==
    reading =>
        /\ posted = "chosen" => asked <= StillMissing
        /\ posted = "started" => torn /\ asked = INITIAL_H4_READ_SIZE

IInv == TypeOK /\ Assembly /\ ReadLengths

LEMMA BufferSize ==
    /\ ReadBufferSize \in Nat /\ ReadBufferSize >= 5
    /\ MaxAclPayload \in Nat /\ ReadBufferSize >= MaxAclPayload
BY MaxAclAssumption DEF ReadBufferSize

LEMMA MissingIsInt == ASSUME TypeOK, Assembly PROVE StillMissing \in Int
<1>1. /\ ReadSegmentState \in {"GET_PKT_TYPE", "GET_PKT_HEADER", "GET_PKT_PAYLOAD"}
      /\ Packet \in Seq(Bytes) /\ BytesReadNextSegment \in Nat /\ Len(Packet) \in Nat
  BY LenProperties DEF TypeOK
<1>2. CASE ReadSegmentState = "GET_PKT_TYPE"
  BY <1>2 DEF StillMissing, ShortestPacket
<1>3. CASE ReadSegmentState = "GET_PKT_HEADER"
  <2>1. HeaderSize(Type) \in Nat
    BY <1>3, HeaderSizes DEF Assembly, AtHeader
  <2>. QED BY <1>1, <1>3, <2>1 DEF StillMissing
<1>4. CASE ReadSegmentState = "GET_PKT_PAYLOAD"
  <2>1. /\ Type \in {EventType, AclType} /\ HeaderSize(Type) \in Nat
        /\ Len(Packet) = HeaderSize(Type) + BytesReadNextSegment
    BY <1>4, HeaderSizes DEF Assembly, AtPayload
  <2>2. PayloadSize(Type, Packet) \in Nat
    BY <1>1, <2>1, Payload
  <2>. QED BY <1>1, <1>4, <2>2 DEF StillMissing
<1>. QED BY <1>1, <1>2, <1>3, <1>4

LEMMA InvInit == Init => IInv
<1> SUFFICES ASSUME Init PROVE IInv
  OBVIOUS
<1>1. Len(wire.bytes) \in Nat
  BY WireFacts DEF Init
<1>2. <<>> \in Seq(Bytes)
      /\ <<>> \in Seq([type : {EventType, AclType}, packet : Seq(Bytes), length : Nat,
                       end : Nat, torn : BOOLEAN])
  BY EmptySeq
<1>3. asked = 3 /\ received = 0 /\ BytesRemained = 0
  BY HeaderSizes DEF Init, INITIAL_H4_READ_SIZE
<1>5. TypeOK
  <2>1. wire \in Wires /\ received \in 0..Len(wire.bytes) /\ BytesRemained \in 0..received
    BY <1>1, <1>3 DEF Init
  <2>2. /\ Packet \in Seq(Bytes)
        /\ completed \in Seq([type : {EventType, AclType}, packet : Seq(Bytes), length : Nat,
                              end : Nat, torn : BOOLEAN])
    BY <1>2, Zenon DEF Init
  <2>3. /\ reading \in BOOLEAN /\ posted \in {"chosen", "again", "started"}
        /\ dropped \in BOOLEAN /\ torn \in BOOLEAN
    BY Zenon DEF Init
  <2>4. /\ reading => BytesRemained = 0
        /\ asked \in Nat \ {0}
        /\ ReadSegmentState \in {"GET_PKT_TYPE", "GET_PKT_HEADER", "GET_PKT_PAYLOAD"}
        /\ Type \in {0, EventType, AclType}
        /\ BytesReadNextSegment \in Nat
        /\ BytesToRead4FullPacket \in Nat
    BY <1>3 DEF Init
  <2>. QED BY <2>1, <2>2, <2>3, <2>4, Zenon DEF TypeOK
<1>4. Assembly /\ ReadLengths
  BY DEF Init, Assembly, AtType, AtHeader, AtPayload, ReadLengths, StillMissing,
         INITIAL_H4_READ_SIZE, HeaderSize, ShortestPacket
<1>. QED BY <1>4, <1>5 DEF IInv

\* The bytes that are still to be processed are bytes of the wire.
LEMMA BytesAhead ==
    ASSUME TypeOK
    PROVE  /\ Len(wire.bytes) \in Nat
           /\ Consumed \in Nat
           /\ Consumed + BytesRemained <= Len(wire.bytes)
           /\ BytesRemained > 0 => Byte \in Bytes
           /\ \A n \in 0..BytesRemained : Ahead(n) \in Seq(Bytes) /\ Len(Ahead(n)) = n
<1>1. wire.bytes \in Seq(Bytes) /\ Len(wire.bytes) \in Nat
  BY WireFacts DEF TypeOK
<1>2. /\ received \in Nat /\ BytesRemained \in Nat
      /\ BytesRemained <= received /\ received <= Len(wire.bytes)
  BY <1>1 DEF TypeOK
<1>3. Consumed \in Nat /\ Consumed + BytesRemained <= Len(wire.bytes)
  BY <1>1, <1>2 DEF Consumed
<1>4. BytesRemained > 0 => Byte \in Bytes
  <2>1. BytesRemained > 0 => Consumed + 1 \in 1..Len(wire.bytes)
    BY <1>1, <1>2, <1>3
  <2>. QED BY <1>1, <2>1, ElementOfSeq DEF Byte
<1>5. ASSUME NEW n \in 0..BytesRemained
      PROVE  Ahead(n) \in Seq(Bytes) /\ Len(Ahead(n)) = n
  <2>1. n \in Nat /\ Consumed + n <= Len(wire.bytes)
    BY <1>1, <1>2, <1>3
  <2>. QED BY <1>1, <1>3, <2>1, RunOf DEF Ahead
<1>. QED BY <1>1, <1>3, <1>4, <1>5

\* After a packet, or the loss of one.
LEMMA TypeStateKeeps ==
    ASSUME TypeOK, SetTypeState, ~reading', wire' \in Wires, received' = received,
           wire' = wire, BytesRemained' \in 0..received, asked' = asked, posted' = posted,
           completed' \in Seq([type : {EventType, AclType}, packet : Seq(Bytes), length : Nat,
                               end : Nat, torn : BOOLEAN]),
           dropped' \in BOOLEAN, torn' = torn, reading' \in BOOLEAN
    PROVE  IInv'
<1>1. <<>> \in Seq(Bytes)
  BY EmptySeq
<1>2. TypeOK'
  BY <1>1 DEF TypeOK, SetTypeState
<1>3. Assembly'
  BY DEF SetTypeState, Assembly, AtType, AtHeader, AtPayload
<1>4. ReadLengths'
  BY DEF ReadLengths
<1>. QED BY <1>2, <1>3, <1>4 DEF IInv

LEMMA OutOfSyncKeeps == ASSUME IInv, Turn, OutOfSync PROVE IInv'
<1>1. /\ ~reading' /\ reading' \in BOOLEAN /\ wire' \in Wires /\ wire' = wire
      /\ received' = received /\ asked' = asked /\ posted' = posted /\ torn' = torn
  BY DEF OutOfSync, IInv, TypeOK, Turn, readLength
<1>2. received \in Nat
  BY BytesAhead DEF IInv, TypeOK
<1>3. BytesRemained' \in 0..received /\ dropped' \in BOOLEAN /\ completed' = completed
  BY <1>2 DEF OutOfSync
<1>4. SetTypeState
  BY DEF OutOfSync
<1>. QED BY <1>1, <1>3, <1>4, TypeStateKeeps DEF IInv, TypeOK

\* A completed packet is recorded with its type and the length its header says.
LEMMA CompleteKeeps ==
    ASSUME IInv, Turn, NEW n \in 1..BytesRemained, BytesRemained' = BytesRemained - n,
           Type \in {EventType, AclType}, NEW packet \in Seq(Bytes),
           Len(packet) >= HeaderSize(Type), Complete(packet),
           UNCHANGED <<wire, received, reading, readLength, dropped, torn>>
    PROVE  IInv'
<1>1. /\ ~reading' /\ reading' \in BOOLEAN /\ wire' \in Wires /\ wire' = wire
      /\ received' = received /\ asked' = asked /\ posted' = posted /\ torn' = torn
      /\ dropped' \in BOOLEAN
  BY DEF IInv, TypeOK, Turn, readLength
<1>2. /\ received \in Nat /\ BytesRemained \in 0..received
  BY BytesAhead DEF IInv, TypeOK
<1>3. BytesRemained' \in 0..received /\ received - BytesRemained' \in Nat
  BY <1>2
<1>4. PayloadSize(Type, packet) \in Nat /\ HeaderSize(Type) \in Nat
  BY Payload, HeaderSizes
<1>5. HeaderSize(Type) + PayloadSize(Type, packet) \in Nat
  BY <1>4
<1>6. completed' \in Seq([type : {EventType, AclType}, packet : Seq(Bytes), length : Nat,
                          end : Nat, torn : BOOLEAN])
  <2>1. [type |-> Type, packet |-> packet, length |-> HeaderSize(Type) + PayloadSize(Type, packet),
         end |-> received - BytesRemained', torn |-> torn]
        \in [type : {EventType, AclType}, packet : Seq(Bytes), length : Nat,
             end : Nat, torn : BOOLEAN]
    BY <1>3, <1>5 DEF IInv, TypeOK
  <2>. QED BY <2>1, AppendProperties DEF Complete, IInv, TypeOK
<1>7. SetTypeState
  BY DEF Complete
<1>. QED BY <1>1, <1>3, <1>6, <1>7, TypeStateKeeps DEF IInv, TypeOK

LEMMA ReadKeeps == ASSUME IInv, Read PROVE IInv'
<1>1. PICK n \in 1..asked :
          received + n <= Len(wire.bytes) /\ received' = received + n /\ BytesRemained' = n
  BY DEF Read
<1>2. Len(wire.bytes) \in Nat /\ received \in Nat /\ asked \in Nat
  BY WireFacts DEF IInv, TypeOK
<1>3. received' \in 0..Len(wire.bytes) /\ BytesRemained' \in 0..received' /\ BytesRemained' # 0
  BY <1>1, <1>2
<1>4. TypeOK'
  BY <1>3 DEF Read, IInv, TypeOK, readLength, context
<1>5. Assembly'
  BY <1>3 DEF Read, IInv, Assembly, AtType, AtHeader, AtPayload, context
<1>. QED BY <1>4, <1>5 DEF Read, IInv, ReadLengths

LEMMA GetTypeKeeps == ASSUME IInv, GetType PROVE IInv'
<1>1. Byte \in {EventType, AclType}
  BY DEF GetType
<1>2. received \in Nat /\ BytesRemained \in 0..received /\ BytesRemained > 0
  BY BytesAhead DEF IInv, TypeOK, GetType, Turn
<1>3. BytesRemained' \in 0..received'
  BY <1>2 DEF GetType
<1>4. HeaderSize(Byte) \in Nat /\ 0 < HeaderSize(Byte) /\ HeaderSize(Byte) - 0 = HeaderSize(Byte)
  BY <1>1, HeaderSizes
<1>5. TypeOK'
  BY <1>1, <1>3, <1>4 DEF GetType, Turn, IInv, TypeOK, readLength
<1>6. Packet = <<>> /\ Len(Packet) = 0
  BY EmptySeq DEF IInv, Assembly, AtType, GetType
<1>7. Assembly'
  BY <1>1, <1>4, <1>6 DEF GetType, Assembly, AtType, AtHeader, AtPayload
<1>. QED BY <1>5, <1>7 DEF GetType, Turn, IInv, ReadLengths

LEMMA GetHeaderByteKeeps == ASSUME IInv, GetHeaderByte PROVE IInv'
<1>1. /\ Type \in {EventType, AclType} /\ BytesReadNextSegment \in Nat
      /\ BytesReadNextSegment < HeaderSize(Type) /\ BytesReadNextSegment # HeaderSize(Type) - 1
      /\ Len(Packet) = BytesReadNextSegment /\ HeaderSize(Type) \in Nat
  BY HeaderSizes DEF GetHeaderByte, InHeader, LastOfHeader, IInv, Assembly, AtHeader, TypeOK
<1>2. received \in Nat /\ BytesRemained \in 0..received /\ BytesRemained > 0
  BY BytesAhead DEF IInv, TypeOK, GetHeaderByte, InHeader, Turn
<1>3. BytesRemained' \in 0..received'
  BY <1>2 DEF GetHeaderByte
<1>4. Packet' \in Seq(Bytes) /\ Len(Packet') = BytesReadNextSegment + 1
  BY <1>1, <1>2, BytesAhead, AppendProperties DEF GetHeaderByte, IInv, TypeOK
<1>5. /\ BytesReadNextSegment' \in Nat /\ BytesReadNextSegment' < HeaderSize(Type)
      /\ BytesToRead4FullPacket' \in Nat
  BY <1>1 DEF GetHeaderByte
<1>6. TypeOK'
  BY <1>3, <1>4, <1>5 DEF GetHeaderByte, InHeader, Turn, IInv, TypeOK, readLength
<1>7. Assembly'
  BY <1>1, <1>4, <1>5 DEF GetHeaderByte, InHeader, Assembly, AtType, AtHeader, AtPayload
<1>. QED BY <1>6, <1>7 DEF GetHeaderByte, InHeader, Turn, IInv, ReadLengths

\* What the last byte of the header completes.
LEMMA HeaderComplete ==
    ASSUME IInv, InHeader, LastOfHeader
    PROVE  /\ Type \in {EventType, AclType}
           /\ Append(Packet, Byte) \in Seq(Bytes)
           /\ Len(Append(Packet, Byte)) = HeaderSize(Type)
           /\ HeaderSize(Type) \in Nat
           /\ received \in Nat /\ BytesRemained \in 1..received
<1>1. /\ Type \in {EventType, AclType} /\ BytesReadNextSegment \in Nat
      /\ BytesReadNextSegment = HeaderSize(Type) - 1
      /\ Len(Packet) = BytesReadNextSegment /\ HeaderSize(Type) \in Nat
  BY HeaderSizes DEF InHeader, LastOfHeader, IInv, Assembly, AtHeader, TypeOK
<1>2. received \in Nat /\ BytesRemained \in 0..received /\ BytesRemained > 0
  BY BytesAhead DEF IInv, TypeOK, InHeader, Turn
<1>3. Byte \in Bytes
  BY <1>2, BytesAhead DEF IInv
<1>4. /\ Append(Packet, Byte) \in Seq(Bytes)
      /\ Len(Append(Packet, Byte)) = Len(Packet) + 1
  BY <1>3, AppendProperties DEF IInv, TypeOK
<1>. QED BY <1>1, <1>2, <1>4

LEMMA GetEmptyPacketKeeps == ASSUME IInv, GetEmptyPacket PROVE IInv'
<1>1. IInv /\ InHeader /\ LastOfHeader
  BY DEF GetEmptyPacket
<1>2. 1 \in 1..BytesRemained /\ BytesRemained' = BytesRemained - 1
  BY <1>1, HeaderComplete DEF GetEmptyPacket
<1>3. Len(Append(Packet, Byte)) >= HeaderSize(Type)
  BY <1>1, HeaderComplete
<1>. QED BY <1>1, <1>2, <1>3, HeaderComplete, CompleteKeeps DEF GetEmptyPacket, InHeader

LEMMA GetHeaderEndKeeps == ASSUME IInv, GetHeaderEnd PROVE IInv'
<1>1. IInv /\ InHeader /\ LastOfHeader
  BY DEF GetHeaderEnd
<1> DEFINE size == PayloadSize(Type, Packet')
<1>2. /\ Type \in {EventType, AclType} /\ Packet' \in Seq(Bytes)
      /\ Len(Packet') = HeaderSize(Type) /\ HeaderSize(Type) \in Nat
      /\ received \in Nat /\ BytesRemained \in 1..received
  BY <1>1, HeaderComplete DEF GetHeaderEnd
<1>3. size \in Nat /\ size # 0
  <2>1. size \in Nat
    BY <1>2, Payload
  <2>2. Packet' = Append(Packet, Byte) /\ PayloadSize(Type, Append(Packet, Byte)) # 0
    BY DEF GetHeaderEnd
  <2>. QED BY <2>1, <2>2
<1>4. BytesRemained' \in 0..received'
  BY <1>2 DEF GetHeaderEnd
<1>5. /\ BytesToRead4FullPacket' \in Nat
      /\ BytesRemained' = 0 => BytesToRead4FullPacket' = size - 0
  BY <1>2, <1>3, <1>4 DEF GetHeaderEnd, Missing, IInv, TypeOK
<1>6. TypeOK'
  BY <1>2, <1>4, <1>5 DEF GetHeaderEnd, InHeader, Turn, IInv, TypeOK, readLength
<1> HIDE DEF size
<1>7. AtPayload'
  <2>1. PayloadSize(Type', Packet') = size /\ BytesReadNextSegment' = 0 /\ Type' = Type
    BY DEF GetHeaderEnd, size
  <2>. QED BY <1>2, <1>3, <1>5, <2>1 DEF AtPayload
<1>8. AtType' /\ AtHeader'
  BY DEF GetHeaderEnd, AtType, AtHeader
<1>. QED BY <1>6, <1>7, <1>8 DEF GetHeaderEnd, InHeader, Turn, IInv, Assembly, ReadLengths

\* What is pending of a payload whose length was accepted.
LEMMA PayloadPending ==
    ASSUME IInv, InPayload, ~TooLong
    PROVE  /\ Type \in {EventType, AclType} /\ Packet \in Seq(Bytes)
           /\ Len(Packet) \in Nat /\ Len(Packet) = HeaderSize(Type) + BytesReadNextSegment
           /\ Len(Packet) >= HeaderSize(Type) /\ HeaderSize(Type) \in Nat
           /\ PayloadSize(Type, Packet) \in Nat /\ BytesReadNextSegment \in Nat
           /\ Pending \in Nat \ {0} /\ Pending = PayloadSize(Type, Packet) - BytesReadNextSegment
           /\ Type = AclType => PayloadSize(Type, Packet) <= MaxAclPayload
           /\ received \in Nat /\ BytesRemained \in 1..received
<1>1. /\ Type \in {EventType, AclType} /\ BytesReadNextSegment \in Nat
      /\ Len(Packet) = HeaderSize(Type) + BytesReadNextSegment
      /\ BytesReadNextSegment < PayloadSize(Type, Packet) /\ Packet \in Seq(Bytes)
  BY DEF InPayload, IInv, Assembly, AtPayload, TypeOK
<1>2. HeaderSize(Type) \in Nat /\ Len(Packet) >= HeaderSize(Type) /\ Len(Packet) \in Nat
  BY <1>1, HeaderSizes
<1>3. PayloadSize(Type, Packet) \in Nat
  BY <1>1, <1>2, Payload
<1>4. received \in Nat /\ BytesRemained \in 0..received /\ BytesRemained > 0
  BY BytesAhead DEF IInv, TypeOK, InPayload, Turn
<1>5. Type = AclType => PayloadSize(Type, Packet) <= MaxAclPayload
  <2>1. MaxAclPayload \in Nat
    BY MaxAclAssumption
  <2>2. ~(Type = AclType /\ PayloadSize(Type, Packet) > MaxAclPayload)
    BY Zenon DEF TooLong
  <2>. QED BY <1>3, <2>1, <2>2
<1>. QED BY <1>1, <1>2, <1>3, <1>4, <1>5 DEF Pending

LEMMA GetPayloadEndKeeps == ASSUME IInv, GetPayloadEnd PROVE IInv'
<1>1. IInv /\ InPayload /\ ~TooLong
  BY DEF GetPayloadEnd
<1>2. Pending \in 1..BytesRemained /\ Pending \in 0..BytesRemained
  BY <1>1, PayloadPending DEF GetPayloadEnd
<1>3. Ahead(Pending) \in Seq(Bytes) /\ Len(Ahead(Pending)) \in Nat
  BY <1>2, BytesAhead DEF IInv
<1>4. /\ Packet \o Ahead(Pending) \in Seq(Bytes)
      /\ Len(Packet \o Ahead(Pending)) = Len(Packet) + Len(Ahead(Pending))
  BY <1>1, <1>3, PayloadPending, ConcatProperties
<1>5. Len(Packet \o Ahead(Pending)) >= HeaderSize(Type)
  BY <1>1, <1>3, <1>4, PayloadPending
<1>6. Complete(Packet \o Ahead(Pending)) /\ BytesRemained' = BytesRemained - Pending
  BY DEF GetPayloadEnd
<1>. QED BY <1>1, <1>2, <1>4, <1>5, <1>6, PayloadPending, CompleteKeeps DEF GetPayloadEnd, InPayload

LEMMA GetPayloadPartKeeps == ASSUME IInv, GetPayloadPart PROVE IInv'
<1>1. IInv /\ InPayload /\ ~TooLong
  BY DEF GetPayloadPart
<1>2. BytesRemained \in 0..BytesRemained /\ BytesRemained \in Nat /\ BytesRemained < Pending
  BY <1>1, PayloadPending DEF GetPayloadPart
<1>3. Ahead(BytesRemained) \in Seq(Bytes) /\ Len(Ahead(BytesRemained)) = BytesRemained
  BY <1>2, BytesAhead DEF IInv
<1>4. Packet' \in Seq(Bytes) /\ Len(Packet') = Len(Packet) + BytesRemained
  BY <1>1, <1>3, PayloadPending, ConcatProperties DEF GetPayloadPart
<1>5. PayloadSize(Type', Packet') = PayloadSize(Type, Packet) /\ Type' = Type
  BY <1>1, <1>3, PayloadPending, PayloadOfPrefix DEF GetPayloadPart
<1>6. /\ BytesReadNextSegment' \in Nat
      /\ BytesReadNextSegment' < PayloadSize(Type, Packet)
      /\ BytesToRead4FullPacket' = PayloadSize(Type, Packet) - BytesReadNextSegment'
      /\ BytesToRead4FullPacket' \in Nat
      /\ Len(Packet') = HeaderSize(Type) + BytesReadNextSegment'
  <2> DEFINE size == PayloadSize(Type, Packet)
  <2>1. /\ size \in Nat /\ BytesReadNextSegment \in Nat /\ Pending = size - BytesReadNextSegment
        /\ Len(Packet) = HeaderSize(Type) + BytesReadNextSegment /\ HeaderSize(Type) \in Nat
    BY <1>1, PayloadPending
  <2>2. /\ BytesReadNextSegment' = BytesReadNextSegment + BytesRemained
        /\ BytesToRead4FullPacket' = size - BytesReadNextSegment'
    BY DEF GetPayloadPart
  <2> HIDE DEF size
  <2>3. /\ BytesReadNextSegment' \in Nat /\ BytesReadNextSegment' < size
        /\ size - BytesReadNextSegment' \in Nat
        /\ Len(Packet') = HeaderSize(Type) + BytesReadNextSegment'
    BY <1>2, <1>4, <2>1, <2>2
  <2>. QED BY <2>2, <2>3 DEF size
<1>7. BytesRemained' \in 0..received'
  BY <1>1, PayloadPending DEF GetPayloadPart
<1>8. TypeOK'
  BY <1>4, <1>6, <1>7 DEF GetPayloadPart, InPayload, Turn, IInv, TypeOK, readLength
<1>9. AtPayload'
  BY <1>1, <1>5, <1>6, PayloadPending DEF AtPayload
<1>10. AtType' /\ AtHeader'
  BY DEF GetPayloadPart, InPayload, AtType, AtHeader
<1>. QED BY <1>8, <1>9, <1>10 DEF GetPayloadPart, InPayload, Turn, IInv, Assembly, ReadLengths

LEMMA ReadNextKeeps == ASSUME IInv, ReadNext PROVE IInv'
<1>1. Assembly'
  BY DEF ReadNext, context, IInv, Assembly, AtType, AtHeader, AtPayload
<1>2. asked' = NextLength /\ UNCHANGED context /\ BytesRemained = 0
  BY DEF ReadNext
<1>3. /\ asked' \in Nat \ {0}
      /\ asked' <= IF ReadSegmentState = "GET_PKT_TYPE" THEN ShortestPacket
                   ELSE IF ReadSegmentState = "GET_PKT_HEADER" THEN HeaderSize(Type) - Len(Packet)
                   ELSE PayloadSize(Type, Packet) - BytesReadNextSegment
  <2>1. CASE ReadSegmentState = "GET_PKT_TYPE"
    BY <1>2, <2>1, HeaderSizes DEF NextLength, INITIAL_H4_READ_SIZE, ShortestPacket
  <2>2. CASE ReadSegmentState = "GET_PKT_HEADER"
    <3>1. /\ HeaderSize(Type) \in Nat /\ BytesReadNextSegment \in Nat
          /\ BytesReadNextSegment < HeaderSize(Type) /\ Len(Packet) = BytesReadNextSegment
          /\ BytesToRead4FullPacket = HeaderSize(Type) - BytesReadNextSegment
      BY <2>2, HeaderSizes DEF IInv, TypeOK, Assembly, AtHeader
    <3>. QED BY <1>2, <2>2, <3>1 DEF NextLength
  <2>3. CASE ReadSegmentState = "GET_PKT_PAYLOAD"
    <3>1. /\ Type \in {EventType, AclType} /\ Packet \in Seq(Bytes)
          /\ Len(Packet) = HeaderSize(Type) + BytesReadNextSegment
          /\ HeaderSize(Type) \in Nat /\ BytesReadNextSegment \in Nat
          /\ BytesReadNextSegment < PayloadSize(Type, Packet)
          /\ BytesToRead4FullPacket = PayloadSize(Type, Packet) - BytesReadNextSegment
      BY <1>2, <2>3, HeaderSizes DEF IInv, TypeOK, Assembly, AtPayload
    <3>2. PayloadSize(Type, Packet) \in Nat
      BY <3>1, Payload
    <3>. QED BY <1>2, <2>3, <3>1, <3>2 DEF NextLength
  <2>. QED BY <2>1, <2>2, <2>3 DEF IInv, TypeOK
<1>4. ReadLengths'
  BY <1>2, <1>3 DEF ReadNext, ReadLengths, StillMissing, context, IInv, TypeOK
<1>5. TypeOK'
  BY <1>3 DEF ReadNext, IInv, TypeOK, context
<1>. QED BY <1>1, <1>4, <1>5 DEF IInv

LEMMA ReadAgainKeeps == ASSUME IInv, ReadAgain PROVE IInv'
<1>1. Assembly'
  BY DEF ReadAgain, context, IInv, Assembly, AtType, AtHeader, AtPayload
<1>2. TypeOK'
  BY DEF ReadAgain, IInv, TypeOK, context
<1>. QED BY <1>1, <1>2 DEF IInv, ReadAgain, ReadLengths

LEMMA RestartKeeps == ASSUME IInv, Restart PROVE IInv'
<1>1. received' \in 0..Len(wire.bytes) /\ received' >= received /\ received \in Nat
  BY WireFacts DEF Restart, IInv, TypeOK
<1>2. BytesRemained = 0 /\ BytesRemained' = 0 /\ 0 \in 0..received'
  BY <1>1 DEF Restart, IInv, TypeOK
<1>3. asked' = 3
  BY HeaderSizes DEF Restart, INITIAL_H4_READ_SIZE
<1>4. posted' \in {"chosen", "again", "started"} /\ torn' \in BOOLEAN /\ dropped' \in BOOLEAN /\ reading' \in BOOLEAN
  BY Zenon DEF Restart, IInv, TypeOK
<1>5. TypeOK'
  BY <1>1, <1>2, <1>3, <1>4 DEF Restart, IInv, TypeOK, context
<1>6. Assembly'
  BY <1>2 DEF Restart, context, IInv, Assembly, AtType, AtHeader, AtPayload
<1>7. ReadLengths'
  <2>1. CASE ReadSegmentState = "GET_PKT_TYPE"
    <3>1. ReadSegmentState' = "GET_PKT_TYPE" /\ posted' = "chosen"
      BY <2>1 DEF Restart, context
    <3>. QED BY <1>3, <3>1 DEF ReadLengths, StillMissing, ShortestPacket
  <2>2. CASE ReadSegmentState # "GET_PKT_TYPE"
    <3>1. posted' = "started" /\ torn' /\ asked' = INITIAL_H4_READ_SIZE
      BY <2>2, Zenon DEF Restart
    <3>. QED BY <3>1 DEF ReadLengths
  <2>. QED BY <2>1, <2>2
<1>. QED BY <1>5, <1>6, <1>7 DEF IInv

LEMMA InvStep == IInv /\ [Next]_vars => IInv'
<1> SUFFICES ASSUME IInv, [Next]_vars PROVE IInv'
  OBVIOUS
<1>1. CASE Read
  BY <1>1, ReadKeeps
<1>2. CASE GetType
  BY <1>2, GetTypeKeeps
<1>3. CASE GetUnknownType
  BY <1>3, OutOfSyncKeeps DEF GetUnknownType
<1>4. CASE GetHeaderByte
  BY <1>4, GetHeaderByteKeeps
<1>5. CASE GetEmptyPacket
  BY <1>5, GetEmptyPacketKeeps
<1>6. CASE GetHeaderEnd
  BY <1>6, GetHeaderEndKeeps
<1>7. CASE GetBadLength
  BY <1>7, OutOfSyncKeeps DEF GetBadLength, InPayload
<1>8. CASE GetPayloadEnd
  BY <1>8, GetPayloadEndKeeps
<1>9. CASE GetPayloadPart
  BY <1>9, GetPayloadPartKeeps
<1>10. CASE ReadNext
  BY <1>10, ReadNextKeeps
<1>11. CASE ReadAgain
  BY <1>11, ReadAgainKeeps
<1>12. CASE Restart
  BY <1>12, RestartKeeps
<1>13. CASE UNCHANGED vars
  <2>1. TypeOK'
    BY <1>13 DEF IInv, TypeOK, vars, context, readLength
  <2>2. Assembly'
    BY <1>13 DEF IInv, Assembly, AtType, AtHeader, AtPayload, vars, context
  <2>. QED BY <1>13, <2>1, <2>2 DEF IInv, ReadLengths, StillMissing, vars, context, readLength
<1>. QED BY <1>1, <1>2, <1>3, <1>4, <1>5, <1>6, <1>7, <1>8, <1>9, <1>10, <1>11, <1>12, <1>13
     DEF Next, Reassemble, Silent

LEMMA Invariant == Spec => []IInv
BY InvInit, InvStep, PTL DEF Spec

\* The range of every variable, for any stream the controller may send.
THEOREM TypeCorrect == Spec => []TypeOK
<1>1. IInv => TypeOK
  BY DEF IInv
<1>. QED BY <1>1, Invariant, PTL

\* For every stream and every cut: a read that asks for more than is missing was posted again by
\* the loop with the length of another one, or posted by a restart in the middle of a packet.
THEOREM LongReadsArePostedAgain == Spec => []LongReadsNotChosen
<1>1. ASSUME IInv PROVE LongReadsNotChosen
  <2>1. asked \in Nat /\ posted \in {"chosen", "again", "started"}
    BY <1>1 DEF IInv, TypeOK
  <2>2. CASE posted = "chosen"
    <3> SUFFICES ASSUME reading PROVE ~(asked > StillMissing)
      BY DEF LongReadsNotChosen
    <3>1. asked <= StillMissing
      BY <1>1, <2>2 DEF IInv, ReadLengths
    <3>2. StillMissing \in Int
      BY <1>1, MissingIsInt DEF IInv
    <3>. QED BY <2>1, <3>1, <3>2
  <2>3. CASE posted = "started"
    BY <1>1, <2>3 DEF IInv, ReadLengths, LongReadsNotChosen
  <2>4. CASE posted = "again"
    BY <2>4 DEF LongReadsNotChosen
  <2>. QED BY <2>1, <2>2, <2>3, <2>4
<1>. QED BY <1>1, Invariant, PTL

\* The packet under assembly always has room in the H4_PACKET, with its length checked
\* only when the payload is reached.
THEOREM PacketHasRoom == Spec => []PacketFits
<1>1. ASSUME IInv PROVE PacketFits
  <2>1. /\ ReadSegmentState \in {"GET_PKT_TYPE", "GET_PKT_HEADER", "GET_PKT_PAYLOAD"}
        /\ Packet \in Seq(Bytes) /\ BytesReadNextSegment \in Nat
    BY <1>1 DEF IInv, TypeOK
  <2>2. MaxAclPayload \in Nat
    BY MaxAclAssumption
  <2>3. CASE ReadSegmentState = "GET_PKT_TYPE"
    <3>1. Type = 0 /\ Len(Packet) = 0
      BY <1>1, <2>3, EmptySeq DEF IInv, Assembly, AtType
    <3>. QED BY <2>2, <3>1, HeaderSizes DEF PacketFits
  <2>4. CASE ReadSegmentState = "GET_PKT_HEADER"
    <3>1. /\ Type \in {EventType, AclType} /\ Len(Packet) = BytesReadNextSegment
          /\ BytesReadNextSegment < HeaderSize(Type) /\ HeaderSize(Type) \in Nat
      BY <1>1, <2>4, HeaderSizes DEF IInv, Assembly, AtHeader
    <3>. QED BY <2>1, <2>2, <3>1 DEF PacketFits
  <2>5. CASE ReadSegmentState = "GET_PKT_PAYLOAD"
    <3> DEFINE size == PayloadSize(Type, Packet)
    <3>1. /\ Type \in {EventType, AclType} /\ HeaderSize(Type) \in Nat
          /\ Len(Packet) = HeaderSize(Type) + BytesReadNextSegment
          /\ BytesReadNextSegment < size
          /\ Type = AclType /\ BytesReadNextSegment # 0 => size <= MaxAclPayload
      BY <1>1, <2>5, HeaderSizes DEF IInv, Assembly, AtPayload
    <3>2. size \in Nat /\ (Type = EventType => size <= 255)
      BY <2>1, <3>1, Payload
    <3> HIDE DEF size
    <3>. QED BY <2>1, <2>2, <3>1, <3>2 DEF PacketFits
  <2>. QED BY <2>1, <2>3, <2>4, <2>5
<1>. QED BY <1>1, Invariant, PTL

\* A length that was chosen fits the buffer, but behind an ACL header announcing too much.
LEMMA ChosenFits ==
    IInv /\ reading /\ posted = "chosen" => HeldByBuffer(asked) \/ BehindTooLongHeader
<1> SUFFICES ASSUME IInv, asked <= StillMissing
             PROVE  HeldByBuffer(asked) \/ BehindTooLongHeader
  BY DEF IInv, ReadLengths
<1>1. /\ ReadSegmentState \in {"GET_PKT_TYPE", "GET_PKT_HEADER", "GET_PKT_PAYLOAD"}
      /\ Packet \in Seq(Bytes) /\ BytesReadNextSegment \in Nat /\ asked \in Nat
  BY DEF IInv, TypeOK
<1>2. ReadBufferSize \in Nat /\ ReadBufferSize >= 5 /\ MaxAclPayload \in Nat
      /\ ReadBufferSize >= MaxAclPayload
  BY BufferSize
<1>3. CASE ReadSegmentState = "GET_PKT_TYPE"
  BY <1>1, <1>2, <1>3 DEF StillMissing, ShortestPacket, HeldByBuffer
<1>4. CASE ReadSegmentState = "GET_PKT_HEADER"
  <2>1. /\ Len(Packet) = BytesReadNextSegment /\ HeaderSize(Type) \in 0..4
        /\ asked <= HeaderSize(Type) - Len(Packet)
    BY <1>4, HeaderSizes DEF IInv, Assembly, AtHeader, StillMissing
  <2>. QED BY <1>1, <1>2, <2>1 DEF HeldByBuffer
<1>5. CASE ReadSegmentState = "GET_PKT_PAYLOAD"
  <2> DEFINE size == PayloadSize(Type, Packet)
  <2>1. /\ Type \in {EventType, AclType} /\ HeaderSize(Type) \in Nat
        /\ Len(Packet) = HeaderSize(Type) + BytesReadNextSegment
        /\ Type = AclType /\ BytesReadNextSegment # 0 => size <= MaxAclPayload
        /\ asked <= size - BytesReadNextSegment
    BY <1>5, HeaderSizes DEF IInv, Assembly, AtPayload, StillMissing
  <2>2. size \in Nat /\ (Type = EventType => size <= 255)
    BY <1>1, <2>1, Payload
  <2> HIDE DEF size
  <2>3. \/ asked <= ReadBufferSize \/ asked <= 255
        \/ BytesReadNextSegment = 0 /\ Type = AclType /\ size > MaxAclPayload
    BY <1>1, <1>2, <2>1, <2>2
  <2>. QED BY <1>5, <2>3, Zenon DEF size, HeldByBuffer, BehindTooLongHeader
<1>. QED BY <1>1, <1>3, <1>4, <1>5

LEMMA ChosenFitsNext ==
    (IInv /\ reading /\ posted = "chosen" => HeldByBuffer(asked) \/ BehindTooLongHeader)'
BY ChosenFits, PTL

\* Where an oversized length can still be in use: until the header that announced it has
\* been refused, and after something was dropped.
LongLengths ==
    ~HeldByBuffer(asked) =>
        \/ dropped
        \/ BehindTooLongHeader /\ (reading \/ BytesRemained > 0)

LEMMA LongLengthsStep == IInv /\ IInv' /\ LongLengths /\ [Next]_vars => LongLengths'
<1> SUFFICES ASSUME IInv, IInv', LongLengths, [Next]_vars, ~HeldByBuffer(asked')
             PROVE  \/ dropped'
                    \/ BehindTooLongHeader' /\ (reading' \/ BytesRemained' > 0)
  BY DEF LongLengths, HeldByBuffer
<1>1. CASE Read
  <2>1. BytesRemained' > 0
    BY <1>1 DEF Read, IInv, TypeOK
  <2>. QED BY <1>1, <2>1 DEF Read, readLength, context, LongLengths, BehindTooLongHeader
<1>2. CASE GetType \/ GetHeaderByte \/ GetEmptyPacket \/ GetHeaderEnd
  <2>1. ReadSegmentState # "GET_PKT_PAYLOAD" /\ asked' = asked /\ dropped' = dropped
    BY <1>2 DEF GetType, GetHeaderByte, GetEmptyPacket, GetHeaderEnd, InHeader, readLength
  <2>. QED BY <2>1 DEF LongLengths, BehindTooLongHeader
<1>3. CASE GetUnknownType \/ GetBadLength
  BY <1>3 DEF GetUnknownType, GetBadLength, OutOfSync
<1>4. CASE GetPayloadEnd \/ GetPayloadPart
  <2>1. ~BehindTooLongHeader /\ asked' = asked /\ dropped' = dropped
    BY <1>4, Zenon DEF GetPayloadEnd, GetPayloadPart, TooLong, BehindTooLongHeader, readLength
  <2>. QED BY <2>1 DEF LongLengths
<1>5. CASE ReadNext
  <2>1. reading' /\ posted' = "chosen"
    BY <1>5 DEF ReadNext
  <2>2. HeldByBuffer(asked)' \/ BehindTooLongHeader'
    BY <2>1, ChosenFitsNext
  <2>. QED BY <2>1, <2>2 DEF HeldByBuffer
<1>6. CASE ReadAgain
  BY <1>6 DEF ReadAgain, LongLengths
<1>7. CASE Restart
  <2>1. asked' = 3
    BY <1>7, HeaderSizes DEF Restart, INITIAL_H4_READ_SIZE
  <2>. QED BY <2>1, BufferSize DEF HeldByBuffer
<1>8. CASE UNCHANGED vars
  BY <1>8 DEF vars, readLength, context, LongLengths, BehindTooLongHeader
<1>. QED BY <1>1, <1>2, <1>3, <1>4, <1>5, <1>6, <1>7, <1>8 DEF Next, Reassemble, Silent

\* For every stream and every maximum: a read longer than ReadBuffer lies behind an ACL header
\* that announces more than the maximum, or was posted again by the loop after a loss of sync.
THEOREM BufferHoldsRead == Spec => []ReadFitsBuffer
<1>1. Init => LongLengths
  <2>1. Init => asked = 3
    BY HeaderSizes DEF Init, INITIAL_H4_READ_SIZE
  <2>. QED BY <2>1, BufferSize DEF LongLengths, HeldByBuffer
<1>2. ASSUME IInv, LongLengths PROVE ReadFitsBuffer
  <2> SUFFICES ASSUME reading, ~HeldByBuffer(asked), ~BehindTooLongHeader
               PROVE  posted = "again" /\ dropped
    BY DEF ReadFitsBuffer
  <2>1. posted # "chosen"
    BY <1>2, ChosenFits
  <2>2. posted # "started"
    <3>1. posted = "started" => asked = 3
      BY <1>2, HeaderSizes DEF IInv, ReadLengths, INITIAL_H4_READ_SIZE
    <3>. QED BY <3>1, BufferSize DEF HeldByBuffer
  <2>. QED BY <1>2, <2>1, <2>2 DEF IInv, TypeOK, LongLengths
<1>. QED BY <1>1, <1>2, Invariant, InvStep, LongLengthsStep, PTL DEF Spec

-----------------------------------------------------------------------------
(* Where the packet under assembly lies on the wire.                       *)

\* The end of the last packet, and where the type of the current one lies.
LastEnd == IF completed = <<>> THEN 0 ELSE completed[Len(completed)].end
First   == Consumed - Len(Packet)

\* Between two packets nothing lies as long as nothing was dropped, and there the
\* controller starts the next one.
BetweenPackets ==
    ReadSegmentState = "GET_PKT_TYPE" =>
        /\ LastEnd <= Consumed
        /\ ~dropped => Consumed = LastEnd /\ Consumed \in wire.starts \cup {Len(wire.bytes)}

\* What is collected is what lies behind the type, whose own place is behind the last packet.
InsidePacket ==
    ReadSegmentState # "GET_PKT_TYPE" =>
        /\ First >= 1 /\ LastEnd < First
        /\ Type = wire.bytes[First]
        /\ \A i \in 1..Len(Packet) : Packet[i] = wire.bytes[First + i]
        /\ ~dropped => First = LastEnd + 1 /\ LastEnd \in wire.starts

OnWire == ~torn => LastEnd \in Nat /\ BetweenPackets /\ InsidePacket

WInv == IInv /\ OnWire /\ PacketsAreRunsOfTheWire

LEMMA WireInit == Init => OnWire /\ PacketsAreRunsOfTheWire
<1> SUFFICES ASSUME Init PROVE OnWire /\ PacketsAreRunsOfTheWire
  OBVIOUS
<1>1. 0 \in wire.starts
  BY WireFacts DEF Init
<1>2. LastEnd = 0 /\ Consumed = 0 /\ Len(completed) = 0
  BY EmptySeq DEF Init, LastEnd, Consumed
<1>3. OnWire
  BY <1>1, <1>2 DEF Init, OnWire, BetweenPackets, InsidePacket
<1>4. PacketsAreRunsOfTheWire
  BY <1>2 DEF PacketsAreRunsOfTheWire
<1>. QED BY <1>3, <1>4

\* A step that completes nothing leaves the packets that are complete as they are.
LEMMA NothingCompleted ==
    ASSUME PacketsAreRunsOfTheWire, wire' = wire, completed' = completed,
           dropped => dropped'
    PROVE  PacketsAreRunsOfTheWire' /\ LastEnd' = LastEnd
BY DEF PacketsAreRunsOfTheWire, IsRunOfTheWire, FirstOf, LastEnd

\* One more byte, or n, of the packet under assembly.
LEMMA Extended ==
    ASSUME TypeOK, NEW n \in 1..BytesRemained, NEW packet, Len(Packet) \in Nat,
           Len(packet) = Len(Packet) + n,
           \A i \in 1..Len(Packet) : packet[i] = Packet[i],
           \A i \in 1..n : packet[Len(Packet) + i] = wire.bytes[Consumed + i],
           \A i \in 1..Len(Packet) : Packet[i] = wire.bytes[First + i]
    PROVE  \A i \in 1..Len(packet) : packet[i] = wire.bytes[First + i]
<1>1. /\ Consumed \in Nat /\ BytesRemained \in Nat
  BY BytesAhead DEF TypeOK
<1>2. n \in Nat
  BY <1>1
<1> SUFFICES ASSUME NEW i \in 1..Len(packet) PROVE packet[i] = wire.bytes[First + i]
  OBVIOUS
<1>3. CASE i <= Len(Packet)
  BY <1>2, <1>3
<1>4. CASE i > Len(Packet)
  <2> DEFINE j == i - Len(Packet)
  <2>1. j \in 1..n /\ Len(Packet) + j = i /\ Consumed + j = First + i
    BY <1>1, <1>2, <1>4 DEF First
  <2>. QED BY <2>1
<1>. QED BY <1>3, <1>4

LEMMA ExtendedByByte ==
    ASSUME TypeOK, BytesRemained > 0,
           \A i \in 1..Len(Packet) : Packet[i] = wire.bytes[First + i]
    PROVE  \A i \in 1..Len(Append(Packet, Byte)) : Append(Packet, Byte)[i] = wire.bytes[First + i]
<1>1. Packet \in Seq(Bytes) /\ Byte \in Bytes /\ Len(Packet) \in Nat
  BY BytesAhead, LenProperties DEF TypeOK
<1>2. /\ Len(Append(Packet, Byte)) = Len(Packet) + 1
      /\ \A i \in 1..Len(Packet) : Append(Packet, Byte)[i] = Packet[i]
      /\ Append(Packet, Byte)[Len(Packet) + 1] = Byte
  BY <1>1, AppendProperties
<1>3. 1 \in 1..BytesRemained
  BY DEF TypeOK
<1>4. \A i \in 1..1 : Append(Packet, Byte)[Len(Packet) + i] = wire.bytes[Consumed + i]
  BY <1>2 DEF Byte
<1> DEFINE packet == Append(Packet, Byte)
<1> HIDE DEF packet
<1>5. /\ Len(packet) = Len(Packet) + 1
      /\ \A i \in 1..Len(Packet) : packet[i] = Packet[i]
      /\ \A i \in 1..1 : packet[Len(Packet) + i] = wire.bytes[Consumed + i]
  BY <1>2, <1>4 DEF packet
<1>6. \A i \in 1..Len(packet) : packet[i] = wire.bytes[First + i]
  BY <1>1, <1>3, <1>5, Extended
<1>. QED BY <1>6 DEF packet

LEMMA ExtendedByRun ==
    ASSUME TypeOK, NEW n \in 1..BytesRemained,
           \A i \in 1..Len(Packet) : Packet[i] = wire.bytes[First + i]
    PROVE  /\ Len(Packet \o Ahead(n)) = Len(Packet) + n
           /\ \A i \in 1..Len(Packet \o Ahead(n)) : (Packet \o Ahead(n))[i] = wire.bytes[First + i]
<1>1. Packet \in Seq(Bytes) /\ Len(Packet) \in Nat /\ BytesRemained \in Nat
  BY LenProperties DEF TypeOK
<1>2. n \in 0..BytesRemained /\ n \in Nat
  BY <1>1
<1>3. Ahead(n) \in Seq(Bytes) /\ Len(Ahead(n)) = n
  BY <1>2, BytesAhead
<1>4. /\ Len(Packet \o Ahead(n)) = Len(Packet) + n
      /\ \A i \in 1..Len(Packet) + n :
            (Packet \o Ahead(n))[i] = IF i <= Len(Packet) THEN Packet[i] ELSE Ahead(n)[i - Len(Packet)]
  <2> DEFINE run == Ahead(n)
  <2>1. run \in Seq(Bytes) /\ Len(run) = n
    BY <1>3
  <2> HIDE DEF run
  <2>2. /\ Len(Packet \o run) = Len(Packet) + Len(run)
        /\ \A i \in 1..Len(Packet) + Len(run) :
              (Packet \o run)[i] = IF i <= Len(Packet) THEN Packet[i] ELSE run[i - Len(Packet)]
    BY <1>1, <2>1, ConcatProperties
  <2>3. /\ Len(Packet \o run) = Len(Packet) + n
        /\ \A i \in 1..Len(Packet) + n :
              (Packet \o run)[i] = IF i <= Len(Packet) THEN Packet[i] ELSE run[i - Len(Packet)]
    BY <2>1, <2>2
  <2>. QED BY <2>3 DEF run
<1>5. \A i \in 1..n : Ahead(n)[i] = wire.bytes[Consumed + i]
  <2>1. /\ wire.bytes \in Seq(Bytes) /\ Consumed \in Nat
        /\ Consumed + n <= Len(wire.bytes)
    BY <1>1, <1>2, BytesAhead, WireFacts DEF TypeOK
  <2>. QED BY <1>2, <2>1, RunOf DEF Ahead
<1>6. \A i \in 1..Len(Packet) : (Packet \o Ahead(n))[i] = Packet[i]
  BY <1>1, <1>2, <1>4
<1>7. ASSUME NEW i \in 1..n
      PROVE  (Packet \o Ahead(n))[Len(Packet) + i] = wire.bytes[Consumed + i]
  <2>1. /\ Len(Packet) + i \in 1..Len(Packet) + n /\ ~(Len(Packet) + i <= Len(Packet))
        /\ Len(Packet) + i - Len(Packet) = i
    BY <1>1, <1>2
  <2>. QED BY <1>4, <1>5, <2>1
<1> DEFINE packet == Packet \o Ahead(n)
<1> HIDE DEF packet
<1>8. /\ Len(packet) = Len(Packet) + n
      /\ \A i \in 1..Len(Packet) : packet[i] = Packet[i]
      /\ \A i \in 1..n : packet[Len(Packet) + i] = wire.bytes[Consumed + i]
  BY <1>4, <1>6, <1>7 DEF packet
<1>9. \A i \in 1..Len(packet) : packet[i] = wire.bytes[First + i]
  BY <1>1, <1>8, Extended
<1>. QED BY <1>4, <1>9 DEF packet

\* The size that a run of the wire announces is the size of the packet that equals it.
LEMMA SameHeader ==
    ASSUME NEW type \in {EventType, AclType}, NEW p \in Seq(Bytes), NEW q \in Seq(Bytes),
           Len(p) >= HeaderSize(type), Len(q) >= HeaderSize(type),
           \A i \in 1..HeaderSize(type) : p[i] = q[i]
    PROVE  PayloadSize(type, p) = PayloadSize(type, q)
<1>1. CASE type = EventType
  <2>1. 2 \in 1..HeaderSize(type)
    BY <1>1, HeaderSizes
  <2>. QED BY <1>1, <2>1 DEF PayloadSize
<1>2. CASE type = AclType
  <2>1. 3 \in 1..HeaderSize(type) /\ 4 \in 1..HeaderSize(type)
    BY <1>2, HeaderSizes
  <2>2. type # EventType
    BY <1>2 DEF AclType, EventType
  <2>. QED BY <2>1, <2>2 DEF PayloadSize
<1>. QED BY <1>1, <1>2

\* Behind a packet that keeps to the format the controller starts the next one.
LEMMA NextStart ==
    ASSUME NEW w \in Wires, NEW f \in Nat \ {0}, f - 1 \in w.starts,
           NEW type \in {EventType, AclType}, type = w.bytes[f],
           NEW packet \in Seq(Bytes), f + Len(packet) <= Len(w.bytes),
           \A i \in 1..Len(packet) : packet[i] = w.bytes[f + i],
           Len(packet) = HeaderSize(type) + PayloadSize(type, packet),
           PayloadSize(type, packet) \in Nat,
           type = AclType => PayloadSize(type, packet) <= MaxAclPayload
    PROVE  f + Len(packet) \in w.starts \cup {Len(w.bytes)}
<1> DEFINE s     == f - 1
           n     == HeaderSize(type)
           size  == PayloadSize(type, packet)
           bytes == w.bytes
<1>1. /\ bytes \in Seq(Bytes) /\ Len(bytes) \in Nat /\ Follows(w)
      /\ n \in Nat /\ Len(packet) \in Nat /\ s \in Nat /\ s + 1 = f
  BY WireFacts, HeaderSizes, LenProperties
<1>2. HeaderEnd(bytes, s) = f + n
  BY <1>1 DEF HeaderEnd
<1>3. f + n <= Len(bytes) /\ f <= Len(bytes) /\ f \in Nat
  BY <1>1
<1>4. /\ SubSeq(bytes, f + 1, f + n) \in Seq(Bytes)
      /\ Len(SubSeq(bytes, f + 1, f + n)) = n
      /\ \A i \in 1..n : SubSeq(bytes, f + 1, f + n)[i] = bytes[f + i]
  <2> HIDE DEF n, bytes
  <2>. QED BY <1>1, <1>3, RunOf
<1>5. Len(packet) >= n /\ n >= n /\ \A i \in 1..n : i \in 1..Len(packet)
  BY <1>1
<1>6. \A i \in 1..n : SubSeq(bytes, f + 1, f + n)[i] = packet[i]
  BY <1>4, <1>5
<1>7. PayloadSize(type, SubSeq(bytes, f + 1, f + n)) = size
  BY <1>4, <1>5, <1>6, SameHeader
<1>8. s + 2 = f + 1
  BY <1>1
<1>9. PacketEnd(bytes, s) = f + n + size
  BY <1>1, <1>2, <1>7, <1>8 DEF PacketEnd
<1>10. f + n + size = f + Len(packet) /\ (f + n + size) - (f + n) = size
  BY <1>1
<1>11. PacketAt(bytes, s)
  BY <1>1, <1>2, <1>3, <1>9, <1>10 DEF PacketAt
<1>12. PacketEnd(bytes, s) \in w.starts \cup {Len(bytes)}
  BY <1>1, <1>11 DEF Follows
<1>. QED BY <1>9, <1>10, <1>12

\* The packet just completed is the run behind its type.
LEMMA CompletedIsRun ==
    ASSUME NEW c, NEW f \in Nat \ {0}, NEW w \in Wires,
           c.packet \in Seq(Bytes), c.end = f + Len(c.packet), c.end <= Len(w.bytes),
           c.length = Len(c.packet), c.type = w.bytes[f],
           c.length = HeaderSize(c.type) + PayloadSize(c.type, c.packet),
           \A i \in 1..Len(c.packet) : c.packet[i] = w.bytes[f + i]
    PROVE  /\ FirstOf(c) = f
           /\ c.packet = SubSeq(w.bytes, f + 1, c.end)
<1> DEFINE n == Len(c.packet)
<1>1. w.bytes \in Seq(Bytes) /\ n \in Nat /\ f \in Nat /\ f + n <= Len(w.bytes)
  BY WireFacts, LenProperties
<1>2. FirstOf(c) = f
  BY <1>1 DEF FirstOf
<1>3. /\ SubSeq(w.bytes, f + 1, f + n) \in Seq(Bytes)
      /\ Len(SubSeq(w.bytes, f + 1, f + n)) = n
      /\ \A i \in 1..n : SubSeq(w.bytes, f + 1, f + n)[i] = w.bytes[f + i]
  BY <1>1, RunOf
<1>4. c.packet = SubSeq(w.bytes, f + 1, f + n)
  BY <1>3, SeqEqual
<1>. QED BY <1>2, <1>4

\* What completing the packet under assembly, with its last n bytes, leaves behind.
LEMMA CompletionRuns ==
    ASSUME WInv, Turn, ReadSegmentState # "GET_PKT_TYPE",
           Type \in {EventType, AclType},
           NEW n \in 1..BytesRemained, BytesRemained' = BytesRemained - n,
           NEW packet \in Seq(Bytes), Len(packet) = Len(Packet) + n,
           ~torn => \A i \in 1..Len(packet) : packet[i] = wire.bytes[First + i],
           Len(packet) = HeaderSize(Type) + PayloadSize(Type, packet),
           PayloadSize(Type, packet) \in Nat,
           Type = AclType => PayloadSize(Type, packet) <= MaxAclPayload,
           Complete(packet),
           UNCHANGED <<wire, received, reading, readLength, dropped, torn>>
    PROVE  OnWire' /\ PacketsAreRunsOfTheWire'
<1> DEFINE c == [type |-> Type, packet |-> packet,
                 length |-> HeaderSize(Type) + PayloadSize(Type, packet),
                 end |-> received - BytesRemained', torn |-> torn]
           last == Len(completed)
           Rec == [type : {EventType, AclType}, packet : Seq(Bytes), length : Nat,
                   end : Nat, torn : BOOLEAN]
<1>1. /\ completed \in Seq(Rec) /\ last \in Nat /\ wire \in Wires /\ torn \in BOOLEAN
      /\ Consumed \in Nat /\ Consumed + BytesRemained <= Len(wire.bytes)
      /\ Len(wire.bytes) \in Nat /\ received \in Nat /\ BytesRemained \in Nat
      /\ Len(Packet) \in Nat
  BY BytesAhead, LenProperties DEF WInv, IInv, TypeOK
<1>2. /\ c.end = Consumed + n /\ c.end \in Nat /\ Consumed' = Consumed + n
      /\ Consumed' <= Len(wire.bytes)
  BY <1>1 DEF Consumed
<1>3. c \in Rec
  BY <1>1, <1>2, HeaderSizes, LenProperties
<1>4. completed' = Append(completed, c) /\ SetTypeState
  BY DEF Complete
<1> HIDE DEF Rec
<1>5. /\ Len(completed') = last + 1 /\ completed'[last + 1] = c /\ completed' # <<>>
      /\ \A i \in 1..last : completed'[i] = completed[i]
  BY <1>1, <1>3, <1>4, AppendProperties
<1>6. LastEnd' = Consumed'
  BY <1>2, <1>5 DEF LastEnd
<1>7. ASSUME ~torn
      PROVE  /\ First \in Nat \ {0} /\ LastEnd < First
             /\ FirstOf(c) = First /\ IsRunOfTheWire(c)
             /\ ~dropped => First = LastEnd + 1 /\ LastEnd \in wire.starts
             /\ Consumed' = First + Len(packet)
  <2>1. /\ LastEnd \in Nat /\ First >= 1 /\ LastEnd < First /\ Type = wire.bytes[First]
        /\ ~dropped => First = LastEnd + 1 /\ LastEnd \in wire.starts
    BY <1>7 DEF WInv, OnWire, InsidePacket
  <2>2. First \in Nat \ {0} /\ Consumed' = First + Len(packet)
    <3>1. First \in Int /\ First + Len(Packet) = Consumed
      BY <1>1 DEF First
    <3>2. n \in Nat /\ First \in Nat \ {0}
      BY <1>1, <2>1, <3>1
    <3>. QED BY <1>1, <1>2, <3>1, <3>2
  <2>3. FirstOf(c) = First /\ c.packet = SubSeq(wire.bytes, First + 1, c.end)
    <3>1. /\ c.packet = packet /\ c.type = Type /\ c.length = Len(packet)
          /\ c.end = First + Len(packet) /\ c.end <= Len(wire.bytes)
      BY <1>2, <2>2
    <3>2. \A i \in 1..Len(packet) : packet[i] = wire.bytes[First + i]
      BY <1>7
    <3> HIDE DEF c
    <3>. QED BY <1>1, <2>1, <2>2, <3>1, <3>2, CompletedIsRun
  <2>4. IsRunOfTheWire(c)
    BY <2>1, <2>2, <2>3 DEF IsRunOfTheWire
  <2>. QED BY <2>1, <2>2, <2>3, <2>4
<1>8. PacketsAreRunsOfTheWire'
  <2> SUFFICES ASSUME NEW i \in 1..last + 1, ~completed'[i].torn
               PROVE  LET before == IF i = 1 THEN 0 ELSE completed'[i - 1].end
                      IN  /\ IsRunOfTheWire(completed'[i])
                          /\ FirstOf(completed'[i]) > before
                          /\ ~dropped => FirstOf(completed'[i]) = before + 1
    BY <1>5 DEF PacketsAreRunsOfTheWire, IsRunOfTheWire
  <2>1. CASE i \in 1..last
    <3>1. completed'[i] = completed[i] /\ (i # 1 => completed'[i - 1] = completed[i - 1])
      <4>1. last \in Nat /\ \A j \in 1..last : completed'[j] = completed[j]
        BY <1>1, <1>5
      <4> HIDE DEF last, c
      <4>2. i # 1 => i - 1 \in 1..last
        BY <2>1, <4>1
      <4>. QED BY <2>1, <4>1, <4>2
    <3>. QED BY <2>1, <3>1 DEF WInv, PacketsAreRunsOfTheWire
  <2>2. CASE i = last + 1
    <3>1. completed'[i] = c /\ ~torn
      BY <1>5, <2>2
    <3>2. (IF i = 1 THEN 0 ELSE completed'[i - 1].end) = LastEnd
      <4>1. CASE last = 0
        BY <1>1, <2>2, <4>1, EmptySeq DEF LastEnd
      <4>2. CASE last # 0
        <5>1. completed # <<>>
          BY <4>2, EmptySeq
        <5>2. i # 1 /\ i - 1 = last /\ last \in 1..last
          BY <1>1, <2>2, <4>2
        <5>. QED BY <1>5, <5>1, <5>2 DEF LastEnd
      <4>. QED BY <4>1, <4>2
    <3> HIDE DEF c
    <3>. QED BY <1>7, <3>1, <3>2
  <2>. QED BY <1>1, <2>1, <2>2
<1>9. OnWire'
  <2> SUFFICES ASSUME ~torn
               PROVE  LastEnd' \in Nat /\ BetweenPackets' /\ InsidePacket'
    BY DEF OnWire
  <2>1. LastEnd' \in Nat /\ InsidePacket'
    BY <1>2, <1>4, <1>6 DEF SetTypeState, InsidePacket
  <2>2. ~dropped => Consumed' \in wire.starts \cup {Len(wire.bytes)}
    <3> SUFFICES ASSUME ~dropped PROVE Consumed' \in wire.starts \cup {Len(wire.bytes)}
      OBVIOUS
    <3>1. /\ First \in Nat \ {0} /\ First - 1 \in wire.starts
          /\ Consumed' = First + Len(packet) /\ Type = wire.bytes[First]
      <4>1. LastEnd \in Nat /\ Type = wire.bytes[First]
        BY DEF WInv, OnWire, InsidePacket
      <4>. QED BY <1>7, <4>1
    <3>2. \A i \in 1..Len(packet) : packet[i] = wire.bytes[First + i]
      OBVIOUS
    <3>3. First + Len(packet) <= Len(wire.bytes)
      BY <1>2, <3>1
    <3>4. First + Len(packet) \in wire.starts \cup {Len(wire.bytes)}
      BY <1>1, <3>1, <3>2, <3>3, NextStart
    <3>. QED BY <3>1, <3>4
  <2>. QED BY <1>2, <1>6, <2>1, <2>2 DEF BetweenPackets
<1>. QED BY <1>8, <1>9

\* The packet under assembly grows by bytes that follow it, or begins with its type.
LEMMA AssemblyOnWire ==
    ASSUME WInv, UNCHANGED <<wire, received, completed, dropped, torn>>,
           ReadSegmentState' # "GET_PKT_TYPE", First' = First, Type' = Type,
           ReadSegmentState # "GET_PKT_TYPE",
           ~torn => \A i \in 1..Len(Packet') : Packet'[i] = wire.bytes[First + i]
    PROVE  OnWire' /\ PacketsAreRunsOfTheWire'
<1>1. PacketsAreRunsOfTheWire' /\ LastEnd' = LastEnd
  BY NothingCompleted DEF WInv
<1>2. OnWire'
  BY <1>1 DEF WInv, OnWire, BetweenPackets, InsidePacket
<1>. QED BY <1>1, <1>2

LEMMA GetTypeRuns == ASSUME WInv, GetType PROVE OnWire' /\ PacketsAreRunsOfTheWire'
<1>1. PacketsAreRunsOfTheWire' /\ LastEnd' = LastEnd
  BY NothingCompleted DEF WInv, GetType
<1>2. /\ Consumed \in Nat /\ received \in Nat /\ BytesRemained \in Nat /\ BytesRemained > 0
      /\ Consumed + BytesRemained <= Len(wire.bytes) /\ Len(wire.bytes) \in Nat
  BY BytesAhead DEF WInv, IInv, TypeOK, GetType, Turn
<1>3. Packet' = <<>> /\ Len(Packet') = 0
  BY EmptySeq DEF WInv, IInv, Assembly, AtType, GetType
<1>4. First' = Consumed + 1
  BY <1>2, <1>3 DEF First, Consumed, GetType
<1>5. /\ ReadSegmentState' # "GET_PKT_TYPE" /\ Type' = wire.bytes[Consumed + 1]
      /\ UNCHANGED <<wire, dropped, torn>>
  BY DEF GetType, Byte
<1>6. ASSUME ~torn
      PROVE  /\ LastEnd \in Nat /\ LastEnd <= Consumed
             /\ ~dropped => Consumed = LastEnd /\ Consumed \in wire.starts \cup {Len(wire.bytes)}
  BY <1>6 DEF WInv, OnWire, BetweenPackets, GetType
<1>7. ~torn /\ ~dropped => LastEnd \in wire.starts
  BY <1>2, <1>6
<1>8. OnWire'
  <2> SUFFICES ASSUME ~torn' PROVE LastEnd' \in Nat /\ BetweenPackets' /\ InsidePacket'
    BY DEF OnWire
  <2>1. LastEnd \in Nat /\ LastEnd <= Consumed /\ (~dropped => Consumed = LastEnd)
    BY <1>5, <1>6
  <2>2. First' >= 1 /\ LastEnd' < First' /\ (~dropped => First' = LastEnd' + 1)
    BY <1>1, <1>2, <1>4, <2>1
  <2>3. Type' = wire'.bytes[First']
    BY <1>4, <1>5
  <2>4. ~dropped' => LastEnd' \in wire'.starts
    BY <1>1, <1>5, <1>7
  <2>5. \A i \in 1..Len(Packet') : Packet'[i] = wire'.bytes[First' + i]
    BY <1>3
  <2>. QED BY <1>1, <1>5, <2>1, <2>2, <2>3, <2>4, <2>5 DEF BetweenPackets, InsidePacket
<1>. QED BY <1>1, <1>8

LEMMA OutOfSyncRuns == ASSUME WInv, Turn, OutOfSync PROVE OnWire' /\ PacketsAreRunsOfTheWire'
<1>1. PacketsAreRunsOfTheWire' /\ LastEnd' = LastEnd
  BY NothingCompleted DEF WInv, OutOfSync
<1>2. /\ received \in Nat /\ BytesRemained \in Nat /\ BytesRemained <= received
      /\ Len(Packet) \in Nat
  BY BytesAhead, LenProperties DEF WInv, IInv, TypeOK
<1>3. Consumed' = received /\ Consumed <= received /\ First <= received
  BY <1>2 DEF Consumed, First, OutOfSync
<1>4. ~torn => LastEnd \in Nat /\ LastEnd <= received
  <2>1. First \in Int /\ Consumed \in Int
    BY <1>2 DEF First, Consumed
  <2>. QED BY <1>2, <1>3, <2>1 DEF WInv, OnWire, BetweenPackets, InsidePacket
<1>5. OnWire'
  BY <1>1, <1>3, <1>4 DEF OutOfSync, SetTypeState, OnWire, BetweenPackets, InsidePacket
<1>. QED BY <1>1, <1>5

LEMMA GetHeaderByteRuns == ASSUME WInv, GetHeaderByte PROVE OnWire' /\ PacketsAreRunsOfTheWire'
<1>1. /\ TypeOK /\ BytesRemained \in Nat /\ received \in Nat /\ BytesRemained > 0
      /\ ReadSegmentState # "GET_PKT_TYPE"
  BY BytesAhead DEF WInv, IInv, TypeOK, GetHeaderByte, InHeader, Turn
<1>2. Packet' = Append(Packet, Byte) /\ Len(Packet') = Len(Packet) + 1 /\ Len(Packet) \in Nat
  BY <1>1, BytesAhead, AppendProperties, LenProperties DEF GetHeaderByte, TypeOK
<1>3. First' = First
  BY <1>1, <1>2 DEF First, Consumed, GetHeaderByte
<1>4. ASSUME ~torn PROVE \A i \in 1..Len(Packet') : Packet'[i] = wire.bytes[First + i]
  <2>1. \A i \in 1..Len(Packet) : Packet[i] = wire.bytes[First + i]
    BY <1>1, <1>4 DEF WInv, OnWire, InsidePacket
  <2>. QED BY <1>1, <1>2, <2>1, ExtendedByByte
<1>. QED BY <1>1, <1>3, <1>4, AssemblyOnWire DEF GetHeaderByte, InHeader

LEMMA GetHeaderEndRuns == ASSUME WInv, GetHeaderEnd PROVE OnWire' /\ PacketsAreRunsOfTheWire'
<1>1. /\ TypeOK /\ BytesRemained \in Nat /\ received \in Nat /\ BytesRemained > 0
      /\ ReadSegmentState # "GET_PKT_TYPE"
  BY BytesAhead DEF WInv, IInv, TypeOK, GetHeaderEnd, InHeader, Turn
<1>2. Packet' = Append(Packet, Byte) /\ Len(Packet') = Len(Packet) + 1 /\ Len(Packet) \in Nat
  BY <1>1, BytesAhead, AppendProperties, LenProperties DEF GetHeaderEnd, TypeOK
<1>3. First' = First
  BY <1>1, <1>2 DEF First, Consumed, GetHeaderEnd
<1>4. ASSUME ~torn PROVE \A i \in 1..Len(Packet') : Packet'[i] = wire.bytes[First + i]
  <2>1. \A i \in 1..Len(Packet) : Packet[i] = wire.bytes[First + i]
    BY <1>1, <1>4 DEF WInv, OnWire, InsidePacket
  <2>. QED BY <1>1, <1>2, <2>1, ExtendedByByte
<1>. QED BY <1>1, <1>3, <1>4, AssemblyOnWire DEF GetHeaderEnd, InHeader

LEMMA GetEmptyPacketRuns == ASSUME WInv, GetEmptyPacket PROVE OnWire' /\ PacketsAreRunsOfTheWire'
<1> DEFINE packet == Append(Packet, Byte)
<1>1. IInv /\ InHeader /\ LastOfHeader /\ TypeOK /\ Turn /\ ReadSegmentState # "GET_PKT_TYPE"
  BY DEF WInv, IInv, GetEmptyPacket, InHeader
<1>2. /\ Type \in {EventType, AclType} /\ packet \in Seq(Bytes)
      /\ Len(packet) = HeaderSize(Type) /\ HeaderSize(Type) \in Nat
      /\ BytesRemained \in 1..received /\ received \in Nat
  BY <1>1, HeaderComplete
<1>3. 1 \in 1..BytesRemained /\ BytesRemained > 0
  BY <1>2
<1>4. PayloadSize(Type, packet) = 0 /\ Complete(packet) /\ BytesRemained' = BytesRemained - 1
  BY DEF GetEmptyPacket
<1>5. Len(packet) = HeaderSize(Type) + PayloadSize(Type, packet)
  BY <1>2, <1>4
<1>6. Len(packet) = Len(Packet) + 1
  BY <1>1, <1>3, BytesAhead, AppendProperties DEF TypeOK
<1>7. ASSUME ~torn PROVE \A i \in 1..Len(packet) : packet[i] = wire.bytes[First + i]
  <2>1. \A i \in 1..Len(Packet) : Packet[i] = wire.bytes[First + i]
    BY <1>1, <1>7 DEF WInv, OnWire, InsidePacket
  <2>. QED BY <1>1, <1>3, <2>1, ExtendedByByte
<1>8. Type = AclType => PayloadSize(Type, packet) <= MaxAclPayload
  <2>1. MaxAclPayload \in Nat
    BY MaxAclAssumption
  <2>. QED BY <1>4, <2>1
<1>9. UNCHANGED <<wire, received, reading, readLength, dropped, torn>>
  BY DEF GetEmptyPacket
<1>10. PayloadSize(Type, packet) \in Nat
  BY <1>4
<1> HIDE DEF packet
<1>. QED BY <1>1, <1>2, <1>3, <1>4, <1>5, <1>6, <1>7, <1>8, <1>9, <1>10, CompletionRuns

LEMMA GetPayloadEndRuns == ASSUME WInv, GetPayloadEnd PROVE OnWire' /\ PacketsAreRunsOfTheWire'
<1> DEFINE packet == Packet \o Ahead(Pending)
<1>1. IInv /\ InPayload /\ ~TooLong /\ TypeOK /\ Turn /\ ReadSegmentState # "GET_PKT_TYPE"
  BY DEF WInv, IInv, GetPayloadEnd, InPayload
<1>2. /\ Type \in {EventType, AclType} /\ Packet \in Seq(Bytes)
      /\ Len(Packet) = HeaderSize(Type) + BytesReadNextSegment
      /\ Len(Packet) \in Nat /\ Len(Packet) >= HeaderSize(Type) /\ HeaderSize(Type) \in Nat
      /\ PayloadSize(Type, Packet) \in Nat /\ BytesReadNextSegment \in Nat
      /\ Pending \in Nat \ {0} /\ Pending = PayloadSize(Type, Packet) - BytesReadNextSegment
      /\ Type = AclType => PayloadSize(Type, Packet) <= MaxAclPayload
      /\ received \in Nat /\ BytesRemained \in 1..received
  BY <1>1, PayloadPending
<1>3. Pending \in 1..BytesRemained /\ Pending \in 0..BytesRemained
  BY <1>2 DEF GetPayloadEnd
<1>4. Ahead(Pending) \in Seq(Bytes) /\ Len(Ahead(Pending)) = Pending
  BY <1>1, <1>3, BytesAhead
<1>5. packet \in Seq(Bytes) /\ Len(packet) = Len(Packet) + Pending
  BY <1>2, <1>4, ConcatProperties
<1>6. PayloadSize(Type, packet) = PayloadSize(Type, Packet)
  BY <1>2, <1>4, PayloadOfPrefix
<1>7. ASSUME ~torn PROVE \A i \in 1..Len(packet) : packet[i] = wire.bytes[First + i]
  <2>1. \A i \in 1..Len(Packet) : Packet[i] = wire.bytes[First + i]
    BY <1>1, <1>7 DEF WInv, OnWire, InsidePacket
  <2>. QED BY <1>1, <1>3, <2>1, ExtendedByRun
<1>8. Complete(packet) /\ BytesRemained' = BytesRemained - Pending
  BY DEF GetPayloadEnd
<1>9. UNCHANGED <<wire, received, reading, readLength, dropped, torn>>
  BY DEF GetPayloadEnd
<1> DEFINE pending == Pending
<1> HIDE DEF packet, pending
<1>10. Len(packet) = HeaderSize(Type) + PayloadSize(Type, packet)
  BY <1>2, <1>5, <1>6
<1>. QED BY <1>1, <1>2, <1>3, <1>5, <1>6, <1>7, <1>8, <1>9, <1>10, CompletionRuns

LEMMA GetPayloadPartRuns == ASSUME WInv, GetPayloadPart PROVE OnWire' /\ PacketsAreRunsOfTheWire'
<1>1. IInv /\ InPayload /\ ~TooLong /\ TypeOK /\ ReadSegmentState # "GET_PKT_TYPE"
  BY DEF WInv, IInv, GetPayloadPart, InPayload
<1>2. Packet \in Seq(Bytes) /\ Len(Packet) \in Nat /\ received \in Nat /\ BytesRemained \in 1..received
  BY <1>1, PayloadPending
<1>3. BytesRemained \in 1..BytesRemained /\ BytesRemained \in 0..BytesRemained
  BY <1>2
<1>4. Len(Ahead(BytesRemained)) = BytesRemained /\ Ahead(BytesRemained) \in Seq(Bytes)
  BY <1>1, <1>3, BytesAhead
<1>5. Packet' = Packet \o Ahead(BytesRemained) /\ Len(Packet') = Len(Packet) + BytesRemained
  BY <1>2, <1>4, ConcatProperties DEF GetPayloadPart
<1>6. First' = First
  BY <1>2, <1>5 DEF First, Consumed, GetPayloadPart
<1>7. ASSUME ~torn PROVE \A i \in 1..Len(Packet') : Packet'[i] = wire.bytes[First + i]
  <2>1. \A i \in 1..Len(Packet) : Packet[i] = wire.bytes[First + i]
    BY <1>1, <1>7 DEF WInv, OnWire, InsidePacket
  <2>. QED BY <1>1, <1>3, <1>5, <2>1, ExtendedByRun
<1>. QED BY <1>1, <1>6, <1>7, AssemblyOnWire DEF GetPayloadPart, InPayload

\* A step that moves neither what was consumed nor the context.
LEMMA NothingConsumed ==
    ASSUME WInv, UNCHANGED <<wire, context, completed, dropped, torn>>, Consumed' = Consumed
    PROVE  OnWire' /\ PacketsAreRunsOfTheWire'
<1>1. PacketsAreRunsOfTheWire' /\ LastEnd' = LastEnd
  BY NothingCompleted DEF WInv
<1>2. First' = First
  BY DEF First, context
<1>3. OnWire'
  BY <1>1, <1>2 DEF WInv, OnWire, BetweenPackets, InsidePacket, context
<1>. QED BY <1>1, <1>3

\* Between two packets nothing is skipped: the next packet of the controller is the
\* one behind the last that was completed.
LEMMA RestartRuns == ASSUME WInv, Restart PROVE OnWire' /\ PacketsAreRunsOfTheWire'
<1>1. PacketsAreRunsOfTheWire' /\ LastEnd' = LastEnd
  BY NothingCompleted DEF WInv, Restart
<1>2. BytesRemained = 0 /\ BytesRemained' = 0
  BY DEF Restart, WInv, IInv, TypeOK
<1>3. PICK start \in wire.starts :
          /\ start >= received
          /\ ~ \E other \in wire.starts : received <= other /\ other < start
          /\ received' = start
  BY DEF Restart
<1>4. /\ Len(wire.bytes) \in Nat /\ received \in Nat /\ start \in 0..Len(wire.bytes)
  BY WireFacts DEF WInv, IInv, TypeOK
<1>5. Consumed = received /\ Consumed' = start /\ start >= received
  BY <1>2, <1>3, <1>4 DEF Consumed
<1>6. ~torn' => ~torn /\ ReadSegmentState = "GET_PKT_TYPE"
  BY Zenon DEF Restart
<1>7. ReadSegmentState' = ReadSegmentState /\ UNCHANGED <<wire, dropped>>
  BY DEF Restart, context
<1>8. OnWire'
  <2> SUFFICES ASSUME ~torn' PROVE LastEnd' \in Nat /\ BetweenPackets' /\ InsidePacket'
    BY DEF OnWire
  <2>1. /\ LastEnd \in Nat /\ LastEnd <= Consumed
        /\ ~dropped => Consumed = LastEnd /\ Consumed \in wire.starts \cup {Len(wire.bytes)}
    BY <1>6 DEF WInv, OnWire, BetweenPackets
  <2>2. ASSUME ~dropped PROVE start = Consumed
    <3>1. CASE Consumed \in wire.starts
      BY <1>3, <1>4, <1>5, <3>1
    <3>2. CASE Consumed = Len(wire.bytes)
      BY <1>4, <1>5, <3>2
    <3>. QED BY <2>1, <2>2, <3>1, <3>2
  <2>3. LastEnd <= Consumed'
    BY <1>4, <1>5, <2>1
  <2>4. ~dropped => Consumed' = LastEnd /\ Consumed' \in wire.starts \cup {Len(wire.bytes)}
    BY <1>3, <1>5, <2>1, <2>2
  <2>. QED BY <1>1, <1>6, <1>7, <2>1, <2>3, <2>4 DEF BetweenPackets, InsidePacket
<1>. QED BY <1>1, <1>8

LEMMA WireStep == WInv /\ [Next]_vars => WInv'
<1> SUFFICES ASSUME WInv, [Next]_vars PROVE OnWire' /\ PacketsAreRunsOfTheWire'
  BY InvStep DEF WInv
<1>1. CASE Read
  <2>1. PICK n \in 1..asked : received' = received + n /\ BytesRemained' = n
    BY <1>1 DEF Read
  <2>2. BytesRemained = 0 /\ received \in Nat /\ n \in Nat
    BY <1>1, WireFacts DEF Read, WInv, IInv, TypeOK
  <2>3. Consumed' = Consumed
    BY <2>1, <2>2 DEF Consumed
  <2>. QED BY <1>1, <2>3, NothingConsumed DEF Read
<1>2. CASE GetType
  BY <1>2, GetTypeRuns
<1>3. CASE GetUnknownType
  BY <1>3, OutOfSyncRuns DEF GetUnknownType
<1>4. CASE GetHeaderByte
  BY <1>4, GetHeaderByteRuns
<1>5. CASE GetEmptyPacket
  BY <1>5, GetEmptyPacketRuns
<1>6. CASE GetHeaderEnd
  BY <1>6, GetHeaderEndRuns
<1>7. CASE GetBadLength
  BY <1>7, OutOfSyncRuns DEF GetBadLength, InPayload
<1>8. CASE GetPayloadEnd
  BY <1>8, GetPayloadEndRuns
<1>9. CASE GetPayloadPart
  BY <1>9, GetPayloadPartRuns
<1>10. CASE ReadNext
  BY <1>10, NothingConsumed DEF ReadNext, Consumed
<1>11. CASE ReadAgain
  BY <1>11, NothingConsumed DEF ReadAgain, Consumed
<1>12. CASE Restart
  BY <1>12, RestartRuns
<1>13. CASE UNCHANGED vars
  BY <1>13, NothingConsumed DEF vars, Consumed
<1>. QED BY <1>1, <1>2, <1>3, <1>4, <1>5, <1>6, <1>7, <1>8, <1>9, <1>10, <1>11, <1>12, <1>13
     DEF Next, Reassemble, Silent

\* However the stream is cut into reads and whatever it holds, the packets that no power
\* cycle cut in two are runs of it, in its order, and next to each other until something is dropped.
THEOREM WhatCompletesWasSent == Spec => []PacketsAreRunsOfTheWire
<1>1. Init => WInv
  BY InvInit, WireInit DEF WInv
<1>2. WInv => PacketsAreRunsOfTheWire
  BY DEF WInv
<1>. QED BY <1>1, <1>2, WireStep, PTL DEF Spec
=============================================================================
