--------------------------- MODULE ReadQueueProofs ---------------------------
(***************************************************************************)
(* The read requests for every set of requests and every number of         *)
(* packets: the order of the packet list, why the gap between the two      *)
(* critical sections of a dispatch thread strands nothing, that no request *)
(* that was dispatched is forgotten or completed twice beside its own      *)
(* epilogue, and that no packet is lost or handed out twice.               *)
(***************************************************************************)
EXTENDS ReadQueue, TLAPS, FiniteSetTheorems, SequenceTheorems

\* t is s with its i-th element taken out.
Without(t, s, i) ==
    /\ Len(t) = Len(s) - 1
    /\ \A j \in 1..Len(t) : t[j] = IF j < i THEN s[j] ELSE s[j + 1]

LEMMA TakenOut ==
    ASSUME NEW S, NEW s \in Seq(S), NEW i \in 1..Len(s)
    PROVE  LET t == SubSeq(s, 1, i - 1) \o SubSeq(s, i + 1, Len(s))
           IN  t \in Seq(S) /\ Len(t) = Len(s) - 1 /\ Without(t, s, i)
<1> DEFINE front == SubSeq(s, 1, i - 1)
           back  == SubSeq(s, i + 1, Len(s))
<1>1. Len(s) \in Nat /\ i \in 1..Len(s) /\ \A j \in 1..Len(s) : s[j] \in S
  BY LenProperties, ElementOfSeq
<1>2. /\ front \in Seq(S) /\ Len(front) = i - 1
      /\ \A j \in 1..Len(front) : front[j] = s[j]
  BY <1>1, SubSeqProperties
<1>3. /\ back \in Seq(S) /\ Len(back) = Len(s) - i
      /\ \A j \in 1..Len(back) : back[j] = s[j + i]
  BY <1>1, SubSeqProperties
<1> HIDE DEF front, back
<1>4. /\ front \o back \in Seq(S) /\ Len(front \o back) = Len(front) + Len(back)
      /\ \A j \in 1..Len(front) + Len(back) :
            (front \o back)[j] = IF j <= Len(front) THEN front[j] ELSE back[j - Len(front)]
  BY <1>2, <1>3, ConcatProperties
<1> DEFINE t == front \o back
<1> HIDE DEF t
<1>5. t \in Seq(S) /\ Len(t) = Len(s) - 1
  BY <1>1, <1>2, <1>3, <1>4 DEF t
<1>6. ASSUME NEW j \in 1..Len(t) PROVE t[j] = IF j < i THEN s[j] ELSE s[j + 1]
  <2>1. CASE j < i
    <3>1. j \in 1..Len(front) /\ j \in 1..Len(front) + Len(back)
      BY <1>1, <1>2, <1>3, <1>5, <2>1
    <3>2. t[j] = front[j]
      BY <1>4, <3>1 DEF t
    <3>. QED BY <1>2, <2>1, <3>1, <3>2
  <2>2. CASE ~(j < i)
    <3>1. /\ j \in 1..Len(front) + Len(back) /\ ~(j <= Len(front))
          /\ j - (i - 1) \in 1..Len(back) /\ j - (i - 1) + i = j + 1
      BY <1>1, <1>2, <1>3, <1>5, <2>2
    <3>2. t[j] = back[j - (i - 1)]
      BY <1>2, <1>4, <3>1 DEF t
    <3>3. back[j - (i - 1)] = s[j + 1]
      BY <1>3, <3>1
    <3>. QED BY <2>2, <3>2, <3>3
  <2>. QED BY <2>1, <2>2
<1>7. Without(t, s, i)
  BY <1>5, <1>6 DEF Without
<1>. QED BY <1>5, <1>7 DEF t, front, back

\* What a thread takes out of the queue together with a packet.
LEMMA HandsHeld ==
    ASSUME NEW r \in Reads, NEW p \in Packets
    PROVE  /\ [request |-> r, packet |-> p] \in Hands
           /\ [request |-> r, packet |-> p] # EmptyHand
<1>1. [request |-> r, packet |-> p].packet # EmptyHand.packet
  BY ReadQueueAssumption DEF Packets, EmptyHand
<1>. QED BY <1>1 DEF Hands

LEMMA TypeInit == Init => TypeOK
BY ReadQueueAssumption, EmptySeq DEF Init, TypeOK, EmptyHand

LEMMA DeliveredType ==
    ASSUME TypeOK, NEW hand \in Hands, NEW outcome \in Outcomes, Delivered(hand, outcome)
    PROVE  /\ completions' \in [Reads -> Nat]
           /\ received' \in [Reads -> Packets \cup {NoPacket}]
           /\ lost' \subseteq Packets
BY DEF TypeOK, Delivered, Hands

LEMMA TypeStep == TypeOK /\ [Next]_vars => TypeOK'
<1> SUFFICES ASSUME TypeOK, [Next]_vars PROVE TypeOK'
  OBVIOUS
<1> USE ReadQueueAssumption DEF TypeOK
<1>1. ASSUME NEW r \in Reads, Refuse(r) PROVE TypeOK'
  BY <1>1 DEF Refuse, requests
<1>2. ASSUME NEW r \in Reads, Forward(r) PROVE TypeOK'
  BY <1>2, AppendProperties DEF Forward, requests
<1>3. ASSUME NEW r \in Reads, LeavePending(r) PROVE TypeOK'
  BY <1>3 DEF LeavePending, requests
<1>4. ASSUME NEW r \in Reads, TakeListed(r) PROVE TypeOK'
  <2>1. /\ Head(queue) \in Reads /\ Tail(queue) \in Seq(Reads)
        /\ Head(list) \in Packets /\ Tail(list) \in Seq(Packets)
    BY <1>4, HeadTailProperties DEF TakeListed, Retrievable
  <2>. QED BY <1>4, <2>1, HandsHeld DEF TakeListed, requests
<1>5. ASSUME NEW r \in Reads, MissRequest(r) PROVE TypeOK'
  BY <1>5 DEF MissRequest, requests
<1>6. ASSUME NEW r \in Reads, DeliverListed(r) PROVE TypeOK'
  <2>1. PICK outcome \in Outcomes :
            /\ Delivered(ioctlHand[r], outcome)
            /\ ioctl' = [ioctl EXCEPT ![r] = IF outcome = "success" THEN "returned" ELSE "epilogue"]
    BY <1>6 DEF DeliverListed
  <2>2. ioctlHand[r] \in Hands
    BY <1>6 DEF DeliverListed
  <2>. QED BY <1>6, <2>1, <2>2, DeliveredType DEF DeliverListed
<1>7. ASSUME NEW r \in Reads, Epilogue(r) PROVE TypeOK'
  BY <1>7 DEF Epilogue
<1>8. ASSUME NEW r \in Reads, CancelRead(r) PROVE TypeOK'
  <2>1. queue' \in Seq(Reads)
    BY <1>8, TakenOut DEF CancelRead
  <2>. QED BY <1>8, <2>1 DEF CancelRead, hands
<1>9. CASE PumpTakesRequest
  <2>1. Head(queue) \in Reads /\ Tail(queue) \in Seq(Reads)
    BY <1>9, HeadTailProperties DEF PumpTakesRequest, Retrievable
  <2>2. arrived + 1 \in Packets
    BY <1>9 DEF PumpTakesRequest, Arrives, Packets
  <2>3. pumpHand' \in Hands /\ pumpHand' # EmptyHand
    BY <1>9, <2>1, <2>2, HandsHeld DEF PumpTakesRequest
  <2>4. arrived' \in 0..MaxPackets
    BY <1>9, <2>2 DEF PumpTakesRequest, Packets
  <2>. QED BY <1>9, <2>1, <2>3, <2>4 DEF PumpTakesRequest, requests
<1>10. CASE PumpListsPacket
  <2>1. arrived + 1 \in Packets /\ arrived + 1 \in 0..MaxPackets
    BY <1>10 DEF PumpListsPacket, Arrives, Packets
  <2>. QED BY <1>10, <2>1, AppendProperties DEF PumpListsPacket, requests, hands
<1>11. CASE PumpDropsPacket
  <2>1. arrived + 1 \in Packets /\ arrived + 1 \in 0..MaxPackets
    BY <1>11 DEF PumpDropsPacket, Arrives, Packets
  <2>. QED BY <1>11, <2>1 DEF PumpDropsPacket, requests, hands
<1>12. CASE PumpDelivers
  <2>1. PICK outcome \in Outcomes : Delivered(pumpHand, outcome)
    BY <1>12 DEF PumpDelivers
  <2>2. pumpHand \in Hands
    BY <1>12 DEF PumpDelivers
  <2>. QED BY <1>12, <2>1, <2>2, DeliveredType DEF PumpDelivers
<1>13. CASE LeaveD0
  BY <1>13 DEF LeaveD0, hands, requests
<1>14. CASE EnterD0
  BY <1>14 DEF EnterD0, hands, requests
<1>15. CASE Remove
  <2>1. \A i \in DOMAIN list : list[i] \in Packets
    BY LenProperties, ElementOfSeq
  <2>. QED BY <1>15, <2>1, EmptySeq DEF Remove, hands, requests
<1>16. CASE UNCHANGED vars
  BY <1>16 DEF vars, hands, requests
<1>. QED
  BY <1>1, <1>2, <1>3, <1>4, <1>5, <1>6, <1>7, <1>8, <1>9, <1>10, <1>11, <1>12, <1>13,
     <1>14, <1>15, <1>16 DEF Next, Ioctl, Exhausted

\* Every variable keeps its range, for any number of requests and packets.
THEOREM TypeCorrect == Spec => []TypeOK
BY TypeInit, TypeStep, PTL DEF Spec
-----------------------------------------------------------------------------
(* The order of the list.  A packet is numbered when it arrives, and what  *)
(* has been taken out of the list is older than what is left in it.        *)

Ordered ==
    /\ TypeOK
    /\ ListInArrivalOrder
    /\ \A i \in 1..Len(list) : list[i] <= arrived
    /\ \A r \in Reads : ioctl[r] = "deliver" => ioctlHand[r].packet \in 1..arrived

LEMMA OrderedInit == Init => Ordered
<1> SUFFICES ASSUME Init PROVE Ordered
  OBVIOUS
<1>1. Len(list) = 0 /\ 1..Len(list) = {}
  BY EmptySeq DEF Init
<1>2. \A r \in Reads : ioctl[r] # "deliver"
  BY DEF Init
<1>. QED BY <1>1, <1>2, TypeInit DEF Ordered, ListInArrivalOrder

\* A step that leaves the list and every hand that holds something as it was.
LEMMA OrderedUnchanged ==
    ASSUME Ordered, TypeOK', UNCHANGED <<list, ioctlHand>>, arrived' \in Nat, arrived' >= arrived,
           \A r \in Reads : ioctl'[r] = "deliver" => ioctl[r] = "deliver"
    PROVE  Ordered'
<1> USE DEF Ordered
<1>1. arrived \in Nat /\ \A i \in 1..Len(list) : list[i] \in Nat
  BY ElementOfSeq, ReadQueueAssumption DEF TypeOK, Packets
<1>2. ListInArrivalOrder'
  BY DEF ListInArrivalOrder
<1>3. \A i \in 1..Len(list) : list[i] <= arrived'
  BY <1>1
<1>4. \A r \in Reads : ioctl'[r] = "deliver" => ioctlHand'[r].packet \in 1..arrived'
  BY <1>1
<1>. QED BY <1>2, <1>3, <1>4

LEMMA OrderedStep == Ordered /\ [Next]_vars => Ordered'
<1> SUFFICES ASSUME Ordered, [Next]_vars PROVE Ordered'
  OBVIOUS
<1>a. TypeOK /\ TypeOK'
  BY TypeStep DEF Ordered
<1>b. /\ arrived \in Nat /\ arrived' \in Nat
      /\ list \in Seq(Packets) /\ Len(list) \in Nat
      /\ \A i \in 1..Len(list) : list[i] \in Packets /\ list[i] \in Nat
  BY <1>a, LenProperties, ElementOfSeq, ReadQueueAssumption DEF TypeOK, Packets
<1>1. ASSUME NEW r \in Reads, Refuse(r) PROVE Ordered'
  BY <1>1, <1>a, <1>b, OrderedUnchanged DEF Refuse, TypeOK
<1>2. ASSUME NEW r \in Reads, Forward(r) PROVE Ordered'
  BY <1>2, <1>a, <1>b, OrderedUnchanged DEF Forward, TypeOK
<1>3. ASSUME NEW r \in Reads, LeavePending(r) PROVE Ordered'
  BY <1>3, <1>a, <1>b, OrderedUnchanged DEF LeavePending, TypeOK
<1>4. ASSUME NEW r \in Reads, TakeListed(r) PROVE Ordered'
  <2>1. list # <<>> /\ list' = Tail(list) /\ arrived' = arrived
    BY <1>4 DEF TakeListed
  <2>2. /\ Len(list') = Len(list) - 1 /\ Len(list) >= 1
        /\ \A i \in 1..Len(list') : list'[i] = list[i + 1]
        /\ Head(list) = list[1]
    BY <1>b, <2>1, HeadTailProperties, EmptySeq
  <2>3. \A i, j \in 1..Len(list') : i < j => list'[i] < list'[j]
    <3> TAKE i \in 1..Len(list'), j \in 1..Len(list')
    <3>1. i + 1 \in 1..Len(list) /\ j + 1 \in 1..Len(list)
      BY <1>b, <2>2
    <3>. QED BY <1>b, <2>2, <3>1 DEF Ordered, ListInArrivalOrder
  <2>4. \A i \in 1..Len(list') : list'[i] <= arrived' /\ Head(list) < list'[i]
    <3> TAKE i \in 1..Len(list')
    <3>1. 1 \in 1..Len(list) /\ i + 1 \in 1..Len(list) /\ 1 < i + 1
      BY <1>b, <2>2
    <3>. QED BY <1>b, <2>1, <2>2, <3>1 DEF Ordered, ListInArrivalOrder
  <2>5. Head(list) \in 1..arrived
    <3>1. 1 \in 1..Len(list)
      BY <1>b, <2>2
    <3>2. list[1] \in Packets /\ list[1] <= arrived
      BY <1>b, <3>1 DEF Ordered
    <3>. QED BY <1>b, <2>2, <3>2, ReadQueueAssumption DEF Packets
  <2>6. /\ ioctlHand'[r].packet = Head(list)
        /\ \A q \in Reads : q # r => ioctl'[q] = ioctl[q] /\ ioctlHand'[q] = ioctlHand[q]
    BY <1>4, <1>a DEF TakeListed, TypeOK
  <2>7. ASSUME NEW q \in Reads, ioctl'[q] = "deliver"
        PROVE  /\ ioctlHand'[q].packet \in 1..arrived'
               /\ \A i \in 1..Len(list') : ioctlHand'[q].packet < list'[i]
    <3>1. CASE q = r
      BY <2>1, <2>4, <2>5, <2>6, <3>1
    <3>2. CASE q # r
      <4>1. \A i \in 1..Len(list') : i + 1 \in 1..Len(list)
        BY <1>b, <2>2
      <4>. QED BY <2>1, <2>2, <2>6, <2>7, <3>2, <4>1 DEF Ordered, ListInArrivalOrder
    <3>. QED BY <3>1, <3>2
  <2>8. ListInArrivalOrder'
    BY <2>3, <2>7 DEF ListInArrivalOrder
  <2>. QED BY <1>a, <2>4, <2>7, <2>8 DEF Ordered
<1>5. ASSUME NEW r \in Reads, MissRequest(r) PROVE Ordered'
  BY <1>5, <1>a, <1>b, OrderedUnchanged DEF MissRequest, TypeOK
<1>6. ASSUME NEW r \in Reads, DeliverListed(r) PROVE Ordered'
  <2>1. /\ list' = list /\ arrived' = arrived
        /\ ioctl'[r] # "deliver"
        /\ \A q \in Reads : q # r => ioctl'[q] = ioctl[q] /\ ioctlHand'[q] = ioctlHand[q]
    BY <1>6, <1>a DEF DeliverListed, TypeOK
  <2>2. ListInArrivalOrder'
    BY <2>1 DEF Ordered, ListInArrivalOrder
  <2>3. \A q \in Reads : ioctl'[q] = "deliver" => ioctlHand'[q].packet \in 1..arrived'
    BY <2>1 DEF Ordered
  <2>. QED BY <1>a, <2>1, <2>2, <2>3 DEF Ordered
<1>7. ASSUME NEW r \in Reads, Epilogue(r) PROVE Ordered'
  BY <1>7, <1>a, <1>b, OrderedUnchanged DEF Epilogue, TypeOK
<1>8. ASSUME NEW r \in Reads, CancelRead(r) PROVE Ordered'
  BY <1>8, <1>a, <1>b, OrderedUnchanged DEF CancelRead, hands
<1>9. CASE PumpTakesRequest
  BY <1>9, <1>a, <1>b, OrderedUnchanged DEF PumpTakesRequest
<1>10. CASE PumpListsPacket
  <2>1. /\ list' = Append(list, arrived + 1) /\ arrived' = arrived + 1
        /\ ioctl' = ioctl /\ ioctlHand' = ioctlHand
        /\ arrived + 1 \in Packets
    BY <1>10, <1>b, ReadQueueAssumption DEF PumpListsPacket, Arrives, Packets, hands
  <2>2. /\ Len(list') = Len(list) + 1
        /\ \A i \in 1..Len(list) : list'[i] = list[i]
        /\ list'[Len(list) + 1] = arrived + 1
    BY <1>b, <2>1, AppendProperties
  <2>3. \A i \in 1..Len(list') : i \in 1..Len(list) \/ i = Len(list) + 1
    BY <1>b, <2>2
  <2>4. \A i \in 1..Len(list) : list'[i] <= arrived /\ list'[i] < arrived + 1
    BY <1>b, <2>2 DEF Ordered
  <2>5. \A i \in 1..Len(list') : list'[i] <= arrived'
    BY <1>b, <2>1, <2>2, <2>3, <2>4
  <2>6. ASSUME NEW i \in 1..Len(list'), NEW j \in 1..Len(list'), i < j
        PROVE  list'[i] < list'[j]
    <3>1. CASE j = Len(list) + 1
      <4>1. i \in 1..Len(list)
        BY <1>b, <2>3, <2>6, <3>1
      <4>. QED BY <2>2, <2>4, <3>1, <4>1
    <3>2. CASE j \in 1..Len(list)
      <4>1. i \in 1..Len(list)
        BY <1>b, <2>3, <2>6, <3>2
      <4>. QED BY <2>2, <2>6, <3>2, <4>1 DEF Ordered, ListInArrivalOrder
    <3>. QED BY <2>3, <3>1, <3>2
  <2>7. ASSUME NEW q \in Reads, ioctl[q] = "deliver"
        PROVE  /\ ioctlHand[q].packet \in 1..(arrived + 1)
               /\ \A i \in 1..Len(list') : ioctlHand[q].packet < list'[i]
    <3>1. ioctlHand[q].packet \in 1..arrived
      BY <2>7 DEF Ordered
    <3>2. \A i \in 1..Len(list) : ioctlHand[q].packet < list'[i]
      BY <2>2, <2>7 DEF Ordered, ListInArrivalOrder
    <3>3. ioctlHand[q].packet < arrived + 1
      BY <1>b, <3>1
    <3>. QED BY <1>b, <2>2, <2>3, <3>1, <3>2, <3>3
  <2>8. ListInArrivalOrder'
    BY <2>1, <2>6, <2>7 DEF ListInArrivalOrder
  <2>. QED BY <1>a, <2>1, <2>5, <2>7, <2>8 DEF Ordered
<1>11. CASE PumpDropsPacket
  BY <1>11, <1>a, <1>b, OrderedUnchanged DEF PumpDropsPacket, hands
<1>12. CASE PumpDelivers
  BY <1>12, <1>a, <1>b, OrderedUnchanged DEF PumpDelivers
<1>13. CASE LeaveD0
  BY <1>13, <1>a, <1>b, OrderedUnchanged DEF LeaveD0, hands
<1>14. CASE EnterD0
  BY <1>14, <1>a, <1>b, OrderedUnchanged DEF EnterD0, hands
<1>15. CASE Remove
  <2>1. /\ Len(list') = 0 /\ 1..Len(list') = {}
        /\ \A q \in Reads : ioctl'[q] # "deliver"
    BY <1>15, EmptySeq DEF Remove, ThreadsOut, hands
  <2>. QED BY <1>a, <2>1 DEF Ordered, ListInArrivalOrder
<1>16. CASE UNCHANGED vars
  BY <1>16, <1>a, <1>b, OrderedUnchanged DEF vars, hands
<1>. QED
  BY <1>1, <1>2, <1>3, <1>4, <1>5, <1>6, <1>7, <1>8, <1>9, <1>10, <1>11, <1>12, <1>13,
     <1>14, <1>15, <1>16 DEF Next, Ioctl, Exhausted

\* The packet list is in the order of arrival, and dispatch threads take from it
\* the oldest first, for any number of requests and packets.
THEOREM ArrivalOrder == Spec => []ListInArrivalOrder
<1>1. Ordered => ListInArrivalOrder
  BY DEF Ordered
<1>. QED BY <1>1, OrderedInit, OrderedStep, PTL DEF Spec
-----------------------------------------------------------------------------
(* The gap between the critical sections.  In D0 the smaller of the two    *)
(* backlogs never exceeds the number of threads in the gap: forwarding     *)
(* adds a request and a thread, a thread leaves the gap with a packet and  *)
(* a request or finds one of the two missing, and the pump lists a packet  *)
(* only beside an empty queue.                                             *)

LEMMA GapCount ==
    ASSUME TypeOK
    PROVE  /\ IsFiniteSet(Forwarded) /\ Cardinality(Forwarded) \in Nat
           /\ Len(queue) \in Nat /\ Len(list) \in Nat
BY ReadQueueAssumption, FS_Subset, FS_CardinalityType, LenProperties DEF TypeOK, Forwarded

\* A thread enters or leaves the gap.
LEMMA GapEntered ==
    ASSUME TypeOK, NEW r \in Reads, ioctl[r] # "forwarded",
           ioctl' = [ioctl EXCEPT ![r] = "forwarded"]
    PROVE  Cardinality(Forwarded') = Cardinality(Forwarded) + 1
<1>1. Forwarded' = Forwarded \cup {r} /\ r \notin Forwarded
  BY DEF TypeOK, Forwarded
<1>. QED BY <1>1, GapCount, FS_AddElement

LEMMA GapLeft ==
    ASSUME TypeOK, NEW r \in Reads, NEW pc, ioctl[r] = "forwarded", pc # "forwarded",
           ioctl' = [ioctl EXCEPT ![r] = pc]
    PROVE  Cardinality(Forwarded') = Cardinality(Forwarded) - 1
<1>1. Forwarded' = Forwarded \ {r} /\ r \in Forwarded
  BY DEF TypeOK, Forwarded
<1>. QED BY <1>1, GapCount, FS_RemoveElement

LEMMA GapUnchanged ==
    ASSUME TypeOK, NEW r \in Reads, NEW pc, ioctl[r] # "forwarded", pc # "forwarded",
           ioctl' = [ioctl EXCEPT ![r] = pc]
    PROVE  Forwarded' = Forwarded
BY DEF TypeOK, Forwarded

LEMMA StrandedStep ==
    TypeOK /\ TypeOK' /\ [Next]_vars => (Stranded' => Stranded \/ device # "d0")
<1> SUFFICES ASSUME TypeOK, TypeOK', [Next]_vars, device = "d0", ~Stranded
             PROVE  ~Stranded'
  OBVIOUS
<1> DEFINE gap == Cardinality(Forwarded)
<1>a. /\ gap \in Nat /\ Len(queue) \in Nat /\ Len(list) \in Nat
      /\ gap' \in Nat /\ Len(queue') \in Nat /\ Len(list') \in Nat
  <2>1. /\ IsFiniteSet(Forwarded') /\ Cardinality(Forwarded') \in Nat
        /\ Len(queue') \in Nat /\ Len(list') \in Nat
    <3>1. Forwarded' \in SUBSET Reads
      BY DEF Forwarded
    <3>2. IsFiniteSet(Forwarded') /\ Cardinality(Forwarded') \in Nat
      BY <3>1, ReadQueueAssumption, FS_Subset, FS_CardinalityType
    <3>. QED BY <3>2, LenProperties DEF TypeOK
  <2>. QED BY <2>1, GapCount
<1>b. queue \in Seq(Reads) /\ list \in Seq(Packets)
  BY DEF TypeOK
<1>c. Len(list) <= gap \/ Len(queue) <= gap
  BY <1>a DEF Stranded
<1>d. SUFFICES Len(list') <= gap' \/ Len(queue') <= gap'
  BY <1>a DEF Stranded
<1> HIDE DEF gap
<1>1. ASSUME NEW r \in Reads, Refuse(r) PROVE Len(list') <= gap' \/ Len(queue') <= gap'
  <2>1. gap' = gap
    BY <1>1, GapUnchanged DEF Refuse, gap
  <2>. QED BY <1>1, <1>c, <2>1 DEF Refuse
<1>2. ASSUME NEW r \in Reads, Forward(r) PROVE Len(list') <= gap' \/ Len(queue') <= gap'
  <2>1. gap' = gap + 1
    BY <1>2, GapEntered DEF Forward, gap
  <2>2. Len(queue') = Len(queue) + 1 /\ list' = list
    BY <1>2, <1>b, AppendProperties DEF Forward
  <2>. QED BY <1>a, <1>c, <2>1, <2>2
<1>3. ASSUME NEW r \in Reads, LeavePending(r) PROVE Len(list') <= gap' \/ Len(queue') <= gap'
  <2>1. Len(list') = 0
    BY <1>3, EmptySeq DEF LeavePending
  <2>. QED BY <1>a, <2>1
<1>4. ASSUME NEW r \in Reads, TakeListed(r) PROVE Len(list') <= gap' \/ Len(queue') <= gap'
  <2>1. gap' = gap - 1
    BY <1>4, GapLeft DEF TakeListed, gap
  <2>2. Len(queue') = Len(queue) - 1 /\ Len(list') = Len(list) - 1
    BY <1>4, <1>b, HeadTailProperties DEF TakeListed, Retrievable
  <2>. QED BY <1>a, <1>c, <2>1, <2>2
<1>5. ASSUME NEW r \in Reads, MissRequest(r) PROVE Len(list') <= gap' \/ Len(queue') <= gap'
  <2>1. Len(queue') = 0
    BY <1>5, EmptySeq DEF MissRequest, Retrievable
  <2>. QED BY <1>a, <2>1
<1>6. ASSUME NEW r \in Reads, DeliverListed(r) PROVE Len(list') <= gap' \/ Len(queue') <= gap'
  <2>1. PICK outcome \in Outcomes :
            ioctl' = [ioctl EXCEPT ![r] = IF outcome = "success" THEN "returned" ELSE "epilogue"]
    BY <1>6 DEF DeliverListed
  <2>2. gap' = gap
    BY <1>6, <2>1, GapUnchanged DEF DeliverListed, gap
  <2>. QED BY <1>6, <1>c, <2>2 DEF DeliverListed
<1>7. ASSUME NEW r \in Reads, Epilogue(r) PROVE Len(list') <= gap' \/ Len(queue') <= gap'
  <2>1. gap' = gap
    BY <1>7, GapUnchanged DEF Epilogue, gap
  <2>. QED BY <1>7, <1>c, <2>1 DEF Epilogue
<1>8. ASSUME NEW r \in Reads, CancelRead(r) PROVE Len(list') <= gap' \/ Len(queue') <= gap'
  <2>1. Len(queue') = Len(queue) - 1
    BY <1>8, <1>b, TakenOut DEF CancelRead
  <2>2. gap' = gap /\ list' = list
    BY <1>8 DEF CancelRead, hands, gap, Forwarded
  <2>. QED BY <1>a, <1>c, <2>1, <2>2
<1>9. CASE PumpTakesRequest
  <2>1. Len(queue') = Len(queue) - 1
    BY <1>9, <1>b, HeadTailProperties DEF PumpTakesRequest, Retrievable
  <2>2. gap' = gap /\ list' = list
    BY <1>9 DEF PumpTakesRequest, gap, Forwarded
  <2>. QED BY <1>a, <1>c, <2>1, <2>2
<1>10. CASE PumpListsPacket
  <2>1. Len(queue') = 0
    BY <1>10, EmptySeq DEF PumpListsPacket, Retrievable
  <2>. QED BY <1>a, <2>1
<1>11. CASE PumpDropsPacket \/ PumpDelivers \/ LeaveD0 \/ EnterD0 \/ UNCHANGED vars
  <2>1. ioctl' = ioctl /\ list' = list /\ queue' = queue
    BY <1>11 DEF PumpDropsPacket, PumpDelivers, LeaveD0, EnterD0, vars, hands
  <2>2. gap' = gap
    BY <2>1 DEF gap, Forwarded
  <2>. QED BY <1>c, <2>1, <2>2
<1>12. CASE Remove
  BY <1>12 DEF Remove
<1>. QED
  BY <1>1, <1>2, <1>3, <1>4, <1>5, <1>6, <1>7, <1>8, <1>9, <1>10, <1>11, <1>12
  DEF Next, Ioctl, Exhausted

\* In D0 no step leaves a packet and a request waiting with no thread on its way
\* to match them, for any number of requests and packets.
THEOREM NothingStrandedInD0 == Spec => StrandedOnlyOutsideD0
<1>1. Spec => []TypeOK
  BY TypeCorrect
<1>2. TypeOK /\ TypeOK' /\ [Next]_vars => [Stranded' => Stranded \/ device # "d0"]_vars
  BY StrandedStep
<1>. QED BY <1>1, <1>2, PTL DEF Spec, StrandedOnlyOutsideD0
-----------------------------------------------------------------------------
(* Counting.  Requests and packets are counted where they can be; every    *)
(* step moves them from one count to another.                              *)

Occurrences(s, x) == Cardinality({i \in 1..Len(s) : s[i] = x})

LEMMA OccurrencesType ==
    ASSUME NEW S, NEW s \in Seq(S), NEW x
    PROVE  /\ IsFiniteSet({i \in 1..Len(s) : s[i] = x})
           /\ Occurrences(s, x) \in Nat
           /\ Occurrences(s, x) = 0 <=> \A i \in 1..Len(s) : s[i] # x
<1> DEFINE at == {i \in 1..Len(s) : s[i] = x}
<1>1. IsFiniteSet(1..Len(s)) /\ at \in SUBSET (1..Len(s))
  BY LenProperties, FS_Interval
<1>2. IsFiniteSet(at)
  BY <1>1, FS_Subset
<1>3. Cardinality(at) \in Nat /\ (Cardinality(at) = 0 <=> at = {})
  BY <1>2, FS_CardinalityType, FS_EmptySet
<1>. QED BY <1>2, <1>3 DEF Occurrences

LEMMA OccurrencesEmpty == ASSUME NEW x PROVE Occurrences(<<>>, x) = 0
<1>1. {i \in 1..Len(<<>>) : <<>>[i] = x} = {}
  BY EmptySeq
<1>. QED BY <1>1, FS_EmptySet DEF Occurrences

LEMMA OccurrencesAppended ==
    ASSUME NEW S, NEW s \in Seq(S), NEW e \in S, NEW x
    PROVE  Occurrences(Append(s, e), x) = Occurrences(s, x) + IF e = x THEN 1 ELSE 0
<1> DEFINE at  == {i \in 1..Len(s) : s[i] = x}
           end == Append(s, e)
<1>1. Len(s) \in Nat /\ Len(end) = Len(s) + 1 /\ end[Len(s) + 1] = e
      /\ \A i \in 1..Len(s) : end[i] = s[i]
  BY LenProperties, AppendProperties
<1>2. {i \in 1..Len(end) : end[i] = x} = IF e = x THEN at \cup {Len(s) + 1} ELSE at
  <2> HIDE DEF end
  <2>1. \A i : i \in 1..Len(end) <=> i \in 1..Len(s) \/ i = Len(s) + 1
    BY <1>1
  <2>2. Len(s) + 1 \notin 1..Len(s)
    BY <1>1
  <2>. QED BY <1>1, <2>1, <2>2
<1>3. Len(s) + 1 \notin at
  BY <1>1
<1>4. IsFiniteSet(at) /\ Cardinality(at) \in Nat
  BY OccurrencesType DEF Occurrences
<1>5. Cardinality(at \cup {Len(s) + 1}) = Cardinality(at) + 1
  BY <1>3, <1>4, FS_AddElement
<1> HIDE DEF at
<1>6. Occurrences(end, x) = IF e = x THEN Cardinality(at) + 1 ELSE Cardinality(at)
  BY <1>2, <1>5 DEF Occurrences
<1>7. Occurrences(s, x) = Cardinality(at)
  BY DEF Occurrences, at
<1> HIDE DEF at
<1>. QED BY <1>4, <1>6, <1>7

LEMMA OccurrencesWithout ==
    ASSUME NEW S, NEW s \in Seq(S), NEW t \in Seq(S), NEW i \in 1..Len(s), Without(t, s, i), NEW x
    PROVE  Occurrences(t, x) = Occurrences(s, x) - IF s[i] = x THEN 1 ELSE 0
<1> DEFINE before == {j \in 1..Len(s) : s[j] = x}
           after  == {j \in 1..Len(t) : t[j] = x}
           f      == [j \in after |-> IF j < i THEN j ELSE j + 1]
<1>1. /\ Len(s) \in Nat /\ Len(t) \in Nat /\ Len(t) = Len(s) - 1 /\ i \in Nat /\ i >= 1 /\ i <= Len(s)
      /\ \A j \in 1..Len(t) : t[j] = IF j < i THEN s[j] ELSE s[j + 1]
  BY LenProperties DEF Without
<1>2. ASSUME NEW j \in after PROVE f[j] \in before \ {i}
  BY <1>1
<1>3. ASSUME NEW j \in after, NEW k \in after, f[j] = f[k] PROVE j = k
  BY <1>1, <1>3
<1>4. ASSUME NEW k \in before \ {i} PROVE \E j \in after : f[j] = k
  <2>1. k \in 1..Len(s) /\ s[k] = x /\ k # i
    OBVIOUS
  <2>2. CASE k < i
    <3>1. k \in 1..Len(t) /\ t[k] = x
      BY <1>1, <2>1, <2>2
    <3>. QED BY <2>2, <3>1
  <2>3. CASE k > i
    <3>1. k - 1 \in 1..Len(t) /\ k - 1 >= i /\ k - 1 + 1 = k
      BY <1>1, <2>1, <2>3
    <3>2. t[k - 1] = x /\ ~(k - 1 < i)
      BY <1>1, <2>1, <3>1
    <3>. QED BY <3>1, <3>2
  <2>4. k < i \/ k > i
    BY <1>1, <2>1
  <2>. QED BY <2>2, <2>3, <2>4
<1>5. f \in Bijection(after, before \ {i})
  <2>1. f \in [after -> before \ {i}]
    BY <1>2
  <2> HIDE DEF f, after, before
  <2>. QED BY <1>3, <1>4, <2>1 DEF Bijection, Injection, Surjection, IsInjective
<1> HIDE DEF f
<1>6. IsFiniteSet(after) /\ IsFiniteSet(before)
  BY OccurrencesType
<1> HIDE DEF after, before
<1>7. Cardinality(before \ {i}) = Cardinality(after)
  BY <1>5, <1>6, FS_Bijection DEF ExistsBijection
<1>8. Cardinality(before \ {i}) = IF i \in before THEN Cardinality(before) - 1 ELSE Cardinality(before)
  BY <1>6, FS_RemoveElement
<1>9. i \in before <=> s[i] = x
  BY DEF before
<1>10. Cardinality(before) \in Nat
  BY <1>6, FS_CardinalityType
<1>. QED BY <1>7, <1>8, <1>9, <1>10 DEF Occurrences, after, before

LEMMA TailWithout ==
    ASSUME NEW S, NEW s \in Seq(S), s # <<>>
    PROVE  Tail(s) \in Seq(S) /\ Without(Tail(s), s, 1) /\ 1 \in 1..Len(s) /\ s[1] = Head(s)
<1>1. Len(s) \in Nat /\ Len(s) # 0
  BY LenProperties, EmptySeq
<1>2. /\ Tail(s) \in Seq(S) /\ Len(Tail(s)) = Len(s) - 1 /\ Head(s) = s[1]
      /\ \A j \in 1..Len(Tail(s)) : Tail(s)[j] = s[j + 1]
  BY <1>1, HeadTailProperties
<1>3. \A j \in 1..Len(Tail(s)) : ~(j < 1)
  BY <1>1, <1>2
<1>. QED BY <1>1, <1>2, <1>3 DEF Without

LEMMA OccurrencesTail ==
    ASSUME NEW S, NEW s \in Seq(S), s # <<>>, NEW x
    PROVE  Occurrences(Tail(s), x) = Occurrences(s, x) - IF Head(s) = x THEN 1 ELSE 0
<1> DEFINE t == Tail(s)
           i == 1
<1>1. t \in Seq(S) /\ Without(t, s, i) /\ i \in 1..Len(s) /\ s[i] = Head(s)
  BY TailWithout
<1> HIDE DEF t, i
<1>2. Occurrences(t, x) = Occurrences(s, x) - IF s[i] = x THEN 1 ELSE 0
  BY <1>1, OccurrencesWithout
<1>. QED BY <1>1, <1>2 DEF t

\* Two sets of requests that agree on all but one.
LEMMA OneChanged ==
    ASSUME NEW A \in SUBSET Reads, NEW B \in SUBSET Reads, NEW r \in Reads,
           \A q \in Reads : q # r => (q \in A <=> q \in B)
    PROVE  /\ Cardinality(A) \in Nat /\ Cardinality(B) \in Nat
           /\ Cardinality(B) = Cardinality(A) - (IF r \in A THEN 1 ELSE 0) + (IF r \in B THEN 1 ELSE 0)
<1>1. IsFiniteSet(A) /\ IsFiniteSet(B)
  BY ReadQueueAssumption, FS_Subset
<1>2. A \ {r} = B \ {r}
  OBVIOUS
<1>3. /\ Cardinality(A \ {r}) = IF r \in A THEN Cardinality(A) - 1 ELSE Cardinality(A)
      /\ Cardinality(B \ {r}) = IF r \in B THEN Cardinality(B) - 1 ELSE Cardinality(B)
  BY <1>1, FS_RemoveElement
<1>4. Cardinality(A) \in Nat /\ Cardinality(B) \in Nat
  BY <1>1, FS_CardinalityType
<1>. QED BY <1>2, <1>3, <1>4
-----------------------------------------------------------------------------
(* The requests.  One that was not dispatched is claimed by nobody; from    *)
(* then on its claims and completions add up to one, until its own         *)
(* epilogue may add one more.  A request that got a packet is claimed no   *)
(* more.                                                                   *)

Holders(r)     == {q \in Reads : ioctlHand[q].request = r}
HeldByPump(r)  == IF pumpHand.request = r THEN 1 ELSE 0

Accounted(r) ==
    LET all == ClaimsOf(r) + completions[r]
    IN  /\ ClaimsOf(r) <= 1
        /\ ioctl[r] = "idle" => all = 0
        /\ ioctl[r] \in {"forwarded", "deliver"} => all = 1
        /\ ioctl[r] = "epilogue" => all <= 1
        /\ ioctl[r] = "returned" => all = 1 \/ all = 2
        /\ received[r] # NoPacket => ClaimsOf(r) = 0 /\ ioctl[r] # "idle"

ReadsInv == TypeOK /\ \A r \in Reads : Accounted(r)

\* The parts of a sum of claims.
ClaimParts ==
    \A r \in Reads :
        /\ ClaimsOf(r) = Occurrences(queue, r) + Cardinality(Holders(r)) + HeldByPump(r)
        /\ Occurrences(queue, r) \in Nat /\ Cardinality(Holders(r)) \in Nat
        /\ HeldByPump(r) \in {0, 1} /\ ClaimsOf(r) \in Nat /\ completions[r] \in Nat

LEMMA ClaimsAdd == TypeOK => ClaimParts
<1> SUFFICES ASSUME TypeOK PROVE ClaimParts
  OBVIOUS
<1> SUFFICES ASSUME NEW r \in Reads
             PROVE  /\ ClaimsOf(r) = Occurrences(queue, r) + Cardinality(Holders(r)) + HeldByPump(r)
                    /\ Occurrences(queue, r) \in Nat /\ Cardinality(Holders(r)) \in Nat
                    /\ HeldByPump(r) \in {0, 1} /\ ClaimsOf(r) \in Nat /\ completions[r] \in Nat
  BY DEF ClaimParts
<1>1. Occurrences(queue, r) \in Nat
  BY OccurrencesType DEF TypeOK
<1>2. Cardinality(Holders(r)) \in Nat
  <2>1. Holders(r) \in SUBSET Reads
    BY DEF Holders
  <2>. QED BY <2>1, ReadQueueAssumption, FS_Subset, FS_CardinalityType
<1>3. HeldByPump(r) \in {0, 1}
  BY DEF HeldByPump
<1>4. ClaimsOf(r) = Occurrences(queue, r) + Cardinality(Holders(r)) + HeldByPump(r)
  BY DEF ClaimsOf, Occurrences, Holders, HeldByPump
<1>5. completions[r] \in Nat
  BY DEF TypeOK
<1>. QED BY <1>1, <1>2, <1>3, <1>4, <1>5

LEMMA ClaimsAddNext == TypeOK' => ClaimParts'
BY ClaimsAdd, PTL

\* A request in somebody's hand is claimed.
LEMMA HandIsClaim ==
    ASSUME TypeOK, NEW r \in Reads
    PROVE  /\ \A q \in Reads : ioctlHand[q].request = r => Cardinality(Holders(r)) >= 1
           /\ pumpHand.request = r => HeldByPump(r) = 1
<1>1. ASSUME NEW q \in Reads, ioctlHand[q].request = r PROVE Cardinality(Holders(r)) >= 1
  <2>1. Holders(r) \in SUBSET Reads /\ q \in Holders(r)
    BY <1>1 DEF Holders
  <2>2. IsFiniteSet(Holders(r)) /\ Cardinality(Holders(r)) # 0
    BY <2>1, ReadQueueAssumption, FS_Subset, FS_EmptySet
  <2>. QED BY <2>2, ClaimsAdd DEF ClaimParts
<1>. QED BY <1>1 DEF HeldByPump

\* An empty hand claims nothing.
LEMMA EmptyClaims ==
    ASSUME NEW r \in Reads PROVE EmptyHand.request # r
BY ReadQueueAssumption DEF EmptyHand

\* A step that leaves the claims and the completions of a request as they were.
LEMMA AccountedKept ==
    ASSUME TypeOK, NEW r \in Reads, Accounted(r), ClaimsOf(r)' = ClaimsOf(r),
           completions'[r] = completions[r], received'[r] = received[r],
           \/ ioctl'[r] = ioctl[r]
           \/ ioctl[r] \in {"idle", "forwarded", "deliver"} /\ ioctl'[r] = "epilogue"
           \/ ioctl[r] \in {"forwarded", "deliver"} /\ ioctl'[r] \in {"deliver", "returned"}
    PROVE  Accounted(r)'
<1>1. ClaimsOf(r) \in Nat /\ completions[r] \in Nat
  BY ClaimsAdd DEF ClaimParts
<1>. QED BY <1>1 DEF Accounted

LEMMA ReadsInit == Init => ReadsInv
<1> SUFFICES ASSUME Init PROVE ReadsInv
  OBVIOUS
<1>1. TypeOK
  BY TypeInit
<1>2. ASSUME NEW r \in Reads PROVE Accounted(r)
  <2>1. Occurrences(queue, r) = 0
    BY OccurrencesEmpty DEF Init
  <2>2. Holders(r) = {} /\ HeldByPump(r) = 0
    BY EmptyClaims DEF Init, Holders, HeldByPump
  <2>3. ClaimsOf(r) = 0
    BY <1>1, <2>1, <2>2, ClaimsAdd, FS_EmptySet DEF ClaimParts
  <2>. QED BY <2>3 DEF Init, Accounted
<1>. QED BY <1>1, <1>2 DEF ReadsInv
\* A step of a thread that moves no request.
LEMMA ThreadMovesAlone ==
    ASSUME ReadsInv, NEW r \in Reads, NEW pc, ioctl' = [ioctl EXCEPT ![r] = pc],
           UNCHANGED <<queue, ioctlHand, pumpHand, completions, received>>,
           \/ ioctl[r] \in {"idle", "forwarded", "deliver"} /\ pc = "epilogue"
           \/ ioctl[r] \in {"forwarded", "deliver"} /\ pc = "returned"
    PROVE  \A q \in Reads : Accounted(q)'
<1> SUFFICES ASSUME NEW q \in Reads PROVE Accounted(q)'
  OBVIOUS
<1>1. TypeOK /\ Accounted(q)
  BY DEF ReadsInv
<1>2. ClaimsOf(q)' = ClaimsOf(q)
  BY DEF ClaimsOf
<1>3. ioctl'[q] = IF q = r THEN pc ELSE ioctl[q]
  BY <1>1 DEF TypeOK
<1>. QED BY <1>1, <1>2, <1>3, AccountedKept

\* The first request of the queue passes to an empty hand.
LEMMA ThreadTakesRequest ==
    ASSUME ReadsInv, TypeOK', NEW r \in Reads, TakeListed(r)
    PROVE  \A q \in Reads : Accounted(q)'
<1> SUFFICES ASSUME NEW q \in Reads PROVE Accounted(q)'
  OBVIOUS
<1>1. TypeOK /\ Accounted(q) /\ ClaimParts /\ ClaimParts'
  BY ClaimsAdd, ClaimsAddNext DEF ReadsInv
<1>2. /\ queue \in Seq(Reads) /\ queue # <<>> /\ queue' = Tail(queue)
      /\ ioctlHand[r] = EmptyHand /\ ioctlHand'[r].request = Head(queue)
      /\ \A t \in Reads : t # r => ioctlHand'[t] = ioctlHand[t]
      /\ pumpHand' = pumpHand /\ UNCHANGED requests
  BY <1>1 DEF TypeOK, TakeListed, Retrievable
<1>3. Occurrences(queue', q) = Occurrences(queue, q) - IF Head(queue) = q THEN 1 ELSE 0
  BY <1>2, OccurrencesTail
<1>4. Cardinality(Holders(q)') = Cardinality(Holders(q)) + IF Head(queue) = q THEN 1 ELSE 0
  <2>1. Holders(q) \in SUBSET Reads /\ Holders(q)' \in SUBSET Reads
    BY DEF Holders
  <2>2. r \notin Holders(q) /\ (r \in Holders(q)' <=> Head(queue) = q)
    BY <1>2, EmptyClaims DEF Holders
  <2>3. \A t \in Reads : t # r => (t \in Holders(q) <=> t \in Holders(q)')
    BY <1>2 DEF Holders
  <2>. QED BY <2>1, <2>2, <2>3, OneChanged
<1>5. ClaimsOf(q)' = ClaimsOf(q)
  <2>1. HeldByPump(q)' = HeldByPump(q)
    BY <1>2 DEF HeldByPump
  <2>. QED BY <1>1, <1>3, <1>4, <2>1 DEF ClaimParts
<1>6. completions'[q] = completions[q] /\ received'[q] = received[q]
  BY <1>2 DEF requests
<1>7. \/ ioctl'[q] = ioctl[q]
      \/ ioctl[q] = "forwarded" /\ ioctl'[q] = "deliver"
  BY <1>1 DEF TypeOK, TakeListed
<1>. QED BY <1>1, <1>5, <1>6, <1>7, AccountedKept

LEMMA PumpTakesIt ==
    ASSUME ReadsInv, TypeOK', PumpTakesRequest
    PROVE  \A q \in Reads : Accounted(q)'
<1> SUFFICES ASSUME NEW q \in Reads PROVE Accounted(q)'
  OBVIOUS
<1>1. TypeOK /\ Accounted(q) /\ ClaimParts /\ ClaimParts'
  BY ClaimsAdd, ClaimsAddNext DEF ReadsInv
<1>2. /\ queue \in Seq(Reads) /\ queue # <<>> /\ queue' = Tail(queue)
      /\ pumpHand = EmptyHand /\ pumpHand'.request = Head(queue)
      /\ UNCHANGED <<ioctl, ioctlHand, requests>>
  BY <1>1 DEF TypeOK, PumpTakesRequest, Retrievable, Arrives
<1>3. Occurrences(queue', q) = Occurrences(queue, q) - IF Head(queue) = q THEN 1 ELSE 0
  BY <1>2, OccurrencesTail
<1>4. HeldByPump(q)' = HeldByPump(q) + IF Head(queue) = q THEN 1 ELSE 0
  BY <1>2, EmptyClaims DEF HeldByPump
<1>5. ClaimsOf(q)' = ClaimsOf(q)
  <2>1. Holders(q)' = Holders(q)
    BY <1>2 DEF Holders
  <2>. QED BY <1>1, <1>3, <1>4, <2>1 DEF ClaimParts
<1>. QED BY <1>1, <1>2, <1>5, AccountedKept DEF requests

\* A request is claimed by the queue when it is forwarded.
LEMMA ForwardClaims ==
    ASSUME ReadsInv, TypeOK', NEW r \in Reads, Forward(r)
    PROVE  \A q \in Reads : Accounted(q)'
<1> SUFFICES ASSUME NEW q \in Reads PROVE Accounted(q)'
  OBVIOUS
<1>1. TypeOK /\ Accounted(q) /\ ClaimParts /\ ClaimParts'
  BY ClaimsAdd, ClaimsAddNext DEF ReadsInv
<1>2. /\ queue \in Seq(Reads) /\ queue' = Append(queue, r) /\ ioctl[r] = "idle"
      /\ ioctl'[r] = "forwarded" /\ (q # r => ioctl'[q] = ioctl[q])
      /\ UNCHANGED <<ioctlHand, pumpHand, completions, received>>
  BY <1>1 DEF TypeOK, Forward, requests
<1>3. Occurrences(queue', q) = Occurrences(queue, q) + IF r = q THEN 1 ELSE 0
  BY <1>2, OccurrencesAppended
<1>4. Holders(q)' = Holders(q) /\ HeldByPump(q)' = HeldByPump(q)
  BY <1>2 DEF Holders, HeldByPump
<1>5. ClaimsOf(q)' = ClaimsOf(q) + IF r = q THEN 1 ELSE 0
  BY <1>1, <1>3, <1>4 DEF ClaimParts
<1>6. CASE q # r
  <2>1. ClaimsOf(q)' = ClaimsOf(q)
    BY <1>1, <1>5, <1>6 DEF ClaimParts
  <2>. QED BY <1>1, <1>2, <1>6, <2>1, AccountedKept
<1>7. CASE q = r
  <2>1. ClaimsOf(q) \in Nat /\ completions[q] \in Nat
    BY <1>1 DEF ClaimParts
  <2>2. ClaimsOf(q) = 0 /\ completions'[q] = 0 /\ received'[q] = NoPacket /\ ClaimsOf(q)' = 1
    BY <1>1, <1>2, <1>5, <1>7, <2>1 DEF Accounted
  <2>. QED BY <1>2, <1>7, <2>2 DEF Accounted
<1>. QED BY <1>6, <1>7

\* A claim that ends with the completion of its request.
LEMMA ClaimEnds ==
    ASSUME TypeOK, NEW h \in Reads, Accounted(h), ClaimsOf(h) >= 1, ClaimsOf(h)' = ClaimsOf(h) - 1,
           completions'[h] = completions[h] + 1,
           \/ ioctl'[h] = ioctl[h]
           \/ ioctl[h] = "deliver" /\ ioctl'[h] \in {"epilogue", "returned"}
    PROVE  Accounted(h)'
<1>1. ClaimsOf(h) \in Nat /\ completions[h] \in Nat
  BY ClaimsAdd DEF ClaimParts
<1>2. ClaimsOf(h) = 1 /\ ClaimsOf(h)' = 0 /\ ioctl[h] # "idle"
  BY <1>1 DEF Accounted
<1>. QED BY <1>1, <1>2 DEF Accounted

\* What delivering, or failing to deliver, the packet of a hand does to requests.
LEMMA DeliveredTo ==
    ASSUME TypeOK, NEW hand \in Hands, NEW outcome \in Outcomes, Delivered(hand, outcome)
    PROVE  /\ hand.request \in Reads /\ hand.packet \in Packets
           /\ completions'[hand.request] = completions[hand.request] + 1
           /\ \A q \in Reads : q # hand.request => /\ completions'[q] = completions[q]
                                                   /\ received'[q] = received[q]
           /\ outcome = "success" => received'[hand.request] = hand.packet /\ lost' = lost
           /\ outcome # "success" => received' = received /\ lost' = lost \cup {hand.packet}
BY DEF Delivered, Hands, TypeOK

\* A dispatch thread completes the request in its hand.
LEMMA ThreadDelivers ==
    ASSUME ReadsInv, TypeOK', NEW r \in Reads, DeliverListed(r)
    PROVE  \A q \in Reads : Accounted(q)'
<1> SUFFICES ASSUME NEW q \in Reads PROVE Accounted(q)'
  OBVIOUS
<1> DEFINE h == ioctlHand[r].request
<1>1. TypeOK /\ Accounted(q) /\ Accounted(r) /\ ClaimParts /\ ClaimParts'
  BY ClaimsAdd, ClaimsAddNext DEF ReadsInv
<1>2. PICK outcome \in Outcomes :
          /\ Delivered(ioctlHand[r], outcome)
          /\ ioctl' = [ioctl EXCEPT ![r] = IF outcome = "success" THEN "returned" ELSE "epilogue"]
  BY DEF DeliverListed
<1>3. /\ ioctlHand[r] \in Hands /\ ioctl[r] = "deliver" /\ ioctlHand'[r] = EmptyHand
      /\ ioctl'[r] \in {"epilogue", "returned"}
      /\ \A t \in Reads : t # r => ioctlHand'[t] = ioctlHand[t] /\ ioctl'[t] = ioctl[t]
      /\ UNCHANGED <<queue, pumpHand>>
  BY <1>1, <1>2 DEF TypeOK, DeliverListed
<1>4. /\ h \in Reads /\ completions'[h] = completions[h] + 1
      /\ q # h => completions'[q] = completions[q] /\ received'[q] = received[q]
  BY <1>1, <1>2, <1>3, DeliveredTo
<1> HIDE DEF h
<1>5. Cardinality(Holders(q)') = Cardinality(Holders(q)) - IF q = h THEN 1 ELSE 0
  <2>1. Holders(q) \in SUBSET Reads /\ Holders(q)' \in SUBSET Reads
    BY DEF Holders
  <2>2. r \notin Holders(q)' /\ (r \in Holders(q) <=> q = h)
    BY <1>3, EmptyClaims DEF Holders, h
  <2>3. \A t \in Reads : t # r => (t \in Holders(q) <=> t \in Holders(q)')
    BY <1>3 DEF Holders
  <2>. QED BY <2>1, <2>2, <2>3, OneChanged
<1>6. ClaimsOf(q)' = ClaimsOf(q) - IF q = h THEN 1 ELSE 0
  <2>1. HeldByPump(q)' = HeldByPump(q) /\ Occurrences(queue', q) = Occurrences(queue, q)
    BY <1>3 DEF HeldByPump
  <2>. QED BY <1>1, <1>5, <2>1 DEF ClaimParts
<1>7. CASE q = h
  <2>1. Cardinality(Holders(q)) >= 1
    BY <1>1, <1>7, HandIsClaim DEF h
  <2>2. ClaimsOf(q) >= 1
    BY <1>1, <2>1 DEF ClaimParts
  <2>3. ioctl'[q] = ioctl[q] \/ (ioctl[q] = "deliver" /\ ioctl'[q] \in {"epilogue", "returned"})
    BY <1>3
  <2>. QED BY <1>1, <1>4, <1>6, <1>7, <2>2, <2>3, ClaimEnds
<1>8. CASE q # h
  <2>1. ClaimsOf(q)' = ClaimsOf(q)
    BY <1>1, <1>6, <1>8 DEF ClaimParts
  <2>2. \/ ioctl'[q] = ioctl[q]
        \/ ioctl[q] = "deliver" /\ ioctl'[q] \in {"epilogue", "returned"}
    BY <1>3
  <2>. QED BY <1>1, <1>4, <1>8, <2>1, <2>2, AccountedKept
<1>. QED BY <1>7, <1>8

\* And so does the pump.
LEMMA PumpDeliversIt ==
    ASSUME ReadsInv, TypeOK', PumpDelivers
    PROVE  \A q \in Reads : Accounted(q)'
<1> SUFFICES ASSUME NEW q \in Reads PROVE Accounted(q)'
  OBVIOUS
<1> DEFINE h == pumpHand.request
<1>1. TypeOK /\ Accounted(q) /\ ClaimParts /\ ClaimParts'
  BY ClaimsAdd, ClaimsAddNext DEF ReadsInv
<1>2. PICK outcome \in Outcomes : Delivered(pumpHand, outcome)
  BY DEF PumpDelivers
<1>3. /\ pumpHand \in Hands /\ pumpHand' = EmptyHand
      /\ UNCHANGED <<queue, ioctl, ioctlHand>>
  BY <1>1 DEF TypeOK, PumpDelivers
<1>4. /\ h \in Reads /\ completions'[h] = completions[h] + 1
      /\ q # h => completions'[q] = completions[q] /\ received'[q] = received[q]
  BY <1>1, <1>2, <1>3, DeliveredTo
<1> HIDE DEF h
<1>5. HeldByPump(q)' = 0 /\ HeldByPump(q) = IF q = h THEN 1 ELSE 0
  BY <1>3, EmptyClaims DEF HeldByPump, h
<1>6. ClaimsOf(q)' = ClaimsOf(q) - IF q = h THEN 1 ELSE 0
  <2>1. Holders(q)' = Holders(q) /\ Occurrences(queue', q) = Occurrences(queue, q)
    BY <1>3 DEF Holders
  <2>. QED BY <1>1, <1>5, <2>1 DEF ClaimParts
<1>7. CASE q = h
  <2>1. ClaimsOf(q) >= 1
    BY <1>1, <1>5, <1>7 DEF ClaimParts
  <2>. QED BY <1>1, <1>3, <1>4, <1>6, <1>7, <2>1, ClaimEnds
<1>8. CASE q # h
  <2>1. ClaimsOf(q)' = ClaimsOf(q)
    BY <1>1, <1>6, <1>8 DEF ClaimParts
  <2>. QED BY <1>1, <1>3, <1>4, <1>8, <2>1, AccountedKept
<1>. QED BY <1>7, <1>8

LEMMA EpilogueCompletes ==
    ASSUME ReadsInv, TypeOK', NEW r \in Reads, Epilogue(r)
    PROVE  \A q \in Reads : Accounted(q)'
<1> SUFFICES ASSUME NEW q \in Reads PROVE Accounted(q)'
  OBVIOUS
<1>1. TypeOK /\ Accounted(q) /\ ClaimsOf(q) \in Nat /\ completions[q] \in Nat
  BY ClaimsAdd DEF ReadsInv, ClaimParts
<1>2. /\ ioctl[r] = "epilogue" /\ ioctl'[r] = "returned" /\ completions'[r] = completions[r] + 1
      /\ q # r => ioctl'[q] = ioctl[q] /\ completions'[q] = completions[q]
      /\ UNCHANGED <<queue, ioctlHand, pumpHand, received>>
  BY <1>1 DEF TypeOK, Epilogue
<1>3. ClaimsOf(q)' = ClaimsOf(q)
  BY <1>2 DEF ClaimsOf
<1>4. CASE q # r
  BY <1>1, <1>2, <1>3, <1>4, AccountedKept
<1>5. CASE q = r
  BY <1>1, <1>2, <1>3, <1>5 DEF Accounted
<1>. QED BY <1>4, <1>5

\* The framework cancels what waits in the queue.
LEMMA ClaimCancelled ==
    ASSUME TypeOK, ClaimParts, ClaimParts', NEW r \in Reads, NEW q \in Reads, Accounted(q),
           Occurrences(queue', q) = Occurrences(queue, q) - IF q = r THEN 1 ELSE 0,
           q = r => Occurrences(queue, q) >= 1,
           Holders(q)' = Holders(q), HeldByPump(q)' = HeldByPump(q),
           completions'[r] = completions[r] + 1, q # r => completions'[q] = completions[q],
           UNCHANGED <<ioctl, received>>
    PROVE  Accounted(q)'
<1>1. ClaimsOf(q)' = ClaimsOf(q) - IF q = r THEN 1 ELSE 0
  BY DEF ClaimParts
<1>2. CASE q = r
  <2>1. ClaimsOf(q) >= 1
    BY <1>2 DEF ClaimParts
  <2>. QED BY <1>1, <1>2, <2>1, ClaimEnds
<1>3. CASE q # r
  <2>1. ClaimsOf(q)' = ClaimsOf(q)
    BY <1>1, <1>3 DEF ClaimParts
  <2>. QED BY <1>3, <2>1, AccountedKept
<1>. QED BY <1>2, <1>3

LEMMA CancelEndsClaim ==
    ASSUME ReadsInv, TypeOK', NEW r \in Reads, CancelRead(r)
    PROVE  \A q \in Reads : Accounted(q)'
<1> SUFFICES ASSUME NEW q \in Reads PROVE Accounted(q)'
  OBVIOUS
<1>1. TypeOK /\ Accounted(q) /\ ClaimParts /\ ClaimParts'
  BY ClaimsAdd, ClaimsAddNext DEF ReadsInv
<1>2. /\ queue \in Seq(Reads) /\ completions'[r] = completions[r] + 1
      /\ q # r => completions'[q] = completions[q]
      /\ UNCHANGED <<ioctl, ioctlHand, pumpHand, received>>
  BY <1>1 DEF TypeOK, CancelRead, hands
<1>3. PICK i \in 1..Len(queue) :
          queue[i] = r /\ queue' = SubSeq(queue, 1, i - 1) \o SubSeq(queue, i + 1, Len(queue))
  BY DEF CancelRead
<1>4. queue' \in Seq(Reads) /\ Without(queue', queue, i)
  BY <1>2, <1>3, TakenOut
<1>5. /\ Occurrences(queue', q) = Occurrences(queue, q) - IF q = r THEN 1 ELSE 0
      /\ q = r => Occurrences(queue, q) >= 1
  <2>1. queue[i] = r
    BY <1>3
  <2>2. Occurrences(queue', q) = Occurrences(queue, q) - IF queue[i] = q THEN 1 ELSE 0
    BY <1>2, <1>4, OccurrencesWithout
  <2>3. Occurrences(queue, q) \in Nat /\ (q = r => Occurrences(queue, q) # 0)
    BY <1>2, <2>1, OccurrencesType
  <2>. QED BY <2>1, <2>2, <2>3
<1>6. Holders(q)' = Holders(q) /\ HeldByPump(q)' = HeldByPump(q)
  BY <1>2 DEF Holders, HeldByPump
<1>. QED BY <1>1, <1>2, <1>5, <1>6, ClaimCancelled

LEMMA ReadsStep == ReadsInv /\ [Next]_vars => ReadsInv'
<1> SUFFICES ASSUME ReadsInv, [Next]_vars PROVE ReadsInv'
  OBVIOUS
<1>0. TypeOK /\ TypeOK'
  BY TypeStep DEF ReadsInv
<1>a. SUFFICES \A q \in Reads : Accounted(q)'
  BY <1>0 DEF ReadsInv
<1>1. ASSUME NEW r \in Reads, Refuse(r) PROVE \A q \in Reads : Accounted(q)'
  BY <1>1, ThreadMovesAlone DEF Refuse, requests
<1>2. ASSUME NEW r \in Reads, Forward(r) PROVE \A q \in Reads : Accounted(q)'
  BY <1>0, <1>2, ForwardClaims
<1>3. ASSUME NEW r \in Reads, LeavePending(r) PROVE \A q \in Reads : Accounted(q)'
  BY <1>3, ThreadMovesAlone DEF LeavePending, requests
<1>4. ASSUME NEW r \in Reads, TakeListed(r) PROVE \A q \in Reads : Accounted(q)'
  BY <1>0, <1>4, ThreadTakesRequest
<1>5. ASSUME NEW r \in Reads, MissRequest(r) PROVE \A q \in Reads : Accounted(q)'
  BY <1>5, ThreadMovesAlone DEF MissRequest, requests
<1>6. ASSUME NEW r \in Reads, DeliverListed(r) PROVE \A q \in Reads : Accounted(q)'
  BY <1>0, <1>6, ThreadDelivers
<1>7. ASSUME NEW r \in Reads, Epilogue(r) PROVE \A q \in Reads : Accounted(q)'
  BY <1>0, <1>7, EpilogueCompletes
<1>8. ASSUME NEW r \in Reads, CancelRead(r) PROVE \A q \in Reads : Accounted(q)'
  BY <1>0, <1>8, CancelEndsClaim
<1>9. CASE PumpTakesRequest
  BY <1>0, <1>9, PumpTakesIt
<1>10. CASE PumpDelivers
  BY <1>0, <1>10, PumpDeliversIt
<1>11. CASE PumpListsPacket \/ PumpDropsPacket \/ LeaveD0 \/ EnterD0 \/ Remove \/ UNCHANGED vars
  <2>1. UNCHANGED <<queue, ioctl, ioctlHand, pumpHand, completions, received>>
    BY <1>11 DEF PumpListsPacket, PumpDropsPacket, LeaveD0, EnterD0, Remove, vars, hands, requests
  <2>2. ASSUME NEW q \in Reads PROVE Accounted(q)'
    <3>1. ClaimsOf(q)' = ClaimsOf(q)
      BY <2>1 DEF ClaimsOf
    <3>. QED BY <2>1, <3>1, AccountedKept DEF ReadsInv
  <2>. QED BY <2>2
<1>. QED
  BY <1>1, <1>2, <1>3, <1>4, <1>5, <1>6, <1>7, <1>8, <1>9, <1>10, <1>11 DEF Next, Ioctl, Exhausted

LEMMA ReadsAccount == ReadsInv => ReadsAccountedFor
<1>1. ASSUME ReadsInv, NEW r \in Reads
      PROVE  /\ ClaimsOf(r) <= 1
             /\ ioctl[r] \in {"deliver", "returned"} => ClaimsOf(r) + completions[r] >= 1
             /\ ClaimsOf(r) + completions[r] <= IF ioctl[r] = "returned" THEN 2 ELSE 1
  <2>1. ClaimsOf(r) \in Nat /\ completions[r] \in Nat
    BY <1>1, ClaimsAdd DEF ReadsInv, ClaimParts
  <2>2. Accounted(r) /\ ioctl[r] \in {"idle", "forwarded", "deliver", "epilogue", "returned"}
    BY <1>1 DEF ReadsInv, TypeOK
  <2>. QED BY <2>1, <2>2 DEF Accounted
<1>. QED BY <1>1 DEF ReadsAccountedFor

\* Every read request that was dispatched is accounted for, and but for its own
\* epilogue it is completed once, for any number of requests and packets.
THEOREM NoReadForgotten == Spec => []ReadsAccountedFor
BY ReadsInit, ReadsStep, ReadsAccount, PTL DEF Spec
-----------------------------------------------------------------------------
(* The packets.  The places of a packet are counted as the claims of a      *)
(* request are; that no step overwrites a packet a reader has got is what  *)
(* the requests say.                                                       *)

\* Sets of places with different tags do not meet.
LEMMA TaggedPlaces ==
    ASSUME NEW A, IsFiniteSet(A), NEW tag
    PROVE  /\ IsFiniteSet({<<tag, x>> : x \in A})
           /\ Cardinality({<<tag, x>> : x \in A}) = Cardinality(A)
<1> DEFINE T == {<<tag, x>> : x \in A}
           f == [x \in A |-> <<tag, x>>]
<1>1. f \in Bijection(A, T)
  <2>1. f \in [A -> T] /\ \A t \in T : \E x \in A : f[x] = t
    OBVIOUS
  <2>2. \A x, y \in A : f[x] = f[y] => x = y
    OBVIOUS
  <2> HIDE DEF f, T
  <2>. QED BY <2>1, <2>2 DEF Bijection, Injection, Surjection, IsInjective
<1> HIDE DEF f, T
<1>2. IsFiniteSet(T) /\ Cardinality(T) = Cardinality(A)
  BY <1>1, FS_Bijection DEF ExistsBijection
<1>. QED BY <1>2 DEF T

LEMMA DisjointUnion ==
    ASSUME NEW A, NEW B, IsFiniteSet(A), IsFiniteSet(B), A \cap B = {}
    PROVE  /\ IsFiniteSet(A \cup B)
           /\ Cardinality(A \cup B) = Cardinality(A) + Cardinality(B)
<1>1. /\ IsFiniteSet(A \cup B)
      /\ Cardinality(A \cup B) = Cardinality(A) + Cardinality(B) - Cardinality({})
  BY FS_Union
<1>2. Cardinality({}) = 0 /\ Cardinality(A) \in Nat /\ Cardinality(B) \in Nat
  BY FS_EmptySet, FS_CardinalityType
<1>. QED BY <1>1, <1>2

WithThreads(p) == {q \in Reads : ioctlHand[q].packet = p}
WithReaders(p) == {q \in Reads : received[q] = p}
WithPump(p)    == IF pumpHand.packet = p THEN 1 ELSE 0
GivenUp(p)     == IF p \in lost THEN 1 ELSE 0

PlaceCount(p) ==
    Occurrences(list, p) + Cardinality(WithThreads(p)) + Cardinality(WithReaders(p))
    + WithPump(p) + GivenUp(p)

PlaceParts ==
    \A p \in Packets :
        /\ Occurrences(list, p) \in Nat
        /\ Cardinality(WithThreads(p)) \in Nat /\ Cardinality(WithReaders(p)) \in Nat
        /\ WithPump(p) \in {0, 1} /\ GivenUp(p) \in {0, 1}

LEMMA PlacesAdd == TypeOK => PlaceParts
<1> SUFFICES ASSUME TypeOK, NEW p \in Packets
             PROVE  /\ Occurrences(list, p) \in Nat
                    /\ Cardinality(WithThreads(p)) \in Nat /\ Cardinality(WithReaders(p)) \in Nat
                    /\ WithPump(p) \in {0, 1} /\ GivenUp(p) \in {0, 1}
  BY DEF PlaceParts
<1>1. Occurrences(list, p) \in Nat
  BY OccurrencesType DEF TypeOK
<1>2. Cardinality(WithThreads(p)) \in Nat /\ Cardinality(WithReaders(p)) \in Nat
  <2>1. WithThreads(p) \in SUBSET Reads /\ WithReaders(p) \in SUBSET Reads
    BY DEF WithThreads, WithReaders
  <2>. QED BY <2>1, ReadQueueAssumption, FS_Subset, FS_CardinalityType
<1>3. WithPump(p) \in {0, 1} /\ GivenUp(p) \in {0, 1}
  BY DEF WithPump, GivenUp
<1>. QED BY <1>1, <1>2, <1>3

LEMMA PlacesAddNext == TypeOK' => PlaceParts'
BY PlacesAdd, PTL

\* The places of a packet are as many as the counts say.
LEMMA PlacesCounted ==
    ASSUME TypeOK, NEW p \in Packets
    PROVE  Cardinality(PlacesOf(p)) = PlaceCount(p)
<1> DEFINE at     == {i \in 1..Len(list) : list[i] = p}
           inPump == {pumpHand.packet} \cap {p}
           given  == lost \cap {p}
           L == {<<"list", x>> : x \in at}
           T == {<<"thread", x>> : x \in WithThreads(p)}
           R == {<<"reader", x>> : x \in WithReaders(p)}
           U == {<<"pump", x>> : x \in inPump}
           G == {<<"lost", x>> : x \in given}
<1>1. PlacesOf(p) = L \cup T \cup R \cup U \cup G
  <2>1. /\ L = {<<"list", i>> : i \in {j \in 1..Len(list) : list[j] = p}}
        /\ T = {<<"thread", r>> : r \in {q \in Reads : ioctlHand[q].packet = p}}
        /\ R = {<<"reader", r>> : r \in {q \in Reads : received[q] = p}}
    BY DEF WithThreads, WithReaders
  <2>2. /\ U = {<<"pump", p>> : q \in {pumpHand.packet} \cap {p}}
        /\ G = {<<"lost", p>> : q \in lost \cap {p}}
    OBVIOUS
  <2> HIDE DEF L, T, R, U, G
  <2>. QED BY <2>1, <2>2, Zenon DEF PlacesOf
<1>2. IsFiniteSet(at) /\ Cardinality(at) = Occurrences(list, p)
  <2>1. list \in Seq(Packets)
    BY DEF TypeOK
  <2>2. Len(list) \in Nat
    BY <2>1, LenProperties
  <2>3. at \in SUBSET (1..Len(list)) /\ IsFiniteSet(1..Len(list))
    BY <2>2, FS_Interval
  <2>. QED BY <2>3, FS_Subset DEF Occurrences
<1>3. IsFiniteSet(WithThreads(p)) /\ IsFiniteSet(WithReaders(p))
  BY ReadQueueAssumption, FS_Subset DEF WithThreads, WithReaders
<1>4. IsFiniteSet(inPump) /\ Cardinality(inPump) = WithPump(p)
  <2>1. inPump = IF pumpHand.packet = p THEN {p} ELSE {}
    OBVIOUS
  <2>. QED BY <2>1, FS_Singleton, FS_EmptySet DEF WithPump
<1>5. IsFiniteSet(given) /\ Cardinality(given) = GivenUp(p)
  <2>1. given = IF p \in lost THEN {p} ELSE {}
    OBVIOUS
  <2>. QED BY <2>1, FS_Singleton, FS_EmptySet DEF GivenUp
<1> HIDE DEF at, inPump, given
<1>6. /\ IsFiniteSet(L) /\ Cardinality(L) = Occurrences(list, p)
      /\ IsFiniteSet(T) /\ Cardinality(T) = Cardinality(WithThreads(p))
      /\ IsFiniteSet(R) /\ Cardinality(R) = Cardinality(WithReaders(p))
      /\ IsFiniteSet(U) /\ Cardinality(U) = WithPump(p)
      /\ IsFiniteSet(G) /\ Cardinality(G) = GivenUp(p)
  BY <1>2, <1>3, <1>4, <1>5, TaggedPlaces
<1>7. /\ L \cap T = {} /\ (L \cup T) \cap R = {} /\ (L \cup T \cup R) \cap U = {}
      /\ (L \cup T \cup R \cup U) \cap G = {}
  OBVIOUS
<1> HIDE DEF L, T, R, U, G
<1>8. /\ IsFiniteSet(L \cup T)
      /\ Cardinality(L \cup T) = Occurrences(list, p) + Cardinality(WithThreads(p))
  BY <1>6, <1>7, DisjointUnion
<1>9. /\ IsFiniteSet(L \cup T \cup R)
      /\ Cardinality(L \cup T \cup R) = Cardinality(L \cup T) + Cardinality(WithReaders(p))
  BY <1>6, <1>7, <1>8, DisjointUnion
<1>10. /\ IsFiniteSet(L \cup T \cup R \cup U)
       /\ Cardinality(L \cup T \cup R \cup U) = Cardinality(L \cup T \cup R) + WithPump(p)
  BY <1>6, <1>7, <1>9, DisjointUnion
<1>11. Cardinality(L \cup T \cup R \cup U \cup G)
          = Cardinality(L \cup T \cup R \cup U) + GivenUp(p)
  <2> DEFINE M == L \cup T \cup R \cup U
  <2> HIDE DEF M
  <2>1. IsFiniteSet(M) /\ IsFiniteSet(G) /\ M \cap G = {}
    BY <1>6, <1>7, <1>10 DEF M
  <2>2. Cardinality(M \cup G) = Cardinality(M) + Cardinality(G)
    BY <2>1, DisjointUnion
  <2>. QED BY <1>6, <2>2 DEF M
<1>. QED BY <1>1, <1>8, <1>9, <1>10, <1>11 DEF PlaceCount

\* The inductive invariant.
PlacedOnce(p) == PlaceCount(p) = IF p <= arrived THEN 1 ELSE 0

PlacesInv == ReadsInv /\ \A p \in Packets : PlacedOnce(p)

LEMMA PlacesInit == Init => PlacesInv
<1> SUFFICES ASSUME Init PROVE PlacesInv
  OBVIOUS
<1>1. TypeOK /\ ReadsInv
  BY TypeInit, ReadsInit
<1>2. ASSUME NEW p \in Packets PROVE PlacedOnce(p)
  <2>1. p # NoPacket /\ ~(p <= arrived)
    BY ReadQueueAssumption DEF Packets, Init
  <2>2. Occurrences(list, p) = 0
    BY OccurrencesEmpty DEF Init
  <2>3. WithThreads(p) = {} /\ WithReaders(p) = {} /\ WithPump(p) = 0 /\ GivenUp(p) = 0
    BY <2>1 DEF Init, WithThreads, WithReaders, WithPump, GivenUp, EmptyHand
  <2>. QED BY <2>1, <2>2, <2>3, FS_EmptySet DEF PlacedOnce, PlaceCount
<1>. QED BY <1>1, <1>2 DEF PlacesInv

\* An empty hand holds no packet.
LEMMA EmptyHoldsNone == ASSUME NEW p \in Packets PROVE EmptyHand.packet # p /\ NoPacket # p
BY ReadQueueAssumption DEF EmptyHand, Packets

\* A step that moves the packets between no places, or one from place to place.
LEMMA PlacedKept ==
    ASSUME NEW p \in Packets, PlacedOnce(p), PlaceCount(p)' = PlaceCount(p), arrived' = arrived
    PROVE  PlacedOnce(p)'
BY DEF PlacedOnce

LEMMA NothingMoved ==
    ASSUME NEW p \in Packets, PlacedOnce(p),
           UNCHANGED <<list, ioctlHand, received, pumpHand, lost, arrived>>
    PROVE  PlacedOnce(p)'
<1>1. PlaceCount(p)' = PlaceCount(p)
  BY DEF PlaceCount, WithThreads, WithReaders, WithPump, GivenUp
<1>. QED BY <1>1, PlacedKept

\* The oldest packet of the list passes to an empty hand.
LEMMA PacketTaken ==
    ASSUME PlacesInv, TypeOK', NEW p \in Packets, NEW r \in Reads, TakeListed(r)
    PROVE  PlacedOnce(p)'
<1>1. TypeOK /\ PlacedOnce(p) /\ PlaceParts
  BY PlacesAdd DEF PlacesInv, ReadsInv
<1>2. /\ list \in Seq(Packets) /\ list # <<>> /\ list' = Tail(list)
      /\ ioctlHand[r] = EmptyHand /\ ioctlHand'[r].packet = Head(list)
      /\ \A t \in Reads : t # r => ioctlHand'[t] = ioctlHand[t]
      /\ UNCHANGED <<pumpHand, received, lost, arrived>>
  BY <1>1 DEF TypeOK, TakeListed, requests
<1>3. Occurrences(list', p) = Occurrences(list, p) - IF Head(list) = p THEN 1 ELSE 0
  BY <1>2, OccurrencesTail
<1>4. Cardinality(WithThreads(p)') = Cardinality(WithThreads(p)) + IF Head(list) = p THEN 1 ELSE 0
  <2>1. WithThreads(p) \in SUBSET Reads /\ WithThreads(p)' \in SUBSET Reads
    BY DEF WithThreads
  <2>2. r \notin WithThreads(p) /\ (r \in WithThreads(p)' <=> Head(list) = p)
    BY <1>2, EmptyHoldsNone DEF WithThreads
  <2>3. \A t \in Reads : t # r => (t \in WithThreads(p) <=> t \in WithThreads(p)')
    BY <1>2 DEF WithThreads
  <2>. QED BY <2>1, <2>2, <2>3, OneChanged
<1>5. WithReaders(p)' = WithReaders(p) /\ WithPump(p)' = WithPump(p) /\ GivenUp(p)' = GivenUp(p)
  BY <1>2 DEF WithReaders, WithPump, GivenUp
<1>6. PlaceCount(p)' = PlaceCount(p)
  BY <1>1, <1>3, <1>4, <1>5 DEF PlaceCount, PlaceParts
<1>. QED BY <1>1, <1>2, <1>6, PlacedKept

\* What becomes of a packet that leaves a hand.  Its request has got no other
\* packet, since it is claimed, and the packet is not given up yet.
LEMMA PacketHandedOut ==
    ASSUME PlacesInv, TypeOK', NEW p \in Packets,
           NEW hand \in Hands, NEW outcome \in Outcomes, Delivered(hand, outcome),
           ClaimsOf(hand.request) >= 1, hand.packet = p => p \notin lost
    PROVE  Cardinality(WithReaders(p)') + GivenUp(p)'
              = Cardinality(WithReaders(p)) + GivenUp(p) + IF hand.packet = p THEN 1 ELSE 0
<1> DEFINE h == hand.request
           k == hand.packet
<1>1. TypeOK /\ PlaceParts /\ PlaceParts'
  BY PlacesAdd, PlacesAddNext DEF PlacesInv, ReadsInv
<1>2. /\ h \in Reads /\ k \in Packets
      /\ \A q \in Reads : q # h => received'[q] = received[q]
      /\ outcome = "success" => received'[h] = k /\ lost' = lost
      /\ outcome # "success" => received' = received /\ lost' = lost \cup {k}
  BY <1>1, DeliveredTo
<1>3. received[h] = NoPacket
  <2>1. Accounted(h)
    BY <1>2 DEF PlacesInv, ReadsInv
  <2>. QED BY <2>1 DEF Accounted
<1> HIDE DEF h, k
<1>4. CASE outcome = "success"
  <2>1. WithReaders(p) \in SUBSET Reads /\ WithReaders(p)' \in SUBSET Reads
    BY DEF WithReaders
  <2>2. h \notin WithReaders(p) /\ (h \in WithReaders(p)' <=> k = p)
    BY <1>2, <1>3, <1>4, EmptyHoldsNone DEF WithReaders
  <2>3. \A t \in Reads : t # h => (t \in WithReaders(p) <=> t \in WithReaders(p)')
    BY <1>2 DEF WithReaders
  <2>4. Cardinality(WithReaders(p)') = Cardinality(WithReaders(p)) + IF k = p THEN 1 ELSE 0
    BY <1>2, <2>1, <2>2, <2>3, OneChanged
  <2>5. GivenUp(p)' = GivenUp(p)
    BY <1>2, <1>4 DEF GivenUp
  <2>. QED BY <1>1, <2>4, <2>5 DEF PlaceParts, k
<1>5. CASE outcome # "success"
  <2>1. WithReaders(p)' = WithReaders(p)
    BY <1>2, <1>5 DEF WithReaders
  <2>2. GivenUp(p)' = GivenUp(p) + IF k = p THEN 1 ELSE 0
    BY <1>2, <1>5 DEF GivenUp, k
  <2>. QED BY <1>1, <2>1, <2>2 DEF PlaceParts, k
<1>. QED BY <1>4, <1>5

LEMMA ThreadGivesPacket ==
    ASSUME PlacesInv, TypeOK', NEW p \in Packets, NEW r \in Reads, DeliverListed(r)
    PROVE  PlacedOnce(p)'
<1> DEFINE k == ioctlHand[r].packet
<1>1. TypeOK /\ PlacedOnce(p) /\ PlaceParts /\ PlaceParts' /\ ClaimParts
  BY PlacesAdd, PlacesAddNext, ClaimsAdd DEF PlacesInv, ReadsInv
<1>2. PICK outcome \in Outcomes : Delivered(ioctlHand[r], outcome)
  BY DEF DeliverListed
<1>3. /\ ioctlHand[r] \in Hands /\ ioctlHand'[r] = EmptyHand
      /\ \A t \in Reads : t # r => ioctlHand'[t] = ioctlHand[t]
      /\ UNCHANGED <<list, pumpHand, arrived>>
  BY <1>1 DEF TypeOK, DeliverListed
<1>4. ioctlHand[r].request \in Reads /\ ClaimsOf(ioctlHand[r].request) >= 1
  <2>1. ioctlHand[r].request \in Reads
    BY <1>3 DEF Hands
  <2>2. Cardinality(Holders(ioctlHand[r].request)) >= 1
    BY <1>1, <2>1, HandIsClaim
  <2>. QED BY <1>1, <2>1, <2>2 DEF ClaimParts
<1>5. Cardinality(WithThreads(p)') = Cardinality(WithThreads(p)) - IF k = p THEN 1 ELSE 0
  <2>1. WithThreads(p) \in SUBSET Reads /\ WithThreads(p)' \in SUBSET Reads
    BY DEF WithThreads
  <2>2. r \notin WithThreads(p)' /\ (r \in WithThreads(p) <=> k = p)
    BY <1>3, EmptyHoldsNone DEF WithThreads
  <2>3. \A t \in Reads : t # r => (t \in WithThreads(p) <=> t \in WithThreads(p)')
    BY <1>3 DEF WithThreads
  <2> HIDE DEF k
  <2>. QED BY <2>1, <2>2, <2>3, OneChanged
<1>6. k = p => p \notin lost
  <2> SUFFICES ASSUME k = p, p \in lost PROVE FALSE
    OBVIOUS
  <2>1. Cardinality(WithThreads(p)) >= 1
    BY <1>1, <1>5 DEF PlaceParts
  <2>2. GivenUp(p) = 1
    BY DEF GivenUp
  <2>3. PlaceCount(p) >= 2
    BY <1>1, <2>1, <2>2 DEF PlaceCount, PlaceParts
  <2>. QED BY <1>1, <2>3 DEF PlacedOnce
<1>7. Cardinality(WithReaders(p)') + GivenUp(p)'
         = Cardinality(WithReaders(p)) + GivenUp(p) + IF k = p THEN 1 ELSE 0
  BY <1>2, <1>3, <1>4, <1>6, PacketHandedOut
<1> HIDE DEF k
<1>8. Occurrences(list, p)' = Occurrences(list, p) /\ WithPump(p)' = WithPump(p)
  BY <1>3 DEF WithPump
<1>9. PlaceCount(p)' = PlaceCount(p)
  BY <1>1, <1>5, <1>7, <1>8 DEF PlaceCount, PlaceParts
<1>. QED BY <1>1, <1>3, <1>9, PlacedKept

LEMMA PumpGivesPacket ==
    ASSUME PlacesInv, TypeOK', NEW p \in Packets, PumpDelivers
    PROVE  PlacedOnce(p)'
<1> DEFINE k == pumpHand.packet
<1>1. TypeOK /\ PlacedOnce(p) /\ PlaceParts /\ PlaceParts' /\ ClaimParts
  BY PlacesAdd, PlacesAddNext, ClaimsAdd DEF PlacesInv, ReadsInv
<1>2. PICK outcome \in Outcomes : Delivered(pumpHand, outcome)
  BY DEF PumpDelivers
<1>3. pumpHand \in Hands /\ pumpHand' = EmptyHand /\ UNCHANGED <<list, ioctlHand, arrived>>
  BY <1>1 DEF TypeOK, PumpDelivers
<1>4. pumpHand.request \in Reads /\ ClaimsOf(pumpHand.request) >= 1
  <2>1. pumpHand.request \in Reads
    BY <1>3 DEF Hands
  <2>2. HeldByPump(pumpHand.request) = 1
    BY <1>1, <2>1, HandIsClaim
  <2>. QED BY <1>1, <2>1, <2>2 DEF ClaimParts
<1>5. WithPump(p)' = 0 /\ WithPump(p) = IF k = p THEN 1 ELSE 0
  BY <1>3, EmptyHoldsNone DEF WithPump
<1>6. k = p => p \notin lost
  <2> SUFFICES ASSUME k = p, p \in lost PROVE FALSE
    OBVIOUS
  <2>1. GivenUp(p) = 1 /\ WithPump(p) = 1
    BY <1>5 DEF GivenUp
  <2>2. PlaceCount(p) >= 2
    BY <1>1, <2>1 DEF PlaceCount, PlaceParts
  <2>. QED BY <1>1, <2>2 DEF PlacedOnce
<1>7. Cardinality(WithReaders(p)') + GivenUp(p)'
         = Cardinality(WithReaders(p)) + GivenUp(p) + IF k = p THEN 1 ELSE 0
  BY <1>2, <1>3, <1>4, <1>6, PacketHandedOut
<1> HIDE DEF k
<1>8. Occurrences(list, p)' = Occurrences(list, p) /\ WithThreads(p)' = WithThreads(p)
  BY <1>3 DEF WithThreads
<1>9. PlaceCount(p)' = PlaceCount(p)
  BY <1>1, <1>5, <1>7, <1>8 DEF PlaceCount, PlaceParts
<1>. QED BY <1>1, <1>3, <1>9, PlacedKept

\* A packet that arrives was nowhere before, and is in one place then.
LEMMA PacketArrives ==
    ASSUME PlacesInv, NEW p \in Packets, arrived' = arrived + 1,
           PlaceCount(p)' = PlaceCount(p) + IF arrived + 1 = p THEN 1 ELSE 0
    PROVE  PlacedOnce(p)'
<1>1. arrived \in Nat /\ p \in Nat /\ PlacedOnce(p)
  BY ReadQueueAssumption DEF PlacesInv, ReadsInv, TypeOK, Packets
<1>2. CASE arrived + 1 = p
  BY <1>1, <1>2 DEF PlacedOnce
<1>3. CASE arrived + 1 # p
  <2>1. PlaceCount(p) \in Nat
    BY <1>1 DEF PlacedOnce
  <2>. QED BY <1>1, <1>3, <2>1 DEF PlacedOnce
<1>. QED BY <1>2, <1>3

LEMMA PacketBrought ==
    ASSUME PlacesInv, TypeOK', NEW p \in Packets,
           PumpTakesRequest \/ PumpListsPacket \/ PumpDropsPacket
    PROVE  PlacedOnce(p)'
<1> DEFINE one == IF arrived + 1 = p THEN 1 ELSE 0
<1>1. TypeOK /\ PlacedOnce(p) /\ PlaceParts /\ arrived \in Nat /\ arrived + 1 \in Packets
  <2>1. TypeOK /\ PlacedOnce(p)
    BY DEF PlacesInv, ReadsInv
  <2>2. arrived \in Nat /\ arrived < MaxPackets
    BY <2>1, ReadQueueAssumption
    DEF TypeOK, PumpTakesRequest, PumpListsPacket, PumpDropsPacket, Arrives
  <2>. QED BY <2>1, <2>2, PlacesAdd, ReadQueueAssumption DEF Packets
<1>2. arrived' = arrived + 1
  BY DEF PumpTakesRequest, PumpListsPacket, PumpDropsPacket
<1>3. arrived + 1 = p => PlaceCount(p) = 0
  BY <1>1 DEF PlacedOnce
<1>4. UNCHANGED <<ioctlHand, received>>
  BY DEF PumpTakesRequest, PumpListsPacket, PumpDropsPacket, hands, requests
<1>5. WithThreads(p)' = WithThreads(p) /\ WithReaders(p)' = WithReaders(p)
  BY <1>4 DEF WithThreads, WithReaders
<1>6. PlaceCount(p)' = PlaceCount(p) + one
  <2>1. CASE PumpTakesRequest
    <3>1. /\ pumpHand = EmptyHand /\ pumpHand'.packet = arrived + 1
          /\ UNCHANGED <<list, lost>>
      BY <1>1, <2>1 DEF TypeOK, PumpTakesRequest, Arrives
    <3>2. /\ WithPump(p)' = WithPump(p) + one /\ GivenUp(p)' = GivenUp(p)
          /\ Occurrences(list, p)' = Occurrences(list, p)
      BY <3>1, EmptyHoldsNone DEF WithPump, GivenUp
    <3>. QED BY <1>1, <1>5, <3>2 DEF PlaceCount, PlaceParts
  <2>2. CASE PumpListsPacket
    <3>1. /\ list \in Seq(Packets) /\ list' = Append(list, arrived + 1)
          /\ UNCHANGED <<pumpHand, lost>>
      BY <1>1, <2>2 DEF TypeOK, PumpListsPacket, hands
    <3>2. Occurrences(list', p) = Occurrences(list, p) + one
      BY <1>1, <3>1, OccurrencesAppended
    <3>3. WithPump(p)' = WithPump(p) /\ GivenUp(p)' = GivenUp(p)
      BY <3>1 DEF WithPump, GivenUp
    <3>. QED BY <1>1, <1>5, <3>2, <3>3 DEF PlaceCount, PlaceParts
  <2>3. CASE PumpDropsPacket
    <3>1. lost' = lost \cup {arrived + 1} /\ UNCHANGED <<list, pumpHand>>
      BY <2>3 DEF PumpDropsPacket, hands
    <3>2. arrived + 1 = p => GivenUp(p) = 0
      BY <1>1, <1>3 DEF PlaceCount, PlaceParts
    <3>3. GivenUp(p)' = GivenUp(p) + one
      BY <3>1, <3>2 DEF GivenUp
    <3>4. WithPump(p)' = WithPump(p) /\ Occurrences(list, p)' = Occurrences(list, p)
      BY <3>1 DEF WithPump
    <3>. QED BY <1>1, <1>5, <3>3, <3>4 DEF PlaceCount, PlaceParts
  <2>. QED BY <2>1, <2>2, <2>3
<1>. QED BY <1>2, <1>6, PacketArrives

\* ReadResourcesFree gives up what is listed.
LEMMA ListFreed ==
    ASSUME PlacesInv, TypeOK', NEW p \in Packets, Remove
    PROVE  PlacedOnce(p)'
<1>0. list \in Seq(Packets)
  BY DEF PlacesInv, ReadsInv, TypeOK
<1>1. TypeOK /\ PlacedOnce(p) /\ PlaceParts
  BY PlacesAdd DEF PlacesInv, ReadsInv
<1>2. /\ list' = <<>> /\ lost' = lost \cup {list[i] : i \in DOMAIN list}
      /\ UNCHANGED <<ioctlHand, received, pumpHand, arrived>>
  BY DEF Remove, hands, requests
<1>3. DOMAIN list = 1..Len(list)
  BY <1>0, LenProperties
<1>4. Occurrences(list', p) = 0
  BY <1>2, OccurrencesEmpty
<1>5. Occurrences(list, p) = 0 <=> \A i \in 1..Len(list) : list[i] # p
  BY <1>0, OccurrencesType
<1>6. p \in lost' <=> p \in lost \/ Occurrences(list, p) # 0
  BY <1>2, <1>3, <1>5
<1>7. PlaceCount(p) <= 1
  BY <1>1 DEF PlacedOnce
<1>8. Occurrences(list, p) + GivenUp(p) <= 1
  BY <1>1, <1>7 DEF PlaceCount, PlaceParts
<1>9. GivenUp(p)' = Occurrences(list, p) + GivenUp(p)
  <2>1. Occurrences(list, p) \in Nat
    BY <1>1 DEF PlaceParts
  <2>. QED BY <1>6, <1>8, <2>1 DEF GivenUp
<1>10. /\ WithThreads(p)' = WithThreads(p) /\ WithReaders(p)' = WithReaders(p)
       /\ WithPump(p)' = WithPump(p)
  BY <1>2 DEF WithThreads, WithReaders, WithPump
<1>11. PlaceCount(p)' = PlaceCount(p)
  BY <1>1, <1>4, <1>9, <1>10 DEF PlaceCount, PlaceParts
<1>. QED BY <1>1, <1>2, <1>11, PlacedKept

LEMMA PlacesStep == PlacesInv /\ [Next]_vars => PlacesInv'
<1> SUFFICES ASSUME PlacesInv, [Next]_vars PROVE PlacesInv'
  OBVIOUS
<1>0. ReadsInv' /\ TypeOK'
  BY ReadsStep, TypeStep DEF PlacesInv, ReadsInv
<1> SUFFICES ASSUME NEW p \in Packets PROVE PlacedOnce(p)'
  BY <1>0 DEF PlacesInv, Packets
<1>1. ASSUME NEW r \in Reads, TakeListed(r) PROVE PlacedOnce(p)'
  BY <1>0, <1>1, PacketTaken
<1>2. ASSUME NEW r \in Reads, DeliverListed(r) PROVE PlacedOnce(p)'
  BY <1>0, <1>2, ThreadGivesPacket
<1>3. CASE PumpDelivers
  BY <1>0, <1>3, PumpGivesPacket
<1>4. CASE PumpTakesRequest \/ PumpListsPacket \/ PumpDropsPacket
  BY <1>0, <1>4, PacketBrought
<1>5. CASE Remove
  BY <1>0, <1>5, ListFreed
<1>6. PlacedOnce(p)
  BY DEF PlacesInv
<1>7. ASSUME NEW r \in Reads,
             Refuse(r) \/ Forward(r) \/ LeavePending(r) \/ MissRequest(r) \/ Epilogue(r) \/ CancelRead(r)
      PROVE  PlacedOnce(p)'
  <2>1. UNCHANGED <<list, ioctlHand, received, pumpHand, lost, arrived>>
    BY <1>7 DEF Refuse, Forward, LeavePending, MissRequest, Epilogue, CancelRead, hands, requests
  <2>. QED BY <1>6, <2>1, NothingMoved
<1>8. CASE LeaveD0 \/ EnterD0 \/ UNCHANGED vars
  <2>1. UNCHANGED <<list, ioctlHand, received, pumpHand, lost, arrived>>
    BY <1>8 DEF LeaveD0, EnterD0, vars, hands, requests
  <2>. QED BY <1>6, <2>1, NothingMoved
<1>. QED
  BY <1>1, <1>2, <1>3, <1>4, <1>5, <1>7, <1>8 DEF Next, Ioctl, Exhausted

LEMMA PlacesConserve == PlacesInv => PacketsConserved
<1>1. ASSUME PlacesInv, NEW p \in Packets
      PROVE  Cardinality(PlacesOf(p)) = IF p <= arrived THEN 1 ELSE 0
  BY <1>1, PlacesCounted DEF PlacesInv, ReadsInv, PlacedOnce
<1>. QED BY <1>1 DEF PacketsConserved

\* Every packet that arrived is in one place and in one only: the list, a
\* thread's hand, a reader, or given up; one that did not arrive is nowhere.
\* For any number of requests and packets.
THEOREM NoPacketForgotten == Spec => []PacketsConserved
BY PlacesInit, PlacesStep, PlacesConserve, PTL DEF Spec
=============================================================================
