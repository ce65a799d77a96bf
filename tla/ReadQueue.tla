------------------------------ MODULE ReadQueue ------------------------------
(***************************************************************************)
(* IOCTL_BTHX_READ_HCI: how the packets that the read pump reassembles and *)
(* the read requests of BthPort are brought together (ReadRequestComplete  *)
(* in io.c, the READ_HCI case and the epilogue of FdoIoQuDeviceControl in  *)
(* Fdo.c, ReadResourcesFree in io.c).                                      *)
(*                                                                         *)
(* The module models one of the two alike streams, events or ACL data: a   *)
(* manual framework queue of requests and a list of packets that came      *)
(* before their request, both under QueueAccessLock.  Each critical        *)
(* section is one step.  A read request is dispatched in a thread of its   *)
(* own (the default queue is parallel), which releases the lock between    *)
(* queueing its request and looking for a packet.                          *)
(***************************************************************************)
EXTENDS Integers, Sequences, FiniteSets

CONSTANTS
    Reads,           \* requests (WDFREQUEST) that carry IOCTL_BTHX_READ_HCI
    MaxPackets,      \* bound: how many packets the pump reassembles
    NoPacket,        \* stands for no packet and no request
    ReadsCancelled,  \* TRUE: the framework may cancel a queued request
    PowerCycles,     \* TRUE: the device may leave D0, and be removed then
    ResourcesFail    \* TRUE: an allocation or the output buffer of a request may fail

ASSUME ReadQueueAssumption ==
    /\ IsFiniteSet(Reads)
    /\ MaxPackets \in Nat
    /\ NoPacket \notin Nat \cup Reads
    /\ ReadsCancelled \in BOOLEAN
    /\ PowerCycles \in BOOLEAN
    /\ ResourcesFail \in BOOLEAN

VARIABLES
    device,          \* "d0", "low" or "removed"; the queues are power managed
    queue,           \* ReadEventQueue, in the order of arrival
    list,            \* ReadEventList; a packet is its number in the order of arrival
    arrived,         \* how many packets the pump has reassembled
    ioctl,           \* where the thread that dispatches a request stands
    ioctlHand,       \* what it took out of the queue and the list
    pump,            \* where the read pump stands in ReadRequestComplete
    pumpHand,        \* the request it took out of the queue, and its packet
    completions,     \* how often a request has been completed
    received,        \* the packet a request was completed with
    lost             \* packets that no request will be completed with

requests == <<completions, received>>
hands    == <<ioctl, ioctlHand, pump, pumpHand>>

vars == <<device, queue, list, arrived, hands, requests, lost>>

Packets   == 1..MaxPackets
Hands     == [request : Reads, packet : Packets]
EmptyHand == [request |-> NoPacket, packet |-> NoPacket]

Init ==
    /\ device       = "d0"
    /\ queue        = <<>>
    /\ list         = <<>>
    /\ arrived      = 0
    /\ ioctl        = [r \in Reads |-> "idle"]
    /\ ioctlHand    = [r \in Reads |-> EmptyHand]
    /\ pump         = "idle"
    /\ pumpHand     = EmptyHand
    /\ completions  = [r \in Reads |-> 0]
    /\ received     = [r \in Reads |-> NoPacket]
    /\ lost         = {}

-----------------------------------------------------------------------------
(* The framework.                                                          *)

\* WdfIoQueueRetrieveNextRequest finds a request.  Outside D0 it answers
\* STATUS_WDF_PAUSED whatever the queue holds.
Retrievable == device = "d0" /\ queue # <<>>

\* What becomes of a request that was matched with a packet: it is completed
\* with it, its output memory cannot be retrieved, or is too small.
Outcomes == IF ResourcesFail THEN {"success", "noMemory", "tooSmall"} ELSE {"success"}

\* Mutant: a request without output memory is not completed.
DeliveredSilently(hand, outcome) ==
    /\ completions' = IF outcome = "noMemory" THEN completions
                      ELSE [completions EXCEPT ![hand.request] = @ + 1]
    /\ received'    = IF outcome # "success" THEN received
                      ELSE [received EXCEPT ![hand.request] = hand.packet]
    /\ lost'        = IF outcome = "success" THEN lost ELSE lost \cup {hand.packet}

\* The part of ReadRequestComplete behind the critical section.
Delivered(hand, outcome) ==
    /\ completions' = [completions EXCEPT ![hand.request] = @ + 1]
    /\ received'    = IF outcome # "success" THEN received
                      ELSE [received EXCEPT ![hand.request] = hand.packet]
    /\ lost'        = IF outcome = "success" THEN lost ELSE lost \cup {hand.packet}

-----------------------------------------------------------------------------
(* The thread that dispatches a read request.                              *)

\* Buffers or packet type are refused, or the request cannot be forwarded to
\* the queue: the epilogue completes it.
Refuse(r) ==
    /\ device # "removed"
    /\ ioctl[r] = "idle"
    /\ ioctl' = [ioctl EXCEPT ![r] = "epilogue"]
    /\ UNCHANGED <<device, queue, list, arrived, ioctlHand, pump, pumpHand, requests, lost>>

\* First critical section: WdfRequestForwardToIoQueue.
Forward(r) ==
    /\ device # "removed"
    /\ ioctl[r] = "idle"
    /\ queue' = Append(queue, r)
    /\ ioctl' = [ioctl EXCEPT ![r] = "forwarded"]
    /\ UNCHANGED <<device, list, arrived, ioctlHand, pump, pumpHand, requests, lost>>

\* Mutant: the list is not looked at.
LeavePendingAlways(r) ==
    /\ ioctl[r] = "forwarded"
    /\ ioctl' = [ioctl EXCEPT ![r] = "returned"]
    /\ UNCHANGED <<device, queue, list, arrived, ioctlHand, pump, pumpHand, requests, lost>>

\* Second critical section, no packet waits: the request stays queued.
LeavePending(r) ==
    /\ ioctl[r] = "forwarded"
    /\ list = <<>>
    /\ ioctl' = [ioctl EXCEPT ![r] = "returned"]
    /\ UNCHANGED <<device, queue, list, arrived, ioctlHand, pump, pumpHand, requests, lost>>

\* Mutant: the packet stays at the head of the list.
PeekListed(r) ==
    /\ ioctl[r] = "forwarded"
    /\ list # <<>>
    /\ Retrievable
    /\ ioctlHand' = [ioctlHand EXCEPT ![r] = [request |-> Head(queue), packet |-> Head(list)]]
    /\ queue'     = Tail(queue)
    /\ ioctl'     = [ioctl EXCEPT ![r] = "deliver"]
    /\ UNCHANGED <<device, list, arrived, pump, pumpHand, requests, lost>>

\* A packet waits, and a request, perhaps another one, is retrieved for it.
TakeListed(r) ==
    /\ ioctl[r] = "forwarded"
    /\ list # <<>>
    /\ Retrievable
    /\ ioctlHand' = [ioctlHand EXCEPT ![r] = [request |-> Head(queue), packet |-> Head(list)]]
    /\ queue'     = Tail(queue)
    /\ list'      = Tail(list)
    /\ ioctl'     = [ioctl EXCEPT ![r] = "deliver"]
    /\ UNCHANGED <<device, arrived, pump, pumpHand, requests, lost>>

\* A packet waits but no request is retrieved: the failing status makes the
\* epilogue complete the request this thread has given away.
MissRequest(r) ==
    /\ ioctl[r] = "forwarded"
    /\ list # <<>>
    /\ ~Retrievable
    /\ ioctl' = [ioctl EXCEPT ![r] = "epilogue"]
    /\ UNCHANGED <<device, queue, list, arrived, ioctlHand, pump, pumpHand, requests, lost>>

\* The entry of the list is freed unless the output memory was not found; any
\* failing status reaches the epilogue.
DeliverListed(r) ==
    /\ ioctl[r] = "deliver"
    /\ \E outcome \in Outcomes :
          /\ Delivered(ioctlHand[r], outcome)
          /\ ioctl' = [ioctl EXCEPT ![r] = IF outcome = "success" THEN "returned" ELSE "epilogue"]
    /\ ioctlHand' = [ioctlHand EXCEPT ![r] = EmptyHand]
    /\ UNCHANGED <<device, queue, list, arrived, pump, pumpHand>>

Epilogue(r) ==
    /\ ioctl[r] = "epilogue"
    /\ completions' = [completions EXCEPT ![r] = @ + 1]
    /\ ioctl'       = [ioctl EXCEPT ![r] = "returned"]
    /\ UNCHANGED <<device, queue, list, arrived, ioctlHand, pump, pumpHand, received, lost>>

Ioctl(r) ==
    \/ LeavePending(r) \/ TakeListed(r) \/ MissRequest(r) \/ DeliverListed(r) \/ Epilogue(r)

-----------------------------------------------------------------------------
(* The read pump, one thread, with a packet it has just reassembled.       *)

Arrives == device # "removed" /\ pump = "idle" /\ arrived < MaxPackets

\* Mutant: the packet is listed even when a request waits.
PumpListsAlways ==
    /\ Arrives
    /\ arrived' = arrived + 1
    /\ list'    = Append(list, arrived + 1)
    /\ UNCHANGED <<device, queue, hands, requests, lost>>

PumpTakesRequest ==
    /\ Arrives
    /\ Retrievable
    /\ arrived'  = arrived + 1
    /\ pumpHand' = [request |-> Head(queue), packet |-> arrived + 1]
    /\ queue'    = Tail(queue)
    /\ pump'     = "deliver"
    /\ UNCHANGED <<device, list, ioctl, ioctlHand, requests, lost>>

\* Mutant: the packet is put in front of those that came before it.
PumpListsFirst ==
    /\ Arrives
    /\ ~Retrievable
    /\ arrived' = arrived + 1
    /\ list'    = <<arrived + 1>> \o list
    /\ UNCHANGED <<device, queue, hands, requests, lost>>

PumpListsPacket ==
    /\ Arrives
    /\ ~Retrievable
    /\ arrived' = arrived + 1
    /\ list'    = Append(list, arrived + 1)
    /\ UNCHANGED <<device, queue, hands, requests, lost>>

\* No memory for the entry: "This packet will be dropped".
PumpDropsPacket ==
    /\ Arrives
    /\ ~Retrievable
    /\ ResourcesFail
    /\ arrived' = arrived + 1
    /\ lost'    = lost \cup {arrived + 1}
    /\ UNCHANGED <<device, queue, list, hands, requests>>

\* The pump ignores the status.
PumpDelivers ==
    /\ pump = "deliver"
    /\ \E outcome \in Outcomes : Delivered(pumpHand, outcome)
    /\ pump'     = "idle"
    /\ pumpHand' = EmptyHand
    /\ UNCHANGED <<device, queue, list, arrived, ioctl, ioctlHand>>

-----------------------------------------------------------------------------
(* The framework and BthPort.                                              *)

\* A request that waits in the queue is cancelled: no driver code runs.
CancelRead(r) ==
    /\ ReadsCancelled \/ device = "low"
    /\ completions[r] = 0
    /\ \E i \in 1..Len(queue) :
          /\ queue[i] = r
          /\ queue' = SubSeq(queue, 1, i - 1) \o SubSeq(queue, i + 1, Len(queue))
    /\ completions' = [completions EXCEPT ![r] = @ + 1]
    /\ UNCHANGED <<device, list, arrived, hands, received, lost>>

LeaveD0 ==
    /\ PowerCycles
    /\ device = "d0"
    /\ device' = "low"
    /\ UNCHANGED <<queue, list, arrived, hands, requests, lost>>

EnterD0 ==
    /\ device = "low"
    /\ device' = "d0"
    /\ UNCHANGED <<queue, list, arrived, hands, requests, lost>>

\* No thread is in the driver for a read.
ThreadsOut == pump = "idle" /\ \A r \in Reads : ioctl[r] \in {"idle", "returned"}

\* ReadResourcesFree, from SelfManagedIoCleanup: the UART is closed and the
\* framework has emptied the queue.
Remove ==
    /\ device = "low"
    /\ ThreadsOut
    /\ queue = <<>>
    /\ device' = "removed"
    /\ lost'   = lost \cup {list[i] : i \in DOMAIN list}
    /\ list'   = <<>>
    /\ UNCHANGED <<queue, arrived, hands, requests>>

\* The bounds are reached and every thread has returned.
Exhausted ==
    /\ arrived = MaxPackets \/ device = "removed"
    /\ pump = "idle"
    /\ \A r \in Reads : ioctl[r] = "returned" \/ device = "removed"
    /\ UNCHANGED vars

Next ==
    \/ \E r \in Reads : Refuse(r) \/ Forward(r) \/ Ioctl(r) \/ CancelRead(r)
    \/ PumpTakesRequest \/ PumpListsPacket \/ PumpDropsPacket \/ PumpDelivers
    \/ LeaveD0 \/ EnterD0 \/ Remove \/ Exhausted

\* A thread that is in the driver runs on.
Fairness == \A r \in Reads : WF_vars(Ioctl(r)) /\ WF_vars(PumpDelivers)

Spec == Init /\ [][Next]_vars /\ Fairness

-----------------------------------------------------------------------------
(* Properties.                                                             *)

Forwarded == {r \in Reads : ioctl[r] = "forwarded"}
Queued(r) == \E i \in 1..Len(queue) : queue[i] = r
Listed(p) == \E i \in 1..Len(list) : list[i] = p

\* The range of every variable.
TypeOK ==
    /\ device \in {"d0", "low", "removed"}
    /\ queue \in Seq(Reads)
    /\ list \in Seq(Packets)
    /\ arrived \in 0..MaxPackets
    /\ ioctl \in [Reads -> {"idle", "forwarded", "deliver", "epilogue", "returned"}]
    /\ ioctlHand \in [Reads -> Hands \cup {EmptyHand}]
    /\ \A r \in Reads : ioctl[r] = "deliver" <=> ioctlHand[r] # EmptyHand
    /\ pump \in {"idle", "deliver"}
    /\ pumpHand \in Hands \cup {EmptyHand}
    /\ pump = "deliver" <=> pumpHand # EmptyHand
    /\ completions \in [Reads -> Nat]
    /\ received \in [Reads -> Packets \cup {NoPacket}]
    /\ lost \subseteq Packets

\* Where a packet can be; a place holds it at most once.
PlacesOf(p) ==
    {<<"list", i>> : i \in {j \in 1..Len(list) : list[j] = p}}
    \cup {<<"thread", r>> : r \in {q \in Reads : ioctlHand[q].packet = p}}
    \cup {<<"reader", r>> : r \in {q \in Reads : received[q] = p}}
    \cup {<<"pump", p>> : q \in {pumpHand.packet} \cap {p}}
    \cup {<<"lost", p>> : q \in lost \cap {p}}

\* No interleaving of the pump with the dispatch threads loses a packet of the
\* controller, hands it to two requests or hands it out twice: it is in the
\* list, in the hand of one thread, with one reader, or given up by an error
\* path (C0-C3 of io.c:1415-1420).
PacketsConserved ==
    \A p \in Packets : Cardinality(PlacesOf(p)) = IF p <= arrived THEN 1 ELSE 0

\* The list keeps the order of arrival, and what a dispatch thread took from it
\* came before everything still in it.
ListInArrivalOrder ==
    /\ \A i, j \in 1..Len(list) : i < j => list[i] < list[j]
    /\ \A r \in Reads : \A i \in 1..Len(list) :
          ioctl[r] = "deliver" => ioctlHand[r].packet < list[i]

\* How many threads are on their way to complete a request, the one that will
\* run its epilogue aside.
ClaimsOf(r) ==
    Cardinality({i \in 1..Len(queue) : queue[i] = r})
    + Cardinality({q \in Reads : ioctlHand[q].request = r})
    + (IF pumpHand.request = r THEN 1 ELSE 0)

\* A read request that was dispatched is never forgotten: it is in the queue, in
\* one thread's hand, before its own epilogue or completed.  It is claimed once
\* at most, so that beside its own epilogue nothing completes it twice.
ReadsAccountedFor ==
    \A r \in Reads :
        /\ ClaimsOf(r) <= 1
        /\ ioctl[r] \in {"deliver", "returned"} => ClaimsOf(r) + completions[r] >= 1
        /\ ClaimsOf(r) + completions[r] <= IF ioctl[r] = "returned" THEN 2 ELSE 1

\* More packets and requests wait for each other than threads are on the way
\* to bring them together.
Stranded ==
    /\ Len(list) > Cardinality(Forwarded)
    /\ Len(queue) > Cardinality(Forwarded)

\* While the device is in D0, no step leaves a packet in the list and a request
\* in the queue with nobody to match them, although the request is queued in
\* one critical section and the list searched in another (Fdo.c:2500-2522).
\* Outside D0 the pump lists packets beside waiting requests, and nothing
\* looks again when D0 is entered.
StrandedOnlyOutsideD0 == [][Stranded' => Stranded \/ device # "d0"]_vars

\* A device that stays in D0 does not keep a packet and a request waiting for
\* each other.
PacketMeetsReader ==
    [](device = "d0") => [](list # <<>> /\ queue # <<>> ~> list = <<>> \/ queue = <<>>)

\* "Failed to retrieve a request just queued!" (NT_ASSERT at io.c:1473): a thread
\* that has queued a request and finds a packet listed finds a request as well.
\* The pump can have taken it in between for a later packet, past the one that is
\* listed, which the assertion at io.c:1436 denies (case C3).
JustQueuedIsRetrieved ==
    \A r \in Reads : ioctl[r] = "forwarded" /\ list # <<>> => queue # <<>>
=============================================================================
