------------------------------ MODULE DataPath ------------------------------
(***************************************************************************)
(* The whole way of a packet from the UART to BthPort, over the power      *)
(* callbacks that start and stop it: the read pump (ReadPump) hands the    *)
(* packets of each read to one of the two streams (ReadQueue; the other is *)
(* alike), the framework pauses the queues of the stream around D0Exit and *)
(* D0Entry, and SelfManagedIoCleanup frees what both of them use.          *)
(*                                                                         *)
(* Each of the two modules leaves a guess to its environment, which is     *)
(* replaced here by what the code does: ReadQueue lets packets arrive at   *)
(* any time and removes the device when its threads are out; ReadPump      *)
(* processes a read in one step.                                           *)
(***************************************************************************)
EXTENDS Integers, Sequences, FiniteSets

CONSTANTS
    Pnp,           \* as in ReadPump
    Routines,      \* as in ReadPump
    Reads,         \* as in ReadQueue
    MaxPackets,    \* as in ReadQueue
    NoPacket,      \* as in ReadQueue
    ResourcesFail, \* as in ReadQueue
    MaxBatch       \* bound: how many packets one read completes

ASSUME DataPathAssumption ==
    /\ Pnp \notin Routines
    /\ IsFiniteSet(Reads)
    /\ MaxPackets \in Nat
    /\ NoPacket \notin Nat \cup Reads
    /\ ResourcesFail \in BOOLEAN
    /\ MaxBatch \in Nat

VARIABLES
    pc, previous, got, RequestState, contextStatus, ReadPumpRunning, DeviceInitialized,
    power, request,                                         \* of ReadPump
    device, queue, list, arrived, ioctl, ioctlHand, pump, pumpHand, completions, received,
    lost,                                                   \* of ReadQueue
    batch,          \* packets that the read being processed still completes
    ReadRequest     \* TRUE: the request of the pump exists

Pump   == INSTANCE ReadPump  WITH RacingCompletion <- FALSE, RacingD0Exit <- FALSE
Stream == INSTANCE ReadQueue WITH ReadsCancelled <- FALSE, PowerCycles <- TRUE

pumpVars   == <<pc, previous, got, RequestState, contextStatus, ReadPumpRunning,
                DeviceInitialized, power, request>>
streamVars == <<device, queue, list, arrived, ioctl, ioctlHand, pump, pumpHand, completions,
                received, lost>>
vars       == <<pumpVars, streamVars, batch, ReadRequest>>

Init == Pump!Init /\ Stream!Init /\ batch = 0 /\ ReadRequest = FALSE

-----------------------------------------------------------------------------
(* The pump.                                                               *)

\* The read that completes carries any number of whole packets.
UartCompletes ==
    /\ Pump!UartCompletes
    /\ \E n \in 0..MaxBatch :
          /\ arrived + n <= MaxPackets
          /\ n > 0 => \E t \in Routines : pc'[t] = "entry" /\ got'[t] \in {"success", "timeout"}
          /\ batch' = n
    /\ UNCHANGED <<streamVars, ReadRequest>>

\* Sending, and entering the completion routine.
Sends(t) ==
    /\ Pump!ReadH4Packet(t) \/ Pump!Enter(t)
    /\ UNCHANGED <<streamVars, batch, ReadRequest>>

\* Mutant: the routine waits for a queue that is paused.
PacketWaitsForQueue(t) ==
    /\ pc[t] = "process"
    /\ batch > 0
    /\ device = "d0"
    /\ Stream!PumpTakesRequest \/ Stream!PumpListsPacket \/ Stream!PumpDropsPacket
    /\ batch' = batch - 1
    /\ UNCHANGED <<pumpVars, ReadRequest>>

\* ReadH4PacketReassemble has completed a packet and calls ReadH4PacketComplete.
PacketComplete(t) ==
    /\ pc[t] = "process"
    /\ batch > 0
    /\ Stream!PumpTakesRequest \/ Stream!PumpListsPacket \/ Stream!PumpDropsPacket
    /\ batch' = batch - 1
    /\ UNCHANGED <<pumpVars, ReadRequest>>

PacketDelivered(t) ==
    /\ pc[t] = "process"
    /\ Stream!PumpDelivers
    /\ UNCHANGED <<pumpVars, batch, ReadRequest>>

\* All bytes are processed: the routine reads on or leaves it to the loop.
Processed(t) ==
    /\ batch = 0
    /\ pump = "idle"
    /\ Pump!Process(t)
    /\ UNCHANGED <<streamVars, batch, ReadRequest>>

InPump(t) == Sends(t) \/ PacketComplete(t) \/ PacketDelivered(t) \/ Processed(t)

-----------------------------------------------------------------------------
(* BthPort's reads.                                                        *)

\* The default queue is power managed as well.
Dispatches == device = "d0" /\ power = "d0" /\ Pump!PnpFree

Dispatch(r) ==
    /\ Dispatches
    /\ Stream!Refuse(r) \/ Stream!Forward(r)
    /\ UNCHANGED <<pumpVars, batch, ReadRequest>>

InIoctl(r) == Stream!Ioctl(r) /\ UNCHANGED <<pumpVars, batch, ReadRequest>>

CancelRead(r) == Stream!CancelRead(r) /\ UNCHANGED <<pumpVars, batch, ReadRequest>>

-----------------------------------------------------------------------------
(* Power.                                                                  *)

\* A request that was taken out of a queue belongs to the driver until it is
\* completed, and so does one that was refused.
DriverOwns(r) ==
    \/ ioctl[r] = "deliver"
    \/ ioctl[r] = "epilogue" /\ completions[r] = 0 /\ ~Stream!Queued(r)

\* Before D0Exit the framework pauses the queues and waits for the requests the
\* driver owns.
PauseQueues ==
    /\ power \in {"d0", "failed"}
    /\ Pump!PnpFree
    /\ pump = "idle" /\ \A r \in Reads : ~DriverOwns(r)
    /\ Stream!LeaveD0
    /\ UNCHANGED <<pumpVars, batch, ReadRequest>>

\* After D0Entry it starts them.
ResumeQueues ==
    /\ power = "d0" /\ Pump!PnpFree
    /\ Stream!EnterD0
    /\ UNCHANGED <<pumpVars, batch, ReadRequest>>

\* ReadResourcesAllocate; when one of its stages fails, it frees the others.
SelfManagedIoInit ==
    \/ Pump!SelfManagedIoInit /\ ReadRequest' = TRUE
    \/ power = "start" /\ Pump!StartFails /\ UNCHANGED ReadRequest

D0Exit ==
    /\ device = "low"
    /\ Pump!Invalidate \/ Pump!StopTarget \/ Pump!D0Exit
    /\ UNCHANGED ReadRequest

D0Entry ==
    /\ device = "low"
    /\ Pump!StartTarget \/ (power = "low" /\ Pump!StartFails) \/ Pump!D0Entry
    /\ UNCHANGED ReadRequest

PowerCallback ==
    /\ SelfManagedIoInit \/ D0Exit \/ D0Entry \/ (Pump!Invalidated /\ UNCHANGED ReadRequest)
    /\ UNCHANGED <<streamVars, batch>>

\* Mutant: the list is left as it is.
FreesRequestOnly ==
    /\ device = "low"
    /\ power \in {"low", "failed"}
    /\ Pump!PnpFree
    /\ queue = <<>> /\ \A r \in Reads : ioctl[r] \in {"idle", "returned"}
    /\ device' = "removed"
    /\ ReadRequest' = FALSE
    /\ UNCHANGED <<pumpVars, queue, list, arrived, ioctl, ioctlHand, pump, pumpHand, completions,
                   received, lost, batch>>

\* ReadResourcesFree from SelfManagedIoCleanup.  The framework has emptied the
\* queues and waits for the threads it has called the driver in; nobody waits for
\* the pump here, and a device that failed has had no D0Exit.
ReadResourcesFree ==
    /\ device = "low"
    /\ power \in {"low", "failed"}
    /\ Pump!PnpFree
    /\ queue = <<>> /\ \A r \in Reads : ioctl[r] \in {"idle", "returned"}
    /\ device' = "removed"
    /\ lost'   = lost \cup {list[i] : i \in DOMAIN list}
    /\ list'   = <<>>
    /\ ReadRequest' = FALSE
    /\ UNCHANGED <<pumpVars, queue, arrived, ioctl, ioctlHand, pump, pumpHand, completions,
                   received, batch>>

\* The device is gone, or a request was completed while it is queued (io.c:1473),
\* of which the framework would not let go.
Ends ==
    /\ device = "removed" \/ \E r \in Reads : Stream!Queued(r) /\ completions[r] > 0
    /\ UNCHANGED vars

Next ==
    \/ \E t \in Pump!Threads : InPump(t)
    \/ \E r \in Reads : Dispatch(r) \/ InIoctl(r) \/ CancelRead(r)
    \/ UartCompletes \/ PauseQueues \/ ResumeQueues \/ PowerCallback \/ ReadResourcesFree
    \/ Ends

\* A thread in the driver runs on, D0Exit goes on, and WdfIoTargetStop cancels the
\* read it finds with the UART.
Fairness ==
    /\ \A t \in Pump!Threads : WF_vars(InPump(t))
    /\ WF_vars(D0Exit /\ UNCHANGED <<streamVars, batch>>)
    /\ WF_vars(power = "stopping" /\ UartCompletes)

Spec == Init /\ [][Next]_vars /\ Fairness

-----------------------------------------------------------------------------
(* Properties.                                                             *)

\* What is left of the pump: threads, a request with the UART.
PumpUsers == Pump!Users \cup {t \in Pump!Threads : pc[t] # "idle"}

\* No thread of the pump and no UART uses the pump's request, its buffer or the
\* lists once ReadResourcesFree has run, although that asks for nobody's leave: D0Exit
\* has waited for them, and a start that fails leaves nothing behind.
PumpHasItsResources == PumpUsers # {} => ReadRequest /\ device # "removed"

\* "One and only one" (driver.h:297): with packets handed over in the middle of a read,
\* and over power cycles, no two threads use the request and the buffer at once.
OneReader == Pump!OneReader

\* D0Exit waits for the completion routine, and the routine hands packets to queues
\* that are paused by then: it must not wait for them, nor read on.
D0ExitReturns == power = "invalid" ~> power = "low"

\* Every step of the two together is a step of ReadQueue, whose removal asks for the
\* pump to be idle: what was checked and proved of the stream holds under the real
\* pump and the real order of the power callbacks.
AsReadQueue == Stream!Init /\ [][Stream!Next]_(Stream!vars)
=============================================================================
