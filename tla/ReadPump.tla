------------------------------ MODULE ReadPump ------------------------------
(***************************************************************************)
(* The read pump (ReadH4Packet and ReadH4PacketCompletionRoutine in io.c,  *)
(* started by FdoDevSelfManagedIoInit and FdoDevD0Entry and stopped by     *)
(* FdoDevD0Exit in Fdo.c): one preallocated request is sent to the UART    *)
(* again and again, by its own completion routine when the read was        *)
(* pending, by the loop around WdfRequestSend when it had completed first. *)
(* Which of the two it is they settle through ReadContext.RequestState.    *)
(*                                                                         *)
(* What the bytes of a read become is the subject of H4Reassembly; here    *)
(* processing them is one step that needs ReadBuffer to itself.            *)
(***************************************************************************)
EXTENDS Integers, FiniteSets

CONSTANTS
    Pnp,               \* the thread of the PnP callbacks
    Routines,          \* the threads completion routines run in
    RacingCompletion,  \* TRUE: a read that completes before WdfRequestSend has returned and
                       \* RequestState been exchanged may do so in a thread of its own;
                       \* FALSE: it does so inside WdfRequestSend
    RacingD0Exit       \* TRUE: D0Exit may begin between the check of DeviceInitialized and
                       \* the send that relies on it

ASSUME ReadPumpAssumption ==
    /\ Pnp \notin Routines
    /\ RacingCompletion \in BOOLEAN
    /\ RacingD0Exit \in BOOLEAN

VARIABLES
    pc,                \* where a thread stands
    previous,          \* the RequestState its completion routine found
    got,               \* the status its completion routine was called with
    RequestState,      \* "NONE" until SelfManagedIoInit sets it
    contextStatus,     \* ReadContext.Status
    ReadPumpRunning,
    DeviceInitialized,
    power,             \* "start", "d0", "invalid", "stopping", "low", "entering" or "failed"
    request            \* ReadRequest: "free", "sent", or "held" by the stopped target

locals  == <<pc, previous, got>>
context == <<RequestState, contextStatus>>
device  == <<DeviceInitialized, power>>
vars    == <<locals, context, ReadPumpRunning, device, request>>

Threads  == Routines \cup {Pnp}
Statuses == {"success", "timeout", "cancelled", "failed"}

\* NT_SUCCESS; STATUS_TIMEOUT is a success, STATUS_IO_TIMEOUT ("timeout") is not.
Succeeds(s) == s = "success"

Init ==
    /\ pc = [t \in Threads |-> "idle"]
    /\ previous = [t \in Threads |-> "COMPLETE"]
    /\ got = [t \in Threads |-> "success"]
    /\ RequestState = "NONE"
    /\ contextStatus = "success"
    /\ ReadPumpRunning = FALSE
    /\ DeviceInitialized = TRUE
    /\ power = "start"
    /\ request = "free"

Goes(t, place) == pc' = [pc EXCEPT ![t] = place]

\* ReadH4Packet returns a failure: the pump has stopped, and when it was the PnP
\* thread that started it, the device fails.
GivesUp(t) ==
    /\ Goes(t, "idle")
    /\ ReadPumpRunning' = FALSE
    /\ IF t = Pnp THEN DeviceInitialized' = FALSE /\ power' = "failed" ELSE UNCHANGED device

-----------------------------------------------------------------------------
(* ReadH4Packet.                                                           *)

\* The device is not initialized, or Reuse, AssignBuffer or Format fail.
CheckFails(t) ==
    /\ pc[t] = "check"
    /\ GivesUp(t)
    /\ UNCHANGED <<previous, got, context, request>>

Check(t) ==
    /\ pc[t] = "check"
    /\ DeviceInitialized
    /\ Goes(t, "mark")
    /\ UNCHANGED <<previous, got, context, ReadPumpRunning, device, request>>

\* InterlockedExchange(REQUEST_SENT).
MarkSent(t) ==
    /\ pc[t] = "mark"
    /\ RequestState' = "SENT"
    /\ Goes(t, "send")
    /\ UNCHANGED <<previous, got, contextStatus, ReadPumpRunning, device, request>>

Send(t) ==
    /\ pc[t] = "send"
    /\ request' = IF power \in {"stopping", "low"} THEN "held" ELSE "sent"
    /\ Goes(t, "exchange")
    /\ UNCHANGED <<previous, got, context, ReadPumpRunning, device>>

\* Mutant: the flag is only cleared by the completion routine.
SendFailsQuietly(t) ==
    /\ pc[t] = "send"
    /\ Goes(t, "idle")
    /\ UNCHANGED <<previous, got, context, ReadPumpRunning, device, request>>

\* Mutant: the loop prepares the read once more.
SendFailsRetries(t) ==
    /\ pc[t] = "send"
    /\ Goes(t, "check")
    /\ UNCHANGED <<previous, got, context, ReadPumpRunning, device, request>>

SendFails(t) ==
    /\ pc[t] = "send"
    /\ GivesUp(t)
    /\ UNCHANGED <<previous, got, context, request>>

InRoutine(t) == pc[t] \in {"entry", "process"}

\* Whether the thread is back from WdfRequestSend; a routine called inside it
\* has returned then.
SendReturned(t) ==
    /\ pc[t] = "exchange"
    /\ RacingCompletion \/ \A u \in Threads : ~InRoutine(u)

\* Mutant: pending is what the loop assumes, with a plain store.
StoresPending(t) ==
    /\ SendReturned(t)
    /\ RequestState' = "PENDING"
    /\ Goes(t, "idle")
    /\ UNCHANGED <<previous, got, contextStatus, ReadPumpRunning, device, request>>

\* InterlockedCompareExchange(PENDING, SENT): the routine sends the next read.
LeavesToRoutine(t) ==
    /\ SendReturned(t)
    /\ RequestState = "SENT"
    /\ RequestState' = "PENDING"
    /\ Goes(t, "idle")
    /\ UNCHANGED <<previous, got, contextStatus, ReadPumpRunning, device, request>>

\* The read has completed before; the loop sends the next one.
LoopsOn(t) ==
    /\ SendReturned(t)
    /\ RequestState # "SENT"
    /\ Succeeds(contextStatus)
    /\ Goes(t, "check")
    /\ UNCHANGED <<previous, got, context, ReadPumpRunning, device, request>>

LoopsNoMore(t) ==
    /\ SendReturned(t)
    /\ RequestState # "SENT"
    /\ ~Succeeds(contextStatus)
    /\ GivesUp(t)
    /\ UNCHANGED <<previous, got, context, request>>

-----------------------------------------------------------------------------
(* The UART and ReadH4PacketCompletionRoutine.                             *)

UartCompletes ==
    /\ request = "sent"
    /\ \E t \in Routines, s \in Statuses :
          /\ pc[t] = "idle"
          /\ s = "cancelled" => power = "stopping"
          /\ pc'  = [pc EXCEPT ![t] = "entry"]
          /\ got' = [got EXCEPT ![t] = s]
    /\ request' = "free"
    /\ UNCHANGED <<previous, context, ReadPumpRunning, device>>

\* ReadContext.Status and InterlockedCompareExchange(COMPLETE, SENT), then the
\* status: a timeout is a read cut short.
Enter(t) ==
    /\ pc[t] = "entry"
    /\ contextStatus' = got[t]
    /\ previous'      = [previous EXCEPT ![t] = RequestState]
    /\ RequestState'  = IF RequestState = "SENT" THEN "COMPLETE" ELSE RequestState
    /\ IF got[t] \in {"success", "timeout"}
       THEN Goes(t, "process") /\ UNCHANGED ReadPumpRunning
       ELSE Goes(t, "idle") /\ ReadPumpRunning' = FALSE
    /\ UNCHANGED <<got, device, request>>

\* Mutant: every routine that has processed its bytes reads on.
AlwaysReadsOn(t) == TRUE

ReadsOn(t) == previous[t] = "PENDING"

\* The bytes are processed, in or out of sync, and the next read is started
\* unless the loop will do it.
Process(t) ==
    /\ pc[t] = "process"
    /\ Goes(t, IF ReadsOn(t) THEN "check" ELSE "idle")
    /\ UNCHANGED <<previous, got, context, ReadPumpRunning, device, request>>

-----------------------------------------------------------------------------
(* The PnP callbacks.                                                      *)

SelfManagedIoInit ==
    /\ power = "start"
    /\ power' = "d0"
    /\ RequestState' = "COMPLETE"
    /\ ReadPumpRunning' = TRUE
    /\ Goes(Pnp, "check")
    /\ UNCHANGED <<previous, got, contextStatus, DeviceInitialized, request>>

\* A reset of the radio's power or of the controller fails: the readiness of
\* the device is invalidated while it stays in D0.
Invalidated ==
    /\ power = "d0"
    /\ DeviceInitialized
    /\ DeviceInitialized' = FALSE
    /\ UNCHANGED <<locals, context, ReadPumpRunning, power, request>>

\* The PnP thread has returned from the callback that started the pump.
PnpFree == pc[Pnp] = "idle"

\* D0Exit invalidates the readiness of the device ...
Invalidate ==
    /\ power = "d0" /\ PnpFree
    /\ RacingD0Exit \/ \A t \in Threads : pc[t] \notin {"mark", "send"}
    /\ power' = "invalid"
    /\ DeviceInitialized' = FALSE
    /\ UNCHANGED <<locals, context, ReadPumpRunning, request>>

\* ... calls WdfIoTargetStop, which cancels the read that was sent ...
StopTarget ==
    /\ power = "invalid"
    /\ power' = "stopping"
    /\ UNCHANGED <<locals, context, ReadPumpRunning, DeviceInitialized, request>>

\* Mutant: the target is stopped without waiting for the read it cancels.
D0ExitLeavesSent ==
    /\ power = "stopping"
    /\ power' = "low"
    /\ UNCHANGED <<locals, context, ReadPumpRunning, DeviceInitialized, request>>

\* ... and returns when the read has completed and its routine has returned.
D0Exit ==
    /\ power = "stopping"
    /\ request # "sent"
    /\ \A t \in Threads : pc[t] = "idle"
    /\ power' = "low"
    /\ UNCHANGED <<locals, context, ReadPumpRunning, DeviceInitialized, request>>

\* D0Entry initializes the device and starts the target, which now sends what
\* it held ...
StartTarget ==
    /\ power = "low"
    /\ power' = "entering"
    /\ DeviceInitialized' = TRUE
    /\ request' = IF request = "held" THEN "sent" ELSE request
    /\ UNCHANGED <<locals, context, ReadPumpRunning>>

\* ... or fails to, and the device with it ...
StartFails ==
    /\ power \in {"start", "low"}
    /\ power' = "failed"
    /\ DeviceInitialized' = FALSE
    /\ UNCHANGED <<locals, context, ReadPumpRunning, request>>

\* ... and starts the pump.
D0Entry ==
    /\ power = "entering"
    /\ power' = "d0"
    /\ ReadPumpRunning' = TRUE
    /\ Goes(Pnp, "check")
    /\ UNCHANGED <<previous, got, context, DeviceInitialized, request>>

Quiet == request = "free" /\ \A t \in Threads : pc[t] = "idle"

\* The device failed.
Failed ==
    /\ power = "failed" /\ request # "sent" /\ \A t \in Threads : pc[t] = "idle"
    /\ UNCHANGED vars

ReadH4Packet(t) ==
    \/ CheckFails(t) \/ Check(t) \/ MarkSent(t) \/ Send(t) \/ SendFails(t)
    \/ LeavesToRoutine(t) \/ LoopsOn(t) \/ LoopsNoMore(t)

Routine(t) == Enter(t) \/ Process(t)

PnpCallback ==
    \/ SelfManagedIoInit \/ Invalidated \/ Invalidate \/ StopTarget \/ D0Exit
    \/ StartTarget \/ StartFails \/ D0Entry

Next ==
    \/ \E t \in Threads : ReadH4Packet(t) \/ Routine(t)
    \/ UartCompletes \/ PnpCallback \/ Failed

\* A thread in the driver runs on.
Fairness == \A t \in Threads : WF_vars(ReadH4Packet(t)) /\ WF_vars(Routine(t))

Spec == Init /\ [][Next]_vars /\ Fairness

-----------------------------------------------------------------------------
(* Properties.                                                             *)

\* The range of every variable.
TypeOK ==
    /\ pc \in [Threads -> {"idle", "check", "mark", "send", "exchange", "entry", "process"}]
    /\ previous \in [Threads -> {"SENT", "PENDING", "COMPLETE"}]
    /\ got \in [Threads -> Statuses]
    /\ RequestState \in {"NONE", "SENT", "PENDING", "COMPLETE"}
    /\ RequestState = "NONE" => power \in {"start", "failed"}
    /\ contextStatus \in Statuses
    /\ ReadPumpRunning \in BOOLEAN
    /\ DeviceInitialized \in BOOLEAN
    /\ power \in {"start", "d0", "invalid", "stopping", "low", "entering", "failed"}
    /\ request \in {"free", "sent", "held"}

\* Who uses ReadRequest and ReadBuffer: threads, and the UART.
Users ==
    {t \in Threads : pc[t] \in {"check", "mark", "send", "entry", "process"}}
    \cup (IF request = "free" THEN {} ELSE {request})

\* "Track next packet read (one and only one)" (driver.h:297): the request, its
\* buffer and its context have one user at a time, so that no read overwrites
\* bytes that are being reassembled and no request is reused while it is sent.
OneReader == \A u, v \in Users : u = v

\* "One and only one" is also the next read: of the UART, a routine that was just
\* called, one that will read on and a thread that prepares a read there is one
\* at a time, so that the request is reused only when it is back, wherever its
\* completion runs.
WillRead(t) ==
    \/ pc[t] \in {"check", "mark", "send", "entry"}
    \/ pc[t] = "process" /\ ReadsOn(t)

NextReaders == {t \in Threads : WillRead(t)} \cup (IF request = "free" THEN {} ELSE {request})

OneNextRead == \A u, v \in NextReaders : u = v

\* A pump that has stopped for good does not say that it is running.
StoppedUnflagged == Quiet => ~ReadPumpRunning

\* ReadPumpRunning says whether something will read on: a read that is sent has
\* it set, and once every thread has returned it is set only if a read is sent.
PumpFlagTruthful ==
    /\ request # "free" => ReadPumpRunning
    /\ StoppedUnflagged

\* NT_ASSERT(RequestState != REQUEST_SENT) where ReadH4Packet prepares a read
\* (io.c:1248): only D0Entry can start the pump on a state that a failed send
\* has left at SENT; neither the loop nor a completion routine meets one.
OnlyRestartFindsSent ==
    \A t \in Threads : pc[t] = "check" /\ RequestState = "SENT" => t = Pnp

\* As long as it is running the pump has a read with the UART again and again:
\* the controller is never left without a reader.
KeepsReading == []<>(request = "sent" \/ ~ReadPumpRunning)
=============================================================================
