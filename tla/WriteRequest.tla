---------------------------- MODULE WriteRequest ----------------------------
(***************************************************************************)
(* IOCTL_BTHX_WRITE_HCI: how one HCI packet of BthPort travels to the UART *)
(* (FdoIoQuDeviceControl and FdoWriteDeviceIO in Fdo.c) and how the        *)
(* request that carried it is completed, by the dispatch thread, by the    *)
(* completion routine of the lower request (CR_WriteDeviceIO) or by the    *)
(* cancel callback of the upper one (CB_RequestFromBthportCancel), which   *)
(* arbitrate through UART_WRITE_CONTEXT.RequestCompletePath (io.c).        *)
(*                                                                         *)
(* One element of Writes stands for one upper request, its context, its    *)
(* lower request and its memory object.  Every interlocked operation and   *)
(* every framework call that another thread can observe is a step of its   *)
(* own; calls on objects that no other thread can reach yet are merged.    *)
(***************************************************************************)
EXTENDS Integers, FiniteSets

CONSTANTS
    Writes,          \* upper requests (WDFREQUEST) that carry IOCTL_BTHX_WRITE_HCI
    PrepareMayFail,  \* TRUE: a framework allocation or format call may fail
    SendMayFail      \* TRUE: WdfRequestSend may return FALSE

ASSUME EnvironmentAssumption ==
    /\ PrepareMayFail \in BOOLEAN
    /\ SendMayFail \in BOOLEAN

VARIABLES
    dispatch,        \* where FdoWriteDeviceIO stands
    callback,        \* where CB_RequestFromBthportCancel stands
    routine,         \* where CR_WriteDeviceIO stands
    path,            \* RequestCompletePath, as the set of its bits
    mark,            \* the framework's cancelable state of the upper request
    cancelled,       \* the cancel bit of the upper request
    uart,            \* the lower request as the UART target sees it
    status,          \* IoStatus of the lower request, as handed to the routine
    lower,           \* the lower WDFREQUEST object
    lowerRefs,       \* explicit references held on it
    memory,          \* the WDFMEMORY object over the caller's buffer
    upperRefs,       \* explicit references held on the upper request
    completions,     \* how often the upper request has been completed
    result,          \* the status of its last completion
    cntReq,          \* CntCommandReq + CntWriteDataReq
    cntCompleted     \* CntCommandCompleted + CntWriteDataCompleted

arbitration == <<path, mark, cancelled>>
target      == <<uart, status>>
lowerObject == <<lower, lowerRefs>>
upperObject == <<upperRefs, completions, result>>
counters    == <<cntReq, cntCompleted>>

vars == <<dispatch, callback, routine, arbitration, target, lowerObject, memory,
          upperObject, counters>>

PathBits  == {"CANCELLATION", "COMPLETION"}
Objects   == {"absent", "live", "deleted", "overdeleted"}
Statuses  == {"success", "short", "cancelled", "failed"}

-----------------------------------------------------------------------------
(* Object and request primitives of the framework, as this code uses them. *)

\* WdfObjectDelete; a second delete of the same object is recorded as such.
Deleted(state) == IF state = "live" THEN "deleted" ELSE "overdeleted"

\* WdfRequestComplete and WdfRequestCompleteWithInformation.
CompleteUpper(w, s) ==
    /\ completions' = [completions EXCEPT ![w] = @ + 1]
    /\ result'      = [result EXCEPT ![w] = s]

Init ==
    /\ dispatch     = [w \in Writes |-> "idle"]
    /\ callback     = [w \in Writes |-> "idle"]
    /\ routine      = [w \in Writes |-> "idle"]
    /\ path         = [w \in Writes |-> {}]
    /\ mark         = [w \in Writes |-> "unmarked"]
    /\ cancelled    = [w \in Writes |-> FALSE]
    /\ uart         = [w \in Writes |-> "idle"]
    /\ status       = [w \in Writes |-> "success"]
    /\ lower        = [w \in Writes |-> "absent"]
    /\ lowerRefs    = [w \in Writes |-> 0]
    /\ memory       = [w \in Writes |-> "absent"]
    /\ upperRefs    = [w \in Writes |-> 0]
    /\ completions  = [w \in Writes |-> 0]
    /\ result       = [w \in Writes |-> "none"]
    /\ cntReq       = 0
    /\ cntCompleted = 0

-----------------------------------------------------------------------------
(* The dispatch thread.                                                    *)

\* The buffers, the packet type or the declared length are refused: the
\* epilogue completes the request, which was never counted.
Reject(w) ==
    /\ dispatch[w] = "idle"
    /\ dispatch' = [dispatch EXCEPT ![w] = "returned"]
    /\ CompleteUpper(w, "failed")
    /\ UNCHANGED <<callback, routine, arbitration, target, lowerObject, memory, upperRefs,
                   counters>>

\* The request is valid: it is counted, and FdoWriteDeviceIO entered.
Accept(w) ==
    /\ dispatch[w] = "idle"
    /\ dispatch' = [dispatch EXCEPT ![w] = "prepare"]
    /\ cntReq' = cntReq + 1
    /\ UNCHANGED <<callback, routine, arbitration, target, lowerObject, memory, upperObject,
                   cntCompleted>>

\* What FdoWriteDeviceIO has created when it gives up at a stage; the lower
\* request is stored in the context only after the last of them.
Stages == {"uninitialized", "context", "request", "memory", "format"}
LowerAfterFailure(stage)  == IF stage \in {"memory", "format"} THEN "live" ELSE "absent"
MemoryAfterFailure(stage) == IF stage = "format" THEN "deleted" ELSE "absent"

PrepareFails(w) ==
    /\ dispatch[w] = "prepare"
    /\ \E stage \in IF PrepareMayFail THEN Stages ELSE {"uninitialized"} :
          /\ lower'  = [lower EXCEPT ![w] = LowerAfterFailure(stage)]
          /\ memory' = [memory EXCEPT ![w] = MemoryAfterFailure(stage)]
    /\ dispatch' = [dispatch EXCEPT ![w] = "returned"]
    /\ CompleteUpper(w, "failed")
    /\ UNCHANGED <<callback, routine, arbitration, target, lowerRefs, upperRefs, counters>>

\* The context is filled in and a reference taken on both requests.
Prepare(w) ==
    /\ dispatch[w] = "prepare"
    /\ lower'     = [lower EXCEPT ![w] = "live"]
    /\ memory'    = [memory EXCEPT ![w] = "live"]
    /\ lowerRefs' = [lowerRefs EXCEPT ![w] = @ + 1]
    /\ upperRefs' = [upperRefs EXCEPT ![w] = @ + 1]
    /\ dispatch'  = [dispatch EXCEPT ![w] = "mark"]
    /\ UNCHANGED <<callback, routine, arbitration, target, completions, result, counters>>

\* Mutant: the reference on the lower request is forgotten.
AbandonKeepsReference(w, s) ==
    /\ upperRefs' = [upperRefs EXCEPT ![w] = @ - 1]
    /\ memory'    = [memory EXCEPT ![w] = Deleted(@)]
    /\ lower'     = [lower EXCEPT ![w] = Deleted(@)]
    /\ CompleteUpper(w, s)
    /\ UNCHANGED lowerRefs

\* HLP_FreeResourceForWrite after the references are given back, then the
\* epilogue of FdoIoQuDeviceControl.
AbandonOwned(w, s) ==
    /\ lowerRefs' = [lowerRefs EXCEPT ![w] = @ - 1]
    /\ upperRefs' = [upperRefs EXCEPT ![w] = @ - 1]
    /\ memory'    = [memory EXCEPT ![w] = Deleted(@)]
    /\ lower'     = [lower EXCEPT ![w] = Deleted(@)]
    /\ CompleteUpper(w, s)

\* WdfRequestMarkCancelableEx succeeds.
Mark(w) ==
    /\ dispatch[w] = "mark"
    /\ ~cancelled[w]
    /\ mark'     = [mark EXCEPT ![w] = "marked"]
    /\ dispatch' = [dispatch EXCEPT ![w] = "send"]
    /\ UNCHANGED <<callback, routine, path, cancelled, target, lowerObject, memory, upperObject,
                   counters>>

\* Mutant: the failed mark does not keep the request from being sent.
MarkFailsUnnoticed(w) ==
    /\ dispatch[w] = "mark"
    /\ cancelled[w]
    /\ AbandonOwned(w, "cancelled")
    /\ dispatch' = [dispatch EXCEPT ![w] = "send"]
    /\ UNCHANGED <<callback, routine, arbitration, target, counters>>

\* It finds the request already cancelled: the callback will not be called.
MarkFindsCancelled(w) ==
    /\ dispatch[w] = "mark"
    /\ cancelled[w]
    /\ AbandonOwned(w, "cancelled")
    /\ dispatch' = [dispatch EXCEPT ![w] = "returned"]
    /\ UNCHANGED <<callback, routine, arbitration, target, counters>>

\* WdfRequestSend delivers the lower request; nothing is touched after it.
Send(w) ==
    /\ dispatch[w] = "send"
    /\ uart'     = [uart EXCEPT ![w] = "inflight"]
    /\ dispatch' = [dispatch EXCEPT ![w] = "returned"]
    /\ UNCHANGED <<callback, routine, arbitration, status, lowerObject, memory, upperObject,
                   counters>>

SendFails(w) ==
    /\ SendMayFail
    /\ dispatch[w] = "send"
    /\ dispatch' = [dispatch EXCEPT ![w] = "unmark"]
    /\ UNCHANGED <<callback, routine, arbitration, target, lowerObject, memory, upperObject,
                   counters>>

\* WdfRequestUnmarkCancelable takes the request back unless its callback has
\* been, or is about to be, invoked.
UnmarkSucceeds(w) == mark[w] = "marked"

DispatchUnmark(w) ==
    /\ dispatch[w] = "unmark"
    /\ IF UnmarkSucceeds(w)
       THEN /\ mark'     = [mark EXCEPT ![w] = "unmarked"]
            /\ dispatch' = [dispatch EXCEPT ![w] = "dropOwned"]
       ELSE /\ dispatch' = [dispatch EXCEPT ![w] = "dropCancelled"]
            /\ UNCHANGED mark
    /\ UNCHANGED <<callback, routine, path, cancelled, target, lowerObject, memory, upperObject,
                   counters>>

DropOwned(w) ==
    /\ dispatch[w] = "dropOwned"
    /\ AbandonOwned(w, "failed")
    /\ dispatch' = [dispatch EXCEPT ![w] = "returned"]
    /\ UNCHANGED <<callback, routine, arbitration, target, counters>>

\* Both references are given back and STATUS_PENDING returned, so neither
\* HLP_FreeResourceForWrite nor the epilogue runs.
DropCancelled(w) ==
    /\ dispatch[w] = "dropCancelled"
    /\ lowerRefs' = [lowerRefs EXCEPT ![w] = @ - 1]
    /\ upperRefs' = [upperRefs EXCEPT ![w] = @ - 1]
    /\ dispatch'  = [dispatch EXCEPT ![w] = "returned"]
    /\ UNCHANGED <<callback, routine, arbitration, target, lower, memory, completions, result,
                   counters>>

Dispatch(w) ==
    \/ PrepareFails(w) \/ Prepare(w) \/ Mark(w) \/ MarkFindsCancelled(w) \/ Send(w)
    \/ SendFails(w) \/ DispatchUnmark(w) \/ DropOwned(w) \/ DropCancelled(w)

-----------------------------------------------------------------------------
(* The environment: the I/O manager and the UART driver below.             *)

\* BthPort, or the I/O manager on its behalf, cancels a request it has out.
CancelUpper(w) ==
    /\ dispatch[w] # "idle"
    /\ completions[w] = 0
    /\ ~cancelled[w]
    /\ cancelled' = [cancelled EXCEPT ![w] = TRUE]
    /\ IF mark[w] = "marked"
       THEN /\ mark'     = [mark EXCEPT ![w] = "fired"]
            /\ callback' = [callback EXCEPT ![w] = "claim"]
       ELSE UNCHANGED <<mark, callback>>
    /\ UNCHANGED <<dispatch, routine, path, target, lowerObject, memory, upperObject, counters>>

\* The lower request comes back: written, cut short, cancelled or failed.
UartCompletes(w) ==
    /\ uart[w] \in {"inflight", "cancelling"}
    /\ uart'    = [uart EXCEPT ![w] = "done"]
    /\ \E s \in Statuses : status' = [status EXCEPT ![w] = s]
    /\ routine' = [routine EXCEPT ![w] = "claim"]
    /\ UNCHANGED <<dispatch, callback, arbitration, lowerObject, memory, upperObject, counters>>

-----------------------------------------------------------------------------
(* CB_RequestFromBthportCancel.                                            *)

\* Mutant: the callback completes without looking at the old value.
CallbackAlwaysOwns(w) == TRUE

\* InterlockedOr(CANCELLATION): the old value says who completes.
CallbackOwns(w) == path[w] = {}

CallbackClaims(w) ==
    /\ callback[w] = "claim"
    /\ callback' = [callback EXCEPT ![w] = IF CallbackOwns(w) THEN "cancelSent" ELSE "done"]
    /\ path'     = [path EXCEPT ![w] = @ \cup {"CANCELLATION"}]
    /\ UNCHANGED <<dispatch, routine, mark, cancelled, target, lowerObject, memory, upperObject,
                   counters>>

\* WdfRequestCancelSentRequest: of no effect on a request not in flight.
CallbackCancelsSent(w) ==
    /\ callback[w] = "cancelSent"
    /\ uart'     = [uart EXCEPT ![w] = IF @ = "inflight" THEN "cancelling" ELSE @]
    /\ callback' = [callback EXCEPT ![w] = "release"]
    /\ UNCHANGED <<dispatch, routine, arbitration, status, lowerObject, memory, upperObject,
                   counters>>

CallbackReleases(w) ==
    /\ callback[w] = "release"
    /\ lowerRefs' = [lowerRefs EXCEPT ![w] = @ - 1]
    /\ callback'  = [callback EXCEPT ![w] = "complete"]
    /\ UNCHANGED <<dispatch, routine, arbitration, target, lower, memory, upperObject, counters>>

CallbackCompletes(w) ==
    /\ callback[w] = "complete"
    /\ memory'   = [memory EXCEPT ![w] = Deleted(@)]
    /\ CompleteUpper(w, "cancelled")
    /\ callback' = [callback EXCEPT ![w] = "done"]
    /\ UNCHANGED <<dispatch, routine, arbitration, target, lowerObject, upperRefs, counters>>

Callback(w) ==
    \/ CallbackClaims(w) \/ CallbackCancelsSent(w) \/ CallbackReleases(w)
    \/ CallbackCompletes(w)

-----------------------------------------------------------------------------
(* CR_WriteDeviceIO.                                                       *)

\* InterlockedOr(COMPLETION).
RoutineClaims(w) ==
    /\ routine[w] = "claim"
    /\ routine' = [routine EXCEPT ![w] = IF path[w] = {} THEN "unmark" ELSE "cleanup"]
    /\ path'    = [path EXCEPT ![w] = @ \cup {"COMPLETION"}]
    /\ UNCHANGED <<dispatch, callback, mark, cancelled, target, lowerObject, memory, upperObject,
                   counters>>

RoutineUnmarks(w) ==
    /\ routine[w] = "unmark"
    /\ IF UnmarkSucceeds(w)
       THEN /\ mark'    = [mark EXCEPT ![w] = "unmarked"]
            /\ routine' = [routine EXCEPT ![w] = "release"]
       ELSE /\ routine' = [routine EXCEPT ![w] = "relinquish"]
            /\ UNCHANGED mark
    /\ UNCHANGED <<dispatch, callback, path, cancelled, target, lowerObject, memory, upperObject,
                   counters>>

\* Mutants: a plain exchange, and no exchange at all.
ExchangeUnconditional(w) == TRUE
ExchangeLeftOut(w) == FALSE

\* InterlockedCompareExchange(path, NONE, COMPLETION): the callback that has
\* not run yet will complete; one that has run left the request to the routine.
ExchangeSucceeds(w) == path[w] = {"COMPLETION"}

RoutineRelinquishes(w) ==
    /\ routine[w] = "relinquish"
    /\ IF ExchangeSucceeds(w)
       THEN /\ path'    = [path EXCEPT ![w] = {}]
            /\ routine' = [routine EXCEPT ![w] = "cleanup"]
       ELSE /\ routine' = [routine EXCEPT ![w] = "release"]
            /\ UNCHANGED path
    /\ UNCHANGED <<dispatch, callback, mark, cancelled, target, lowerObject, memory, upperObject,
                   counters>>

\* Mutant: the routine leaves its reference on the lower request.
RoutineKeepsReference(w) ==
    /\ routine[w] = "release"
    /\ routine' = [routine EXCEPT ![w] = "complete"]
    /\ UNCHANGED <<dispatch, callback, arbitration, target, lowerObject, memory, upperObject,
                   counters>>

RoutineReleases(w) ==
    /\ routine[w] = "release"
    /\ lowerRefs' = [lowerRefs EXCEPT ![w] = @ - 1]
    /\ routine'   = [routine EXCEPT ![w] = "complete"]
    /\ UNCHANGED <<dispatch, callback, arbitration, target, lower, memory, upperObject, counters>>

\* Mutant: the length is not compared.
ReportedIgnoringLength(s) == IF s = "short" THEN {"success"} ELSE {s}

\* A write cut short is reported as STATUS_UNSUCCESSFUL, any other status of
\* the lower request as it is; a full write may still fail to find the
\* output memory of the request.
Reported(s) ==
    IF s = "success" THEN {"success", "failed"}
    ELSE IF s = "short" THEN {"failed"} ELSE {s}

RoutineCompletes(w) ==
    /\ routine[w] = "complete"
    /\ cntCompleted' = cntCompleted + 1
    /\ memory'       = [memory EXCEPT ![w] = Deleted(@)]
    /\ \E s \in Reported(status[w]) : CompleteUpper(w, s)
    /\ routine'      = [routine EXCEPT ![w] = "cleanup"]
    /\ UNCHANGED <<dispatch, callback, arbitration, target, lowerObject, upperRefs, cntReq>>

RoutineCleansUp(w) ==
    /\ routine[w] = "cleanup"
    /\ lower'     = [lower EXCEPT ![w] = Deleted(@)]
    /\ upperRefs' = [upperRefs EXCEPT ![w] = @ - 1]
    /\ routine'   = [routine EXCEPT ![w] = "done"]
    /\ UNCHANGED <<dispatch, callback, arbitration, target, lowerRefs, memory, completions,
                   result, counters>>

Routine(w) ==
    \/ RoutineClaims(w) \/ RoutineUnmarks(w) \/ RoutineRelinquishes(w) \/ RoutineReleases(w)
    \/ RoutineCompletes(w) \/ RoutineCleansUp(w)

-----------------------------------------------------------------------------
\* No thread holds w any more and the UART will not call back.
Quiescent(w) ==
    /\ dispatch[w] = "returned"
    /\ callback[w] \in {"idle", "done"}
    /\ routine[w] \in {"idle", "done"}
    /\ uart[w] \in {"idle", "done"}

\* The bounded set of requests is used up; the device itself waits for more.
Exhausted ==
    /\ \A w \in Writes : Quiescent(w)
    /\ UNCHANGED vars

Next ==
    \/ \E w \in Writes :
          \/ Accept(w) \/ Reject(w) \/ CancelUpper(w) \/ UartCompletes(w)
          \/ Dispatch(w) \/ Callback(w) \/ Routine(w)
    \/ Exhausted

\* A thread of the driver that has started runs on, and the UART completes a
\* request it was asked to cancel.  Nothing makes BthPort send or cancel a
\* request, and nothing makes the UART finish a write (the controller may hold
\* RTS for ever).
Fairness ==
    \A w \in Writes :
        /\ WF_vars(Dispatch(w))
        /\ WF_vars(Callback(w))
        /\ WF_vars(Routine(w))
        /\ WF_vars(uart[w] = "cancelling" /\ UartCompletes(w))

Spec == Init /\ [][Next]_vars /\ Fairness

-----------------------------------------------------------------------------
(* Properties.                                                             *)

\* The range of every variable.
TypeOK ==
    /\ dispatch \in [Writes -> {"idle", "prepare", "mark", "send", "unmark", "dropOwned",
                                "dropCancelled", "returned"}]
    /\ callback \in [Writes -> {"idle", "claim", "cancelSent", "release", "complete", "done"}]
    /\ routine \in [Writes -> {"idle", "claim", "unmark", "relinquish", "release", "complete",
                               "cleanup", "done"}]
    /\ path \in [Writes -> SUBSET PathBits]
    /\ mark \in [Writes -> {"unmarked", "marked", "fired"}]
    /\ cancelled \in [Writes -> BOOLEAN]
    /\ uart \in [Writes -> {"idle", "inflight", "cancelling", "done"}]
    /\ status \in [Writes -> Statuses]
    /\ lower \in [Writes -> Objects]
    /\ lowerRefs \in [Writes -> Int]
    /\ memory \in [Writes -> Objects]
    /\ upperRefs \in [Writes -> Int]
    /\ completions \in [Writes -> Nat]
    /\ result \in [Writes -> {"none", "success", "cancelled", "failed"}]
    /\ cntReq \in Nat
    /\ cntCompleted \in Nat

\* However the three threads interleave, BthPort's request is completed at most
\* once, and it has been completed when the last of them is through with it
\* (the arbitration of io.c:190-205, 407-463 and Fdo.c:2200-2223).
CompletedExactlyOnce ==
    \A w \in Writes :
        /\ completions[w] <= 1
        /\ Quiescent(w) => completions[w] = 1

\* No object is deleted twice, and the memory object, which lies over the
\* caller's buffer, is gone once every thread is through.
DeletedOnce ==
    \A w \in Writes :
        /\ lower[w] # "overdeleted" /\ memory[w] # "overdeleted"
        /\ Quiescent(w) => memory[w] # "live"

\* The context in the upper request, the lower request and the memory object
\* are alive whenever a thread is about to use them ("reference is taken on the
\* Requests to ensure that they stay valid until last access", io.c:361-362), the
\* deletion of them included.
ObjectsAliveWhenUsed ==
    /\ DeletedOnce
    /\ \A w \in Writes :
           /\ routine[w] \notin {"idle", "done"} => upperRefs[w] >= 1
           /\ dispatch[w] \in {"send", "unmark", "dropOwned", "dropCancelled"} => upperRefs[w] >= 1
           /\ callback[w] # "idle" /\ callback[w] # "done" => completions[w] = 0
           /\ callback[w] \in {"cancelSent", "release"} => lower[w] = "live" \/ lowerRefs[w] >= 1
           /\ routine[w] \in {"release", "complete", "cleanup"} => lower[w] = "live"
           /\ routine[w] = "complete" \/ callback[w] = "complete" => memory[w] = "live"
           /\ dispatch[w] = "dropOwned" => memory[w] = "live" /\ lower[w] = "live"

\* After a write that reached the UART has run its course, whoever completed
\* it, both references are given back and the lower request is deleted.
DeliveredWriteReleased ==
    \A w \in Writes :
        uart[w] = "done" /\ Quiescent(w) =>
            lower[w] = "deleted" /\ lowerRefs[w] = 0 /\ upperRefs[w] = 0

\* BthPort reads success only for a packet the UART took in full, and a
\* cancellation only for a request it cancelled or that the UART gave back as
\* cancelled.
ResultFaithful ==
    \A w \in Writes :
        /\ result[w] = "success" => uart[w] = "done" /\ status[w] = "success"
        /\ result[w] = "cancelled" =>
               cancelled[w] \/ (uart[w] = "done" /\ status[w] = "cancelled")

\* A write that never reached the UART leaves nothing behind either, except where
\* FdoWriteDeviceIO fails between creating the lower request and storing it in
\* the context (Fdo.c:2128-2160), and where WdfRequestSend fails while the cancel
\* callback runs: both give back the one reference of the lower request, which
\* nobody deletes then (Fdo.c:2200-2223).
UndeliveredWriteReleased ==
    \A w \in Writes :
        uart[w] = "idle" /\ Quiescent(w) =>
            /\ upperRefs[w] = 0
            /\ \/ lower[w] # "live" /\ lowerRefs[w] = 0
               \/ callback[w] = "idle" /\ mark[w] = "unmarked" /\ lowerRefs[w] = 0
                  /\ result[w] = "failed"
               \/ callback[w] = "done" /\ lowerRefs[w] = -1 /\ result[w] = "cancelled"

\* "Its associated Request to lower (UART) driver will be canceled and then this
\* Request will be completed" (io.c:148-150): the lower request, that carries the
\* buffer of the upper one, is sent after that has been completed only if the
\* cancel callback came between the mark and the send and found nothing to cancel.
SentLateOnlyBehindCancel ==
    [][\A w \in Writes :
          uart[w] = "idle" /\ uart'[w] = "inflight" =>
              completions[w] = 0 \/ (callback[w] = "done" /\ path[w] = {"CANCELLATION"})]_vars
=============================================================================
