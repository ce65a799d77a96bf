--------------------------- MODULE ChildRequests ---------------------------
(***************************************************************************)
(* The requests of the Bluetooth stack and the power of the devices they   *)
(* go through.  BthMini and BthPort talk to the child device (pdo.c); its  *)
(* queue hands what it knows to the queue of the parent (driver.c, Fdo.c), *)
(* that is power managed: the parent's handler runs in D0 only, and the    *)
(* parent leaves D0 only with no request in the driver's hands.  While the *)
(* child holds its hardware it keeps the parent from idling out.           *)
(*                                                                         *)
(* The queues, the power machines of the framework and BthMini are modelled*)
(* from what the driver asks of them.  What becomes of a read in its       *)
(* manual queue and of a write at the UART is in ReadQueue and             *)
(* WriteRequest; here a read is parked and a write is out until it comes   *)
(* back or is cancelled.                                                   *)
(***************************************************************************)
EXTENDS Contracts, Integers

CONSTANTS
    Queries,          \* the version and capability requests of a starting stack
    Requests,         \* what the running stack sends
    Sends,            \* the control codes a request may carry
    WakeConfigs       \* power contracts the board may have

Codes == {"info", "read", "write", "unknown"}

ASSUME RequestsAssumption ==
    /\ Sends \in [Queries \cup Requests -> SUBSET Codes]
    /\ WakeConfigs \subseteq PowerConfigs

VARIABLES
    code,             \* the control code of a request
    owner,            \* who holds it
    cancelled,        \* its cancel bit
    completions,      \* how often it has been completed
    child,            \* where the child device and the stack on it stand
    parent,           \* the power state of the parent
    system,           \* "S0" or "Sx"
    idleRefs,         \* references that keep the parent from idling out
    refused,          \* WdfDeviceStopIdle has failed (a history variable)
    power,            \* IfxBtPlatformGetPowerConfig
    wake              \* the child's wake at the bus

requests == <<owner, cancelled, completions>>
powers   == <<parent, system>>
idle     == <<idleRefs, refused>>
board    == <<code, power>>
vars     == <<board, requests, child, powers, idle, wake>>

All == Queries \cup Requests

\* In the driver's hands: not on a queue of the framework.
InDriver == {"parentHandler", "uart"}

\* On a power-managed queue or taken from one.
AtParent == {"parentQueue", "parked"} \cup InDriver

\* After PrepareHardware and before ReleaseHardware.
Holding == {"prepared", "powering", "working", "low"}

Init ==
    /\ code \in [All -> Codes]
    /\ \A r \in All : code[r] \in Sends[r]
    /\ power \in WakeConfigs
    /\ owner = [r \in All |-> "new"]
    /\ cancelled = [r \in All |-> FALSE]
    /\ completions = [r \in All |-> 0]
    /\ child = "absent"
    /\ parent = "D0"
    /\ system = "S0"
    /\ idleRefs = 0
    /\ refused = FALSE
    /\ wake = "disarmed"

Hands(r, to) ==
    /\ owner' = [owner EXCEPT ![r] = to]
    /\ UNCHANGED <<cancelled, completions>>

Completes(r) ==
    /\ owner' = [owner EXCEPT ![r] = "done"]
    /\ completions' = [completions EXCEPT ![r] = @ + 1]
    /\ UNCHANGED cancelled

UnchangedButRequests == UNCHANGED <<board, child, powers, idle, wake>>

-----------------------------------------------------------------------------
(* A request on its way down.                                              *)

\* BthMini asks for versions and capabilities while it starts, before the
\* child is in D0, and everything else from the child in D0.
Submit(r) ==
    /\ owner[r] = "new"
    /\ child = "working" \/ (r \in Queries /\ child = "prepared")
    /\ Hands(r, "childQueue")
    /\ UnchangedButRequests

\* Mutant: the child's queue is power managed.
ChildInD0 == child = "working"

\* The child's queue is not power managed.
ChildQueueRuns == child \in Holding

ChildDispatches(r) ==
    /\ owner[r] = "childQueue"
    /\ ~cancelled[r]
    /\ ChildQueueRuns
    /\ Hands(r, "childHandler")
    /\ UnchangedButRequests

\* Mutant: a request that was forwarded is completed all the same.
ForwardsAndCompletes(r) ==
    /\ owner[r] = "childHandler"
    /\ code[r] # "unknown"
    /\ parent # "failed"
    /\ owner' = [owner EXCEPT ![r] = "parentQueue"]
    /\ completions' = [completions EXCEPT ![r] = @ + 1]
    /\ UNCHANGED cancelled
    /\ UnchangedButRequests

\* PdoIoQuDeviceControl, for a control code it knows.
Forward(r) ==
    /\ owner[r] = "childHandler"
    /\ code[r] # "unknown"
    /\ parent # "failed"
    /\ Hands(r, "parentQueue")
    /\ UnchangedButRequests

\* The other codes, and a request the parent's queue does not take.
Refuse(r) ==
    /\ owner[r] = "childHandler"
    /\ code[r] = "unknown" \/ parent = "failed"
    /\ Completes(r)
    /\ UnchangedButRequests

ParentQueueRuns == parent = "D0"

ParentDispatches(r) ==
    /\ owner[r] = "parentQueue"
    /\ ~cancelled[r]
    /\ ParentQueueRuns
    /\ Hands(r, "parentHandler")
    /\ UnchangedButRequests

\* FdoIoQuDeviceControl: a version or the capabilities are answered, a read or
\* a write that is not valid is refused, a read may find its packet waiting.
Answer(r) ==
    /\ owner[r] = "parentHandler"
    /\ Completes(r)
    /\ UnchangedButRequests

Park(r) ==
    /\ owner[r] = "parentHandler"
    /\ code[r] = "read"
    /\ Hands(r, "parked")
    /\ UnchangedButRequests

SendToUart(r) ==
    /\ owner[r] = "parentHandler"
    /\ code[r] = "write"
    /\ Hands(r, "uart")
    /\ UnchangedButRequests

\* A packet arrives for the read, the UART is done with the write.
Comes(r) ==
    /\ owner[r] = "uart" \/ (owner[r] = "parked" /\ parent = "D0")
    /\ Completes(r)
    /\ UnchangedButRequests

\* Mutant: a write is not made cancelable.
QueuedOnly == {"childQueue", "parentQueue", "parked"}

\* A request on a queue belongs to the framework, a write has its callback.
Cancelable == {"childQueue", "parentQueue", "parked", "uart"}

CancelTakesEffect(r) ==
    /\ cancelled[r]
    /\ owner[r] \in Cancelable
    /\ Completes(r)
    /\ UnchangedButRequests

\* The queues of a parent that failed are purged.
Purge(r) ==
    /\ parent = "failed"
    /\ owner[r] \in AtParent \ {"parentHandler"}
    /\ Completes(r)
    /\ UnchangedButRequests

Cancel(r) ==
    /\ owner[r] \notin {"new", "done"}
    /\ ~cancelled[r]
    /\ cancelled' = [cancelled EXCEPT ![r] = TRUE]
    /\ UNCHANGED <<owner, completions>>
    /\ UnchangedButRequests

Pending == {r \in All : owner[r] \notin {"new", "done"}}

\* BthMini cancels all it has out before the child leaves D0 or goes away.
CancelPending ==
    /\ cancelled' = [r \in All |-> cancelled[r] \/ r \in Pending]
    /\ UNCHANGED <<owner, completions>>

-----------------------------------------------------------------------------
(* The child device.                                                       *)

\* The handler of the radio request, or D0Entry, has created it; the parent
\* is in D0.
Create ==
    /\ child = "absent"
    /\ parent = "D0" /\ system = "S0"
    /\ child' = "created"
    /\ UNCHANGED <<board, requests, powers, idle, wake>>

\* Mutant: the child takes no reference.
PrepareTakesNone ==
    /\ child = "created" /\ system = "S0"
    /\ parent # "failed"
    /\ child' = "prepared"
    /\ UNCHANGED <<board, requests, powers, idle, wake>>

\* PdoDevPrepareHardware: WdfDeviceStopIdle brings the parent up without
\* waiting for it.
PdoDevPrepareHardware ==
    /\ child = "created" /\ system = "S0"
    /\ parent # "failed"
    /\ idleRefs' = idleRefs + 1
    /\ child' = "prepared"
    /\ UNCHANGED <<board, requests, powers, refused, wake>>

\* It fails on a parent that failed; the framework releases the hardware of a
\* device whose PrepareHardware failed.
PrepareRefused ==
    /\ child = "created" /\ system = "S0"
    /\ parent = "failed"
    /\ refused' = TRUE
    /\ child' = "releasing"
    /\ UNCHANGED <<board, requests, powers, idleRefs, wake>>

\* The stack has its answers and asks for D0; the framework brings the parent
\* up before the child.
PowerUp ==
    /\ child = "low" \/ (child = "prepared" /\ \A q \in Queries : owner[q] = "done")
    /\ system = "S0"
    /\ child' = "powering"
    /\ UNCHANGED <<board, requests, powers, idle, wake>>

\* PdoDevD0Entry, after PdoDevDisableWakeAtBus.
PdoDevD0Entry ==
    /\ child = "powering" /\ parent = "D0"
    /\ child' = "working"
    /\ wake' = "disarmed"
    /\ UNCHANGED <<board, requests, powers, idle>>

\* PdoDevD0Exit, before it PdoDevEnableWakeAtBus if the stack wants to be woken.
PdoDevD0Exit ==
    /\ child = "working"
    /\ child' = "low"
    /\ CancelPending
    /\ \E wanted \in BOOLEAN :
          wake' = IF wanted /\ IfxBtConfigureWake(power, TRUE) = "SUCCESS"
                  THEN "armed" ELSE wake
    /\ UNCHANGED <<board, powers, idle>>

\* Radio off, a stack that does not start, a child that is disabled or whose
\* parent failed.
Remove ==
    /\ child \in Holding \ {"working"} \/ (child = "working" /\ parent = "failed")
    /\ system = "S0"
    /\ CancelPending
    /\ child' = "releasing"
    /\ wake' = "disarmed"
    /\ UNCHANGED <<board, powers, idle>>

\* Mutant: the reference is not given back.
ReleaseKeepsReference ==
    /\ child = "releasing"
    /\ child' = "absent"
    /\ UNCHANGED <<board, requests, powers, idle, wake>>

\* PdoDevReleaseHardware: WdfDeviceResumeIdle, whatever PrepareHardware said.
\* The device may be started again, or be gone.
PdoDevReleaseHardware ==
    /\ child = "releasing"
    /\ idleRefs' = idleRefs - 1
    /\ child' \in {"created", "absent"} /\ (refused => child' = "absent")
    /\ UNCHANGED <<board, requests, powers, refused, wake>>

-----------------------------------------------------------------------------
(* The parent and the system, by the framework's power machine with the    *)
(* idle settings of FdoSetIdleSettings(IdleCapCanTurnOff).                 *)

ParentIdles ==
    /\ parent = "D0" /\ system = "S0"
    /\ idleRefs <= 0
    /\ child \notin {"powering", "working"}
    /\ \A r \in All : owner[r] \notin AtParent
    /\ parent' = "leaving"
    /\ UNCHANGED <<board, requests, child, system, idle, wake>>

\* The system goes to sleep when the child is down and its tree is quiet.
SystemSleeps ==
    /\ system = "S0"
    /\ child \in {"absent", "low"}
    /\ system' = "Sx"
    /\ parent' = IF parent = "D0" THEN "leaving" ELSE parent
    /\ UNCHANGED <<board, requests, child, idle, wake>>

SystemWakes ==
    /\ system = "Sx" /\ parent # "leaving"
    /\ system' = "S0"
    /\ UNCHANGED <<board, requests, child, parent, idle, wake>>

\* D0Exit, once the handlers have returned and the writes are completed.
ParentLeaves ==
    /\ parent = "leaving"
    /\ \A r \in All : owner[r] \notin InDriver
    /\ parent' = "Dx"
    /\ UNCHANGED <<board, requests, child, system, idle, wake>>

\* A reference, a request or a child that powers up wants it in D0.
Wanted ==
    \/ idleRefs > 0 \/ child = "powering"
    \/ \E r \in All : owner[r] \in AtParent

\* D0Entry fails or not.
ParentReturns ==
    /\ parent = "Dx" /\ system = "S0"
    /\ Wanted
    /\ parent' \in {"D0", "failed"}
    /\ UNCHANGED <<board, requests, child, system, idle, wake>>

-----------------------------------------------------------------------------
Handler(r) ==
    \/ ChildDispatches(r) \/ Forward(r) \/ Refuse(r) \/ ParentDispatches(r)
    \/ Answer(r) \/ Park(r) \/ SendToUart(r)

ChildSteps ==
    \/ PdoDevPrepareHardware \/ PrepareRefused \/ PdoDevD0Entry \/ PdoDevReleaseHardware

\* The bounded set of requests is used up, or the parent has failed.
Rest ==
    /\ Pending = {} /\ child = "absent" /\ parent = "failed"
    /\ UNCHANGED vars

Next ==
    \/ \E r \in All :
          \/ Submit(r) \/ Handler(r) \/ Comes(r)
          \/ CancelTakesEffect(r) \/ Purge(r) \/ Cancel(r)
    \/ ChildSteps
    \/ Create \/ PowerUp \/ PdoDevD0Exit \/ Remove
    \/ ParentIdles \/ SystemSleeps \/ SystemWakes \/ ParentLeaves \/ ParentReturns
    \/ Rest

\* The framework dispatches what its queues may, carries out cancellations and
\* the transitions it has begun; a handler returns; BthMini sends its queries,
\* asks for D0 when they are answered, and leaves a parent that failed.
\* Nothing makes a packet arrive, the UART answer, a request be sent or
\* cancelled, or the system sleep.
Fairness ==
    /\ \A r \in All : WF_vars(Handler(r)) /\ WF_vars(CancelTakesEffect(r)) /\ WF_vars(Purge(r))
    /\ \A q \in Queries : WF_vars(Submit(q))
    /\ WF_vars(ChildSteps)
    /\ WF_vars(child = "prepared" /\ PowerUp)
    /\ WF_vars(parent = "failed" /\ Remove)
    /\ WF_vars(ParentLeaves)
    /\ WF_vars(ParentReturns)

Spec == Init /\ [][Next]_vars /\ Fairness

-----------------------------------------------------------------------------
(* Properties.                                                             *)

\* The range of every variable.
TypeOK ==
    /\ code \in [All -> Codes]
    /\ power \in WakeConfigs
    /\ owner \in [All -> {"new", "childQueue", "childHandler", "done"} \cup AtParent]
    /\ cancelled \in [All -> BOOLEAN]
    /\ completions \in [All -> Nat]
    /\ child \in {"absent", "created", "releasing"} \cup Holding
    /\ parent \in {"D0", "leaving", "Dx", "failed"}
    /\ system \in {"S0", "Sx"}
    /\ idleRefs \in -1 .. 1
    /\ refused \in BOOLEAN
    /\ wake \in {"disarmed", "armed"}

\* Whoever holds a request last, the child's handler, the framework's queues,
\* the parent's handler or a callback, completes it, and nobody completes one
\* that was handed on (SEND_AND_FORGET, pdo.c:1179-1209).
CompletedByItsOwner ==
    \A r \in All : completions[r] = (IF owner[r] = "done" THEN 1 ELSE 0)

\* No handler of the parent runs, and no write is at the UART, in a low power
\* state: the default queue is power managed and has no EvtIoStop
\* (driver.c:254-281).
HandledInD0 ==
    \A r \in All : owner[r] \in InDriver => parent \in {"D0", "leaving"}

\* While the child holds its hardware the parent does not idle out under it,
\* be the child in Dx and without a request ("prevent the FDO from entering
\* DxState while its PDO is in Dx and there is no pending IO", Fdo.c:1357).
NoIdleUnderChild ==
    [][system = "S0" /\ parent = "D0" /\ parent' = "leaving" /\ system' = "S0"
          => child \notin Holding]_vars

\* The references on the parent's idling are those of a child that holds its
\* hardware; one too few after a PrepareHardware that was refused, the case
\* that pdo.c:912-915 asserts away, and then the parent has failed.
IdleReferencesAccounted ==
    /\ refused => parent = "failed"
    /\ child = "releasing" \/
          idleRefs = (IF child \in Holding THEN 1 ELSE 0) - (IF refused THEN 1 ELSE 0)

\* The child is armed for wake by a board only that says who owns its wake
\* lines, and not to the driver, that cannot drive them (device.c:256-310).
WakeOnOwnedLines ==
    wake = "armed" =>
        /\ ~power.PlaceholderPowerConfig
        /\ {power.HostWakeOwnership, power.DevWakeOwnership} \cap
              {"PlaceholderUnknown", "DriverControlledGpio", "Invalid"} = {}

\* A stack that starts comes up, or finds its parent failed: its queries are
\* answered before the child is in D0 ("A deadlock occurs if this is power
\* managed", pdo.c:763-768).
StackStarts ==
    child = "prepared" ~> child = "working" \/ child = "releasing"

\* A parent on its way out of D0 gets there although nothing makes the UART or
\* the controller answer: the writes it waits for were cancelled with the child
\* and are cancelable, and the reads wait on a queue of the framework ("the caller
\* (BthMini) will cancel all pending IOs", driver.c:268-279).
ParentGetsDown == parent = "leaving" ~> parent # "leaving"
=============================================================================
