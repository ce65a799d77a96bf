----------------------------- MODULE Lifecycle -----------------------------
(***************************************************************************)
(* The life of the parent device (Fdo.c, pdo.c, WDK/device.c): the PnP     *)
(* thread brings it up through the stages of PrepareHardware and D0Entry,  *)
(* takes it down with D0Exit and ReleaseHardware, and exposes the child    *)
(* device for the Bluetooth stack; radio requests add and remove that      *)
(* child; a reset asked for by the child (PLDR) invalidates the parent.    *)
(* What they agree on are a few unlocked fields of FDO_EXTENSION and the   *)
(* list of children.                                                       *)
(*                                                                         *)
(* Stages that are placeholders in this tree fail always; a configuration  *)
(* says which have been replaced by the real ones, that may fail or not.   *)
(***************************************************************************)
EXTENDS Naturals, FiniteSets

CONSTANTS
    Pnp,               \* the thread of the PnP and power callbacks
    Reset,             \* the thread that calls the child's reset interface
    Radios             \* radio on/off requests dispatched side by side

ASSUME LifecycleAssumption == Pnp \notin Radios /\ Reset \notin Radios /\ Pnp # Reset

VARIABLES
    config,            \* what the board contract makes of the placeholders
    pc,                \* where a thread stands; the stage of the device for Pnp
    callback,          \* the callback whose stages Pnp goes through
    initDone,          \* SelfManagedIoInit has been called
    TransportState,
    LastFailureReason,
    DeviceInitialized,
    IoTargetSerial,    \* "none", "started" or "stopped"
    IsRadioEnabled,
    ChildLock,         \* the threads that hold it
    children,          \* how many children the static list holds
    cause              \* the reason the last start failed for (a history variable)

state     == <<TransportState, LastFailureReason, DeviceInitialized>>
childList == <<IsRadioEnabled, ChildLock, children>>
pnp       == <<callback, initDone, IoTargetSerial, cause>>
vars      == <<config, pc, state, childList, pnp>>

Threads == Radios \cup {Pnp, Reset}

\* "control": a GPIO or I2C connection was found among the resources.
Configs == [uart : BOOLEAN, power : {"placeholder", "platform", "driver"},
            firmware : BOOLEAN, controller : BOOLEAN, control : BOOLEAN]

\* No contract is a placeholder any more but that of the platform, which must stay one
\* for a start to pass (IfxBtPlatform.c:245, 260, 360; see Contracts).
Complete(c) == c.uart /\ c.power = "platform" /\ c.firmware /\ c.controller

Init ==
    /\ config \in Configs
    /\ pc = [t \in Threads |-> IF t = Pnp THEN "added" ELSE "idle"]
    /\ callback = "none"
    /\ initDone = FALSE
    /\ TransportState = "Created"
    /\ LastFailureReason = "None"
    /\ DeviceInitialized = FALSE
    /\ IoTargetSerial = "none"
    /\ IsRadioEnabled = FALSE
    /\ ChildLock = {}
    /\ children = 0
    /\ cause = "None"

Goes(t, place) == pc' = [pc EXCEPT ![t] = place]

IfxBtSetTransportState(new) ==
    TransportState' = new /\ UNCHANGED <<LastFailureReason, DeviceInitialized>>

IfxBtInvalidateParentReadiness(new) ==
    /\ DeviceInitialized' = FALSE
    /\ TransportState' = new
    /\ UNCHANGED LastFailureReason

IfxBtSetFailureReason(reason) ==
    /\ LastFailureReason' = reason
    /\ DeviceInitialized' = FALSE
    /\ TransportState' = "Failed"

IfxBtIsParentTransportReady ==
    /\ TransportState = "Operational"
    /\ LastFailureReason = "None"
    /\ DeviceInitialized
    /\ IoTargetSerial # "none"

PowerFailure == IF config.power = "placeholder" THEN "PowerResourcesPlaceholder"
                                                ELSE "PowerSequenceFailed"

-----------------------------------------------------------------------------
(* The stages of PrepareHardware and D0Entry.                              *)

Passes(stage, next, reached) ==
    /\ pc[Pnp] = stage
    /\ Goes(Pnp, next)
    /\ IfxBtSetTransportState(reached)
    /\ UNCHANGED <<config, childList, pnp>>

\* A stage fails for a reason; one inside DeviceInitialize returns to its
\* caller, that latches the failure.
StageFails(stage, next, reason) ==
    /\ pc[Pnp] = stage
    /\ Goes(Pnp, next)
    /\ IfxBtSetFailureReason(reason)
    /\ cause' = reason
    /\ UNCHANGED <<config, callback, initDone, IoTargetSerial, childList>>

PrepareHardware ==
    /\ pc[Pnp] \in {"added", "stopped"}
    /\ Goes(Pnp, "resources")
    /\ callback' = "PrepareHardware"
    /\ LastFailureReason' = "None"
    /\ TransportState' = "Created"
    /\ cause' = "None"
    /\ UNCHANGED <<config, DeviceInitialized, initDone, IoTargetSerial, childList>>

FdoFindConnectResources ==
    \/ Passes("resources", "open", "ResourcesParsed")
    \/ StageFails("resources", "failed", "MissingUartResource")

FdoOpenDevice ==
    \/ /\ pc[Pnp] = "open"
       /\ Goes(Pnp, "extension")
       /\ IoTargetSerial' = "started"
       /\ IfxBtSetTransportState("UartOpened")
       /\ UNCHANGED <<config, callback, initDone, cause, childList>>
    \/ StageFails("open", "failed", "UartOpenFailed")

HlpInitializeFdoExtension ==
    \/ Passes("extension", "enable", TransportState)
    \/ StageFails("extension", "failed", "UartConfigFailed")

\* DeviceEnable and DevicePowerOn, for the connections that were found.
DeviceEnable ==
    \/ /\ ~config.control \/ config.power = "platform"
       /\ Passes("enable", "uart", TransportState)
    \/ /\ config.control /\ config.power # "platform"
       /\ StageFails("enable", "failed", PowerFailure)

\* A target that is stopped holds the serial IOCTLs until they time out.
IfxBtConfigureUart ==
    \/ /\ config.uart /\ IoTargetSerial = "started"
       /\ Passes("uart", "power", "UartConfigured")
    \/ StageFails("uart", "latch",
                  IF config.uart THEN "UartConfigFailed" ELSE "UartConfigPlaceholder")

IfxBtPowerOnController ==
    \/ config.power = "platform" /\ Passes("power", "firmware", "PlatformPowered")
    \/ config.power # "platform" /\ StageFails("power", "latch", PowerFailure)

\* Success takes the state through FirmwareReady to BaudSynchronized at once.
IfxBtFirmwareEvaluateInitialization ==
    \/ config.firmware /\ Passes("firmware", "controller", "BaudSynchronized")
    \/ StageFails("firmware", "latch",
                  IF config.firmware THEN "VendorCommandFailed" ELSE "FirmwareSequencePlaceholder")

\* Mutant: a placeholder controller validation is not waited for.
ControllerReadyUnchecked ==
    \/ Passes("controller", "assign", "Operational")
    \/ StageFails("controller", "latch", "ControllerValidationFailed")

\* And from ControllerReady to Operational.
IfxBtFirmwareValidateControllerReady ==
    \/ config.controller /\ Passes("controller", "assign", "Operational")
    \/ StageFails("controller", "latch",
                  IF config.controller THEN "ControllerValidationFailed"
                                       ELSE "ControllerValidationPlaceholder")

\* The caller stores what DeviceInitialize returned: TRUE ...
DeviceInitialize ==
    /\ pc[Pnp] = "assign"
    /\ DeviceInitialized' = TRUE
    /\ Goes(Pnp, IF callback = "PrepareHardware" THEN "ready" ELSE "target")
    /\ UNCHANGED <<config, TransportState, LastFailureReason, childList, pnp>>

\* Mutant: the reason recorded by the stage is not preserved.
LatchFailureAfresh ==
    /\ pc[Pnp] = "latch"
    /\ Goes(Pnp, "failed")
    /\ IfxBtSetFailureReason("UartConfigFailed")
    /\ UNCHANGED <<config, childList, pnp>>

\* ... or FALSE: it latches the failure, for the reason that is recorded.
LatchFailure ==
    /\ pc[Pnp] = "latch"
    /\ Goes(Pnp, "failed")
    /\ IfxBtSetFailureReason(IF LastFailureReason = "None" THEN "UartConfigFailed"
                                                           ELSE LastFailureReason)
    /\ UNCHANGED <<config, childList, pnp>>

-----------------------------------------------------------------------------
(* Power, and the end of the device.                                       *)

\* A device that is initialized, as it is after PrepareHardware, is left as it
\* is; SelfManagedIoInit follows the first time.
D0Entry ==
    /\ pc[Pnp] \in {"prepared", "low"}
    /\ callback' = "D0Entry"
    /\ Goes(Pnp, IF ~DeviceInitialized THEN "enable" ELSE IF initDone THEN "d0" ELSE "ioinit")
    /\ UNCHANGED <<config, state, childList, initDone, IoTargetSerial, cause>>

WdfIoTargetStart ==
    \/ /\ pc[Pnp] = "target"
       /\ IoTargetSerial' = "started"
       /\ Goes(Pnp, "pump")
       /\ UNCHANGED <<config, state, childList, callback, initDone, cause>>
    \/ StageFails("target", "failed", "SerialError")

\* The read pump starts again; ReadH4Packet checks DeviceInitialized itself.
RestartReadPump ==
    \/ /\ DeviceInitialized
       /\ Passes("pump", IF initDone THEN "d0" ELSE "ioinit", TransportState)
    \/ StageFails("pump", "failed", "ReadPumpFailed")

SelfManagedIoInit ==
    \/ /\ pc[Pnp] = "ioinit"
       /\ DeviceInitialized
       /\ initDone' = TRUE
       /\ Goes(Pnp, "d0")
       /\ UNCHANGED <<config, state, childList, callback, IoTargetSerial, cause>>
    \/ StageFails("ioinit", "failed", "ReadPumpFailed")

\* Mutant: the device stays initialized, so that the next D0Entry skips it.
D0ExitStaysInitialized ==
    /\ pc[Pnp] = "d0"
    /\ \A r \in Radios : pc[r] = "idle"
    /\ IfxBtSetTransportState("Stopping")
    /\ IoTargetSerial' = "stopped"
    /\ Goes(Pnp, "low")
    /\ UNCHANGED <<config, childList, callback, initDone, cause>>

\* Mutant: the queue of the radio requests is not power managed.
D0ExitAtOnce ==
    /\ pc[Pnp] = "d0"
    /\ IfxBtInvalidateParentReadiness("Stopping")
    /\ IoTargetSerial' = "stopped"
    /\ Goes(Pnp, "low")
    /\ UNCHANGED <<config, childList, callback, initDone, cause>>

\* The framework waits for the radio requests first: there is no EvtIoStop.
D0Exit ==
    /\ pc[Pnp] = "d0"
    /\ \A r \in Radios : pc[r] = "idle"
    /\ IfxBtInvalidateParentReadiness("Stopping")
    /\ IoTargetSerial' = "stopped"
    /\ Goes(Pnp, "low")
    /\ UNCHANGED <<config, childList, callback, initDone, cause>>

\* After a failed start the device is gone; after a stop it may be started again.
ReleaseHardware ==
    /\ pc[Pnp] \in {"low", "failed"}
    /\ \A r \in Radios : pc[r] = "idle"
    /\ IfxBtInvalidateParentReadiness("Created")
    /\ IoTargetSerial' = "none"
    /\ Goes(Pnp, IF pc[Pnp] = "low" THEN "stopped" ELSE "gone")
    /\ UNCHANGED <<config, childList, callback, initDone, cause>>

-----------------------------------------------------------------------------
(* The child: FdoCreateAllChildren, FdoCreateOneChildDevice and            *)
(* FdoRemoveOneChildDevice.                                                *)

CreateFails(t) == Goes(t, IF t = Pnp THEN "failed" ELSE "idle")

\* FdoCreateAllChildren, or the handler of radio on, asks whether the parent is
\* ready, and FdoCreateOneChildDevice asks again.
AskReady(t) ==
    /\ pc[t] \in {"ready", "check"}
    /\ IF IfxBtIsParentTransportReady
       THEN Goes(t, IF pc[t] = "ready" THEN "check" ELSE "lock")
       ELSE CreateFails(t)
    /\ UNCHANGED <<config, state, childList, pnp>>

\* Mutant: only the list is locked.
LockListOnly(t) ==
    /\ pc[t] = "lock"
    /\ IF children = 0
       THEN Goes(t, "pdo")
       ELSE CreateFails(t)
    /\ UNCHANGED <<config, state, childList, pnp>>

\* With ChildLock held, the serial number is looked up: there is only one.
LockChildren(t) ==
    /\ pc[t] = "lock"
    /\ ChildLock = {}
    /\ IF children = 0
       THEN Goes(t, "pdo") /\ ChildLock' = {t}
       ELSE CreateFails(t) /\ UNCHANGED ChildLock
    /\ UNCHANGED <<config, state, IsRadioEnabled, children, pnp>>

PdoCreate(t) ==
    /\ pc[t] = "pdo"
    /\ Goes(t, IF t = Reset THEN "idle" ELSE "enable radio")
    /\ children' = children + 1
    /\ ChildLock' = ChildLock \ {t}
    /\ UNCHANGED <<config, state, IsRadioEnabled, pnp>>

\* Mutant: the failure returns without releasing the lock.
PdoCreateFailsLocked(t) ==
    /\ pc[t] = "pdo"
    /\ CreateFails(t)
    /\ UNCHANGED <<config, state, childList, pnp>>

PdoCreateFails(t) ==
    /\ pc[t] = "pdo"
    /\ CreateFails(t)
    /\ ChildLock' = ChildLock \ {t}
    /\ UNCHANGED <<config, state, IsRadioEnabled, children, pnp>>

EnableRadio(t) ==
    /\ pc[t] = "enable radio"
    /\ IsRadioEnabled' = TRUE
    /\ Goes(t, IF t = Pnp THEN "prepared" ELSE "idle")
    /\ UNCHANGED <<config, state, ChildLock, children, pnp>>

\* The child is marked missing; when there is none, the caller gives up.
RemoveChild(t) ==
    /\ pc[t] = "remove"
    /\ IF children > 0
       THEN children' = children - 1 /\ Goes(t, IF t = Reset THEN "check" ELSE "disable radio")
       ELSE UNCHANGED children /\ Goes(t, "idle")
    /\ UNCHANGED <<config, state, IsRadioEnabled, ChildLock, pnp>>

-----------------------------------------------------------------------------
(* Radio requests, handled in D0 and side by side; their interface is      *)
(* enabled when the device has started.                                    *)

RadioOn(r) ==
    /\ pc[r] = "idle" /\ pc[Pnp] = "d0"
    /\ ~IsRadioEnabled
    /\ Goes(r, "power on")
    /\ UNCHANGED <<config, state, childList, pnp>>

RadioPowersOn(r) ==
    /\ pc[r] = "power on"
    /\ IF config.power = "platform"
       THEN Goes(r, "ready") /\ UNCHANGED state
       ELSE Goes(r, "idle") /\ IfxBtSetFailureReason(PowerFailure)
    /\ UNCHANGED <<config, childList, pnp>>

RadioOff(r) ==
    /\ pc[r] = "idle" /\ pc[Pnp] = "d0"
    /\ IsRadioEnabled
    /\ Goes(r, "remove")
    /\ UNCHANGED <<config, state, childList, pnp>>

\* And DevicePowerOff, that does nothing.
DisableRadio(r) ==
    /\ pc[r] = "disable radio"
    /\ IsRadioEnabled' = FALSE
    /\ Goes(r, "idle")
    /\ UNCHANGED <<config, state, ChildLock, children, pnp>>

-----------------------------------------------------------------------------
(* PdoResetHandler, in the stack of the child.                             *)

\* The stack of the child is there when the parent has started, until it stops.
ChildStarted ==
    children > 0 /\ initDone /\ callback = "D0Entry" /\ pc[Pnp] \notin {"stopped", "gone"}

DeviceDoPLDR ==
    /\ pc[Reset] = "idle"
    /\ ChildStarted
    /\ IfxBtInvalidateParentReadiness("Recovering")
    /\ Goes(Reset, "reset")
    /\ UNCHANGED <<config, childList, callback, initDone, IoTargetSerial, cause>>

\* No reset is implemented: it fails, whatever the configuration.
IfxBtDoControllerReset ==
    /\ pc[Reset] = "reset"
    /\ IfxBtSetFailureReason(PowerFailure)
    /\ Goes(Reset, "remove")
    /\ UNCHANGED <<config, childList, pnp>>

-----------------------------------------------------------------------------

Start ==
    \/ FdoFindConnectResources \/ FdoOpenDevice \/ HlpInitializeFdoExtension
    \/ DeviceEnable \/ IfxBtConfigureUart \/ IfxBtPowerOnController
    \/ IfxBtFirmwareEvaluateInitialization \/ IfxBtFirmwareValidateControllerReady
    \/ DeviceInitialize \/ LatchFailure
    \/ WdfIoTargetStart \/ RestartReadPump \/ SelfManagedIoInit

Child(t) ==
    \/ AskReady(t) \/ LockChildren(t) \/ PdoCreate(t) \/ PdoCreateFails(t)
    \/ EnableRadio(t) \/ RemoveChild(t)

Radio(r) == RadioPowersOn(r) \/ DisableRadio(r) \/ Child(r)

Gone == pc[Pnp] = "gone" /\ (\A t \in Threads \ {Pnp} : pc[t] = "idle") /\ UNCHANGED vars

Next ==
    \/ Start \/ Child(Pnp)
    \/ PrepareHardware \/ D0Entry \/ D0Exit \/ ReleaseHardware
    \/ \E r \in Radios : RadioOn(r) \/ RadioOff(r) \/ Radio(r)
    \/ DeviceDoPLDR \/ IfxBtDoControllerReset \/ Child(Reset)
    \/ Gone

\* A request that was dispatched runs on, and so do the holders of ChildLock;
\* the lock goes to who waits for it.
Fairness ==
    /\ \A r \in Radios : WF_vars(Radio(r)) /\ SF_vars(LockChildren(r))
    /\ WF_vars(Child(Pnp)) /\ WF_vars(Child(Reset))

SafeSpec == Init /\ [][Next]_vars

Spec == Init /\ [][Next]_vars /\ Fairness

-----------------------------------------------------------------------------
(* Properties.                                                             *)

Stages == {"added", "resources", "open", "extension", "enable", "uart", "power", "firmware",
           "controller", "assign", "latch", "target", "pump", "ioinit", "prepared", "d0", "low",
           "failed", "stopped", "gone"}
Creating == {"ready", "check", "lock", "pdo", "enable radio"}

States == {"Created", "ResourcesParsed", "UartOpened", "UartConfigured", "PlatformPowered",
           "BaudSynchronized", "Operational", "Stopping", "Recovering", "Failed"}

Reasons == {"None", "MissingUartResource", "UartOpenFailed", "UartConfigPlaceholder",
            "UartConfigFailed", "PowerResourcesPlaceholder", "PowerSequenceFailed",
            "FirmwareSequencePlaceholder", "VendorCommandFailed",
            "ControllerValidationPlaceholder", "ControllerValidationFailed", "SerialError",
            "ReadPumpFailed"}

\* The range of every variable.
TypeOK ==
    /\ config \in Configs
    /\ pc \in [Threads -> Stages \cup Creating
                          \cup {"idle", "reset", "remove", "power on", "disable radio"}]
    /\ pc[Pnp] \in Stages \cup Creating
    /\ pc[Reset] \in {"idle", "reset", "remove", "check", "lock", "pdo"}
    /\ \A r \in Radios : pc[r] \in {"idle", "power on", "remove", "disable radio"} \cup Creating
    /\ callback \in {"none", "PrepareHardware", "D0Entry"}
    /\ initDone \in BOOLEAN
    /\ TransportState \in States
    /\ LastFailureReason \in Reasons
    /\ DeviceInitialized \in BOOLEAN
    /\ IoTargetSerial \in {"none", "started", "stopped"}
    /\ IsRadioEnabled \in BOOLEAN
    /\ ChildLock \subseteq Threads
    /\ children \in Nat
    /\ cause \in Reasons

\* While the UART, power or firmware contract or the controller validation is a
\* placeholder, the transport is never operational, the device never initialized and no
\* child exposed, whatever radio requests and resets run beside a start (the stages
\* of DeviceInitialize, device.c).  OperationalNeedsEverything says of the platform
\* contract why it is not among these.
GatedByContracts ==
    ~Complete(config) => TransportState # "Operational" /\ ~DeviceInitialized /\ children = 0

\* Two radio requests, a start and a reset never leave two children with one
\* serial number (the comment on ChildLock in FdoCreateOneChildDevice).
OneChild == children <= 1

Settled == \A t \in Threads : pc[t] \notin Creating \cup {"remove", "disable radio"}

\* When no child is being added or removed, an exposed child has the radio on:
\* radio off, that ignores a radio already off, will remove it.
ChildHasRadio == Settled /\ children > 0 => IsRadioEnabled

\* A start that fails keeps the reason of the stage that failed ("Failure paths
\* preserve the root failure reason", docs/architecture/power-reset-wake-contract.md).
\* Once the device has been up a reset, or a request that fails to power the radio,
\* may have recorded its own.
RootReasonKept ==
    pc[Pnp] \in {"latch", "failed"} /\ cause # "None" =>
        LastFailureReason = cause \/ (initDone /\ LastFailureReason = PowerFailure)

\* DeviceInitialized, that lets readers and writers reach the target and lets
\* D0Entry skip the start, is never TRUE of a target that was stopped or deleted
\* (IsDeviceInitialized in FdoDevD0Entry and in io.c).
InitializedOnStartedTarget == DeviceInitialized => IoTargetSerial = "started"

\* Readiness is asked for twice before ChildLock is taken, and never under it:
\* only a reset, that runs or that failed, may put a new child on a parent that is
\* no longer ready (FdoCreateOneChildDevice, PdoResetHandler).
ChildBornReady ==
    [][children' > children =>
          \/ IfxBtIsParentTransportReady
          \/ pc[Reset] \in {"reset", "pdo"} \/ LastFailureReason # "None"]_vars

\* "It stops the queue and can be restarted later, and mark the device
\* uninitialize and will be initialized again when resumes to D0" (the comment of
\* FdoDevD0Exit): on a board whose contracts are complete, every stage of a start
\* can pass.
EveryStageCanPass ==
    Complete(config) /\ pc[Pnp] \in {"enable", "uart", "power", "firmware", "controller", "target"} =>
        ENABLED (Start /\ pc'[Pnp] \notin {"latch", "failed"})

\* Every radio request is completed: whoever holds ChildLock gives it back.
RadioRequestsComplete == \A r \in Radios : pc[r] # "idle" ~> pc[r] = "idle"
=============================================================================
