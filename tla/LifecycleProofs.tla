-------------------------- MODULE LifecycleProofs --------------------------
(***************************************************************************)
(* The life of the parent for any number of radio requests: one child at   *)
(* most, and none, nor readiness, while a contract is a placeholder.       *)
(***************************************************************************)
EXTENDS Lifecycle, TLAPS

\* The lock covers the time between the look at the list and the new child.
Locked ==
    /\ \A t \in Threads : pc[t] = "pdo" <=> t \in ChildLock
    /\ \A t, u \in ChildLock : t = u
    /\ ChildLock # {} => children = 0
    /\ children \in {0, 1}

\* What the stages a start has left behind say of the configuration.
Passed ==
    /\ pc[Pnp] \in {"power", "firmware", "controller"} => config.uart
    /\ pc[Pnp] \in {"firmware", "controller"} => config.power = "platform"
    /\ pc[Pnp] = "controller" => config.firmware
    /\ pc[Pnp] \in Creating \cup {"assign", "target", "pump", "ioinit", "prepared", "d0", "low"} =>
          Complete(config)
    /\ \A t \in Threads \ {Pnp} : pc[t] # "idle" => Complete(config)

\* A start that has not failed has no reason to keep.
Caused == pc[Pnp] \notin {"latch", "failed", "gone"} => cause = "None"

\* Requests and resets come once the device has been up.
Requested ==
    /\ \A t \in Threads \ {Pnp} : pc[t] # "idle" => initDone
    /\ pc[Pnp] = "d0" => initDone

\* The inductive invariant.
IInv ==
    TypeOK /\ Locked /\ Passed /\ GatedByContracts /\ Caused /\ Requested /\ RootReasonKept

-----------------------------------------------------------------------------
LEMMA InitIInv == Init => IInv
<1> SUFFICES ASSUME Init PROVE IInv
  OBVIOUS
<1>1. Pnp \in Threads /\ Reset \in Threads /\ Radios \subseteq Threads
  BY DEF Threads
<1>2. pc[Pnp] = "added" /\ \A t \in Threads \ {Pnp} : pc[t] = "idle"
  BY <1>1 DEF Init
<1>3. TypeOK
  BY <1>1, <1>2, LifecycleAssumption DEF Init, TypeOK, Stages, States, Reasons
<1>4. Locked
  BY <1>1, <1>2 DEF Init, Locked
<1>5. Passed /\ GatedByContracts /\ Caused /\ RootReasonKept
  BY <1>2 DEF Init, Passed, GatedByContracts, Caused, RootReasonKept, Creating
<1>6. Requested
  BY <1>2 DEF Requested
<1> QED
  BY <1>3, <1>4, <1>5, <1>6 DEF IInv

\* A thread that moves, and the others that do not.
LEMMA Moves ==
    ASSUME TypeOK, NEW t \in Threads, NEW place, Goes(t, place)
    PROVE  /\ pc'[t] = place
           /\ \A u \in Threads : u # t => pc'[u] = pc[u]
BY DEF TypeOK, Goes

\* What a step of the PnP thread through its stages has to respect.
LEMMA StageStep ==
    ASSUME IInv, UNCHANGED <<config, childList>>,
           NEW next \in Stages \cup {"ready"}, Goes(Pnp, next),
           pc[Pnp] \in Stages,
           TransportState' \in States, LastFailureReason' \in Reasons,
           DeviceInitialized' \in BOOLEAN, callback' \in {"none", "PrepareHardware", "D0Entry"},
           initDone' \in BOOLEAN, IoTargetSerial' \in {"none", "started", "stopped"},
           cause' \in Reasons, initDone \/ next = "d0" => initDone',
           next \in {"power", "firmware", "controller"} => config.uart,
           next \in {"firmware", "controller"} => config.power = "platform",
           next = "controller" => config.firmware,
           next \in {"assign", "ready", "target", "pump", "ioinit", "prepared", "d0", "low"} =>
              Complete(config),
           TransportState' = "Operational" \/ DeviceInitialized' => Complete(config),
           next \notin {"latch", "failed", "gone"} => cause' = "None",
           next \in {"latch", "failed"} /\ cause' # "None" =>
              LastFailureReason' = cause' \/ (initDone /\ LastFailureReason' = PowerFailure)
    PROVE  IInv'
<1> USE DEF childList
<1>1. Pnp \in Threads /\ Radios \subseteq Threads /\ Reset \in Threads
  BY DEF Threads
<1>2. /\ pc'[Pnp] = next /\ \A u \in Threads : u # Pnp => pc'[u] = pc[u]
  BY <1>1, Moves DEF IInv
<1>3. TypeOK'
  <2>1. pc' \in [Threads -> Stages \cup Creating
                          \cup {"idle", "reset", "remove", "power on", "disable radio"}]
    BY DEF IInv, TypeOK, Goes, Creating
  <2> QED
    BY <1>1, <1>2, <2>1, LifecycleAssumption DEF IInv, TypeOK, Creating
<1>4. Locked'
  BY <1>2 DEF IInv, Locked, Stages
<1>5. Passed'
  BY <1>2 DEF IInv, Passed, Creating, Stages
<1>6. GatedByContracts'
  BY DEF IInv, GatedByContracts
<1>7. Caused' /\ RootReasonKept'
  BY <1>2 DEF Caused, RootReasonKept, PowerFailure
<1>8. Requested'
  BY <1>2 DEF IInv, Requested
<1> QED
  BY <1>3, <1>4, <1>5, <1>6, <1>7, <1>8 DEF IInv

\* A stage that fails latches its reason.
LEMMA FailingStage ==
    ASSUME IInv, NEW stage \in Stages, NEW next \in {"latch", "failed"},
           NEW reason \in Reasons, StageFails(stage, next, reason)
    PROVE  IInv'
<1>1. /\ pc[Pnp] = stage /\ Goes(Pnp, next) /\ LastFailureReason' = reason
      /\ DeviceInitialized' = FALSE /\ TransportState' = "Failed" /\ cause' = reason
      /\ UNCHANGED <<config, callback, initDone, IoTargetSerial, childList>>
  BY DEF StageFails, IfxBtSetFailureReason
<1>2. next \in Stages \cup {"ready"} /\ "Failed" \in States
  BY DEF Stages, States
<1>3. TypeOK
  BY DEF IInv
<1> QED
  BY <1>1, <1>2, <1>3, StageStep DEF TypeOK

\* A stage that passes establishes what the next one relies on.
LEMMA PassingStage ==
    ASSUME IInv, NEW stage \in Stages, NEW next \in Stages, NEW reached \in States,
           Passes(stage, next, reached),
           stage \notin {"latch", "failed", "gone"}, next \notin {"latch", "failed"},
           next \in {"power", "firmware", "controller"} => config.uart,
           next \in {"firmware", "controller"} => config.power = "platform",
           next = "controller" => config.firmware,
           next \in {"assign", "target", "pump", "ioinit", "prepared", "d0", "low"} =>
              Complete(config),
           next = "d0" => initDone,
           reached = "Operational" => Complete(config) \/ TransportState = "Operational"
    PROVE  IInv'
<1>1. /\ pc[Pnp] = stage /\ Goes(Pnp, next) /\ TransportState' = reached
      /\ UNCHANGED <<config, childList, LastFailureReason, DeviceInitialized, callback, initDone,
                     IoTargetSerial, cause>>
  BY DEF Passes, IfxBtSetTransportState, pnp
<1>2. TypeOK /\ GatedByContracts /\ Caused
  BY DEF IInv
<1>3. next # "ready" /\ cause' = "None"
  BY <1>1, <1>2 DEF Caused, Stages
<1>4. TransportState' = "Operational" \/ DeviceInitialized' => Complete(config)
  BY <1>1, <1>2 DEF GatedByContracts
<1> QED
  BY <1>1, <1>2, <1>3, <1>4, StageStep DEF TypeOK

\* The stages of PrepareHardware and D0Entry.
LEMMA StartStep == IInv /\ Start => IInv'
<1> SUFFICES ASSUME IInv, Start PROVE IInv'
  OBVIOUS
<1>0. /\ TransportState \in States /\ LastFailureReason \in Reasons
      /\ DeviceInitialized \in BOOLEAN /\ callback \in {"none", "PrepareHardware", "D0Entry"}
      /\ initDone \in BOOLEAN /\ IoTargetSerial \in {"none", "started", "stopped"}
      /\ cause \in Reasons
  BY DEF IInv, TypeOK
<1>1. Passed /\ GatedByContracts /\ Caused
  BY DEF IInv
<1> USE DEF Stages, States, Reasons
<1>2. CASE FdoFindConnectResources
  <2>1. CASE Passes("resources", "open", "ResourcesParsed")
    BY <2>1, PassingStage
  <2>2. CASE StageFails("resources", "failed", "MissingUartResource")
    BY <2>2, FailingStage
  <2> QED
    BY <1>2, <2>1, <2>2 DEF FdoFindConnectResources
<1>3. CASE FdoOpenDevice
  <2>1. CASE StageFails("open", "failed", "UartOpenFailed")
    BY <2>1, FailingStage
  <2>2. CASE ~StageFails("open", "failed", "UartOpenFailed")
    <3>1. /\ pc[Pnp] = "open" /\ Goes(Pnp, "extension") /\ IoTargetSerial' = "started"
          /\ TransportState' = "UartOpened"
          /\ UNCHANGED <<config, callback, initDone, cause, childList, LastFailureReason,
                         DeviceInitialized>>
      BY <1>3, <2>2 DEF FdoOpenDevice, IfxBtSetTransportState
    <3>2. cause' = "None" /\ (DeviceInitialized' => Complete(config))
      BY <1>1, <3>1 DEF Caused, GatedByContracts
    <3> QED
      BY <1>0, <1>1, <3>1, <3>2, StageStep
  <2> QED
    BY <2>1, <2>2
<1>4. CASE HlpInitializeFdoExtension
  <2>1. CASE Passes("extension", "enable", TransportState)
    BY <1>0, <2>1, PassingStage
  <2>2. CASE StageFails("extension", "failed", "UartConfigFailed")
    BY <2>2, FailingStage
  <2> QED
    BY <1>4, <2>1, <2>2 DEF HlpInitializeFdoExtension
<1>5. CASE DeviceEnable
  <2>1. CASE Passes("enable", "uart", TransportState)
    BY <1>0, <2>1, PassingStage
  <2>2. CASE StageFails("enable", "failed", PowerFailure)
    <3>1. PowerFailure \in Reasons
      BY DEF PowerFailure
    <3> QED
      BY <2>2, <3>1, FailingStage
  <2> QED
    BY <1>5, <2>1, <2>2 DEF DeviceEnable
<1>6. CASE IfxBtConfigureUart
  <2>1. CASE config.uart /\ Passes("uart", "power", "UartConfigured")
    BY <2>1, PassingStage
  <2>2. CASE StageFails("uart", "latch",
                        IF config.uart THEN "UartConfigFailed" ELSE "UartConfigPlaceholder")
    BY <2>2, FailingStage
  <2> QED
    BY <1>6, <2>1, <2>2 DEF IfxBtConfigureUart
<1>7. CASE IfxBtPowerOnController
  <2>1. CASE config.power = "platform" /\ Passes("power", "firmware", "PlatformPowered")
    <3>1. config.uart
      BY <1>1, <2>1 DEF Passes, Passed
    <3> QED
      BY <2>1, <3>1, PassingStage
  <2>2. CASE StageFails("power", "latch", PowerFailure)
    <3>1. PowerFailure \in Reasons
      BY DEF PowerFailure
    <3> QED
      BY <2>2, <3>1, FailingStage
  <2> QED
    BY <1>7, <2>1, <2>2 DEF IfxBtPowerOnController
<1>8. CASE IfxBtFirmwareEvaluateInitialization
  <2>1. CASE config.firmware /\ Passes("firmware", "controller", "BaudSynchronized")
    <3>1. config.uart /\ config.power = "platform"
      BY <1>1, <2>1 DEF Passes, Passed
    <3> QED
      BY <2>1, <3>1, PassingStage
  <2>2. CASE StageFails("firmware", "latch", IF config.firmware THEN "VendorCommandFailed"
                                             ELSE "FirmwareSequencePlaceholder")
    BY <2>2, FailingStage
  <2> QED
    BY <1>8, <2>1, <2>2 DEF IfxBtFirmwareEvaluateInitialization
<1>9. CASE IfxBtFirmwareValidateControllerReady
  <2>1. CASE config.controller /\ Passes("controller", "assign", "Operational")
    <3>1. Complete(config)
      BY <1>1, <2>1 DEF Passes, Passed, Complete
    <3> QED
      BY <2>1, <3>1, PassingStage
  <2>2. CASE StageFails("controller", "latch",
                        IF config.controller THEN "ControllerValidationFailed"
                                             ELSE "ControllerValidationPlaceholder")
    BY <2>2, FailingStage
  <2> QED
    BY <1>9, <2>1, <2>2 DEF IfxBtFirmwareValidateControllerReady
<1>10. CASE DeviceInitialize
  <2> DEFINE next == IF callback = "PrepareHardware" THEN "ready" ELSE "target"
  <2>1. /\ pc[Pnp] = "assign" /\ Goes(Pnp, next) /\ DeviceInitialized' = TRUE
        /\ UNCHANGED <<config, TransportState, LastFailureReason, childList, callback, initDone,
                       IoTargetSerial, cause>>
    BY <1>10 DEF DeviceInitialize, pnp
  <2>2. Complete(config) /\ cause' = "None"
    BY <1>1, <2>1 DEF Passed, Caused
  <2>3. next \in {"ready", "target"}
    OBVIOUS
  <2> HIDE DEF next
  <2> QED
    BY <1>0, <1>1, <2>1, <2>2, <2>3, StageStep
<1>11. CASE LatchFailure
  <2>1. /\ pc[Pnp] = "latch" /\ Goes(Pnp, "failed") /\ DeviceInitialized' = FALSE
        /\ TransportState' = "Failed"
        /\ LastFailureReason' = IF LastFailureReason = "None" THEN "UartConfigFailed"
                                                              ELSE LastFailureReason
        /\ UNCHANGED <<config, childList, callback, initDone, IoTargetSerial, cause>>
    BY <1>11 DEF LatchFailure, IfxBtSetFailureReason, pnp
  <2>2. cause # "None" =>
           LastFailureReason = cause \/ (initDone /\ LastFailureReason = PowerFailure)
    BY <2>1 DEF IInv, RootReasonKept
  <2>3. cause' # "None" =>
           LastFailureReason' = cause' \/ (initDone /\ LastFailureReason' = PowerFailure)
    BY <2>1, <2>2 DEF PowerFailure
  <2>4. /\ LastFailureReason' \in Reasons /\ TransportState' # "Operational"
        /\ "failed" \in Stages /\ "latch" \in Stages
    BY <1>0, <2>1
  <2> HIDE DEF Stages, States, Reasons
  <2>5. "Failed" \in States /\ cause' \in Reasons /\ initDone' = initDone
    BY <1>0, <2>1 DEF States
  <2> QED
    <3>1. UNCHANGED <<config, childList>> /\ pc[Pnp] \in Stages /\ Goes(Pnp, "failed")
      BY <2>1, <2>4
    <3>2. /\ TransportState' \in States /\ LastFailureReason' \in Reasons
          /\ DeviceInitialized' \in BOOLEAN
      BY <2>1, <2>4, <2>5
    <3>3. /\ callback' \in {"none", "PrepareHardware", "D0Entry"} /\ initDone' \in BOOLEAN
          /\ IoTargetSerial' \in {"none", "started", "stopped"}
      BY <1>0, <2>1
    <3>4. ~(TransportState' = "Operational" \/ DeviceInitialized')
      BY <2>1, <2>4
    <3>5. initDone => initDone'
      BY <2>5
    <3>6. "failed" \in Stages \cup {"ready"}
      BY <2>4
    <3> QED
      BY <2>3, <2>5, <3>1, <3>2, <3>3, <3>4, <3>5, <3>6, StageStep, SMTT(60)
<1>12. CASE WdfIoTargetStart
  <2>1. CASE StageFails("target", "failed", "SerialError")
    BY <2>1, FailingStage
  <2>2. CASE ~StageFails("target", "failed", "SerialError")
    <3>1. /\ pc[Pnp] = "target" /\ Goes(Pnp, "pump") /\ IoTargetSerial' = "started"
          /\ UNCHANGED <<config, callback, initDone, cause, childList, LastFailureReason,
                         DeviceInitialized, TransportState>>
      BY <1>12, <2>2 DEF WdfIoTargetStart, state
    <3>2. Complete(config) /\ cause' = "None"
      BY <1>1, <3>1 DEF Passed, Caused
    <3> QED
      BY <1>0, <1>1, <3>1, <3>2, StageStep
  <2> QED
    BY <2>1, <2>2
<1>13. CASE RestartReadPump
  <2>1. CASE Passes("pump", IF initDone THEN "d0" ELSE "ioinit", TransportState)
    <3>1. Complete(config)
      BY <1>1, <2>1 DEF Passes, Passed
    <3> QED
      BY <1>0, <1>1, <2>1, <3>1, PassingStage
  <2>2. CASE StageFails("pump", "failed", "ReadPumpFailed")
    BY <2>2, FailingStage
  <2> QED
    BY <1>13, <2>1, <2>2 DEF RestartReadPump
<1>14. CASE SelfManagedIoInit
  <2>1. CASE StageFails("ioinit", "failed", "ReadPumpFailed")
    BY <2>1, FailingStage
  <2>2. CASE ~StageFails("ioinit", "failed", "ReadPumpFailed")
    <3>1. /\ pc[Pnp] = "ioinit" /\ Goes(Pnp, "d0") /\ initDone' = TRUE
          /\ UNCHANGED <<config, callback, IoTargetSerial, cause, childList, LastFailureReason,
                         DeviceInitialized, TransportState>>
      BY <1>14, <2>2 DEF SelfManagedIoInit, state
    <3>2. Complete(config) /\ cause' = "None"
      BY <1>1, <3>1 DEF Passed, Caused
    <3> QED
      BY <1>0, <1>1, <3>1, <3>2, StageStep
  <2> QED
    BY <2>1, <2>2
<1> QED
  BY <1>2, <1>3, <1>4, <1>5, <1>6, <1>7, <1>8, <1>9, <1>10, <1>11, <1>12, <1>13, <1>14 DEF Start

\* The callbacks: where a start begins and a stop ends.
LEMMA CallbackStep ==
    IInv /\ (PrepareHardware \/ D0Entry \/ D0Exit \/ ReleaseHardware) => IInv'
<1> SUFFICES ASSUME IInv, PrepareHardware \/ D0Entry \/ D0Exit \/ ReleaseHardware PROVE IInv'
  OBVIOUS
<1>0. /\ TransportState \in States /\ LastFailureReason \in Reasons
      /\ DeviceInitialized \in BOOLEAN /\ callback \in {"none", "PrepareHardware", "D0Entry"}
      /\ initDone \in BOOLEAN /\ IoTargetSerial \in {"none", "started", "stopped"}
      /\ cause \in Reasons
  BY DEF IInv, TypeOK
<1>1. Passed /\ GatedByContracts /\ Caused
  BY DEF IInv
<1> USE DEF Stages, States, Reasons
<1>2. CASE PrepareHardware
  <2>1. /\ pc[Pnp] \in Stages /\ Goes(Pnp, "resources") /\ callback' = "PrepareHardware"
        /\ LastFailureReason' = "None" /\ TransportState' = "Created" /\ cause' = "None"
        /\ UNCHANGED <<config, DeviceInitialized, initDone, IoTargetSerial, childList>>
    BY <1>2 DEF PrepareHardware
  <2> QED
    BY <1>0, <1>1, <2>1, StageStep DEF GatedByContracts
<1>3. CASE D0Entry
  <2> DEFINE next == IF ~DeviceInitialized THEN "enable" ELSE IF initDone THEN "d0" ELSE "ioinit"
  <2>1. /\ pc[Pnp] \in {"prepared", "low"} /\ Goes(Pnp, next) /\ callback' = "D0Entry"
        /\ UNCHANGED <<config, state, childList, initDone, IoTargetSerial, cause>>
    BY <1>3 DEF D0Entry
  <2>2. Complete(config) /\ cause' = "None"
    BY <1>1, <2>1 DEF Passed, Caused
  <2>3. next \in {"enable", "d0", "ioinit"} /\ (initDone \/ next = "d0" => initDone')
    BY <2>1
  <2> HIDE DEF next
  <2> QED
    BY <1>0, <2>1, <2>2, <2>3, StageStep DEF state
<1>4. CASE D0Exit
  <2>1. /\ pc[Pnp] = "d0" /\ Goes(Pnp, "low") /\ IoTargetSerial' = "stopped"
        /\ DeviceInitialized' = FALSE /\ TransportState' = "Stopping"
        /\ UNCHANGED <<config, LastFailureReason, childList, callback, initDone, cause>>
    BY <1>4 DEF D0Exit, IfxBtInvalidateParentReadiness
  <2>2. Complete(config) /\ cause' = "None"
    BY <1>1, <2>1 DEF Passed, Caused
  <2> QED
    BY <1>0, <2>1, <2>2, StageStep
<1>5. CASE ReleaseHardware
  <2> DEFINE next == IF pc[Pnp] = "low" THEN "stopped" ELSE "gone"
  <2>1. /\ pc[Pnp] \in {"low", "failed"} /\ Goes(Pnp, next) /\ IoTargetSerial' = "none"
        /\ DeviceInitialized' = FALSE /\ TransportState' = "Created"
        /\ UNCHANGED <<config, LastFailureReason, childList, callback, initDone, cause>>
    BY <1>5 DEF ReleaseHardware, IfxBtInvalidateParentReadiness
  <2>2. next \in {"stopped", "gone"} /\ (next = "stopped" => cause' = "None")
    BY <1>1, <2>1 DEF Caused
  <2> HIDE DEF next
  <2>3. /\ next \in Stages /\ pc[Pnp] \in Stages
        /\ next \notin {"latch", "failed", "power", "firmware", "controller", "assign", "ready",
                       "target", "pump", "ioinit", "prepared", "d0", "low"}
    BY <2>1, <2>2
  <2>4. /\ TransportState' \in States /\ IoTargetSerial' \in {"none", "started", "stopped"}
        /\ DeviceInitialized' \in BOOLEAN
        /\ ~(TransportState' = "Operational" \/ DeviceInitialized')
    BY <2>1
  <2> HIDE DEF Stages, States, Reasons
  <2> QED
    BY <1>0, <2>1, <2>2, <2>3, <2>4, StageStep
<1> QED
  BY <1>2, <1>3, <1>4, <1>5

LEMMA OneIsNat == \A n \in {0, 1} : n \in Nat
OBVIOUS

\* What a step of any thread outside the stages has to respect.
LEMMA ThreadStep ==
    ASSUME IInv, NEW t \in Threads, UNCHANGED <<config, pnp>>,
           NEW next \in Creating \cup {"idle", "failed", "prepared", "reset", "remove", "power on",
                                       "disable radio"},
           Goes(t, next),
           t = Pnp => next \in Creating \cup {"failed", "prepared"} /\ pc[t] \in Creating,
           t = Reset => next \in {"idle", "reset", "remove", "check", "lock", "pdo"},
           t \in Radios => next \notin {"failed", "prepared", "reset"},
           t # Pnp /\ next # "idle" => initDone /\ Complete(config),
           TransportState' \in States, LastFailureReason' \in Reasons,
           DeviceInitialized' \in BOOLEAN, IsRadioEnabled' \in BOOLEAN,
           TransportState' = "Operational" => TransportState = "Operational",
           DeviceInitialized' => DeviceInitialized,
           LastFailureReason' = LastFailureReason \/ (initDone /\ LastFailureReason' = PowerFailure),
           ChildLock' \subseteq Threads,
           Locked', children' = 0 \/ children' = children \/ Complete(config)
    PROVE  IInv'
<1> USE DEF pnp
<1>0. TypeOK /\ Passed /\ GatedByContracts /\ Caused /\ RootReasonKept /\ Requested
  BY DEF IInv
<1>1. Pnp \in Threads /\ Radios \subseteq Threads /\ Reset \in Threads
  BY DEF Threads
<1>2. /\ pc'[t] = next /\ \A u \in Threads : u # t => pc'[u] = pc[u]
  BY <1>0, Moves
<1>3. TypeOK'
  <2>1. pc' \in [Threads -> Stages \cup Creating
                          \cup {"idle", "reset", "remove", "power on", "disable radio"}]
    BY <1>0 DEF TypeOK, Goes, Stages
  <2>2. pc'[Pnp] \in Stages \cup Creating
    BY <1>0, <1>1, <1>2 DEF TypeOK, Stages
  <2>3. pc'[Reset] \in {"idle", "reset", "remove", "check", "lock", "pdo"}
    BY <1>0, <1>1, <1>2 DEF TypeOK
  <2>4. ASSUME NEW r \in Radios
        PROVE  pc'[r] \in {"idle", "power on", "remove", "disable radio"} \cup Creating
    BY <1>0, <1>1, <1>2, LifecycleAssumption DEF TypeOK
  <2>5. children' \in Nat
    BY OneIsNat, Zenon DEF Locked
  <2> QED
    BY <1>0, <2>1, <2>2, <2>3, <2>4, <2>5 DEF TypeOK
<1>4. Passed'
  BY <1>0, <1>1, <1>2 DEF Passed, Creating
<1>5. GatedByContracts'
  BY <1>0 DEF GatedByContracts
<1>6. Caused'
  BY <1>0, <1>1, <1>2 DEF Caused, Creating
<1>7. RootReasonKept'
  <2>1. pc'[Pnp] \in {"latch", "failed"} /\ cause # "None" => pc[Pnp] \in {"latch", "failed"}
    BY <1>0, <1>1, <1>2 DEF Caused, Creating
  <2> QED
    BY <1>0, <2>1 DEF RootReasonKept, PowerFailure
<1>8. Requested'
  <2>1. pc'[Pnp] = "d0" => pc[Pnp] = "d0"
    BY <1>1, <1>2 DEF Creating
  <2>2. ASSUME NEW u \in Threads \ {Pnp}, pc'[u] # "idle" PROVE initDone
    BY <1>0, <1>2, <2>2 DEF Requested
  <2> QED
    BY <1>0, <2>1, <2>2 DEF Requested
<1> QED
  BY <1>3, <1>4, <1>5, <1>6, <1>7, <1>8 DEF IInv

LEMMA OneMore == \A m, n : n = 0 /\ m = n + 1 => m = 1
OBVIOUS

LEMMA OneLess == \A m, n : (n = 0 \/ n = 1) /\ n > 0 /\ m = n - 1 => m = 0
OBVIOUS

\* The steps that add and remove the child, by whatever thread.
LEMMA ChildStep ==
    ASSUME IInv, NEW t \in Threads, Child(t)
    PROVE  IInv'
<1>0. TypeOK /\ Locked /\ Passed /\ Requested
  BY DEF IInv
<1>1. Pnp \in Threads /\ Radios \subseteq Threads /\ Reset \in Threads
  BY DEF Threads
<1>2. /\ TransportState \in States /\ LastFailureReason \in Reasons
      /\ DeviceInitialized \in BOOLEAN /\ IsRadioEnabled \in BOOLEAN /\ ChildLock \subseteq Threads
  BY <1>0 DEF TypeOK
<1>3. pc[t] # "idle" /\ (t = Pnp => pc[t] \in Creating) =>
          Complete(config) /\ (t = Pnp \/ initDone)
  BY <1>0 DEF Passed, Requested
<1>4. t = Pnp => pc[t] \in Stages \cup Creating
  BY <1>0 DEF TypeOK
<1>5. t = Reset => pc[t] \in {"idle", "reset", "remove", "check", "lock", "pdo"}
  BY <1>0 DEF TypeOK
<1>6. t \in Radios => pc[t] \in {"idle", "power on", "remove", "disable radio"} \cup Creating
  BY <1>0 DEF TypeOK
<1>7. t = Pnp \/ t = Reset \/ t \in Radios
  BY DEF Threads
<1> USE LifecycleAssumption DEF state, childList, pnp
<1>8. CASE AskReady(t)
  <2>1. PICK next \in {"check", "lock", "failed", "idle"} :
           /\ Goes(t, next) /\ (next = "failed" <=> t = Pnp /\ next \notin {"check", "lock"})
           /\ (t = Reset => next # "failed") /\ (t = Pnp => next # "idle")
    BY <1>8 DEF AskReady, CreateFails
  <2>2. pc[t] \in {"ready", "check"} /\ UNCHANGED <<config, state, childList, pnp>>
    BY <1>8 DEF AskReady
  <2>3. pc'[t] = next /\ \A u \in Threads : u # t => pc'[u] = pc[u]
    BY <1>0, <2>1, Moves
  <2>4. Locked'
    BY <1>0, <2>1, <2>2, <2>3 DEF Locked
  <2>5. Complete(config) /\ (t = Pnp \/ initDone)
    BY <1>3, <2>2 DEF Creating
  <2> QED
    BY <1>2, <2>1, <2>2, <2>4, <2>5, ThreadStep DEF Creating
<1>9. CASE LockChildren(t)
  <2>1. /\ pc[t] = "lock" /\ ChildLock = {}
        /\ UNCHANGED <<config, state, IsRadioEnabled, children, pnp>>
    BY <1>9 DEF LockChildren
  <2>2. Complete(config) /\ (t = Pnp \/ initDone)
    BY <1>3, <2>1 DEF Creating
  <2>3. CASE children = 0
    <3>1. Goes(t, "pdo") /\ ChildLock' = {t}
      BY <1>9, <2>3 DEF LockChildren
    <3>2. pc'[t] = "pdo" /\ \A u \in Threads : u # t => pc'[u] = pc[u]
      BY <1>0, <3>1, Moves
    <3>3. Locked'
      BY <1>0, <2>1, <2>3, <3>1, <3>2 DEF Locked
    <3> QED
      BY <1>2, <2>1, <2>2, <3>1, <3>3, ThreadStep DEF Creating
  <2>4. CASE children # 0
    <3>1. PICK next \in {"failed", "idle"} : Goes(t, next) /\ (next = "failed" <=> t = Pnp)
      BY <1>9, <2>4 DEF LockChildren, CreateFails
    <3>2. pc'[t] = next /\ \A u \in Threads : u # t => pc'[u] = pc[u]
      BY <1>0, <3>1, Moves
    <3>3. ChildLock' = ChildLock
      BY <1>9, <2>4 DEF LockChildren
    <3>4. Locked'
      BY <1>0, <2>1, <3>1, <3>2, <3>3 DEF Locked
    <3> QED
      BY <1>2, <2>1, <2>2, <3>1, <3>3, <3>4, ThreadStep DEF Creating
  <2> QED
    BY <2>3, <2>4
<1>10. CASE PdoCreate(t)
  <2>1. PICK next \in {"idle", "enable radio"} : Goes(t, next) /\ (next = "idle" <=> t = Reset)
    BY <1>10 DEF PdoCreate
  <2>2. /\ pc[t] = "pdo" /\ children' = children + 1 /\ ChildLock' = ChildLock \ {t}
        /\ UNCHANGED <<config, state, IsRadioEnabled, pnp>>
    BY <1>10 DEF PdoCreate
  <2>3. pc'[t] = next /\ \A u \in Threads : u # t => pc'[u] = pc[u]
    BY <1>0, <2>1, Moves
  <2>4. t \in ChildLock /\ children = 0
    BY <1>0, <2>2 DEF Locked
  <2>5. ChildLock' = {} /\ children' = 1
    <3>1. \A u \in ChildLock : u = t
      BY <1>0, <2>4 DEF Locked
    <3>2. ChildLock' = {}
      BY <2>2, <3>1
    <3>3. children' = 1
      BY <2>2, <2>4, OneMore, Zenon
    <3> QED
      BY <3>2, <3>3
  <2>6. Locked'
    BY <1>0, <2>1, <2>2, <2>3, <2>4, <2>5 DEF Locked
  <2>7. Complete(config) /\ (t = Pnp \/ initDone)
    BY <1>3, <2>2 DEF Creating
  <2> QED
    BY <1>2, <2>1, <2>2, <2>5, <2>6, <2>7, ThreadStep DEF Creating
<1>11. CASE PdoCreateFails(t)
  <2>1. PICK next \in {"failed", "idle"} : Goes(t, next) /\ (next = "failed" <=> t = Pnp)
    BY <1>11 DEF PdoCreateFails, CreateFails
  <2>2. /\ pc[t] = "pdo" /\ ChildLock' = ChildLock \ {t}
        /\ UNCHANGED <<config, state, IsRadioEnabled, children, pnp>>
    BY <1>11 DEF PdoCreateFails
  <2>3. pc'[t] = next /\ \A u \in Threads : u # t => pc'[u] = pc[u]
    BY <1>0, <2>1, Moves
  <2>4. ChildLock' = {}
    BY <1>0, <2>2 DEF Locked
  <2>5. Locked'
    BY <1>0, <2>1, <2>2, <2>3, <2>4 DEF Locked
  <2>6. Complete(config) /\ (t = Pnp \/ initDone)
    BY <1>3, <2>2 DEF Creating
  <2> QED
    BY <1>2, <2>1, <2>2, <2>4, <2>5, <2>6, ThreadStep DEF Creating
<1>12. CASE EnableRadio(t)
  <2>1. PICK next \in {"prepared", "idle"} : Goes(t, next) /\ (next = "prepared" <=> t = Pnp)
    BY <1>12 DEF EnableRadio
  <2>2. /\ pc[t] = "enable radio" /\ IsRadioEnabled' = TRUE
        /\ UNCHANGED <<config, state, ChildLock, children, pnp>>
    BY <1>12 DEF EnableRadio
  <2>3. pc'[t] = next /\ \A u \in Threads : u # t => pc'[u] = pc[u]
    BY <1>0, <2>1, Moves
  <2>4. Locked'
    BY <1>0, <2>1, <2>2, <2>3 DEF Locked
  <2>5. Complete(config) /\ (t = Pnp \/ initDone)
    BY <1>3, <2>2 DEF Creating
  <2> QED
    BY <1>2, <2>1, <2>2, <2>4, <2>5, ThreadStep DEF Creating
<1>13. CASE RemoveChild(t)
  <2>1. PICK next \in {"check", "disable radio", "idle"} :
           Goes(t, next) /\ (next = "check" => t = Reset) /\ (next = "disable radio" => t # Reset)
    BY <1>13 DEF RemoveChild
  <2>2. /\ pc[t] = "remove" /\ children' \in {0, children}
        /\ UNCHANGED <<config, state, IsRadioEnabled, ChildLock, pnp>>
    <3>1. children = 0 \/ children = 1
      BY <1>0 DEF Locked
    <3>2. children' = children \/ (children > 0 /\ children' = children - 1)
      BY <1>13 DEF RemoveChild
    <3>3. children' \in {0, children}
      BY <3>1, <3>2, OneLess, Zenon
    <3> QED
      BY <1>13, <3>3 DEF RemoveChild
  <2>3. pc'[t] = next /\ \A u \in Threads : u # t => pc'[u] = pc[u]
    BY <1>0, <2>1, Moves
  <2>4. Locked'
    BY <1>0, <2>1, <2>2, <2>3 DEF Locked
  <2>5. t # Pnp /\ Complete(config) /\ initDone
    BY <1>3, <1>4, <2>2 DEF Stages, Creating
  <2> QED
    BY <1>2, <2>1, <2>2, <2>4, <2>5, ThreadStep DEF Creating
<1> QED
  BY <1>8, <1>9, <1>10, <1>11, <1>12, <1>13 DEF Child

\* Radio requests and resets, outside the steps they share.
LEMMA RequestStep ==
    ASSUME IInv,
           \/ \E r \in Radios :
                 RadioOn(r) \/ RadioOff(r) \/ RadioPowersOn(r) \/ DisableRadio(r)
           \/ DeviceDoPLDR \/ IfxBtDoControllerReset
    PROVE  IInv'
<1>0. TypeOK /\ Locked /\ Passed /\ GatedByContracts /\ Requested
  BY DEF IInv
<1>1. Pnp \in Threads /\ Radios \subseteq Threads /\ Reset \in Threads
  BY DEF Threads
<1>2. /\ TransportState \in States /\ LastFailureReason \in Reasons
      /\ DeviceInitialized \in BOOLEAN /\ IsRadioEnabled \in BOOLEAN /\ ChildLock \subseteq Threads
  BY <1>0 DEF TypeOK
<1>3. PowerFailure \in Reasons /\ {"Failed", "Recovering"} \subseteq States
  BY DEF PowerFailure, Reasons, States
<1> USE LifecycleAssumption DEF childList, pnp
<1>4. ASSUME NEW r \in Radios, RadioOn(r) \/ RadioOff(r) PROVE IInv'
  <2>1. PICK next \in {"power on", "remove"} : Goes(r, next)
    BY <1>4 DEF RadioOn, RadioOff
  <2>2. pc[r] = "idle" /\ pc[Pnp] = "d0" /\ UNCHANGED <<config, state, childList, pnp>>
    BY <1>4 DEF RadioOn, RadioOff
  <2>3. pc'[r] = next /\ \A u \in Threads : u # r => pc'[u] = pc[u]
    BY <1>0, <1>1, <2>1, Moves
  <2>4. Locked'
    BY <1>0, <1>1, <2>1, <2>2, <2>3 DEF Locked
  <2>5. Complete(config) /\ initDone
    BY <1>0, <2>2 DEF Passed, Requested
  <2> QED
    BY <1>1, <1>2, <2>1, <2>2, <2>4, <2>5, ThreadStep DEF state
<1>5. ASSUME NEW r \in Radios, RadioPowersOn(r) PROVE IInv'
  <2>1. PICK next \in {"ready", "idle"} : Goes(r, next)
    BY <1>5 DEF RadioPowersOn
  <2>2. /\ pc[r] = "power on" /\ UNCHANGED <<config, childList, pnp>>
        /\ \/ UNCHANGED state
           \/ LastFailureReason' = PowerFailure /\ DeviceInitialized' = FALSE
              /\ TransportState' = "Failed"
    BY <1>5 DEF RadioPowersOn, IfxBtSetFailureReason
  <2>3. pc'[r] = next /\ \A u \in Threads : u # r => pc'[u] = pc[u]
    BY <1>0, <1>1, <2>1, Moves
  <2>4. Locked'
    BY <1>0, <1>1, <2>1, <2>2, <2>3 DEF Locked
  <2>5. Complete(config) /\ initDone
    BY <1>0, <1>1, <2>2 DEF Passed, Requested
  <2>6. CASE UNCHANGED state
    BY <1>1, <1>2, <2>1, <2>2, <2>4, <2>5, <2>6, ThreadStep DEF state, Creating
  <2>7. CASE ~UNCHANGED state
    <3>1. /\ LastFailureReason' = PowerFailure /\ DeviceInitialized' = FALSE
          /\ TransportState' = "Failed"
      BY <2>2, <2>7
    <3> QED
      BY <1>1, <1>2, <1>3, <2>1, <2>2, <2>4, <2>5, <3>1, ThreadStep DEF Creating
  <2> QED
    BY <2>6, <2>7
<1>6. ASSUME NEW r \in Radios, DisableRadio(r) PROVE IInv'
  <2>1. /\ pc[r] = "disable radio" /\ IsRadioEnabled' = FALSE /\ Goes(r, "idle")
        /\ UNCHANGED <<config, state, ChildLock, children, pnp>>
    BY <1>6 DEF DisableRadio
  <2>2. pc'[r] = "idle" /\ \A u \in Threads : u # r => pc'[u] = pc[u]
    BY <1>0, <1>1, <2>1, Moves
  <2>3. Locked'
    BY <1>0, <1>1, <2>1, <2>2 DEF Locked
  <2> QED
    BY <1>1, <1>2, <2>1, <2>3, ThreadStep DEF state
<1>7. CASE DeviceDoPLDR
  <2>1. /\ pc[Reset] = "idle" /\ Goes(Reset, "reset") /\ children > 0 /\ initDone
        /\ DeviceInitialized' = FALSE /\ TransportState' = "Recovering"
        /\ UNCHANGED <<config, childList, LastFailureReason, pnp>>
    BY <1>7 DEF DeviceDoPLDR, ChildStarted, IfxBtInvalidateParentReadiness
  <2>2. pc'[Reset] = "reset" /\ \A u \in Threads : u # Reset => pc'[u] = pc[u]
    BY <1>0, <1>1, <2>1, Moves
  <2>3. Locked'
    BY <1>0, <1>1, <2>1, <2>2 DEF Locked
  <2>4. Complete(config) /\ initDone
    BY <1>0, <2>1 DEF GatedByContracts, Requested
  <2> QED
    BY <1>1, <1>2, <1>3, <2>1, <2>3, <2>4, ThreadStep
<1>8. CASE IfxBtDoControllerReset
  <2>1. /\ pc[Reset] = "reset" /\ Goes(Reset, "remove") /\ LastFailureReason' = PowerFailure
        /\ DeviceInitialized' = FALSE /\ TransportState' = "Failed"
        /\ UNCHANGED <<config, childList, pnp>>
    BY <1>8 DEF IfxBtDoControllerReset, IfxBtSetFailureReason
  <2>2. pc'[Reset] = "remove" /\ \A u \in Threads : u # Reset => pc'[u] = pc[u]
    BY <1>0, <1>1, <2>1, Moves
  <2>3. Locked'
    BY <1>0, <1>1, <2>1, <2>2 DEF Locked
  <2>4. Complete(config) /\ initDone
    BY <1>0, <1>1, <2>1 DEF Passed, Requested
  <2> QED
    BY <1>1, <1>2, <1>3, <2>1, <2>3, <2>4, ThreadStep
<1> QED
  BY <1>4, <1>5, <1>6, <1>7, <1>8

\* A step that changes nothing.
LEMMA StutterStep == IInv /\ UNCHANGED vars => IInv'
<1> SUFFICES ASSUME IInv, UNCHANGED vars PROVE IInv'
  OBVIOUS
<1>1. UNCHANGED <<config, pc, callback, initDone, TransportState, LastFailureReason,
                  DeviceInitialized, IoTargetSerial, IsRadioEnabled, ChildLock, children, cause>>
  BY DEF vars, state, childList, pnp
<1>2. TypeOK'
  BY <1>1 DEF IInv, TypeOK
<1>3. Locked' /\ Passed' /\ Caused' /\ Requested'
  BY <1>1 DEF IInv, Locked, Passed, Caused, Requested
<1>4. GatedByContracts' /\ RootReasonKept'
  BY <1>1 DEF IInv, GatedByContracts, RootReasonKept, PowerFailure
<1> QED
  BY <1>2, <1>3, <1>4 DEF IInv

LEMMA NextIInv == IInv /\ [Next]_vars => IInv'
<1> SUFFICES ASSUME IInv, [Next]_vars PROVE IInv'
  OBVIOUS
<1>1. Pnp \in Threads /\ Radios \subseteq Threads /\ Reset \in Threads
  BY DEF Threads
<1>2. ASSUME NEW r \in Radios, RadioOn(r) \/ RadioOff(r) \/ Radio(r) PROVE IInv'
  <2>1. CASE Child(r)
    BY <1>1, <2>1, ChildStep
  <2>2. CASE RadioOn(r) \/ RadioOff(r) \/ RadioPowersOn(r) \/ DisableRadio(r)
    BY <2>2, RequestStep
  <2> QED
    BY <1>2, <2>1, <2>2 DEF Radio
<1>3. CASE Start \/ Child(Pnp) \/ Child(Reset)
  BY <1>1, <1>3, StartStep, ChildStep
<1>4. CASE PrepareHardware \/ D0Entry \/ D0Exit \/ ReleaseHardware
  BY <1>4, CallbackStep
<1>5. CASE DeviceDoPLDR \/ IfxBtDoControllerReset
  BY <1>5, RequestStep
<1>6. CASE Gone \/ UNCHANGED vars
  BY <1>6, StutterStep DEF Gone
<1> QED
  BY <1>2, <1>3, <1>4, <1>5, <1>6 DEF Next

LEMMA Invariance == Spec => []IInv
<1>1. Init => IInv
  BY InitIInv
<1>2. IInv /\ [Next]_vars => IInv'
  BY NextIInv
<1> QED
  BY <1>1, <1>2, PTL DEF Spec

\* Every variable of the life cycle stays in its range, for any number of radio
\* requests (FDO_EXTENSION in driver.h).
THEOREM TypeCorrect == Spec => []TypeOK
<1>1. IInv => TypeOK
  BY DEF IInv
<1> QED
  BY <1>1, Invariance, PTL

\* The parent is never operational nor initialized, and exposes no child, while
\* the UART, power or firmware contract or the controller validation is a placeholder:
\* the stages of DeviceInitialize (device.c) let no path around them, whatever requests
\* and resets run beside them.
THEOREM NothingBeforeContracts == Spec => []GatedByContracts
<1>1. IInv => GatedByContracts
  BY DEF IInv
<1> QED
  BY <1>1, Invariance, PTL

\* ChildLock suffices: however many requests create the child at once, there is
\* one at most (FdoCreateOneChildDevice).
THEOREM ChildIsUnique == Spec => []OneChild
<1>1. \A n : n \in {0, 1} => n <= 1
  OBVIOUS
<1>2. IInv => OneChild
  BY <1>1, Zenon DEF IInv, Locked, OneChild
<1> QED
  BY <1>2, Invariance, PTL

\* The reason recorded by the stage that failed survives the failure that its
\* caller latches (FdoDevPrepareHardware, FdoDevD0Entry).
THEOREM RootReasonSurvives == Spec => []RootReasonKept
<1>1. IInv => RootReasonKept
  BY DEF IInv
<1> QED
  BY <1>1, Invariance, PTL

-----------------------------------------------------------------------------
(* What DeviceInitialized says of the target, and readiness of a new child.  *)

\* Between the configuration of the UART and DeviceInitialized the target is
\* started.
OnTarget ==
    pc[Pnp] \in {"power", "firmware", "controller", "assign"} => IoTargetSerial = "started"

\* What a thread saw before it took ChildLock still holds, but for a reset.
SawReady ==
    /\ \A r \in Radios : pc[r] # "idle" => pc[Pnp] = "d0"
    /\ \A t \in Radios \cup {Pnp} : pc[t] \in {"lock", "pdo"} =>
          IfxBtIsParentTransportReady \/ pc[Reset] = "reset" \/ LastFailureReason # "None"

\* The inductive invariant of both.
RInv == TypeOK /\ InitializedOnStartedTarget /\ OnTarget /\ SawReady

LEMMA InitRInv == Init => RInv
<1> SUFFICES ASSUME Init PROVE RInv
  OBVIOUS
<1>1. Pnp \in Threads /\ Reset \in Threads /\ Radios \subseteq Threads
  BY DEF Threads
<1>2. pc[Pnp] = "added" /\ \A t \in Threads \ {Pnp} : pc[t] = "idle"
  BY <1>1 DEF Init
<1>3. TypeOK
  BY InitIInv DEF IInv
<1>4. InitializedOnStartedTarget /\ OnTarget
  BY <1>2 DEF Init, InitializedOnStartedTarget, OnTarget
<1>5. SawReady
  BY <1>1, <1>2, LifecycleAssumption DEF SawReady
<1> QED
  BY <1>3, <1>4, <1>5 DEF RInv

\* The device alone moves, while no radio request runs, and has no child under way
\* before or after.
LEMMA DeviceMoves ==
    ASSUME RInv, TypeOK', NEW next \in Stages \cup {"ready"}, Goes(Pnp, next),
           \A r \in Radios : pc[r] = "idle",
           DeviceInitialized' => IoTargetSerial' = "started",
           next \in {"power", "firmware", "controller", "assign"} => IoTargetSerial' = "started"
    PROVE  RInv'
<1>1. Pnp \in Threads /\ Reset \in Threads /\ Radios \subseteq Threads /\ Pnp \notin Radios
  BY LifecycleAssumption DEF Threads
<1>2. pc'[Pnp] = next /\ \A u \in Threads : u # Pnp => pc'[u] = pc[u]
  BY <1>1, Moves DEF RInv
<1>3. SawReady'
  BY <1>1, <1>2 DEF SawReady, Stages
<1> QED
  BY <1>2, <1>3 DEF RInv, InitializedOnStartedTarget, OnTarget

LEMMA StageFailsRInv ==
    ASSUME RInv, TypeOK', NEW stage \in Stages \ {"d0"}, NEW next \in {"latch", "failed"},
           NEW reason, StageFails(stage, next, reason)
    PROVE  RInv'
<1>1. pc[Pnp] = stage /\ Goes(Pnp, next) /\ DeviceInitialized' = FALSE
  BY DEF StageFails, IfxBtSetFailureReason
<1>2. \A r \in Radios : pc[r] = "idle"
  BY <1>1 DEF RInv, SawReady
<1> QED
  BY <1>1, <1>2, DeviceMoves DEF Stages

LEMMA StagePassesRInv ==
    ASSUME RInv, TypeOK', NEW stage \in Stages \ {"d0"}, NEW next \in Stages, NEW reached,
           Passes(stage, next, reached),
           next \in {"power", "firmware", "controller", "assign"} => IoTargetSerial = "started"
    PROVE  RInv'
<1>1. pc[Pnp] = stage /\ Goes(Pnp, next) /\ UNCHANGED <<DeviceInitialized, IoTargetSerial>>
  BY DEF Passes, IfxBtSetTransportState, pnp
<1>2. \A r \in Radios : pc[r] = "idle"
  BY <1>1 DEF RInv, SawReady
<1> QED
  BY <1>1, <1>2, DeviceMoves DEF RInv, InitializedOnStartedTarget

LEMMA StartKeepsRInv ==
    ASSUME RInv, TypeOK', Start
    PROVE  RInv'
<1>0. InitializedOnStartedTarget /\ OnTarget
  BY DEF RInv
<1>1. pc[Pnp] \in Stages \ {"d0"} => \A r \in Radios : pc[r] = "idle"
  BY DEF RInv, SawReady
<1> USE DEF Stages
<1>2. CASE FdoFindConnectResources
  BY <1>2, StageFailsRInv, StagePassesRInv DEF FdoFindConnectResources
<1>3. CASE FdoOpenDevice
  <2>1. CASE StageFails("open", "failed", "UartOpenFailed")
    BY <2>1, StageFailsRInv
  <2>2. CASE pc[Pnp] = "open" /\ Goes(Pnp, "extension") /\ IoTargetSerial' = "started"
    BY <1>1, <2>2, DeviceMoves
  <2> QED
    BY <1>3, <2>1, <2>2 DEF FdoOpenDevice
<1>4. CASE HlpInitializeFdoExtension
  BY <1>4, StageFailsRInv, StagePassesRInv DEF HlpInitializeFdoExtension
<1>5. CASE DeviceEnable
  BY <1>5, StageFailsRInv, StagePassesRInv DEF DeviceEnable
<1>6. CASE IfxBtConfigureUart
  BY <1>6, StageFailsRInv, StagePassesRInv DEF IfxBtConfigureUart
<1>7. CASE IfxBtPowerOnController
  <2>1. CASE Passes("power", "firmware", "PlatformPowered")
    BY <1>0, <2>1, StagePassesRInv DEF OnTarget, Passes
  <2> QED
    BY <1>7, <2>1, StageFailsRInv DEF IfxBtPowerOnController
<1>8. CASE IfxBtFirmwareEvaluateInitialization
  <2>1. CASE Passes("firmware", "controller", "BaudSynchronized")
    BY <1>0, <2>1, StagePassesRInv DEF OnTarget, Passes
  <2> QED
    BY <1>8, <2>1, StageFailsRInv DEF IfxBtFirmwareEvaluateInitialization
<1>9. CASE IfxBtFirmwareValidateControllerReady
  <2>1. CASE Passes("controller", "assign", "Operational")
    BY <1>0, <2>1, StagePassesRInv DEF OnTarget, Passes
  <2> QED
    BY <1>9, <2>1, StageFailsRInv DEF IfxBtFirmwareValidateControllerReady
<1>10. CASE DeviceInitialize
  <2> DEFINE next == IF callback = "PrepareHardware" THEN "ready" ELSE "target"
  <2>1. pc[Pnp] = "assign" /\ Goes(Pnp, next) /\ IoTargetSerial' = IoTargetSerial
    BY <1>10 DEF DeviceInitialize, pnp
  <2>2. next \in {"ready", "target"}
    OBVIOUS
  <2> HIDE DEF next
  <2> QED
    BY <1>0, <1>1, <2>1, <2>2, DeviceMoves DEF OnTarget
<1>11. CASE LatchFailure
  <2>1. pc[Pnp] = "latch" /\ Goes(Pnp, "failed") /\ DeviceInitialized' = FALSE
    BY <1>11 DEF LatchFailure, IfxBtSetFailureReason
  <2> QED
    BY <1>1, <2>1, DeviceMoves
<1>12. CASE WdfIoTargetStart
  <2>1. CASE StageFails("target", "failed", "SerialError")
    BY <2>1, StageFailsRInv
  <2>2. CASE pc[Pnp] = "target" /\ Goes(Pnp, "pump") /\ IoTargetSerial' = "started"
    BY <1>1, <2>2, DeviceMoves
  <2> QED
    BY <1>12, <2>1, <2>2 DEF WdfIoTargetStart
<1>13. CASE RestartReadPump
  <2>1. CASE Passes("pump", IF initDone THEN "d0" ELSE "ioinit", TransportState)
    BY <2>1, StagePassesRInv
  <2> QED
    BY <1>13, <2>1, StageFailsRInv DEF RestartReadPump
<1>14. CASE SelfManagedIoInit
  <2>1. CASE StageFails("ioinit", "failed", "ReadPumpFailed")
    BY <2>1, StageFailsRInv
  <2>2. CASE ~StageFails("ioinit", "failed", "ReadPumpFailed")
    <3>1. /\ pc[Pnp] = "ioinit" /\ Goes(Pnp, "d0")
          /\ UNCHANGED <<IoTargetSerial, DeviceInitialized>>
      BY <1>14, <2>2 DEF SelfManagedIoInit, state
    <3> QED
      BY <1>0, <1>1, <3>1, DeviceMoves DEF InitializedOnStartedTarget
  <2> QED
    BY <2>1, <2>2
<1> QED
  BY <1>2, <1>3, <1>4, <1>5, <1>6, <1>7, <1>8, <1>9, <1>10, <1>11, <1>12, <1>13, <1>14 DEF Start

LEMMA CallbackKeepsRInv ==
    ASSUME RInv, TypeOK', PrepareHardware \/ D0Entry \/ D0Exit \/ ReleaseHardware
    PROVE  RInv'
<1>0. InitializedOnStartedTarget /\ (pc[Pnp] # "d0" => \A r \in Radios : pc[r] = "idle")
  BY DEF RInv, SawReady
<1> USE DEF Stages, InitializedOnStartedTarget
<1>1. CASE PrepareHardware
  <2>1. /\ pc[Pnp] # "d0" /\ Goes(Pnp, "resources")
        /\ UNCHANGED <<DeviceInitialized, IoTargetSerial>>
    BY <1>1 DEF PrepareHardware
  <2> QED
    BY <1>0, <2>1, DeviceMoves
<1>2. CASE D0Entry
  <2>1. PICK next \in {"enable", "d0", "ioinit"} : Goes(Pnp, next)
    BY <1>2 DEF D0Entry
  <2>2. pc[Pnp] # "d0" /\ UNCHANGED <<DeviceInitialized, IoTargetSerial>>
    BY <1>2 DEF D0Entry, state
  <2> QED
    BY <1>0, <2>1, <2>2, DeviceMoves
<1>3. CASE D0Exit
  <2>1. /\ \A r \in Radios : pc[r] = "idle"
        /\ Goes(Pnp, "low") /\ DeviceInitialized' = FALSE
    BY <1>3 DEF D0Exit, IfxBtInvalidateParentReadiness
  <2> QED
    BY <2>1, DeviceMoves
<1>4. CASE ReleaseHardware
  <2>1. PICK next \in {"stopped", "gone"} : Goes(Pnp, next)
    BY <1>4 DEF ReleaseHardware
  <2>2. DeviceInitialized' = FALSE /\ \A r \in Radios : pc[r] = "idle"
    BY <1>4 DEF ReleaseHardware, IfxBtInvalidateParentReadiness
  <2> QED
    BY <2>1, <2>2, DeviceMoves
<1> QED
  BY <1>1, <1>2, <1>3, <1>4

\* A thread moves and leaves the readiness of the parent as it is.
LEMMA ThreadKeepsRInv ==
    ASSUME RInv, TypeOK', NEW t \in Threads, NEW next, Goes(t, next),
           UNCHANGED <<state, IoTargetSerial>>, pc[t] # "reset",
           t = Pnp => pc[t] # "d0" /\ next \notin {"power", "firmware", "controller", "assign"},
           t \in Radios /\ next # "idle" => pc[Pnp] = "d0",
           t # Reset /\ next \in {"lock", "pdo"} =>
              pc[t] \in {"lock", "pdo"} \/ IfxBtIsParentTransportReady
    PROVE  RInv'
<1>1. Pnp \in Threads /\ Reset \in Threads /\ Radios \subseteq Threads
  BY DEF Threads
<1>2. Pnp \notin Radios /\ Reset \notin Radios /\ Pnp # Reset
  BY LifecycleAssumption
<1>3. pc'[t] = next /\ \A u \in Threads : u # t => pc'[u] = pc[u]
  BY Moves DEF RInv
<1>4. IfxBtIsParentTransportReady' = IfxBtIsParentTransportReady
  BY DEF IfxBtIsParentTransportReady, state
<1>5. \A u \in Radios \cup {Pnp} : pc'[u] \in {"lock", "pdo"} =>
         IfxBtIsParentTransportReady' \/ pc'[Reset] = "reset" \/ LastFailureReason' # "None"
  BY <1>1, <1>2, <1>3, <1>4 DEF RInv, SawReady, state
<1>6. \A r \in Radios : pc'[r] # "idle" => pc'[Pnp] = "d0"
  BY <1>1, <1>2, <1>3 DEF RInv, SawReady
<1>7. OnTarget' /\ InitializedOnStartedTarget'
  BY <1>1, <1>3 DEF RInv, OnTarget, InitializedOnStartedTarget, state
<1> QED
  BY <1>5, <1>6, <1>7 DEF RInv, SawReady

LEMMA ChildKeepsRInv ==
    ASSUME RInv, TypeOK', NEW t \in Threads, Child(t)
    PROVE  RInv'
<1>1. t \in Radios /\ pc[t] # "idle" => pc[Pnp] = "d0"
  BY DEF RInv, SawReady
<1>2. t = Pnp => pc[t] # "remove"
  BY DEF RInv, TypeOK, Stages, Creating
<1> USE LifecycleAssumption DEF state, childList, pnp
<1>3. CASE AskReady(t)
  <2>1. PICK next \in {"check", "lock", "failed", "idle"} :
           Goes(t, next) /\ (next = "lock" => IfxBtIsParentTransportReady)
    BY <1>3 DEF AskReady, CreateFails
  <2> QED
    BY <1>1, <1>3, <2>1, ThreadKeepsRInv DEF AskReady
<1>4. CASE LockChildren(t)
  <2>1. PICK next \in {"pdo", "failed", "idle"} : Goes(t, next)
    BY <1>4 DEF LockChildren, CreateFails
  <2> QED
    BY <1>1, <1>4, <2>1, ThreadKeepsRInv DEF LockChildren
<1>5. CASE PdoCreate(t)
  <2>1. PICK next \in {"idle", "enable radio"} : Goes(t, next)
    BY <1>5 DEF PdoCreate
  <2> QED
    BY <1>1, <1>5, <2>1, ThreadKeepsRInv DEF PdoCreate
<1>6. CASE PdoCreateFails(t)
  <2>1. PICK next \in {"failed", "idle"} : Goes(t, next)
    BY <1>6 DEF PdoCreateFails, CreateFails
  <2> QED
    BY <1>1, <1>6, <2>1, ThreadKeepsRInv DEF PdoCreateFails
<1>7. CASE EnableRadio(t)
  <2>1. PICK next \in {"prepared", "idle"} : Goes(t, next)
    BY <1>7 DEF EnableRadio
  <2> QED
    BY <1>1, <1>7, <2>1, ThreadKeepsRInv DEF EnableRadio
<1>8. CASE RemoveChild(t)
  <2>1. PICK next \in {"check", "disable radio", "idle"} : Goes(t, next)
    BY <1>8 DEF RemoveChild
  <2>2. pc[t] = "remove" /\ UNCHANGED <<state, IoTargetSerial>>
    BY <1>8 DEF RemoveChild
  <2> QED
    BY <1>1, <1>2, <2>1, <2>2, ThreadKeepsRInv
<1> QED
  BY <1>3, <1>4, <1>5, <1>6, <1>7, <1>8 DEF Child

\* A thread fails the transport, or a reset begins to.
LEMMA ResetKeepsRInv ==
    ASSUME RInv, TypeOK', NEW t \in Radios \cup {Reset}, NEW next, Goes(t, next),
           DeviceInitialized' = FALSE, UNCHANGED IoTargetSerial,
           t \in Radios => next = "idle",
           LastFailureReason' # "None" \/ (t = Reset /\ next = "reset")
    PROVE  RInv'
<1>1. Pnp \in Threads /\ Reset \in Threads /\ Radios \subseteq Threads
  BY DEF Threads
<1>2. Pnp \notin Radios /\ Reset \notin Radios /\ Pnp # Reset
  BY LifecycleAssumption
<1>3. pc'[t] = next /\ \A u \in Threads : u # t => pc'[u] = pc[u]
  BY <1>1, Moves DEF RInv
<1>4. SawReady'
  BY <1>1, <1>2, <1>3 DEF RInv, SawReady
<1>5. OnTarget' /\ InitializedOnStartedTarget'
  BY <1>1, <1>2, <1>3 DEF RInv, OnTarget, InitializedOnStartedTarget
<1> QED
  BY <1>4, <1>5 DEF RInv

LEMMA RequestKeepsRInv ==
    ASSUME RInv, TypeOK',
           \/ \E r \in Radios :
                 RadioOn(r) \/ RadioOff(r) \/ RadioPowersOn(r) \/ DisableRadio(r)
           \/ DeviceDoPLDR \/ IfxBtDoControllerReset
    PROVE  RInv'
<1>1. PowerFailure # "None"
  BY DEF PowerFailure
<1>2. Radios \subseteq Threads /\ Reset \in Threads /\ Pnp \notin Radios
  BY LifecycleAssumption DEF Threads
<1>3. \A r \in Radios : pc[r] # "idle" => pc[Pnp] = "d0"
  BY DEF RInv, SawReady
<1> USE DEF childList, pnp, state
<1>4. ASSUME NEW r \in Radios, RadioOn(r) \/ RadioOff(r) PROVE RInv'
  <2>1. PICK next \in {"power on", "remove"} : Goes(r, next)
    BY <1>4 DEF RadioOn, RadioOff
  <2>2. pc[r] = "idle" /\ pc[Pnp] = "d0" /\ UNCHANGED <<state, IoTargetSerial>>
    BY <1>4 DEF RadioOn, RadioOff
  <2> QED
    BY <1>2, <2>1, <2>2, ThreadKeepsRInv
<1>5. ASSUME NEW r \in Radios, RadioPowersOn(r) PROVE RInv'
  <2>1. CASE Goes(r, "ready") /\ UNCHANGED state
    <3>1. pc[r] = "power on" /\ UNCHANGED IoTargetSerial
      BY <1>5 DEF RadioPowersOn
    <3> QED
      BY <1>2, <1>3, <2>1, <3>1, ThreadKeepsRInv
  <2>2. CASE Goes(r, "idle") /\ IfxBtSetFailureReason(PowerFailure)
    <3>1. UNCHANGED IoTargetSerial
      BY <1>5 DEF RadioPowersOn
    <3> QED
      BY <1>1, <2>2, <3>1, ResetKeepsRInv DEF IfxBtSetFailureReason
  <2> QED
    BY <1>5, <2>1, <2>2 DEF RadioPowersOn
<1>6. ASSUME NEW r \in Radios, DisableRadio(r) PROVE RInv'
  <2>1. pc[r] = "disable radio" /\ Goes(r, "idle") /\ UNCHANGED <<state, IoTargetSerial>>
    BY <1>6 DEF DisableRadio
  <2> QED
    BY <1>2, <2>1, ThreadKeepsRInv
<1>7. CASE DeviceDoPLDR
  <2>1. Goes(Reset, "reset") /\ DeviceInitialized' = FALSE /\ UNCHANGED IoTargetSerial
    BY <1>7 DEF DeviceDoPLDR, IfxBtInvalidateParentReadiness
  <2> QED
    BY <2>1, LifecycleAssumption, ResetKeepsRInv
<1>8. CASE IfxBtDoControllerReset
  <2>1. /\ Goes(Reset, "remove") /\ DeviceInitialized' = FALSE /\ LastFailureReason' # "None"
        /\ UNCHANGED IoTargetSerial
    BY <1>1, <1>8 DEF IfxBtDoControllerReset, IfxBtSetFailureReason
  <2> QED
    BY <2>1, LifecycleAssumption, ResetKeepsRInv
<1> QED
  BY <1>4, <1>5, <1>6, <1>7, <1>8

LEMMA NextRInv == IInv /\ RInv /\ [Next]_vars => RInv'
<1> SUFFICES ASSUME IInv, RInv, [Next]_vars PROVE RInv'
  OBVIOUS
<1>1. TypeOK'
  BY NextIInv DEF IInv
<1>2. Pnp \in Threads /\ Radios \subseteq Threads /\ Reset \in Threads
  BY DEF Threads
<1>3. ASSUME NEW r \in Radios, RadioOn(r) \/ RadioOff(r) \/ Radio(r) PROVE RInv'
  <2>1. CASE Child(r)
    BY <1>1, <1>2, <2>1, ChildKeepsRInv
  <2>2. CASE RadioOn(r) \/ RadioOff(r) \/ RadioPowersOn(r) \/ DisableRadio(r)
    BY <1>1, <2>2, RequestKeepsRInv
  <2> QED
    BY <1>3, <2>1, <2>2 DEF Radio
<1>4. CASE Start \/ Child(Pnp) \/ Child(Reset)
  BY <1>1, <1>2, <1>4, StartKeepsRInv, ChildKeepsRInv
<1>5. CASE PrepareHardware \/ D0Entry \/ D0Exit \/ ReleaseHardware
  BY <1>1, <1>5, CallbackKeepsRInv
<1>6. CASE DeviceDoPLDR \/ IfxBtDoControllerReset
  BY <1>1, <1>6, RequestKeepsRInv
<1>7. CASE Gone \/ UNCHANGED vars
  BY <1>1, <1>7 DEF Gone, vars, state, childList, pnp, RInv, InitializedOnStartedTarget, OnTarget,
                   SawReady, IfxBtIsParentTransportReady
<1> QED
  BY <1>3, <1>4, <1>5, <1>6, <1>7 DEF Next

\* DeviceInitialized never outlives the target it was configured on, whatever
\* radio requests and resets run beside the power callbacks (FdoDevD0Exit,
\* FdoDevReleaseHardware).
THEOREM InitializedHasTarget == Spec => []InitializedOnStartedTarget
<1>1. Init => IInv /\ RInv
  BY InitIInv, InitRInv
<1>2. IInv /\ RInv /\ [Next]_vars => (IInv /\ RInv)'
  BY NextIInv, NextRInv
<1>3. RInv => InitializedOnStartedTarget
  BY DEF RInv
<1> QED
  BY <1>1, <1>2, <1>3, PTL DEF Spec

\* Only a reset puts a child on a parent that is not ready: the second look of
\* FdoCreateOneChildDevice and the wait of D0Exit for radio requests suffice
\* against everything else.
THEOREM OnlyResetsRaceCreation == Spec => ChildBornReady
<1>1. Init => IInv /\ RInv
  BY InitIInv, InitRInv
<1>2. IInv /\ RInv /\ [Next]_vars => (IInv /\ RInv)'
  BY NextIInv, NextRInv
<1>3. IInv /\ RInv /\ [Next]_vars =>
         [children' > children =>
             \/ IfxBtIsParentTransportReady
             \/ pc[Reset] \in {"reset", "pdo"} \/ LastFailureReason # "None"]_vars
  <2> SUFFICES ASSUME IInv, RInv, Next, children' > children
               PROVE  \/ IfxBtIsParentTransportReady
                      \/ pc[Reset] \in {"reset", "pdo"} \/ LastFailureReason # "None"
    OBVIOUS
  <2>1. children \in {0, 1}
    BY DEF IInv, Locked
  <2>2. \A n : n \in {0, 1} => ~ (n > n)
    OBVIOUS
  <2>3. \A n : n \in {0, 1} => ~ (n - 1 > n)
    OBVIOUS
  <2>4. children' # children
    BY <2>1, <2>2, Zenon
  <2>5. PICK t \in Threads : PdoCreate(t) \/ RemoveChild(t)
    <3>1. CASE \E t \in Threads : Child(t)
      <4>1. PICK t \in Threads : Child(t)
        BY <3>1
      <4> QED
        BY <2>4, <4>1 DEF Child, AskReady, LockChildren, PdoCreateFails, EnableRadio, childList
    <3>2. CASE ~ \E t \in Threads : Child(t)
      <4>1. UNCHANGED children
        BY <3>2 DEF Next, Threads, Radio, Start, FdoFindConnectResources, FdoOpenDevice,
              HlpInitializeFdoExtension, DeviceEnable, IfxBtConfigureUart, IfxBtPowerOnController,
              IfxBtFirmwareEvaluateInitialization, IfxBtFirmwareValidateControllerReady,
              DeviceInitialize, LatchFailure, WdfIoTargetStart, RestartReadPump,
              SelfManagedIoInit, PrepareHardware, D0Entry, D0Exit, ReleaseHardware, RadioOn,
              RadioOff, RadioPowersOn, DisableRadio, DeviceDoPLDR, IfxBtDoControllerReset, Gone,
              StageFails, Passes, childList, vars
      <4> QED
        BY <2>4, <4>1
    <3> QED
      BY <3>1, <3>2
  <2>6. ~RemoveChild(t)
    BY <2>1, <2>3, <2>4, Zenon DEF RemoveChild
  <2>7. pc[t] = "pdo"
    BY <2>5, <2>6 DEF PdoCreate
  <2> QED
    BY <2>7 DEF Threads, RInv, SawReady
<1> QED
  BY <1>1, <1>2, <1>3, PTL DEF Spec, ChildBornReady
=============================================================================
