------------------------ MODULE ControllerInitProofs ------------------------
(***************************************************************************)
(* A start of the parent for every board and every set of resources, and   *)
(* for every port of the firmware types: what a start that succeeds has    *)
(* passed, and what one that fails says of the board.  Last, that a start  *)
(* in this detail is one of Lifecycle.                                     *)
(***************************************************************************)
EXTENDS ControllerRefinement, SequenceTheorems, TLAPS

-----------------------------------------------------------------------------
(* The stages a start has behind it.                                       *)

IoctlStages   == {"SET_BAUD_RATE", "SET_LINE_CONTROL", "SET_HANDFLOW", "SET_TIMEOUTS", "PURGE"}
PastController == {"assign", "ready"}
PastFirmware  == {"controller"} \cup PastController
PastPower     == {"firmware"} \cup PastFirmware
PastPort      == {"power"} \cup PastPower
PastContract  == IoctlStages \cup PastPort
PastPlatform  == {"contract"} \cup PastContract
PastPowerOn   == {"platform"} \cup PastPlatform
PastEnable    == {"power on"} \cup PastPowerOn
PastOpen      == {"extension", "enable"} \cup PastEnable
PastResources == {"open"} \cup PastOpen
Lost          == {"latch", "failed", "gone"}

Powered == IfxBtPowerOnController(board) = "SUCCESS"

\* What was found in order by the stages behind.
Passed ==
    /\ pc \in PastResources => resources.uart # "absent"
    /\ pc \in PastOpen => resources.uart = "valid"
    /\ pc \in PastEnable /\ resources.gpio => Powered
    /\ pc \in PastPowerOn /\ resources.i2c => Powered
    /\ pc \in PastPlatform => IfxBtPlatformValidateConfig(board.platform) = "SUCCESS"
    /\ pc \in PastContract => IfxBtPlatformValidateUartConfig(board.uart) = "SUCCESS"
    /\ pc \in PastPower => Powered
    /\ pc \in PastFirmware => IfxBtFirmwareEvaluateInitialization(board) = "SUCCESS"
    /\ pc \in PastController =>
          IfxBtFirmwareValidateControllerReadyPlaceholder(board) = "SUCCESS"

\* Where a start stands with its IOCTLs.
Settings ==
    /\ waiting => pc \in IoctlStages
    /\ waiting /\ pc = "PURGE" => board.uart.PurgeMask # {}
    /\ pc \notin PastContract \cup Lost => sent = <<>>
    /\ \A i \in 1..5 : pc = Ioctls[i] =>
          sent = SubSeq(Ioctls, 1, IF waiting THEN i ELSE i - 1)
    /\ pc \in PastPort => sent = IF board.uart.PurgeMask = {} THEN SubSeq(Ioctls, 1, 4) ELSE Ioctls
    /\ sent # <<>> =>
          /\ IfxBtPlatformValidateUartConfig(board.uart) = "SUCCESS"
          /\ resources.uart = "valid"
          /\ pc # "gone" => IoTargetSerial = "started"
    /\ pc \in PastOpen => IoTargetSerial = "started"

\* What a start says of itself.
Reported ==
    /\ TransportState = "Operational" \/ DeviceInitialized => pc \in PastController
    /\ pc \in Lost => LastFailureReason = root.reason /\ LastFailureStatus = root.status
    /\ pc \in Lost /\ ~fault => LastFailureReason = FirstObstacle(Obstacles)

\* The inductive invariant.
IInv == TypeOK /\ Passed /\ Settings /\ Reported

-----------------------------------------------------------------------------
(* The IOCTLs.                                                             *)

LEMMA IoctlList ==
    /\ Len(Ioctls) = 5
    /\ Ioctls[1] = "SET_BAUD_RATE" /\ Ioctls[2] = "SET_LINE_CONTROL"
    /\ Ioctls[3] = "SET_HANDFLOW" /\ Ioctls[4] = "SET_TIMEOUTS" /\ Ioctls[5] = "PURGE"
    /\ Elements(Ioctls) = IoctlStages
    /\ Ioctls \in Seq(IoctlStages)
<1>1. /\ Len(Ioctls) = 5
      /\ Ioctls[1] = "SET_BAUD_RATE" /\ Ioctls[2] = "SET_LINE_CONTROL"
      /\ Ioctls[3] = "SET_HANDFLOW" /\ Ioctls[4] = "SET_TIMEOUTS" /\ Ioctls[5] = "PURGE"
      /\ DOMAIN Ioctls = 1..5
      /\ Ioctls \in Seq(IoctlStages)
  BY DEF Ioctls, IoctlStages
<1>2. Elements(Ioctls) = IoctlStages
  BY <1>1 DEF Elements, IoctlStages
<1>. QED BY <1>1, <1>2

LEMMA IoctlPrefixes ==
    /\ SubSeq(Ioctls, 1, 0) = <<>>
    /\ SubSeq(Ioctls, 1, 5) = Ioctls
    /\ \A i \in 1..5 : /\ SubSeq(Ioctls, 1, i) = Append(SubSeq(Ioctls, 1, i - 1), Ioctls[i])
                       /\ SubSeq(Ioctls, 1, i) # <<>>
<1>1. SubSeq(Ioctls, 1, 0) = <<>> /\ SubSeq(Ioctls, 1, 5) = Ioctls
  BY IoctlList
<1>2. ASSUME NEW i \in 1..5
      PROVE  /\ SubSeq(Ioctls, 1, i) = Append(SubSeq(Ioctls, 1, i - 1), Ioctls[i])
             /\ SubSeq(Ioctls, 1, i) # <<>>
  <2>1. Len(SubSeq(Ioctls, 1, i)) = i /\ Len(SubSeq(Ioctls, 1, i - 1)) = i - 1
    BY IoctlList
  <2>2. SubSeq(Ioctls, 1, i - 1) \in Seq(IoctlStages) /\ SubSeq(Ioctls, 1, i) \in Seq(IoctlStages)
    <3>1. \A k \in 1..5 : Ioctls[k] \in IoctlStages
      BY IoctlList DEF IoctlStages
    <3>. QED BY <3>1, SubSeqProperties
  <2>3. \A k \in 1..i : SubSeq(Ioctls, 1, i)[k] = Append(SubSeq(Ioctls, 1, i - 1), Ioctls[i])[k]
    BY <2>1, <2>2, IoctlList
  <2>4. Append(SubSeq(Ioctls, 1, i - 1), Ioctls[i]) \in Seq(IoctlStages)
    BY <2>2, IoctlList
  <2>5. Len(Append(SubSeq(Ioctls, 1, i - 1), Ioctls[i])) = i
    BY <2>1, <2>2
  <2>6. SubSeq(Ioctls, 1, i) = Append(SubSeq(Ioctls, 1, i - 1), Ioctls[i])
    BY <2>1, <2>2, <2>3, <2>4, <2>5
  <2>7. SubSeq(Ioctls, 1, i) # <<>>
    <3>1. Len(<<>>) = 0 /\ i # 0
      OBVIOUS
    <3>. QED BY <2>1, <3>1
  <2>. QED BY <2>6, <2>7
<1>. QED BY <1>1, <1>2

-----------------------------------------------------------------------------
(* The obstacles.                                                          *)

\* The first row that is blocked gives the reason.
LEMMA FirstRow ==
    ASSUME NEW rows, NEW i \in DOMAIN rows, DOMAIN rows = 1..12,
           rows[i].blocked, \A j \in 1..i - 1 : ~rows[j].blocked
    PROVE  FirstObstacle(rows) = rows[i].reason
<1>. DEFINE First(k) == rows[k].blocked /\ \A j \in 1..k - 1 : ~rows[j].blocked
<1>1. \A k \in DOMAIN rows : First(k) => k = i
  <2>. SUFFICES ASSUME NEW k \in 1..12, First(k), k # i PROVE FALSE
    OBVIOUS
  <2>1. k < i => k \in 1..i - 1
    OBVIOUS
  <2>2. i < k => i \in 1..k - 1
    OBVIOUS
  <2>. QED BY <2>1, <2>2
<1>2. First(i)
  OBVIOUS
<1>. HIDE DEF First
<1>3. (CHOOSE k \in DOMAIN rows : First(k)) = i
  BY <1>1, <1>2
<1>. QED BY <1>3 DEF FirstObstacle, First

\* The table of the obstacles, row by row.
Reason == << "MissingUartResource", "UartOpenFailed", "PowerResourcesPlaceholder",
             "PowerSequenceFailed", "UartConfigFailed", "UartConfigPlaceholder",
             "UartConfigFailed", "PowerResourcesPlaceholder", "PowerSequenceFailed",
             "FirmwareSequencePlaceholder", "VendorCommandFailed",
             "ControllerValidationPlaceholder" >>

PowerStatus == IfxBtPowerOnController(board)
Shaped      == IfxBtFirmwareValidateContractShape(board.firmware) = "SUCCESS"
Connected   == resources.gpio \/ resources.i2c
PlatformOk  == IfxBtPlatformValidateConfig(board.platform) = "SUCCESS"

LEMMA ObstacleRows ==
    /\ DOMAIN Obstacles = 1..12
    /\ \A i \in 1..12 : Obstacles[i].reason = Reason[i]
    /\ Obstacles[1].blocked  <=> resources.uart = "absent"
    /\ Obstacles[2].blocked  <=> resources.uart = "zero"
    /\ Obstacles[3].blocked  <=> Connected /\ PowerStatus = "DEVICE_NOT_READY"
    /\ Obstacles[4].blocked  <=> Connected /\ PowerStatus # "SUCCESS"
    /\ Obstacles[5].blocked  <=> ~PlatformOk
    /\ Obstacles[6].blocked  <=> board.uart.PlaceholderUartConfig
    /\ Obstacles[7].blocked  <=> ~FramingValid(board.uart)
    /\ Obstacles[8].blocked  <=> PowerStatus = "DEVICE_NOT_READY"
    /\ Obstacles[9].blocked  <=> PowerStatus # "SUCCESS"
    /\ Obstacles[10].blocked <=> board.firmware.PlaceholderFirmwareContract /\ Shaped
    /\ Obstacles[11].blocked <=> \/ HoldsPlaceholder(board.firmware) \/ ~Shaped
                                 \/ board.firmware.FirmwareRequirement = "Required"
                                 \/ ~board.sequencer
    /\ Obstacles[12].blocked <=> ~board.validation
<1>1. /\ DOMAIN Obstacles = 1..12
      /\ \A i \in 1..12 : Obstacles[i].reason = Reason[i]
  BY DEF Obstacles, Reason
<1>2. /\ Obstacles[1].blocked  <=> resources.uart = "absent"
      /\ Obstacles[2].blocked  <=> resources.uart = "zero"
      /\ Obstacles[3].blocked  <=> Connected /\ PowerStatus = "DEVICE_NOT_READY"
      /\ Obstacles[4].blocked  <=> Connected /\ PowerStatus # "SUCCESS"
  BY DEF Obstacles, Connected, PowerStatus
<1>3. /\ Obstacles[5].blocked  <=> ~PlatformOk
      /\ Obstacles[6].blocked  <=> board.uart.PlaceholderUartConfig
      /\ Obstacles[7].blocked  <=> ~FramingValid(board.uart)
  BY DEF Obstacles, PlatformOk, IfxBtPlatformValidateConfig, IfxBtPlatformValidatePowerResources,
         AllPlaceholders
<1>4. /\ Obstacles[8].blocked  <=> PowerStatus = "DEVICE_NOT_READY"
      /\ Obstacles[9].blocked  <=> PowerStatus # "SUCCESS"
  BY DEF Obstacles, PowerStatus
<1>5. /\ Obstacles[10].blocked <=> board.firmware.PlaceholderFirmwareContract /\ Shaped
      /\ Obstacles[11].blocked <=> \/ HoldsPlaceholder(board.firmware) \/ ~Shaped
                                   \/ board.firmware.FirmwareRequirement = "Required"
                                   \/ ~board.sequencer
      /\ Obstacles[12].blocked <=> ~board.validation
  BY DEF Obstacles, Shaped
<1>. QED BY <1>1, <1>2, <1>3, <1>4, <1>5

\* What the environment does not change stays an obstacle.
LEMMA ObstaclesStable ==
    ASSUME UNCHANGED inputs PROVE FirstObstacle(Obstacles)' = FirstObstacle(Obstacles)
BY DEF inputs, Obstacles, FirstObstacle, IfxBtPowerOnController,
       IfxBtPlatformValidateConfig, IfxBtPlatformValidatePowerResources, AllPlaceholders,
       IfxBtPlatformValidatePowerConfig, IfxBtFirmwareValidateContractShape, HoldsPlaceholder,
       FramingValid

-----------------------------------------------------------------------------
(* The contracts.                                                          *)

LEMMA ContractStatuses ==
    ASSUME board \in BoardContracts
    PROVE  /\ IfxBtPlatformValidateConfig(board.platform) \in Statuses
           /\ IfxBtPlatformValidateUartConfig(board.uart) \in Statuses
           /\ IfxBtPowerOnController(board) \in Statuses
           /\ IfxBtFirmwareEvaluateInitialization(board) \in Statuses
           /\ IfxBtFirmwareValidateControllerReadyPlaceholder(board) \in Statuses
<1>1. /\ IfxBtPlatformValidateConfig(board.platform) \in Statuses
      /\ IfxBtPlatformValidateUartConfig(board.uart) \in Statuses
      /\ IfxBtFirmwareValidateControllerReadyPlaceholder(board) \in Statuses
  BY DEF IfxBtPlatformValidateConfig, IfxBtPlatformValidateUartConfig,
         IfxBtFirmwareValidateControllerReadyPlaceholder, Statuses
<1>2. IfxBtPowerOnController(board) \in Statuses
  BY DEF IfxBtPowerOnController, IfxBtPlatformValidatePowerConfig, Statuses
<1>3. IfxBtFirmwareEvaluateInitialization(board) \in Statuses
  BY DEF IfxBtFirmwareEvaluateInitialization, IfxBtFirmwareValidateContract, Statuses
<1>. QED BY <1>1, <1>2, <1>3

LEMMA PowerNotReady ==
    ASSUME PowerStatus = "DEVICE_NOT_READY"
    PROVE  board.power.PlaceholderPowerConfig
<1>1. IfxBtPlatformValidatePowerConfig(board.power) = "DEVICE_NOT_READY"
  BY DEF PowerStatus, IfxBtPowerOnController
<1>. QED BY <1>1 DEF IfxBtPlatformValidatePowerConfig

LEMMA PoweredOwner ==
    ASSUME Powered
    PROVE  /\ board.power.PowerOwnership \in {"PlatformOwnedAlwaysOn", "AcpiPowerResourceOwned"}
           /\ ~board.power.PlaceholderPowerConfig
           /\ "PlaceholderUnknown" \notin OwnershipsOf(board.power)
<1>1. IfxBtPlatformValidatePowerConfig(board.power) = "SUCCESS"
  BY DEF Powered, IfxBtPowerOnController
<1>2. board.power.PowerOwnership \in {"PlatformOwnedAlwaysOn", "AcpiPowerResourceOwned"}
  BY <1>1 DEF Powered, IfxBtPowerOnController
<1>. QED BY <1>1, <1>2 DEF IfxBtPlatformValidatePowerConfig

LEMMA FirmwareReady ==
    ASSUME IfxBtFirmwareEvaluateInitialization(board) = "SUCCESS"
    PROVE  /\ Shaped /\ ~HoldsPlaceholder(board.firmware)
           /\ board.firmware.FirmwareRequirement # "Required"
           /\ board.sequencer
<1>1. IfxBtFirmwareValidateContract(board.firmware) = "SUCCESS"
  BY DEF IfxBtFirmwareEvaluateInitialization
<1>2. Shaped /\ ~HoldsPlaceholder(board.firmware)
  BY <1>1 DEF IfxBtFirmwareValidateContract, Shaped
<1>3. board.firmware.FirmwareRequirement # "Required" /\ board.sequencer
  BY <1>1 DEF IfxBtFirmwareEvaluateInitialization
<1>. QED BY <1>2, <1>3

\* A firmware contract that passes names what only a port can add.
LEMMA FirmwareOfAPort ==
    ASSUME board \in BoardContracts, Shaped, ~HoldsPlaceholder(board.firmware)
    PROVE  /\ board.firmware.FirmwareFileType \in PortFileTypes
           /\ board.firmware.VendorCommandSequence \in PortSequences
<1>1. board.firmware \in FirmwareContracts
  BY DEF BoardContracts
<1>2. /\ board.firmware.FirmwareFileType \in FileTypePlaceholders \cup PortFileTypes \cup {"Invalid"}
      /\ board.firmware.VendorCommandSequence
            \in SequencePlaceholders \cup PortSequences \cup {"Invalid"}
  BY <1>1 DEF FirmwareContracts
<1>3. board.firmware.FirmwareFileType # "Invalid" /\ board.firmware.VendorCommandSequence # "Invalid"
  BY DEF Shaped, IfxBtFirmwareValidateContractShape
<1>4. /\ board.firmware.FirmwareFileType \notin FileTypePlaceholders
      /\ board.firmware.VendorCommandSequence \notin SequencePlaceholders
  BY DEF HoldsPlaceholder
<1>. QED BY <1>2, <1>3, <1>4

-----------------------------------------------------------------------------
(* The initial states, and what every stage that passes or fails keeps.    *)

LEMMA InitIInv == Init => IInv
<1>. SUFFICES ASSUME Init PROVE IInv
  OBVIOUS
<1>1. TypeOK
  <2>1. sent \in Seq(Elements(Ioctls)) /\ pc \in Stages \cup Elements(Ioctls)
    BY DEF Init, Stages
  <2>2. root \in [reason : Reasons, status : Statuses]
    BY DEF Init, Reasons, Statuses
  <2>3. waiting \in BOOLEAN /\ DeviceInitialized \in BOOLEAN /\ fault \in BOOLEAN
    BY DEF Init
  <2>. QED BY <2>1, <2>2, <2>3 DEF Init, TypeOK, States, Reasons, Statuses
<1>2. Passed
  BY DEF Init, Passed, PastResources, PastOpen, PastEnable, PastPowerOn, PastPlatform,
         PastContract, PastPort, PastPower, PastFirmware, PastController, IoctlStages
<1>3. Settings
  BY IoctlList DEF Init, Settings, PastOpen, PastEnable, PastPowerOn, PastPlatform,
         PastContract, PastPort, PastPower, PastFirmware, PastController, IoctlStages
<1>4. Reported
  BY DEF Init, Reported, Lost
<1>. QED BY <1>1, <1>2, <1>3, <1>4 DEF IInv

\* The stages at which a start may fail.
MayFail == {"resources", "open", "extension", "enable", "power on", "platform", "contract",
            "power", "firmware", "controller"} \cup IoctlStages

LEMMA FailsIInv ==
    ASSUME NEW stage \in MayFail, NEW next \in {"latch", "failed"}, NEW reason \in Reasons,
           NEW status \in Statuses, NEW by \in BOOLEAN,
           IInv, Fails(stage, next, reason, status, by),
           ~by => reason = FirstObstacle(Obstacles)
    PROVE  IInv'
<1>. USE DEF Fails, IfxBtSetFailureReason, inputs
<1>0. TypeOK /\ Settings /\ pc = stage
  BY DEF IInv
<1>1. TypeOK'
  BY <1>0 DEF TypeOK, Stages, States
<1>2. Passed'
  BY DEF Passed, PastResources, PastOpen, PastEnable, PastPowerOn, PastPlatform,
         PastContract, PastPort, PastPower, PastFirmware, PastController, IoctlStages
<1>3. Settings'
  <2>1. pc' \in {"latch", "failed"} /\ stage # "gone"
    BY DEF MayFail, IoctlStages
  <2>2. ~waiting' /\ UNCHANGED <<board, resources, sent, IoTargetSerial>>
    OBVIOUS
  <2>3. \A i \in 1..5 : pc' # Ioctls[i]
    BY <2>1, IoctlList
  <2>4. pc' \in Lost /\ pc' \notin PastPort /\ pc' \notin PastOpen
    BY <2>1 DEF Lost, PastOpen, PastEnable, PastPowerOn, PastPlatform,
         PastContract, PastPort, PastPower, PastFirmware, PastController, IoctlStages
  <2>. QED BY <1>0, <2>1, <2>2, <2>3, <2>4 DEF Settings
<1>4. Reported'
  BY ObstaclesStable DEF Reported
<1>. QED BY <1>1, <1>2, <1>3, <1>4 DEF IInv

\* A stage that passes keeps every variable but pc and TransportState.
LEMMA PassesTypeOK ==
    ASSUME NEW stage, NEW next \in Stages \cup IoctlStages, NEW reached \in States,
           TypeOK, Passes(stage, next, reached)
    PROVE  TypeOK'
BY IoctlList DEF Passes, inputs, serial, TypeOK

\* Before the IOCTLs and after them a stage that passes leaves the settings alone.
LEMMA PassesSettings ==
    ASSUME NEW stage \in Stages \ Lost, NEW next \in Stages \ Lost, NEW reached,
           next \in PastPort <=> stage \in PastPort,
           next \in PastOpen => stage \in PastOpen,
           Settings, Passes(stage, next, reached)
    PROVE  Settings'
<1>. USE DEF Passes, inputs, serial
<1>1. stage \notin IoctlStages /\ next \notin IoctlStages
  BY DEF Stages, IoctlStages
<1>2. UNCHANGED <<board, resources, waiting, sent, IoTargetSerial>> /\ ~waiting
  BY <1>1 DEF Settings
<1>3. \A i \in 1..5 : next # Ioctls[i]
  BY <1>1, IoctlList DEF IoctlStages
<1>4. next \in PastContract <=> stage \in PastContract
  BY <1>1 DEF PastContract
<1>5. stage # "gone" /\ next # "gone"
  BY DEF Lost
<1>. QED BY <1>1, <1>2, <1>3, <1>4, <1>5 DEF Settings

LEMMA PassesReported ==
    ASSUME NEW stage, stage \notin PastController \cup Lost, NEW next, next \notin Lost,
           NEW reached,
           reached = "Operational" => next \in PastController,
           Reported, Passes(stage, next, reached)
    PROVE  Reported'
BY DEF Passes, Reported

-----------------------------------------------------------------------------
(* The steps.                                                              *)

LEMMA FirstReason ==
    ASSUME NEW i \in 1..12, Obstacles[i].blocked, \A j \in 1..i - 1 : ~Obstacles[j].blocked
    PROVE  FirstObstacle(Obstacles) = Reason[i]
BY ObstacleRows, FirstRow

\* Its instances for the third and the fourth row.
LEMMA ThirdReason ==
    ASSUME ~Obstacles[1].blocked, ~Obstacles[2].blocked, Obstacles[3].blocked
    PROVE  FirstObstacle(Obstacles) = "PowerResourcesPlaceholder"
<1>1. \A j \in 1..3 - 1 : ~Obstacles[j].blocked
  OBVIOUS
<1>. QED BY <1>1, FirstReason DEF Reason

LEMMA FourthReason ==
    ASSUME ~Obstacles[1].blocked, ~Obstacles[2].blocked, ~Obstacles[3].blocked,
           Obstacles[4].blocked
    PROVE  FirstObstacle(Obstacles) = "PowerSequenceFailed"
<1>1. \A j \in 1..4 - 1 : ~Obstacles[j].blocked
  OBVIOUS
<1>. QED BY <1>1, FirstReason DEF Reason

\* The rows that a start has left behind are not blocked.
LEMMA Unblocked ==
    ASSUME Passed
    PROVE  /\ pc \in PastResources => ~Obstacles[1].blocked
           /\ pc \in PastOpen => ~Obstacles[2].blocked
           /\ pc \in PastPowerOn => ~Obstacles[3].blocked /\ ~Obstacles[4].blocked
           /\ pc \in PastPlatform => ~Obstacles[5].blocked
           /\ pc \in PastContract => ~Obstacles[6].blocked /\ ~Obstacles[7].blocked
           /\ pc \in PastPower => ~Obstacles[8].blocked /\ ~Obstacles[9].blocked
           /\ pc \in PastFirmware => ~Obstacles[10].blocked /\ ~Obstacles[11].blocked
           /\ pc \in PastController => ~Obstacles[12].blocked
<1>1. pc \in PastPowerOn => pc \in PastEnable
  BY DEF PastEnable
<1>2. /\ pc \in PastResources => ~Obstacles[1].blocked
      /\ pc \in PastOpen => ~Obstacles[2].blocked
      /\ pc \in PastPowerOn => ~Obstacles[3].blocked /\ ~Obstacles[4].blocked
      /\ pc \in PastPlatform => ~Obstacles[5].blocked
      /\ pc \in PastPower => ~Obstacles[8].blocked /\ ~Obstacles[9].blocked
  BY <1>1, ObstacleRows DEF Passed, Powered, PowerStatus, Connected, PlatformOk
<1>3. pc \in PastContract => ~board.uart.PlaceholderUartConfig /\ FramingValid(board.uart)
  BY DEF Passed, IfxBtPlatformValidateUartConfig
<1>4. pc \in PastFirmware => ~Obstacles[10].blocked /\ ~Obstacles[11].blocked
  BY ObstacleRows, FirmwareReady DEF Passed, HoldsPlaceholder
<1>5. pc \in PastController => board.validation
  BY DEF Passed, IfxBtFirmwareValidateControllerReadyPlaceholder
<1>. QED BY <1>2, <1>3, <1>4, <1>5, ObstacleRows

LEMMA PastOrder ==
    /\ PastController \subseteq PastFirmware /\ PastFirmware \subseteq PastPower
    /\ PastPower \subseteq PastPort /\ PastPort \subseteq PastContract
    /\ PastContract \subseteq PastPlatform /\ PastPlatform \subseteq PastPowerOn
    /\ PastPowerOn \subseteq PastEnable /\ PastEnable \subseteq PastOpen
    /\ PastOpen \subseteq PastResources
BY DEF PastResources, PastOpen, PastEnable, PastPowerOn, PastPlatform,
       PastContract, PastPort, PastPower, PastFirmware, PastController

\* FdoFindConnectResources, FdoOpenDevice and HlpInitializeFdoExtension.
LEMMA OpeningIInv ==
    ASSUME IInv, PrepareHardware \/ FdoFindConnectResources \/ FdoOpenDevice
                 \/ HlpInitializeFdoExtension
    PROVE  IInv'
<1>. USE DEF IInv
<1>0. resources.uart \in {"absent", "zero", "valid"}
  BY DEF TypeOK, Resources
<1>1. CASE PrepareHardware
  <2>. USE <1>1 DEF PrepareHardware, inputs, serial
  <2>1. TypeOK'
    BY DEF TypeOK, Stages, States, Reasons, Statuses
  <2>2. Passed'
    BY DEF Passed, PastResources, PastOpen, PastEnable, PastPowerOn, PastPlatform,
           PastContract, PastPort, PastPower, PastFirmware, PastController, IoctlStages
  <2>3. Settings'
    BY IoctlList DEF Settings, PastOpen, PastEnable, PastPowerOn, PastPlatform,
           PastContract, PastPort, PastPower, PastFirmware, PastController, IoctlStages, Lost
  <2>4. Reported'
    BY DEF Reported, Lost, PastController
  <2>. QED BY <2>1, <2>2, <2>3, <2>4
<1>2. CASE FdoFindConnectResources
  <2>1. CASE Passes("resources", "open", "ResourcesParsed") /\ resources.uart # "absent"
    <3>1. TypeOK'
      BY <2>1, PassesTypeOK DEF Stages, States
    <3>2. Passed'
      BY <2>1 DEF Passes, inputs, Passed, PastResources, PastOpen, PastEnable, PastPowerOn,
             PastPlatform, PastContract, PastPort, PastPower, PastFirmware, PastController,
             IoctlStages
    <3>3. Settings'
      <4>1. /\ "resources" \in Stages \ Lost /\ "open" \in Stages \ Lost
            /\ "resources" \notin PastPort /\ "open" \notin PastPort /\ "open" \notin PastOpen
        BY DEF Stages, Lost, PastOpen, PastEnable, PastPowerOn, PastPlatform,
           PastContract, PastPort, PastPower, PastFirmware, PastController, IoctlStages
      <4>. QED BY <2>1, <4>1, PassesSettings
    <3>4. Reported'
      BY <2>1, PassesReported DEF PastController, Lost
    <3>. QED BY <3>1, <3>2, <3>3, <3>4
  <2>2. CASE resources.uart = "absent"
             /\ Fails("resources", "failed", "MissingUartResource", "NOT_FOUND", FALSE)
    <3>1. FirstObstacle(Obstacles) = "MissingUartResource"
      BY <2>2, ObstacleRows, FirstReason DEF Reason
    <3>. QED BY <2>2, <3>1, FailsIInv DEF MayFail, Reasons, Statuses
  <2>. QED BY <1>2, <2>1, <2>2 DEF FdoFindConnectResources
<1>3. CASE FdoOpenDevice
  <2>1. CASE resources.uart = "valid" /\ pc = "open" /\ pc' = "extension"
             /\ IoTargetSerial' = "started"
    <3>. USE <2>1, <1>3 DEF FdoOpenDevice, Fails, inputs, serial
    <3>0. /\ TransportState' = "UartOpened"
          /\ UNCHANGED <<inputs, serial, LastFailureReason, LastFailureStatus,
                         DeviceInitialized, root, fault>>
      BY DEF FdoOpenDevice
    <3>1. TypeOK'
      BY <3>0 DEF TypeOK, Stages, States
    <3>2. Passed'
      BY <3>0 DEF Passed, PastResources, PastOpen, PastEnable, PastPowerOn, PastPlatform,
           PastContract, PastPort, PastPower, PastFirmware, PastController, IoctlStages
    <3>3. Settings'
      BY <3>0, IoctlList DEF Settings, PastOpen, PastEnable, PastPowerOn, PastPlatform,
           PastContract, PastPort, PastPower, PastFirmware, PastController, IoctlStages, Lost
    <3>4. Reported'
      BY <3>0 DEF Reported, Lost, PastController
    <3>. QED BY <3>1, <3>2, <3>3, <3>4
  <2>2. CASE resources.uart = "zero"
             /\ Fails("open", "failed", "UartOpenFailed", "NOT_FOUND", FALSE)
    <3>1. ~Obstacles[1].blocked /\ Obstacles[2].blocked
      BY <2>2, ObstacleRows
    <3>2. FirstObstacle(Obstacles) = "UartOpenFailed"
      BY <3>1, FirstReason DEF Reason
    <3>. QED BY <2>2, <3>2, FailsIInv DEF MayFail, Reasons, Statuses
  <2>3. CASE Fails("open", "failed", "UartOpenFailed", "UNSUCCESSFUL", TRUE)
    BY <2>3, FailsIInv DEF MayFail, Reasons, Statuses
  <2>. QED BY <1>3, <2>1, <2>2, <2>3 DEF FdoOpenDevice
<1>4. CASE HlpInitializeFdoExtension
  <2>1. CASE Passes("extension", "enable", TransportState)
    <3>1. TypeOK'
      BY <2>1, PassesTypeOK DEF Stages, TypeOK
    <3>2. Passed'
      BY <2>1 DEF Passes, inputs, Passed, PastResources, PastOpen, PastEnable, PastPowerOn,
             PastPlatform, PastContract, PastPort, PastPower, PastFirmware, PastController,
             IoctlStages
    <3>3. Settings'
      <4>1. /\ "extension" \in Stages \ Lost /\ "enable" \in Stages \ Lost
            /\ "extension" \notin PastPort /\ "enable" \notin PastPort /\ "extension" \in PastOpen
        BY DEF Stages, Lost, PastOpen, PastEnable, PastPowerOn, PastPlatform,
           PastContract, PastPort, PastPower, PastFirmware, PastController, IoctlStages
      <4>. QED BY <2>1, <4>1, PassesSettings
    <3>4. Reported'
      <4>1. TransportState # "Operational"
        BY <2>1 DEF Passes, Reported, PastController
      <4>. QED BY <2>1, <4>1, PassesReported DEF PastController, Lost
    <3>. QED BY <3>1, <3>2, <3>3, <3>4
  <2>2. CASE Fails("extension", "failed", "UartConfigFailed", "UNSUCCESSFUL", TRUE)
    BY <2>2, FailsIInv DEF MayFail, Reasons, Statuses
  <2>. QED BY <1>4, <2>1, <2>2 DEF HlpInitializeFdoExtension
<1>. QED BY <1>1, <1>2, <1>3, <1>4

\* Every step of one of the later stages: it passes if the status of the stage is a
\* success, and fails with the reason of its row if it is not.
LEMMA StagePasses ==
    ASSUME NEW stage \in Stages \ (Lost \cup PastController), NEW next \in Stages \ Lost,
           NEW reached \in States,
           reached = "Operational" => next \in PastController,
           next \in PastPort <=> stage \in PastPort,
           next \in PastOpen => stage \in PastOpen,
           IInv, Passes(stage, next, reached), Passed'
    PROVE  IInv'
<1>1. TypeOK'
  BY PassesTypeOK DEF IInv
<1>2. Settings'
  BY PassesSettings DEF IInv
<1>3. Reported'
  BY PassesReported DEF IInv
<1>. QED BY <1>1, <1>2, <1>3 DEF IInv

LEMMA NotOperationalYet ==
    ASSUME IInv, pc \notin PastController
    PROVE  TransportState \in States /\ TransportState # "Operational"
BY DEF IInv, TypeOK, Reported

\* DeviceEnable and DevicePowerOn.
LEMMA PowersIInv ==
    ASSUME IInv, DeviceEnable \/ DevicePowerOn
    PROVE  IInv'
<1>. USE DEF Passes, inputs, Passed, Powered, PastResources, PastOpen, PastEnable, PastPowerOn,
             PastPlatform, PastContract, PastPort, PastPower, PastFirmware, PastController,
             IoctlStages
<1>0. /\ {"enable", "power on", "platform"} \subseteq Stages \ (Lost \cup PastController)
      /\ {"enable", "power on"} \subseteq MayFail
  BY DEF Stages, Lost, MayFail
<1>1. ASSUME NEW stage \in {"enable", "power on"}, NEW next, NEW needed \in BOOLEAN,
             Powers(stage, next, needed), needed => Connected,
             ~Passes(stage, next, TransportState)
      PROVE  IInv'
  <2>. HIDE DEF Passes
  <2>1. /\ needed /\ PowerStatus # "SUCCESS"
        /\ Fails(stage, "failed", IfxBtMapPowerFailureReason(board.power, PowerStatus),
                 PowerStatus, FALSE)
    BY <1>1 DEF Powers, PowerStatus
  <2>2. pc = stage
    BY <2>1 DEF Fails
  <2>3. ~Obstacles[1].blocked /\ ~Obstacles[2].blocked
    <3>1. resources.uart = "valid"
      BY <2>2 DEF IInv
    <3>. QED BY <3>1, ObstacleRows
  <2>4. CASE PowerStatus = "DEVICE_NOT_READY"
    <3>1. FirstObstacle(Obstacles) = "PowerResourcesPlaceholder"
      BY <1>1, <2>1, <2>3, <2>4, ObstacleRows, ThirdReason
    <3>2. IfxBtMapPowerFailureReason(board.power, PowerStatus) = "PowerResourcesPlaceholder"
      BY <2>4, PowerNotReady DEF IfxBtMapPowerFailureReason
    <3>. QED BY <1>0, <2>1, <2>4, <3>1, <3>2, FailsIInv DEF Reasons, Statuses
  <2>5. CASE PowerStatus # "DEVICE_NOT_READY"
    <3>1. ~Obstacles[3].blocked /\ Obstacles[4].blocked
      BY <1>1, <2>1, <2>5, ObstacleRows
    <3>2. FirstObstacle(Obstacles) = "PowerSequenceFailed"
      BY <2>3, <3>1, FourthReason
    <3>3. IfxBtMapPowerFailureReason(board.power, PowerStatus) = "PowerSequenceFailed"
      BY <2>5 DEF IfxBtMapPowerFailureReason
    <3>4. PowerStatus \in Statuses
      BY ContractStatuses, BoardsAssumption DEF IInv, TypeOK, PowerStatus
    <3>. QED BY <1>0, <2>1, <3>2, <3>3, <3>4, FailsIInv DEF Reasons
  <2>. QED BY <2>4, <2>5
<1>2. CASE DeviceEnable
  <2>1. CASE Passes("enable", "power on", TransportState)
    <3>1. resources.gpio => Powered
      BY <1>2, <2>1 DEF DeviceEnable, Powers, Fails
    <3>2. Passed'
      BY <2>1, <3>1 DEF IInv
    <3>3. /\ "enable" \in Stages \ (Lost \cup PastController) /\ "power on" \in Stages \ Lost
          /\ "enable" \notin PastPort /\ "power on" \notin PastPort /\ "enable" \in PastOpen
      BY DEF Stages, Lost
    <3>4. TransportState \in States /\ TransportState # "Operational"
      BY <2>1, NotOperationalYet
    <3>. HIDE DEF Passes, inputs, Passed, PastPort, PastOpen, PastController
    <3>. QED BY <2>1, <3>2, <3>3, <3>4, StagePasses
  <2>2. CASE ~Passes("enable", "power on", TransportState)
    BY <1>1, <1>2, <2>2 DEF DeviceEnable, Connected, IInv, TypeOK, Resources
  <2>. QED BY <2>1, <2>2
<1>3. CASE DevicePowerOn
  <2>1. CASE Passes("power on", "platform", TransportState)
    <3>1. resources.i2c => Powered
      BY <1>3, <2>1 DEF DevicePowerOn, Powers, Fails
    <3>2. Passed'
      BY <2>1, <3>1 DEF IInv
    <3>3. /\ "power on" \in Stages \ (Lost \cup PastController) /\ "platform" \in Stages \ Lost
          /\ "power on" \notin PastPort /\ "platform" \notin PastPort /\ "power on" \in PastOpen
      BY DEF Stages, Lost
    <3>4. TransportState \in States /\ TransportState # "Operational"
      BY <2>1, NotOperationalYet
    <3>. HIDE DEF Passes, inputs, Passed, PastPort, PastOpen, PastController
    <3>. QED BY <2>1, <3>2, <3>3, <3>4, StagePasses
  <2>2. CASE ~Passes("power on", "platform", TransportState)
    BY <1>1, <1>3, <2>2 DEF DevicePowerOn, Connected, IInv, TypeOK, Resources
  <2>. QED BY <2>1, <2>2
<1>. QED BY <1>2, <1>3

-----------------------------------------------------------------------------
(* DeviceInitialize.                                                       *)

\* The first n rows are not blocked.
Clear(n) == \A j \in 1..n : ~Obstacles[j].blocked

LEMMA ClearNext ==
    ASSUME NEW n \in 0..11, Clear(n), ~Obstacles[n + 1].blocked
    PROVE  Clear(n + 1)
<1>1. \A j \in 1..n + 1 : j \in 1..n \/ j = n + 1
  OBVIOUS
<1>. QED BY <1>1 DEF Clear

LEMMA ClearReason ==
    ASSUME NEW n \in 0..11, Clear(n), Obstacles[n + 1].blocked
    PROVE  FirstObstacle(Obstacles) = Reason[n + 1]
<1>1. n + 1 \in 1..12 /\ (n + 1) - 1 = n
  OBVIOUS
<1>. QED BY <1>1, FirstReason DEF Clear

LEMMA Cleared ==
    ASSUME Passed
    PROVE  /\ pc \in PastPowerOn => Clear(4)
           /\ pc \in PastPlatform => Clear(5)
           /\ pc \in PastContract => Clear(7)
           /\ pc \in PastPower => Clear(9)
           /\ pc \in PastFirmware => Clear(11)
           /\ pc \in PastController => Clear(12)
<1>1. pc \in PastPowerOn => Clear(4)
  <2>. SUFFICES ASSUME pc \in PastPowerOn PROVE Clear(4)
    OBVIOUS
  <2>1. pc \in PastResources /\ pc \in PastOpen
    BY PastOrder
  <2>2. /\ ~Obstacles[1].blocked /\ ~Obstacles[2].blocked
        /\ ~Obstacles[3].blocked /\ ~Obstacles[4].blocked
    BY <2>1, Unblocked
  <2>3. \A j \in 1..4 : j = 1 \/ j = 2 \/ j = 3 \/ j = 4
    OBVIOUS
  <2>. QED BY <2>2, <2>3 DEF Clear
<1>2. pc \in PastPlatform => Clear(5)
  <2>1. 4 \in 0..11 /\ 4 + 1 = 5
    OBVIOUS
  <2>. QED BY <1>1, <2>1, PastOrder, Unblocked, ClearNext
<1>3. pc \in PastContract => Clear(7)
  <2>1. 5 \in 0..11 /\ 5 + 1 = 6 /\ 6 \in 0..11 /\ 6 + 1 = 7
    OBVIOUS
  <2>2. pc \in PastContract => Clear(6)
    BY <1>2, <2>1, PastOrder, Unblocked, ClearNext
  <2>. QED BY <2>2, <2>1, Unblocked, ClearNext
<1>4. pc \in PastPower => Clear(9)
  <2>1. 7 \in 0..11 /\ 7 + 1 = 8 /\ 8 \in 0..11 /\ 8 + 1 = 9
    OBVIOUS
  <2>2. pc \in PastPower => Clear(8)
    BY <1>3, <2>1, PastOrder, Unblocked, ClearNext
  <2>. QED BY <2>2, <2>1, Unblocked, ClearNext
<1>5. pc \in PastFirmware => Clear(11)
  <2>1. 9 \in 0..11 /\ 9 + 1 = 10 /\ 10 \in 0..11 /\ 10 + 1 = 11
    OBVIOUS
  <2>2. pc \in PastFirmware => Clear(10)
    BY <1>4, <2>1, PastOrder, Unblocked, ClearNext
  <2>. QED BY <2>2, <2>1, Unblocked, ClearNext
<1>6. pc \in PastController => Clear(12)
  <2>1. 11 \in 0..11 /\ 11 + 1 = 12
    OBVIOUS
  <2>. QED BY <1>5, <2>1, PastOrder, Unblocked, ClearNext
<1>. QED BY <1>1, <1>2, <1>3, <1>4, <1>5, <1>6

LEMMA ReasonTable ==
    /\ Reason[4 + 1] = "UartConfigFailed" /\ Reason[5 + 1] = "UartConfigPlaceholder"
    /\ Reason[6 + 1] = "UartConfigFailed" /\ Reason[7 + 1] = "PowerResourcesPlaceholder"
    /\ Reason[8 + 1] = "PowerSequenceFailed" /\ Reason[9 + 1] = "FirmwareSequencePlaceholder"
    /\ Reason[10 + 1] = "VendorCommandFailed"
    /\ Reason[11 + 1] = "ControllerValidationPlaceholder"
BY DEF Reason

LEMMA BoardTyped == ASSUME IInv PROVE board \in BoardContracts
BY BoardsAssumption DEF IInv, TypeOK

\* The contracts of the platform and of the UART.
LEMMA ValidateIInv ==
    ASSUME IInv, ValidatePlatform \/ ValidateUart
    PROVE  IInv'
<1>0. Passed
  BY DEF IInv
<1>1. CASE ValidatePlatform
  <2>1. CASE IfxBtPlatformValidateConfig(board.platform) = "SUCCESS"
    <3>1. Passes("platform", "contract", TransportState)
      BY <1>1, <2>1 DEF ValidatePlatform
    <3>2. Passed'
      BY <1>0, <2>1, <3>1 DEF Passes, inputs, Passed, Powered, PastResources, PastOpen,
             PastEnable, PastPowerOn, PastPlatform, PastContract, PastPort, PastPower,
             PastFirmware, PastController, IoctlStages
    <3>3. /\ "platform" \in Stages \ (Lost \cup PastController) /\ "contract" \in Stages \ Lost
          /\ "platform" \notin PastPort /\ "contract" \notin PastPort /\ "platform" \in PastOpen
      BY DEF Stages, Lost, PastOpen, PastEnable, PastPowerOn, PastPlatform, PastContract,
             PastPort, PastPower, PastFirmware, PastController, IoctlStages
    <3>4. TransportState \in States /\ TransportState # "Operational"
      BY <3>1, <3>3, NotOperationalYet DEF Passes
    <3>. QED BY <3>1, <3>2, <3>3, <3>4, StagePasses
  <2>2. CASE IfxBtPlatformValidateConfig(board.platform) # "SUCCESS"
    <3>1. Fails("platform", "latch", "UartConfigFailed",
                IfxBtPlatformValidateConfig(board.platform), FALSE)
      BY <1>1, <2>2 DEF ValidatePlatform
    <3>2. pc \in PastPowerOn
      BY <3>1 DEF Fails, PastPowerOn
    <3>3. Clear(4) /\ Obstacles[4 + 1].blocked /\ 4 \in 0..11
      BY <1>0, <2>2, <3>2, Cleared, ObstacleRows DEF PlatformOk
    <3>4. FirstObstacle(Obstacles) = "UartConfigFailed"
      BY <3>3, ClearReason, ReasonTable
    <3>5. "platform" \in MayFail /\ "UartConfigFailed" \in Reasons
      BY DEF MayFail, Reasons
    <3>6. IfxBtPlatformValidateConfig(board.platform) \in Statuses
      BY BoardTyped, ContractStatuses
    <3>. QED BY <3>1, <3>4, <3>5, <3>6, FailsIInv
  <2>. QED BY <2>1, <2>2
<1>2. CASE ValidateUart
  <2>1. CASE IfxBtPlatformValidateUartConfig(board.uart) = "SUCCESS"
    <3>1. Passes("contract", "SET_BAUD_RATE", TransportState)
      BY <1>2, <2>1 DEF ValidateUart
    <3>2. Passed'
      BY <1>0, <2>1, <3>1 DEF Passes, inputs, Passed, Powered, PastResources, PastOpen,
             PastEnable, PastPowerOn, PastPlatform, PastContract, PastPort, PastPower,
             PastFirmware, PastController, IoctlStages
    <3>3. TransportState \in States /\ TransportState # "Operational"
      BY <3>1, NotOperationalYet DEF Passes, PastController
    <3>4. TypeOK'
      BY <3>1, <3>3, PassesTypeOK DEF IInv, IoctlStages
    <3>5. Reported'
      BY <3>1, <3>3, PassesReported DEF IInv, Lost, PastController
    <3>6. Settings'
      <4>1. sent = <<>> /\ ~waiting /\ IoTargetSerial = "started"
        BY <3>1 DEF IInv, Settings, Passes, PastContract, PastPort, PastPower, PastFirmware,
           PastController, IoctlStages, Lost, PastOpen, PastEnable, PastPowerOn, PastPlatform
      <4>2. pc' = "SET_BAUD_RATE" /\ UNCHANGED <<sent, waiting, IoTargetSerial>>
        BY <3>1 DEF Passes, serial
      <4>3. pc' \in PastContract /\ pc' \notin PastPort
        BY <4>2 DEF PastContract, PastPort, PastPower, PastFirmware, PastController, IoctlStages
      <4>4. ~waiting' /\ sent' = <<>> /\ IoTargetSerial' = "started"
        BY <4>1, <4>2
      <4>5. ASSUME NEW i \in 1..5, pc' = Ioctls[i]
            PROVE  sent' = SubSeq(Ioctls, 1, IF waiting' THEN i ELSE i - 1)
        <5>1. i = 1
          BY <4>2, <4>5, IoctlList
        <5>2. SubSeq(Ioctls, 1, 0) = <<>>
          BY IoctlPrefixes
        <5>. QED BY <4>4, <5>1, <5>2
      <4>. QED BY <4>3, <4>4, <4>5 DEF Settings
    <3>. QED BY <3>2, <3>4, <3>5, <3>6 DEF IInv
  <2>2. CASE IfxBtPlatformValidateUartConfig(board.uart) # "SUCCESS"
    <3>1. Fails("contract", "latch",
                IF IfxBtPlatformValidateUartConfig(board.uart) = "DEVICE_NOT_READY"
                THEN "UartConfigPlaceholder" ELSE "UartConfigFailed",
                IfxBtPlatformValidateUartConfig(board.uart), FALSE)
      BY <1>2, <2>2 DEF ValidateUart
    <3>2. Clear(5) /\ 5 \in 0..11 /\ 6 \in 0..11 /\ 5 + 1 = 6 /\ 6 + 1 = 7
      BY <1>0, <3>1, Cleared DEF Fails, PastPlatform
    <3>3. CASE board.uart.PlaceholderUartConfig
      <4>1. FirstObstacle(Obstacles) = "UartConfigPlaceholder"
        BY <3>2, <3>3, ObstacleRows, ClearReason, ReasonTable
      <4>2. IfxBtPlatformValidateUartConfig(board.uart) = "DEVICE_NOT_READY"
        BY <3>3 DEF IfxBtPlatformValidateUartConfig
      <4>. QED BY <3>1, <4>1, <4>2, FailsIInv DEF MayFail, Reasons, Statuses
    <3>4. CASE ~board.uart.PlaceholderUartConfig
      <4>1. ~FramingValid(board.uart)
            /\ IfxBtPlatformValidateUartConfig(board.uart) = "INVALID_PARAMETER"
        BY <2>2, <3>4 DEF IfxBtPlatformValidateUartConfig
      <4>2. ~Obstacles[5 + 1].blocked /\ Obstacles[6 + 1].blocked
        BY <3>2, <3>4, <4>1, ObstacleRows
      <4>3. Clear(6)
        BY <3>2, <4>2, ClearNext
      <4>4. FirstObstacle(Obstacles) = "UartConfigFailed"
        BY <3>2, <4>2, <4>3, ClearReason, ReasonTable
      <4>. QED BY <3>1, <4>1, <4>4, FailsIInv DEF MayFail, Reasons, Statuses
    <3>. QED BY <3>3, <3>4
  <2>. QED BY <2>1, <2>2
<1>. QED BY <1>1, <1>2

LEMMA IoctlsDiffer ==
    ASSUME NEW i \in 1..5, NEW k \in 1..5, Ioctls[i] = Ioctls[k]
    PROVE  i = k
<1>1. i \in {1, 2, 3, 4, 5} /\ k \in {1, 2, 3, 4, 5}
  OBVIOUS
<1>. QED BY <1>1, IoctlList

LEMMA IoctlIsStage ==
    ASSUME NEW i \in 1..5
    PROVE  Ioctls[i] \in IoctlStages
<1>1. i \in {1, 2, 3, 4, 5}
  OBVIOUS
<1>. QED BY <1>1, IoctlList DEF IoctlStages

\* At an IOCTL everything before it has been sent.
LEMMA AtIoctl ==
    ASSUME IInv, NEW i \in 1..5, pc = Ioctls[i]
    PROVE  /\ pc \in IoctlStages /\ pc \in PastContract /\ pc \in PastOpen
           /\ pc \notin PastPort \cup Lost \cup PastController
           /\ sent = SubSeq(Ioctls, 1, IF waiting THEN i ELSE i - 1)
           /\ IfxBtPlatformValidateUartConfig(board.uart) = "SUCCESS"
           /\ resources.uart = "valid" /\ IoTargetSerial = "started"
           /\ TransportState \in States /\ TransportState # "Operational"
<1>1. pc \in IoctlStages
  BY IoctlList DEF IoctlStages
<1>2. /\ pc \in PastContract /\ pc \in PastOpen
      /\ pc \notin PastPort \cup Lost \cup PastController
  BY <1>1 DEF IoctlStages, PastContract, PastPort, PastPower, PastFirmware, PastController,
     Lost, PastOpen, PastEnable, PastPowerOn, PastPlatform
<1>3. sent = SubSeq(Ioctls, 1, IF waiting THEN i ELSE i - 1)
  BY DEF IInv, Settings
<1>4. /\ IfxBtPlatformValidateUartConfig(board.uart) = "SUCCESS"
      /\ resources.uart = "valid" /\ IoTargetSerial = "started"
  BY <1>2 DEF IInv, Passed, Settings
<1>. QED BY <1>1, <1>2, <1>3, <1>4, NotOperationalYet

\* A step from an IOCTL to the same or to the next stage.
LEMMA IoctlMoves ==
    ASSUME IInv, NEW i \in 1..5, pc = Ioctls[i], pc' = Ioctls[i] \/ pc' = After(i),
           TransportState' \in States, TransportState' # "Operational",
           waiting' \in BOOLEAN, sent' \in Seq(IoctlStages),
           UNCHANGED <<inputs, IoTargetSerial, LastFailureReason, LastFailureStatus,
                       DeviceInitialized, root, fault>>
    PROVE  TypeOK' /\ Passed' /\ Reported'
<1>1. pc' \in IoctlStages \cup {"power"}
  <2>1. After(i) \in IoctlStages \cup {"power"}
    BY IoctlList DEF After, IoctlStages
  <2>2. Ioctls[i] \in IoctlStages
    BY AtIoctl
  <2>. QED BY <2>1, <2>2
<1>2. TypeOK'
  BY <1>1, IoctlList DEF IInv, TypeOK, inputs, Stages
<1>3. Passed'
  <2>1. pc \in IoctlStages
    BY AtIoctl
  <2>2. /\ \A S \in {PastResources, PastOpen, PastEnable, PastPowerOn, PastPlatform,
                     PastContract} : pc \in S
        /\ pc' \notin PastPower
    BY <1>1, <2>1 DEF PastResources, PastOpen, PastEnable, PastPowerOn, PastPlatform,
           PastContract, PastPort, PastPower, PastFirmware, PastController, IoctlStages
  <2>3. pc' \notin PastFirmware /\ pc' \notin PastController
    BY <2>2, PastOrder
  <2>. QED BY <2>2, <2>3 DEF IInv, Passed, Powered, inputs
<1>4. Reported'
  <2>1. pc' \notin Lost
    BY <1>1 DEF Lost, IoctlStages
  <2>2. ~DeviceInitialized
    BY AtIoctl DEF IInv, Reported
  <2>. QED BY <2>1, <2>2 DEF Reported
<1>. QED BY <1>2, <1>3, <1>4

LEMMA SendIInv ==
    ASSUME IInv, NEW i \in 1..5, SendIoctl(i)
    PROVE  IInv'
<1>. USE DEF SendIoctl, state, inputs
<1>0. pc = Ioctls[i] /\ pc' = pc /\ ~waiting /\ waiting' /\ sent' = Append(sent, Ioctls[i])
  OBVIOUS
<1>1. sent = SubSeq(Ioctls, 1, i - 1) /\ sent' = SubSeq(Ioctls, 1, i) /\ sent' # <<>>
  BY <1>0, AtIoctl, IoctlPrefixes
<1>2. sent' \in Seq(IoctlStages)
  BY <1>0, AtIoctl, IoctlList DEF IInv, TypeOK
<1>3. waiting' \in BOOLEAN /\ TransportState' \in States /\ TransportState' # "Operational"
  BY AtIoctl
<1>4. TypeOK' /\ Passed' /\ Reported'
  BY <1>0, <1>2, <1>3, IoctlMoves
<1>5. Settings'
  <2>1. pc' \in IoctlStages /\ pc' \in PastContract /\ pc' \notin PastPort /\ pc' # "gone"
    BY <1>0, AtIoctl DEF IoctlStages
  <2>2. /\ UNCHANGED <<board, resources, IoTargetSerial>> /\ IoTargetSerial = "started"
        /\ IfxBtPlatformValidateUartConfig(board.uart) = "SUCCESS" /\ resources.uart = "valid"
    BY AtIoctl
  <2>3. pc' = "PURGE" => board'.uart.PurgeMask # {}
    BY <1>0 DEF Skipped
  <2>4. ASSUME NEW k \in 1..5, pc' = Ioctls[k]
        PROVE  sent' = SubSeq(Ioctls, 1, IF waiting' THEN k ELSE k - 1)
    <3>1. k = i
      BY <1>0, <2>4, IoctlsDiffer
    <3>. QED BY <1>0, <1>1, <3>1
  <2>. QED BY <2>1, <2>2, <2>3, <2>4 DEF Settings
<1>. QED BY <1>4, <1>5 DEF IInv

\* The next stage, whether the IOCTL was answered or is skipped.
LEMMA IoctlDone ==
    ASSUME IInv, NEW i \in 1..5, pc = Ioctls[i], pc' = After(i),
           TransportState' = Reached(i), waiting' = FALSE,
           waiting \/ Skipped(i), waiting => ~Skipped(i),
           UNCHANGED <<inputs, sent, IoTargetSerial, LastFailureReason, LastFailureStatus,
                       DeviceInitialized, root, fault>>
    PROVE  IInv'
<1>1. TransportState' \in States /\ TransportState' # "Operational"
  BY AtIoctl DEF Reached, States
<1>2. sent' \in Seq(IoctlStages) /\ waiting' \in BOOLEAN
  BY IoctlList DEF IInv, TypeOK
<1>3. TypeOK' /\ Passed' /\ Reported'
  BY <1>1, <1>2, IoctlMoves
<1>4. /\ UNCHANGED <<board, resources, sent, IoTargetSerial>> /\ IoTargetSerial = "started"
      /\ IfxBtPlatformValidateUartConfig(board.uart) = "SUCCESS" /\ resources.uart = "valid"
  BY AtIoctl DEF inputs
<1>5. CASE i # 5
  <2>1. i + 1 \in 1..5 /\ pc' = Ioctls[i + 1] /\ waiting
    BY <1>5, IoctlList DEF After, Skipped
  <2>2. pc' \in IoctlStages /\ pc' \in PastContract /\ pc' \notin PastPort /\ pc' # "gone"
    <3>1. pc' \in IoctlStages
      BY <2>1, IoctlList DEF IoctlStages
    <3>. QED BY <3>1 DEF IoctlStages, PastContract, PastPort, PastPower, PastFirmware,
                PastController
  <2>3. ASSUME NEW k \in 1..5, pc' = Ioctls[k]
        PROVE  sent' = SubSeq(Ioctls, 1, IF waiting' THEN k ELSE k - 1)
    <3>1. k = i + 1
      BY <2>1, <2>3, IoctlsDiffer
    <3>2. k - 1 = i
      BY <3>1
    <3>3. sent = SubSeq(Ioctls, 1, i)
      BY <2>1, AtIoctl
    <3>. QED BY <1>4, <3>2, <3>3
  <2>. QED BY <1>3, <1>4, <2>2, <2>3 DEF Settings, IInv
<1>6. CASE i = 5
  <2>1. pc' = "power" /\ pc = "PURGE"
    BY <1>6, IoctlList DEF After
  <2>2. sent = IF waiting THEN SubSeq(Ioctls, 1, 5) ELSE SubSeq(Ioctls, 1, 4)
    <3>1. 5 - 1 = 4
      OBVIOUS
    <3>2. sent = SubSeq(Ioctls, 1, IF waiting THEN 5 ELSE 5 - 1)
      BY <1>6, AtIoctl
    <3>. QED BY <3>1, <3>2
  <2>3. Skipped(i) <=> board.uart.PurgeMask = {}
    BY <1>6, <2>1 DEF Skipped
  <2>4. sent' = IF board'.uart.PurgeMask = {} THEN SubSeq(Ioctls, 1, 4) ELSE Ioctls
    <3>1. SubSeq(Ioctls, 1, 5) = Ioctls
      BY IoctlPrefixes
    <3>. QED BY <1>4, <2>2, <2>3, <3>1
  <2>5. /\ pc' \in PastContract /\ pc' # "gone" /\ pc' # "PURGE"
        /\ \A k \in 1..5 : pc' # Ioctls[k]
    BY <2>1, IoctlList DEF PastContract, PastPort
  <2>. QED BY <1>3, <1>4, <2>4, <2>5 DEF Settings, IInv
<1>. QED BY <1>5, <1>6

LEMMA IoctlIInv ==
    ASSUME IInv, NEW i \in 1..5,
           SendIoctl(i) \/ SkipIoctl(i) \/ IoctlSucceeds(i) \/ IoctlFails(i) \/ IoctlTimesOut(i)
    PROVE  IInv'
<1>1. CASE SkipIoctl(i)
  <2>1. pc = Ioctls[i] /\ pc' = After(i) /\ TransportState' = Reached(i) /\ Skipped(i)
    BY <1>1 DEF SkipIoctl, Passes
  <2>2. UNCHANGED <<inputs, serial, IoTargetSerial, LastFailureReason, LastFailureStatus,
                    DeviceInitialized, root, fault>>
    BY <1>1 DEF SkipIoctl, Passes
  <2>3. ~waiting /\ waiting \in BOOLEAN
    BY <2>1 DEF Skipped, IInv, Settings, TypeOK
  <2>. QED BY <2>1, <2>2, <2>3, IoctlDone DEF serial
<1>2. CASE IoctlSucceeds(i)
  <2>1. ~Skipped(i)
    BY <1>2 DEF IoctlSucceeds, Skipped, IInv, Settings
  <2>. QED BY <1>2, <2>1, IoctlDone DEF IoctlSucceeds
<1>3. CASE IoctlFails(i) \/ IoctlTimesOut(i)
  <2>1. Ioctls[i] \in MayFail
    BY IoctlIsStage DEF MayFail
  <2>2. /\ {"UNSUCCESSFUL", "IO_TIMEOUT"} \subseteq Statuses /\ "UartConfigFailed" \in Reasons
    BY DEF Statuses, Reasons
  <2>3. \/ Fails(Ioctls[i], "latch", "UartConfigFailed", "UNSUCCESSFUL", TRUE)
        \/ Fails(Ioctls[i], "latch", "UartConfigFailed", "IO_TIMEOUT", TRUE)
    BY <1>3 DEF IoctlFails, IoctlTimesOut
  <2>. QED BY <2>1, <2>2, <2>3, FailsIInv
<1>. QED BY <1>1, <1>2, <1>3, SendIInv

\* The power, the firmware and the controller.
LEMMA ReadinessIInv ==
    ASSUME IInv, PowerReadiness \/ EvaluateFirmware \/ ValidateController
    PROVE  IInv'
<1>0. Passed /\ board \in BoardContracts
  BY BoardTyped DEF IInv
<1>1. CASE PowerReadiness
  <2>1. CASE Powered
    <3>1. Passes("power", "firmware", "PlatformPowered")
      BY <1>1, <2>1 DEF PowerReadiness, Powered, Fails
    <3>2. Passed'
      BY <1>0, <2>1, <3>1 DEF Passes, inputs, Passed, Powered, PastResources, PastOpen,
             PastEnable, PastPowerOn, PastPlatform, PastContract, PastPort, PastPower,
             PastFirmware, PastController, IoctlStages
    <3>3. /\ "power" \in Stages \ (Lost \cup PastController) /\ "firmware" \in Stages \ Lost
          /\ "power" \in PastPort /\ "firmware" \in PastPort /\ "power" \in PastOpen
          /\ "PlatformPowered" \in States /\ ("PlatformPowered" = "Operational" => "firmware" \in PastController)
      BY DEF Stages, States, Lost, PastOpen, PastEnable, PastPowerOn, PastPlatform, PastContract,
             PastPort, PastPower, PastFirmware, PastController, IoctlStages
    <3>. QED BY <3>1, <3>2, <3>3, StagePasses
  <2>2. CASE ~Powered
    <3>1. Fails("power", "latch", IfxBtMapPowerFailureReason(board.power, PowerStatus),
                PowerStatus, FALSE)
      BY <1>1, <2>2 DEF PowerReadiness, PowerStatus, Powered
    <3>2. Clear(7) /\ 7 \in 0..11 /\ 8 \in 0..11 /\ 7 + 1 = 8 /\ 8 + 1 = 9
      BY <1>0, <3>1, Cleared DEF Fails, PastContract, PastPort
    <3>3. PowerStatus \in Statuses /\ PowerStatus # "SUCCESS"
      BY <1>0, <2>2, ContractStatuses DEF PowerStatus, Powered
    <3>4. CASE PowerStatus = "DEVICE_NOT_READY"
      <4>1. FirstObstacle(Obstacles) = "PowerResourcesPlaceholder"
        BY <3>2, <3>4, ObstacleRows, ClearReason, ReasonTable
      <4>2. IfxBtMapPowerFailureReason(board.power, PowerStatus) = "PowerResourcesPlaceholder"
        BY <3>4, PowerNotReady DEF IfxBtMapPowerFailureReason
      <4>. QED BY <3>1, <3>3, <4>1, <4>2, FailsIInv DEF MayFail, Reasons
    <3>5. CASE PowerStatus # "DEVICE_NOT_READY"
      <4>1. ~Obstacles[7 + 1].blocked /\ Obstacles[8 + 1].blocked
        BY <3>2, <3>3, <3>5, ObstacleRows
      <4>2. Clear(8)
        BY <3>2, <4>1, ClearNext
      <4>3. FirstObstacle(Obstacles) = "PowerSequenceFailed"
        BY <3>2, <4>1, <4>2, ClearReason, ReasonTable
      <4>4. IfxBtMapPowerFailureReason(board.power, PowerStatus) = "PowerSequenceFailed"
        BY <3>5 DEF IfxBtMapPowerFailureReason
      <4>. QED BY <3>1, <3>3, <4>3, <4>4, FailsIInv DEF MayFail, Reasons
    <3>. QED BY <3>4, <3>5
  <2>. QED BY <2>1, <2>2
<1>2. CASE EvaluateFirmware
  <2>. DEFINE status == IfxBtFirmwareEvaluateInitialization(board)
  <2>1. CASE status = "SUCCESS"
    <3>1. Passes("firmware", "controller", "BaudSynchronized")
      BY <1>2, <2>1 DEF EvaluateFirmware
    <3>2. Passed'
      BY <1>0, <2>1, <3>1 DEF Passes, inputs, Passed, Powered, PastResources, PastOpen,
             PastEnable, PastPowerOn, PastPlatform, PastContract, PastPort, PastPower,
             PastFirmware, PastController, IoctlStages
    <3>3. /\ "firmware" \in Stages \ (Lost \cup PastController) /\ "controller" \in Stages \ Lost
          /\ "firmware" \in PastPort /\ "controller" \in PastPort /\ "firmware" \in PastOpen
          /\ "BaudSynchronized" \in States /\ ("BaudSynchronized" = "Operational" => "controller" \in PastController)
      BY DEF Stages, States, Lost, PastOpen, PastEnable, PastPowerOn, PastPlatform, PastContract,
             PastPort, PastPower, PastFirmware, PastController, IoctlStages
    <3>. QED BY <3>1, <3>2, <3>3, StagePasses
  <2>2. CASE status # "SUCCESS"
    <3>1. Fails("firmware", "latch",
                IF status = "DEVICE_NOT_READY" /\ board.firmware.PlaceholderFirmwareContract
                THEN "FirmwareSequencePlaceholder" ELSE "VendorCommandFailed", status, FALSE)
      BY <1>2, <2>2 DEF EvaluateFirmware
    <3>2. Clear(9) /\ 9 \in 0..11 /\ 10 \in 0..11 /\ 9 + 1 = 10 /\ 10 + 1 = 11
      BY <1>0, <3>1, Cleared DEF Fails, PastPower
    <3>3. status \in Statuses
      BY <1>0, ContractStatuses
    <3>4. PlatformOk
      BY <1>0, <3>1 DEF Fails, Passed, PlatformOk, PastPlatform, PastContract, PastPort, PastPower
    <3>5. CASE board.firmware.PlaceholderFirmwareContract /\ Shaped
      <4>1. FirstObstacle(Obstacles) = "FirmwareSequencePlaceholder"
        BY <3>2, <3>5, ObstacleRows, ClearReason, ReasonTable
      <4>2. status = "DEVICE_NOT_READY"
        BY <3>4, <3>5 DEF PlatformOk, Shaped, IfxBtFirmwareEvaluateInitialization,
           IfxBtFirmwareValidateContract, HoldsPlaceholder
      <4>. QED BY <3>1, <3>3, <3>5, <4>1, <4>2, FailsIInv DEF MayFail, Reasons
    <3>6. CASE ~(board.firmware.PlaceholderFirmwareContract /\ Shaped)
      <4>1. \/ HoldsPlaceholder(board.firmware) \/ ~Shaped
            \/ board.firmware.FirmwareRequirement = "Required" \/ ~board.sequencer
        BY <2>2, <3>4 DEF PlatformOk, Shaped, IfxBtFirmwareEvaluateInitialization,
           IfxBtFirmwareValidateContract
      <4>2. ~Obstacles[9 + 1].blocked /\ Obstacles[10 + 1].blocked
        BY <3>2, <3>6, <4>1, ObstacleRows
      <4>3. Clear(10)
        BY <3>2, <4>2, ClearNext
      <4>4. FirstObstacle(Obstacles) = "VendorCommandFailed"
        BY <3>2, <4>2, <4>3, ClearReason, ReasonTable
      <4>5. ~(status = "DEVICE_NOT_READY" /\ board.firmware.PlaceholderFirmwareContract)
        BY <3>4, <3>6 DEF PlatformOk, Shaped, IfxBtFirmwareEvaluateInitialization,
           IfxBtFirmwareValidateContract
      <4>. QED BY <3>1, <3>3, <4>4, <4>5, FailsIInv DEF MayFail, Reasons
    <3>. QED BY <3>5, <3>6
  <2>. QED BY <2>1, <2>2
<1>3. CASE ValidateController
  <2>. DEFINE status == IfxBtFirmwareValidateControllerReadyPlaceholder(board)
  <2>1. CASE status = "SUCCESS"
    <3>1. Passes("controller", "assign", "Operational")
      BY <1>3, <2>1 DEF ValidateController
    <3>2. Passed'
      BY <1>0, <2>1, <3>1 DEF Passes, inputs, Passed, Powered, PastResources, PastOpen,
             PastEnable, PastPowerOn, PastPlatform, PastContract, PastPort, PastPower,
             PastFirmware, PastController, IoctlStages
    <3>3. /\ "controller" \in Stages \ (Lost \cup PastController) /\ "assign" \in Stages \ Lost
          /\ "controller" \in PastPort /\ "assign" \in PastPort /\ "controller" \in PastOpen
          /\ "Operational" \in States /\ ("Operational" = "Operational" => "assign" \in PastController)
      BY DEF Stages, States, Lost, PastOpen, PastEnable, PastPowerOn, PastPlatform, PastContract,
             PastPort, PastPower, PastFirmware, PastController, IoctlStages
    <3>. QED BY <3>1, <3>2, <3>3, StagePasses
  <2>2. CASE status # "SUCCESS"
    <3>1. Fails("controller", "latch",
                IF status = "DEVICE_NOT_READY" THEN "ControllerValidationPlaceholder"
                                               ELSE "ControllerValidationFailed", status, FALSE)
      BY <1>3, <2>2 DEF ValidateController
    <3>2. Clear(11) /\ 11 \in 0..11 /\ 11 + 1 = 12
      BY <1>0, <3>1, Cleared DEF Fails, PastFirmware
    <3>3. pc \in PastFirmware /\ pc \in PastPlatform
      BY <3>1 DEF Fails, PastPlatform, PastContract, PastPort, PastPower, PastFirmware
    <3>4. PlatformOk /\ Shaped
      BY <1>0, <3>3, FirmwareReady DEF Passed, PlatformOk
    <3>5. status = "DEVICE_NOT_READY" /\ ~board.validation
      BY <2>2, <3>4 DEF PlatformOk, Shaped, IfxBtFirmwareValidateControllerReadyPlaceholder
    <3>6. FirstObstacle(Obstacles) = "ControllerValidationPlaceholder"
      BY <3>2, <3>5, ObstacleRows, ClearReason, ReasonTable
    <3>. QED BY <3>1, <3>5, <3>6, FailsIInv DEF MayFail, Reasons, Statuses
  <2>. QED BY <2>1, <2>2
<1>. QED BY <1>1, <1>2, <1>3

\* The caller of DeviceInitialize, and the way back of a start that failed.
LEMMA CallerIInv ==
    ASSUME IInv, DeviceInitialize \/ LatchFailure \/ ReleaseHardware
    PROVE  IInv'
<1>. USE DEF DeviceInitialize, LatchFailure, ReleaseHardware, IfxBtSetFailureReason, inputs, serial
<1>1. TypeOK'
  BY DEF IInv, TypeOK, Stages, States
<1>2. Passed'
  BY DEF IInv, Passed, Powered, PastResources, PastOpen, PastEnable, PastPowerOn, PastPlatform,
         PastContract, PastPort, PastPower, PastFirmware, PastController, IoctlStages
<1>3. Settings'
  <2>1. /\ pc \in {"assign"} \cup Lost /\ pc' \in {"ready"} \cup Lost
        /\ pc' = "ready" <=> pc = "assign"
        /\ UNCHANGED <<board, resources, waiting, sent>>
        /\ pc' # "gone" => pc # "gone" /\ UNCHANGED IoTargetSerial
    BY DEF Lost
  <2>2. /\ pc' \notin IoctlStages /\ pc \notin IoctlStages
        /\ pc' \in PastPort <=> pc \in PastPort
        /\ pc' \in PastOpen <=> pc \in PastOpen
        /\ pc' \in PastContract \cup Lost
    BY <2>1 DEF Lost, PastOpen, PastEnable, PastPowerOn, PastPlatform, PastContract, PastPort,
           PastPower, PastFirmware, PastController, IoctlStages
  <2>3. \A i \in 1..5 : pc' # Ioctls[i]
    BY <2>2, IoctlIsStage
  <2>4. pc' \in PastOpen => pc' # "gone"
    BY DEF PastOpen, PastEnable, PastPowerOn, PastPlatform, PastContract, PastPort, PastPower,
           PastFirmware, PastController, IoctlStages
  <2>. QED BY <2>1, <2>2, <2>3, <2>4 DEF IInv, Settings
<1>4. Reported'
  <2>1. CASE DeviceInitialize
    BY <2>1 DEF IInv, Reported, Lost, PastController
  <2>2. CASE LatchFailure
    BY <2>2, ObstaclesStable DEF IInv, Reported, Lost
  <2>3. CASE ReleaseHardware
    BY <2>3, ObstaclesStable DEF IInv, Reported, Lost
  <2>. QED BY <2>1, <2>2, <2>3
<1>. QED BY <1>1, <1>2, <1>3, <1>4 DEF IInv

LEMMA NextIInv == IInv /\ [Next]_vars => IInv'
<1>. SUFFICES ASSUME IInv, [Next]_vars PROVE IInv'
  OBVIOUS
<1>1. CASE UNCHANGED vars
  <2>1. UNCHANGED <<board, resources, pc, waiting, sent, IoTargetSerial, TransportState,
                    LastFailureReason, LastFailureStatus, DeviceInitialized, root, fault>>
    BY <1>1 DEF vars, inputs, serial, state
  <2>2. FirstObstacle(Obstacles)' = FirstObstacle(Obstacles)
    BY <2>1, ObstaclesStable DEF inputs
  <2>. QED BY <2>1, <2>2 DEF IInv, TypeOK, Passed, Powered, Settings, Reported
<1>2. CASE Next
  <2>1. 1..Len(Ioctls) = 1..5
    BY IoctlList
  <2>. QED BY <1>1, <1>2, <2>1, OpeningIInv, PowersIInv, ValidateIInv, IoctlIInv, ReadinessIInv,
              CallerIInv DEF Next, Driver, Port, Ended
<1>. QED BY <1>1, <1>2

LEMMA Invariance == Spec => []IInv
BY InitIInv, NextIInv, PTL DEF Spec

-----------------------------------------------------------------------------
(* The theorems.                                                           *)

\* Every variable keeps its range.
THEOREM TypeCorrect == Spec => []TypeOK
BY Invariance, PTL DEF IInv

\* No serial IOCTL is sent for a contract that is a placeholder, or to a port that is
\* not open (IfxBtConfigureUart).
THEOREM NoSettingsFromPlaceholders == Spec => []NoIoctlFromPlaceholder
<1>1. IInv => NoIoctlFromPlaceholder
  BY DEF IInv, Settings, NoIoctlFromPlaceholder, IfxBtPlatformValidateUartConfig
<1>. QED BY <1>1, Invariance, PTL

\* The second latch keeps the reason and the status of the stage that failed
\* (IfxBtPreserveLatchedFailureStatus).
THEOREM RootCauseKept == Spec => []RootStatusKept
<1>1. IInv => RootStatusKept
  BY DEF IInv, Reported, RootStatusKept, Lost
<1>. QED BY <1>1, Invariance, PTL

\* On every board the start reports the first obstacle, or there is none.
THEOREM FirstObstacleReported == Spec => []ReasonIsFirstObstacle
<1>1. IInv => ReasonIsFirstObstacle
  <2>. SUFFICES ASSUME IInv PROVE ReasonIsFirstObstacle
    OBVIOUS
  <2>1. pc \in {"failed", "gone"} /\ ~fault => LastFailureReason = FirstObstacle(Obstacles)
    BY DEF IInv, Reported, Lost
  <2>2. pc = "ready" => \A i \in DOMAIN Obstacles : ~Obstacles[i].blocked
    BY Cleared, ObstacleRows DEF IInv, PastController, Clear
  <2>. QED BY <2>1, <2>2 DEF ReasonIsFirstObstacle
<1>. QED BY <1>1, Invariance, PTL

\* Whatever the board says, the transport is operational only with every line setting
\* applied, a controller that is powered, the firmware types of a port, and no placeholder in
\* any contract but that of the platform, which is one in every part.
THEOREM OperationalIsComplete == Spec => []OperationalNeedsEverything
<1>1. IInv => OperationalNeedsEverything
  <2>. SUFFICES ASSUME IInv, TransportState = "Operational" \/ DeviceInitialized
                PROVE  /\ sent = IF board.uart.PurgeMask = {} THEN SubSeq(Ioctls, 1, 4) ELSE Ioctls
                       /\ AllPlaceholders(board.platform)
                       /\ ~board.uart.PlaceholderUartConfig
                       /\ ~board.power.PlaceholderPowerConfig
                       /\ "PlaceholderUnknown" \notin OwnershipsOf(board.power)
                       /\ ~HoldsPlaceholder(board.firmware)
                       /\ board.power.PowerOwnership
                             \in {"PlatformOwnedAlwaysOn", "AcpiPowerResourceOwned"}
                       /\ board.firmware.FirmwareFileType \in PortFileTypes
                       /\ board.firmware.VendorCommandSequence \in PortSequences
                       /\ board.sequencer /\ board.validation
    BY DEF OperationalNeedsEverything
  <2>1. /\ pc \in PastController /\ pc \in PastFirmware /\ pc \in PastPower /\ pc \in PastPort
    BY PastOrder DEF IInv, Reported
  <2>2. sent = IF board.uart.PurgeMask = {} THEN SubSeq(Ioctls, 1, 4) ELSE Ioctls
    BY <2>1 DEF IInv, Settings
  <2>3. Powered /\ IfxBtFirmwareEvaluateInitialization(board) = "SUCCESS"
    BY <2>1 DEF IInv, Passed
  <2>4. board.validation
    BY <2>1 DEF IInv, Passed, IfxBtFirmwareValidateControllerReadyPlaceholder
  <2>5. AllPlaceholders(board.platform)
    <3>1. IfxBtPlatformValidateConfig(board.platform) = "SUCCESS"
      BY <2>3 DEF Powered, IfxBtPowerOnController
    <3>. QED BY <3>1 DEF IfxBtPlatformValidateConfig, IfxBtPlatformValidatePowerResources,
                         AllPlaceholders
  <2>6. ~board.uart.PlaceholderUartConfig
    <3>1. IfxBtPlatformValidateUartConfig(board.uart) = "SUCCESS"
      BY <2>1 DEF IInv, Passed, PastPort, PastContract
    <3>. QED BY <3>1 DEF IfxBtPlatformValidateUartConfig
  <2>. QED BY <2>2, <2>3, <2>4, <2>5, <2>6, PoweredOwner, FirmwareReady, FirmwareOfAPort, BoardTyped
<1>. QED BY <1>1, Invariance, PTL

\* As long as no port has added a firmware file type and a command sequence to the
\* enumerations of IfxBtFirmware.h, no board at all can start.
NeverOperational == TransportState # "Operational" /\ ~DeviceInitialized

THEOREM NothingStartsYet ==
    PortFileTypes = {} \/ PortSequences = {} => (Spec => []NeverOperational)
<1>. SUFFICES ASSUME PortFileTypes = {} \/ PortSequences = {} PROVE Spec => []NeverOperational
  OBVIOUS
<1>1. TypeOK /\ OperationalNeedsEverything => NeverOperational
  BY DEF TypeOK, OperationalNeedsEverything, NeverOperational
<1>. QED BY <1>1, TypeCorrect, OperationalIsComplete, PTL

-----------------------------------------------------------------------------
(* The refinement.  A start in detail is a start of Lifecycle: its stages  *)
(* fail for the reasons Lifecycle gives, and what Lifecycle does in one    *)
(* stage, enabling the device and configuring the UART, is done when the   *)
(* last of the steps it stands for is.                                     *)

\* A reason is recorded by the stage that fails, and by no other.
Caused ==
    /\ pc \in Lost => LastFailureReason # "None"
    /\ pc \notin Lost => root.reason = "None"

RefInv == IInv /\ Caused

LEMMA InitRefInv == Init => RefInv
BY InitIInv DEF RefInv, Caused, Init, Lost

\* What a failing stage gives for a reason is one.
LEMMA FailsCaused ==
    ASSUME NEW stage, NEW next \in {"latch", "failed"}, NEW reason, NEW status, NEW by,
           Fails(stage, next, reason, status, by), reason # "None"
    PROVE  Caused'
BY DEF Fails, IfxBtSetFailureReason, Caused, Lost

LEMMA PassesCaused ==
    ASSUME NEW stage, stage \notin Lost, NEW next, next \notin Lost, NEW reached,
           Caused, Passes(stage, next, reached)
    PROVE  Caused'
BY DEF Passes, Caused

\* How far a start has come in the terms of Lifecycle.
StageTable ==
    /\ pc = "power on" => StageOf = "enable"
    /\ pc \in {"platform", "contract"} \cup IoctlStages => StageOf = "uart"
    /\ pc \notin {"power on", "platform", "contract"} \cup IoctlStages => StageOf = pc

LEMMA StageIs == StageTable
<1>1. pc = "power on" => pc \notin {"platform", "contract"} \cup IoctlStages
  BY DEF IoctlStages
<1>. QED BY <1>1, IoctlList DEF StageOf, StageTable

LEMMA StageIsNext == StageTable'
BY StageIs, PTL

-----------------------------------------------------------------------------
(* The three kinds of steps.                                               *)

LEMMA DeviceStutters ==
    ASSUME UNCHANGED <<inputs, IoTargetSerial, TransportState, LastFailureReason,
                       DeviceInitialized, root>>,
           StageOf' = StageOf, pc # "added", pc' # "added"
    PROVE  UNCHANGED Device!vars
BY DEF inputs, Device!vars, Device!state, Device!childList, Device!pnp,
       UartPlaceholder, PowerOf, FirmwarePlaceholder

LEMMA DevicePasses ==
    ASSUME NEW stage, NEW next, NEW reached, StageOf = stage, StageOf' = next,
           TransportState' = reached,
           UNCHANGED <<inputs, IoTargetSerial, LastFailureReason, DeviceInitialized, root>>,
           pc # "added", pc' # "added"
    PROVE  Device!Passes(stage, next, reached)
BY DEF inputs, Device!Passes, Device!Goes, Device!IfxBtSetTransportState, Device!childList,
       Device!pnp, UartPlaceholder, PowerOf, FirmwarePlaceholder

LEMMA DeviceFails ==
    ASSUME NEW stage, NEW next \in {"latch", "failed"}, NEW reason, NEW status, NEW by,
           Fails(stage, next, reason, status, by), stage # "added"
    PROVE  Device!StageFails(StageOf, next, reason)
<1>1. StageOf' = next /\ pc # "added" /\ pc' # "added"
  BY StageIsNext DEF Fails, IoctlStages, StageTable
<1>. QED BY <1>1
     DEF Fails, IfxBtSetFailureReason, inputs, Device!StageFails, Device!Goes,
       Device!IfxBtSetFailureReason, Device!childList,
       UartPlaceholder, PowerOf, FirmwarePlaceholder


-----------------------------------------------------------------------------
(* The steps.                                                              *)

DeviceSteps == [Device!Next]_(Device!vars)

LEMMA DeviceInit == Init => Device!Init
<1>. SUFFICES ASSUME Init PROVE Device!Init
  OBVIOUS
<1>1. board \in BoardContracts /\ resources \in Resources
  BY BoardsAssumption DEF Init
<1>2. PowerOf \in {"placeholder", "platform", "driver"}
  BY DEF PowerOf
<1>3. /\ (~UartPlaceholder) \in BOOLEAN /\ (~FirmwarePlaceholder) \in BOOLEAN
      /\ board.validation \in BOOLEAN
      /\ (resources.gpio \/ resources.i2c) \in BOOLEAN
  BY <1>1 DEF BoardContracts, Resources
<1>4. StageOf = "added"
  BY StageIs DEF Init, StageTable, IoctlStages
<1>. QED BY <1>2, <1>3, <1>4 DEF Init, Device!Init, Device!Configs, Device!Threads

\* FdoDevPrepareHardware, up to DeviceEnable.
LEMMA DeviceOpens ==
    ASSUME RefInv, PrepareHardware \/ FdoFindConnectResources \/ FdoOpenDevice
                   \/ HlpInitializeFdoExtension
    PROVE  DeviceSteps /\ Caused'
<1>. USE DEF DeviceSteps, Device!Next, Device!Start, RefInv
<1>1. CASE PrepareHardware
  <2>1. StageOf = "added" /\ StageOf' = "resources"
    BY <1>1, StageIs, StageIsNext DEF PrepareHardware, StageTable, IoctlStages
  <2>2. root.reason = "None"
    BY <1>1 DEF PrepareHardware, Caused, Lost
  <2>3. Device!PrepareHardware
    BY <1>1, <2>1, <2>2 DEF PrepareHardware, inputs, Device!PrepareHardware, Device!Goes,
       Device!childList, UartPlaceholder, PowerOf, FirmwarePlaceholder
  <2>4. Caused'
    BY <1>1 DEF PrepareHardware, Caused, Lost
  <2>. QED BY <2>3, <2>4
<1>2. CASE FdoFindConnectResources
  <2>1. CASE Passes("resources", "open", "ResourcesParsed")
    <3>1. StageOf = "resources" /\ StageOf' = "open"
      BY <2>1, StageIs, StageIsNext DEF Passes, StageTable, IoctlStages
    <3>2. Device!Passes("resources", "open", "ResourcesParsed")
      BY <2>1, <3>1, DevicePasses DEF Passes
    <3>. QED BY <2>1, <3>2, PassesCaused DEF Device!FdoFindConnectResources, Lost
  <2>2. CASE Fails("resources", "failed", "MissingUartResource", "NOT_FOUND", FALSE)
    <3>1. StageOf = "resources"
      BY <2>2, StageIs DEF Fails, StageTable, IoctlStages
    <3>2. Device!StageFails("resources", "failed", "MissingUartResource")
      BY <2>2, <3>1, DeviceFails
    <3>. QED BY <2>2, <3>2, FailsCaused DEF Device!FdoFindConnectResources
  <2>. QED BY <1>2, <2>1, <2>2 DEF FdoFindConnectResources
<1>3. CASE FdoOpenDevice
  <2>1. CASE pc = "open" /\ pc' = "extension" /\ resources.uart = "valid"
    <3>1. StageOf = "open" /\ StageOf' = "extension"
      BY <2>1, StageIs, StageIsNext DEF StageTable, IoctlStages
    <3>2. /\ IoTargetSerial' = "started" /\ TransportState' = "UartOpened"
          /\ UNCHANGED <<inputs, LastFailureReason, DeviceInitialized, root>>
      BY <1>3, <2>1 DEF FdoOpenDevice, Fails
    <3>3. Device!FdoOpenDevice
      BY <2>1, <3>1, <3>2 DEF inputs, Device!FdoOpenDevice, Device!Goes, Device!childList,
         Device!IfxBtSetTransportState, UartPlaceholder, PowerOf, FirmwarePlaceholder
    <3>4. Caused'
      BY <2>1, <3>2 DEF Caused, Lost
    <3>. QED BY <3>3, <3>4
  <2>2. CASE \/ Fails("open", "failed", "UartOpenFailed", "NOT_FOUND", FALSE)
             \/ Fails("open", "failed", "UartOpenFailed", "UNSUCCESSFUL", TRUE)
    <3>1. StageOf = "open"
      BY <2>2, StageIs DEF Fails, StageTable, IoctlStages
    <3>2. Device!StageFails("open", "failed", "UartOpenFailed")
      BY <2>2, <3>1, DeviceFails
    <3>. QED BY <2>2, <3>2, FailsCaused DEF Device!FdoOpenDevice
  <2>. QED BY <1>3, <2>1, <2>2 DEF FdoOpenDevice
<1>4. CASE HlpInitializeFdoExtension
  <2>1. CASE Passes("extension", "enable", TransportState)
    <3>1. StageOf = "extension" /\ StageOf' = "enable"
      BY <2>1, StageIs, StageIsNext DEF Passes, StageTable, IoctlStages
    <3>2. Device!Passes("extension", "enable", TransportState)
      BY <2>1, <3>1, DevicePasses DEF Passes
    <3>. QED BY <2>1, <3>2, PassesCaused DEF Device!HlpInitializeFdoExtension, Lost
  <2>2. CASE Fails("extension", "failed", "UartConfigFailed", "UNSUCCESSFUL", TRUE)
    <3>1. StageOf = "extension"
      BY <2>2, StageIs DEF Fails, StageTable, IoctlStages
    <3>2. Device!StageFails("extension", "failed", "UartConfigFailed")
      BY <2>2, <3>1, DeviceFails
    <3>. QED BY <2>2, <3>2, FailsCaused DEF Device!HlpInitializeFdoExtension
  <2>. QED BY <1>4, <2>1, <2>2 DEF HlpInitializeFdoExtension
<1>. QED BY <1>1, <1>2, <1>3, <1>4

\* The reason of a board whose controller is not powered is that of Lifecycle.
LEMMA PowerReason ==
    /\ Powered <=> PowerOf = "platform"
    /\ ~Powered => IfxBtMapPowerFailureReason(board.power, PowerStatus)
                      = IF PowerOf = "placeholder" THEN "PowerResourcesPlaceholder"
                                                   ELSE "PowerSequenceFailed"
BY PowerNotReady DEF Powered, PowerStatus, PowerOf, IfxBtMapPowerFailureReason

\* DeviceEnable and DevicePowerOn are one stage of Lifecycle.
LEMMA DevicePowers ==
    ASSUME RefInv, DeviceEnable \/ DevicePowerOn
    PROVE  DeviceSteps /\ Caused'
<1>. USE DEF DeviceSteps, Device!Next, Device!Start, RefInv
<1>1. CASE Passes("enable", "power on", TransportState)
  <2>1. StageOf = "enable" /\ StageOf' = "enable"
    BY <1>1, StageIs, StageIsNext DEF Passes, StageTable, IoctlStages
  <2>2. UNCHANGED Device!vars
    BY <1>1, <2>1, DeviceStutters DEF Passes
  <2>. QED BY <1>1, <2>2, PassesCaused DEF Lost
<1>2. CASE Passes("power on", "platform", TransportState) /\ (resources.i2c => Powered)
  <2>1. StageOf = "enable" /\ StageOf' = "uart"
    BY <1>2, StageIs, StageIsNext DEF Passes, StageTable, IoctlStages
  <2>2. Device!Passes("enable", "uart", TransportState)
    BY <1>2, <2>1, DevicePasses DEF Passes
  <2>3. resources.gpio => Powered
    BY <1>2 DEF IInv, Passed, Passes, PastEnable
  <2>4. Device!DeviceEnable
    BY <1>2, <2>2, <2>3, PowerReason DEF Device!DeviceEnable
  <2>5. Caused'
    BY <1>2, PassesCaused DEF Lost
  <2>. QED BY <2>4, <2>5
<1>3. ASSUME NEW stage \in {"enable", "power on"}, Connected, ~Powered,
             Fails(stage, "failed", IfxBtMapPowerFailureReason(board.power, PowerStatus),
                   PowerStatus, FALSE)
      PROVE  DeviceSteps /\ Caused'
  <2>1. StageOf = "enable"
    BY <1>3, StageIs DEF Fails, StageTable, IoctlStages
  <2>. DEFINE reason == IfxBtMapPowerFailureReason(board.power, PowerStatus)
  <2>2. reason = Device!PowerFailure /\ reason # "None"
    BY <1>3, PowerReason DEF Device!PowerFailure
  <2>. HIDE DEF reason
  <2>3. Fails(stage, "failed", reason, PowerStatus, FALSE)
    BY <1>3 DEF reason
  <2>4. Device!StageFails("enable", "failed", reason)
    BY <2>1, <2>3, DeviceFails
  <2>5. Device!DeviceEnable
    BY <1>3, <2>2, <2>4, PowerReason DEF Device!DeviceEnable, Connected
  <2>6. Caused'
    BY <2>2, <2>3, FailsCaused
  <2>. QED BY <2>5, <2>6
<1>. QED BY <1>1, <1>2, <1>3
     DEF DeviceEnable, DevicePowerOn, Powers, Powered, PowerStatus, Connected


\* The checks and the IOCTLs of IfxBtConfigureUart are one stage of Lifecycle, and
\* any of them may end it.
LEMMA UartFails ==
    ASSUME RefInv, NEW stage \in {"platform", "contract"} \cup IoctlStages, NEW reason, NEW status,
           NEW by, Fails(stage, "latch", reason, status, by),
           reason = IF UartPlaceholder THEN "UartConfigPlaceholder" ELSE "UartConfigFailed"
    PROVE  DeviceSteps /\ Caused'
<1>1. StageOf = "uart"
  BY StageIs DEF Fails, StageTable
<1>2. Device!StageFails("uart", "latch", reason)
  BY <1>1, DeviceFails DEF IoctlStages
<1>3. Device!IfxBtConfigureUart
  BY <1>2 DEF Device!IfxBtConfigureUart
<1>4. Caused'
  BY FailsCaused
<1>. QED BY <1>3, <1>4 DEF DeviceSteps, Device!Next, Device!Start

LEMMA DeviceValidates ==
    ASSUME RefInv, ValidatePlatform \/ ValidateUart
    PROVE  DeviceSteps /\ Caused'
<1>. USE DEF DeviceSteps, Device!Next, Device!Start, RefInv
<1>1. ASSUME NEW stage \in {"platform", "contract"}, NEW next \in {"contract"} \cup IoctlStages,
             Passes(stage, next, TransportState)
      PROVE  DeviceSteps /\ Caused'
  <2>1. StageOf = "uart" /\ StageOf' = "uart"
    BY <1>1, StageIs, StageIsNext DEF Passes, StageTable
  <2>2. pc # "added" /\ pc' # "added" /\ stage \notin Lost /\ next \notin Lost
    BY <1>1 DEF Passes, Lost, IoctlStages
  <2>3. UNCHANGED Device!vars
    BY <1>1, <2>1, <2>2, DeviceStutters DEF Passes
  <2>. QED BY <1>1, <2>2, <2>3, PassesCaused
<1>2. CASE ValidatePlatform
  <2>1. CASE Passes("platform", "contract", TransportState)
    BY <1>1, <2>1
  <2>2. CASE ~PlatformOk /\ \E status : Fails("platform", "latch", "UartConfigFailed", status, FALSE)
    BY <2>2, UartFails DEF UartPlaceholder, PlatformOk
  <2>. QED BY <1>2, <2>1, <2>2 DEF ValidatePlatform, PlatformOk
<1>3. CASE ValidateUart
  <2>. DEFINE status == IfxBtPlatformValidateUartConfig(board.uart)
              reason == IF status = "DEVICE_NOT_READY" THEN "UartConfigPlaceholder"
                                                       ELSE "UartConfigFailed"
  <2>1. CASE Passes("contract", "SET_BAUD_RATE", TransportState)
    BY <1>1, <2>1 DEF IoctlStages
  <2>2. CASE Fails("contract", "latch", reason, status, FALSE)
    <3>1. PlatformOk
      BY <2>2 DEF Fails, IInv, Passed, PastPlatform, PlatformOk
    <3>2. reason = IF UartPlaceholder THEN "UartConfigPlaceholder" ELSE "UartConfigFailed"
      BY <3>1 DEF UartPlaceholder, PlatformOk
    <3>. QED BY <2>2, <3>2, UartFails
  <2>. QED BY <1>3, <2>1, <2>2 DEF ValidateUart
<1>. QED BY <1>2, <1>3

LEMMA DeviceConfigures ==
    ASSUME RefInv, NEW i \in 1..5,
           SendIoctl(i) \/ SkipIoctl(i) \/ IoctlSucceeds(i) \/ IoctlFails(i) \/ IoctlTimesOut(i)
    PROVE  DeviceSteps /\ Caused'
<1>. USE DEF DeviceSteps, Device!Next, Device!Start, RefInv
<1>0. pc = Ioctls[i] /\ pc \in IoctlStages /\ pc # "added" /\ pc \notin Lost /\ StageOf = "uart"
  <2>1. pc = Ioctls[i]
    BY DEF SendIoctl, SkipIoctl, IoctlSucceeds, IoctlFails, IoctlTimesOut, Passes, Fails
  <2>2. pc \in IoctlStages
    BY <2>1, IoctlIsStage
  <2>. QED BY <2>1, <2>2, StageIs DEF StageTable, IoctlStages, Lost
<1>1. ~UartPlaceholder /\ IoTargetSerial = "started"
  BY <1>0, AtIoctl DEF UartPlaceholder
<1>2. CASE SendIoctl(i)
  <2>1. UNCHANGED <<pc, inputs, IoTargetSerial, TransportState, LastFailureReason,
                    DeviceInitialized, root>>
    BY <1>2 DEF SendIoctl, state
  <2>2. StageOf' = StageOf
    BY <2>1 DEF StageOf
  <2>3. UNCHANGED Device!vars
    BY <1>0, <2>1, <2>2, DeviceStutters
  <2>. QED BY <2>1, <2>3 DEF Caused
<1>3. CASE SkipIoctl(i) \/ IoctlSucceeds(i)
  <2>1. /\ pc' = After(i) /\ TransportState' = Reached(i)
        /\ UNCHANGED <<inputs, IoTargetSerial, LastFailureReason, DeviceInitialized, root>>
    BY <1>3 DEF SkipIoctl, Passes, IoctlSucceeds
  <2>2. CASE i # 5
    <3>1. pc' \in IoctlStages /\ TransportState' = TransportState
      BY <2>1, <2>2, IoctlList DEF After, Reached, IoctlStages
    <3>2. StageOf' = "uart" /\ pc' # "added" /\ pc' \notin Lost
      BY <3>1, StageIsNext DEF StageTable, IoctlStages, Lost
    <3>3. UNCHANGED Device!vars
      BY <1>0, <2>1, <3>1, <3>2, DeviceStutters
    <3>. QED BY <1>0, <2>1, <3>2, <3>3 DEF Caused
  <2>3. CASE i = 5
    <3>1. pc' = "power" /\ TransportState' = "UartConfigured"
      BY <2>1, <2>3, IoctlList DEF After, Reached
    <3>2. StageOf' = "power"
      BY <3>1, StageIsNext DEF StageTable, IoctlStages
    <3>3. Device!Passes("uart", "power", "UartConfigured")
      BY <1>0, <2>1, <3>1, <3>2, DevicePasses
    <3>4. Device!IfxBtConfigureUart
      BY <1>1, <3>3 DEF Device!IfxBtConfigureUart
    <3>. QED BY <1>0, <2>1, <3>1, <3>4 DEF Caused, Lost
  <2>. QED BY <2>2, <2>3
<1>4. CASE IoctlFails(i) \/ IoctlTimesOut(i)
  <2>1. \/ Fails(Ioctls[i], "latch", "UartConfigFailed", "UNSUCCESSFUL", TRUE)
        \/ Fails(Ioctls[i], "latch", "UartConfigFailed", "IO_TIMEOUT", TRUE)
    BY <1>4 DEF IoctlFails, IoctlTimesOut
  <2>. QED BY <1>0, <1>1, <2>1, UartFails
<1>. QED BY <1>2, <1>3, <1>4

\* The power, the firmware and the controller.
LEMMA DeviceReadies ==
    ASSUME RefInv, PowerReadiness \/ EvaluateFirmware \/ ValidateController
    PROVE  DeviceSteps /\ Caused'
<1>. USE DEF DeviceSteps, Device!Next, Device!Start, RefInv
<1>1. CASE PowerReadiness
  <2>. DEFINE reason == IfxBtMapPowerFailureReason(board.power, PowerStatus)
  <2>1. CASE Powered /\ Passes("power", "firmware", "PlatformPowered")
    <3>1. StageOf = "power" /\ StageOf' = "firmware"
      BY <2>1, StageIs, StageIsNext DEF Passes, StageTable, IoctlStages
    <3>2. Device!Passes("power", "firmware", "PlatformPowered")
      BY <2>1, <3>1, DevicePasses DEF Passes
    <3>3. Device!IfxBtPowerOnController
      BY <2>1, <3>2, PowerReason DEF Device!IfxBtPowerOnController
    <3>. QED BY <2>1, <3>3, PassesCaused DEF Lost
  <2>2. CASE ~Powered /\ Fails("power", "latch", reason, PowerStatus, FALSE)
    <3>1. StageOf = "power"
      BY <2>2, StageIs DEF Fails, StageTable, IoctlStages
    <3>2. reason = Device!PowerFailure /\ reason # "None"
      BY <2>2, PowerReason DEF Device!PowerFailure
    <3>. HIDE DEF reason
    <3>3. Device!StageFails("power", "latch", reason)
      BY <2>2, <3>1, DeviceFails
    <3>4. Device!IfxBtPowerOnController
      BY <2>2, <3>2, <3>3, PowerReason DEF Device!IfxBtPowerOnController
    <3>. QED BY <2>2, <3>2, <3>4, FailsCaused
  <2>. QED BY <1>1, <2>1, <2>2 DEF PowerReadiness, Powered, PowerStatus
<1>2. CASE EvaluateFirmware
  <2>. DEFINE status == IfxBtFirmwareEvaluateInitialization(board)
              reason == IF status = "DEVICE_NOT_READY" /\ board.firmware.PlaceholderFirmwareContract
                        THEN "FirmwareSequencePlaceholder" ELSE "VendorCommandFailed"
  <2>1. CASE status = "SUCCESS" /\ Passes("firmware", "controller", "BaudSynchronized")
    <3>1. StageOf = "firmware" /\ StageOf' = "controller"
      BY <2>1, StageIs, StageIsNext DEF Passes, StageTable, IoctlStages
    <3>2. Device!Passes("firmware", "controller", "BaudSynchronized")
      BY <2>1, <3>1, DevicePasses DEF Passes
    <3>3. Device!IfxBtFirmwareEvaluateInitialization
      BY <2>1, <3>2 DEF Device!IfxBtFirmwareEvaluateInitialization, FirmwarePlaceholder
    <3>. QED BY <2>1, <3>3, PassesCaused DEF Lost
  <2>2. CASE Fails("firmware", "latch", reason, status, FALSE)
    <3>1. StageOf = "firmware"
      BY <2>2, StageIs DEF Fails, StageTable, IoctlStages
    <3>2. /\ reason = IF FirmwarePlaceholder THEN "FirmwareSequencePlaceholder"
                                             ELSE "VendorCommandFailed"
          /\ reason # "None"
      BY DEF FirmwarePlaceholder
    <3>. HIDE DEF reason
    <3>3. Device!StageFails("firmware", "latch", reason)
      BY <2>2, <3>1, DeviceFails
    <3>4. Device!IfxBtFirmwareEvaluateInitialization
      BY <3>2, <3>3 DEF Device!IfxBtFirmwareEvaluateInitialization
    <3>. QED BY <2>2, <3>2, <3>4, FailsCaused
  <2>. QED BY <1>2, <2>1, <2>2 DEF EvaluateFirmware
<1>3. CASE ValidateController
  <2>. DEFINE status == IfxBtFirmwareValidateControllerReadyPlaceholder(board)
              reason == IF status = "DEVICE_NOT_READY" THEN "ControllerValidationPlaceholder"
                                                       ELSE "ControllerValidationFailed"
  <2>0. PlatformOk /\ Shaped
    <3>1. pc \in PastFirmware /\ pc \in PastPlatform
      BY <1>3 DEF ValidateController, Passes, Fails, PastPlatform, PastContract, PastPort,
         PastPower, PastFirmware
    <3>. QED BY <3>1, FirmwareReady DEF IInv, Passed, PlatformOk
  <2>1. status = IF board.validation THEN "SUCCESS" ELSE "DEVICE_NOT_READY"
    BY <2>0 DEF PlatformOk, Shaped, IfxBtFirmwareValidateControllerReadyPlaceholder
  <2>2. CASE status = "SUCCESS" /\ Passes("controller", "assign", "Operational")
    <3>1. StageOf = "controller" /\ StageOf' = "assign"
      BY <2>2, StageIs, StageIsNext DEF Passes, StageTable, IoctlStages
    <3>2. Device!Passes("controller", "assign", "Operational")
      BY <2>2, <3>1, DevicePasses DEF Passes
    <3>3. Device!IfxBtFirmwareValidateControllerReady
      BY <2>1, <2>2, <3>2 DEF Device!IfxBtFirmwareValidateControllerReady
    <3>. QED BY <2>2, <3>3, PassesCaused DEF Lost
  <2>3. CASE status # "SUCCESS" /\ Fails("controller", "latch", reason, status, FALSE)
    <3>1. StageOf = "controller"
      BY <2>3, StageIs DEF Fails, StageTable, IoctlStages
    <3>2. ~board.validation /\ reason = "ControllerValidationPlaceholder"
      BY <2>1, <2>3
    <3>. HIDE DEF reason
    <3>3. Device!StageFails("controller", "latch", reason)
      BY <2>3, <3>1, DeviceFails
    <3>4. Device!IfxBtFirmwareValidateControllerReady
      BY <3>2, <3>3 DEF Device!IfxBtFirmwareValidateControllerReady
    <3>. QED BY <2>3, <3>2, <3>4, FailsCaused
  <2>. QED BY <1>3, <2>2, <2>3 DEF ValidateController
<1>. QED BY <1>1, <1>2, <1>3

\* The caller of DeviceInitialize, and the way back of a start that failed.
LEMMA DeviceReturns ==
    ASSUME RefInv, DeviceInitialize \/ LatchFailure \/ ReleaseHardware
    PROVE  DeviceSteps /\ Caused'
<1>. USE DEF DeviceSteps, Device!Next, Device!Start, RefInv, inputs, Device!Goes,
             Device!childList, Device!pnp, UartPlaceholder, PowerOf, FirmwarePlaceholder
<1>1. CASE DeviceInitialize
  <2>1. StageOf = "assign" /\ StageOf' = "ready"
    BY <1>1, StageIs, StageIsNext DEF DeviceInitialize, StageTable, IoctlStages
  <2>2. Device!DeviceInitialize
    BY <1>1, <2>1 DEF DeviceInitialize, Device!DeviceInitialize
  <2>. QED BY <1>1, <2>2 DEF DeviceInitialize, Caused, Lost
<1>2. CASE LatchFailure
  <2>1. StageOf = "latch" /\ StageOf' = "failed"
    BY <1>2, StageIs, StageIsNext DEF LatchFailure, StageTable, IoctlStages
  <2>2. LastFailureReason # "None"
    BY <1>2 DEF LatchFailure, Caused, Lost
  <2>3. Device!LatchFailure
    BY <1>2, <2>1, <2>2 DEF LatchFailure, IfxBtSetFailureReason, Device!LatchFailure,
       Device!IfxBtSetFailureReason
  <2>. QED BY <1>2, <2>3 DEF LatchFailure, IfxBtSetFailureReason, Caused, Lost
<1>3. CASE ReleaseHardware
  <2>1. StageOf = "failed" /\ StageOf' = "gone"
    BY <1>3, StageIs, StageIsNext DEF ReleaseHardware, StageTable, IoctlStages
  <2>2. Device!ReleaseHardware
    BY <1>3, <2>1 DEF ReleaseHardware, Device!ReleaseHardware,
       Device!IfxBtInvalidateParentReadiness
  <2>. QED BY <1>3, <2>2 DEF ReleaseHardware, Caused, Lost
<1>. QED BY <1>1, <1>2, <1>3

LEMMA DeviceStep == RefInv /\ [Next]_vars => DeviceSteps /\ RefInv'
<1>. SUFFICES ASSUME RefInv, [Next]_vars PROVE DeviceSteps /\ Caused'
  BY NextIInv DEF RefInv
<1>1. CASE UNCHANGED vars
  <2>1. UNCHANGED <<inputs, pc, IoTargetSerial, TransportState, LastFailureReason,
                    DeviceInitialized, root>>
    BY <1>1 DEF vars, state
  <2>2. StageOf' = StageOf
    BY <2>1 DEF StageOf
  <2>3. UNCHANGED Device!vars
    BY <2>1, <2>2 DEF inputs, Device!vars, Device!state, Device!childList, Device!pnp,
       UartPlaceholder, PowerOf, FirmwarePlaceholder
  <2>. QED BY <2>1, <2>3 DEF DeviceSteps, RefInv, Caused
<1>2. CASE Next
  <2>1. 1..Len(Ioctls) = 1..5
    BY IoctlList
  <2>. QED BY <1>1, <1>2, <2>1, DeviceOpens, DevicePowers, DeviceValidates, DeviceConfigures,
              DeviceReadies, DeviceReturns DEF Next, Driver, Port, Ended
<1>. QED BY <1>1, <1>2

\* Whatever the board says, whichever resources PnP assigns and however the serial port
\* answers, a start is one of Lifecycle.
THEOREM ImplementsLifecycle == Spec => StartsAsLifecycle
BY DeviceInit, InitRefInv, DeviceStep, PTL
   DEF Spec, StartsAsLifecycle, Device!SafeSpec, DeviceSteps
=============================================================================
