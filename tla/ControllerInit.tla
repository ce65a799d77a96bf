--------------------------- MODULE ControllerInit ---------------------------
(***************************************************************************)
(* One start of the parent device in detail: FdoDevPrepareHardware (Fdo.c) *)
(* and DeviceInitialize with the serial IOCTLs of IfxBtConfigureUart       *)
(* (WDK/device.c), on any board and over a serial port that may refuse an  *)
(* IOCTL or never answer it.  ControllerRefinement shows that this is what *)
(* Lifecycle says of a start.                                              *)
(***************************************************************************)
EXTENDS Contracts, Sequences

CONSTANT Boards        \* the boards to start on

ASSUME BoardsAssumption == Boards \subseteq BoardContracts

VARIABLES
    board,             \* the contracts the driver was built with
    resources,         \* the connections among the resources PnP assigned
    pc,                \* the stage the start has come to
    waiting,           \* a serial IOCTL has been sent and is not completed
    sent,              \* the serial IOCTLs sent since PrepareHardware
    IoTargetSerial,    \* "none" or "started"
    TransportState,
    LastFailureReason,
    LastFailureStatus,
    DeviceInitialized,
    root,              \* the reason and status the start failed for, ...
    fault              \* ... and whether the environment made it fail (history variables)

inputs == <<board, resources>>
serial == <<waiting, sent>>
state  == <<TransportState, LastFailureReason, LastFailureStatus, DeviceInitialized>>
vars   == <<inputs, pc, serial, IoTargetSerial, state, root, fault>>

\* A connection ID of 0 is found among the resources and then taken for none.
Resources == [uart : {"absent", "zero", "valid"}, i2c : BOOLEAN, gpio : BOOLEAN]

Init ==
    /\ board \in Boards
    /\ resources \in Resources
    /\ pc = "added"
    /\ waiting = FALSE
    /\ sent = <<>>
    /\ IoTargetSerial = "none"
    /\ TransportState = "Created"
    /\ LastFailureReason = "None"
    /\ LastFailureStatus = "SUCCESS"
    /\ DeviceInitialized = FALSE
    /\ root = [reason |-> "None", status |-> "SUCCESS"]
    /\ fault = FALSE

IfxBtSetFailureReason(reason, status) ==
    /\ LastFailureReason' = reason
    /\ LastFailureStatus' = status
    /\ DeviceInitialized' = FALSE
    /\ TransportState' = "Failed"

Passes(stage, next, reached) ==
    /\ pc = stage
    /\ pc' = next
    /\ TransportState' = reached
    /\ UNCHANGED <<inputs, serial, IoTargetSerial, LastFailureReason, LastFailureStatus,
                   DeviceInitialized, root, fault>>

\* by: the environment made it fail.
Fails(stage, next, reason, status, by) ==
    /\ pc = stage
    /\ pc' = next
    /\ IfxBtSetFailureReason(reason, status)
    /\ root' = [reason |-> reason, status |-> status]
    /\ fault' = by
    /\ waiting' = FALSE
    /\ UNCHANGED <<inputs, sent, IoTargetSerial>>

-----------------------------------------------------------------------------
(* FdoDevPrepareHardware, up to DeviceInitialize.                          *)

PrepareHardware ==
    /\ LastFailureReason' = "None"
    /\ LastFailureStatus' = "SUCCESS"
    /\ pc = "added" /\ pc' = "resources"
    /\ TransportState' = "Created"
    /\ UNCHANGED <<inputs, serial, IoTargetSerial, DeviceInitialized, root, fault>>

FdoFindConnectResources ==
    \/ resources.uart # "absent" /\ Passes("resources", "open", "ResourcesParsed")
    \/ /\ resources.uart = "absent"
       /\ Fails("resources", "failed", "MissingUartResource", "NOT_FOUND", FALSE)

FdoOpenDevice ==
    \/ /\ resources.uart = "valid"
       /\ pc = "open" /\ pc' = "extension"
       /\ IoTargetSerial' = "started"
       /\ TransportState' = "UartOpened"
       /\ UNCHANGED <<inputs, serial, LastFailureReason, LastFailureStatus, DeviceInitialized,
                      root, fault>>
    \/ /\ resources.uart = "zero"
       /\ Fails("open", "failed", "UartOpenFailed", "NOT_FOUND", FALSE)
    \/ /\ resources.uart = "valid"
       /\ Fails("open", "failed", "UartOpenFailed", "UNSUCCESSFUL", TRUE)

HlpInitializeFdoExtension ==
    \/ Passes("extension", "enable", TransportState)
    \/ Fails("extension", "failed", "UartConfigFailed", "UNSUCCESSFUL", TRUE)

\* Mutant: a failure of DeviceEnable or DevicePowerOn is only traced.
PowersIgnored(stage, next, needed) == Passes(stage, next, TransportState)

\* DeviceEnable for a GPIO connection, DevicePowerOn for an I2C connection.
Powers(stage, next, needed) ==
    LET status == IfxBtPowerOnController(board)
    IN  \/ (needed => status = "SUCCESS") /\ Passes(stage, next, TransportState)
        \/ /\ needed /\ status # "SUCCESS"
           /\ Fails(stage, "failed", IfxBtMapPowerFailureReason(board.power, status), status, FALSE)

DeviceEnable  == Powers("enable", "power on", resources.gpio)
DevicePowerOn == Powers("power on", "platform", resources.i2c)

-----------------------------------------------------------------------------
(* DeviceInitialize.                                                       *)

ValidatePlatform ==
    LET status == IfxBtPlatformValidateConfig(board.platform)
    IN  \/ status = "SUCCESS" /\ Passes("platform", "contract", TransportState)
        \/ /\ status # "SUCCESS"
           /\ Fails("platform", "latch", "UartConfigFailed", status, FALSE)

ValidateUart ==
    LET status == IfxBtPlatformValidateUartConfig(board.uart)
    IN  \/ status = "SUCCESS" /\ Passes("contract", "SET_BAUD_RATE", TransportState)
        \/ /\ status # "SUCCESS"
           /\ Fails("contract", "latch",
                    IF status = "DEVICE_NOT_READY" THEN "UartConfigPlaceholder"
                                                   ELSE "UartConfigFailed", status, FALSE)

\* InitialBaud, framing, handflow and timeouts; the operational baud rate is
\* checked and never applied.
Ioctls == <<"SET_BAUD_RATE", "SET_LINE_CONTROL", "SET_HANDFLOW", "SET_TIMEOUTS", "PURGE">>

\* The stage after the i-th IOCTL, and the state it leaves.
After(i)   == IF i = Len(Ioctls) THEN "power" ELSE Ioctls[i + 1]
Reached(i) == IF i = Len(Ioctls) THEN "UartConfigured" ELSE TransportState

\* A purge that no flag asks for is skipped.
Skipped(i) == Ioctls[i] = "PURGE" /\ board.uart.PurgeMask = {}

SendIoctl(i) ==
    /\ pc = Ioctls[i] /\ ~waiting /\ ~Skipped(i)
    /\ waiting' = TRUE
    /\ sent' = Append(sent, Ioctls[i])
    /\ UNCHANGED <<inputs, pc, IoTargetSerial, state, root, fault>>

SkipIoctl(i) ==
    /\ Skipped(i)
    /\ Passes(Ioctls[i], After(i), Reached(i))

IoctlSucceeds(i) ==
    /\ pc = Ioctls[i] /\ waiting
    /\ waiting' = FALSE
    /\ pc' = After(i)
    /\ TransportState' = Reached(i)
    /\ UNCHANGED <<inputs, sent, IoTargetSerial, LastFailureReason, LastFailureStatus,
                   DeviceInitialized, root, fault>>

\* The settings of the IOCTLs before stay in the port; the device is left
\* uninitialized.
IoctlFails(i) ==
    waiting /\ Fails(Ioctls[i], "latch", "UartConfigFailed", "UNSUCCESSFUL", TRUE)

\* Mutant: the IOCTL is sent without a timeout, and waits for its answer.
IoctlNeverTimesOut(i) == FALSE /\ IoctlFails(i)

\* The port does not answer within MAX_WRITE_TIMEOUT_IN_SEC.
IoctlTimesOut(i) ==
    waiting /\ Fails(Ioctls[i], "latch", "UartConfigFailed", "IO_TIMEOUT", TRUE)

PowerReadiness ==
    LET status == IfxBtPowerOnController(board)
    IN  \/ status = "SUCCESS" /\ Passes("power", "firmware", "PlatformPowered")
        \/ /\ status # "SUCCESS"
           /\ Fails("power", "latch", IfxBtMapPowerFailureReason(board.power, status), status, FALSE)

\* FirmwareReady is left for BaudSynchronized at once.
EvaluateFirmware ==
    LET status == IfxBtFirmwareEvaluateInitialization(board)
    IN  \/ status = "SUCCESS" /\ Passes("firmware", "controller", "BaudSynchronized")
        \/ /\ status # "SUCCESS"
           /\ Fails("firmware", "latch",
                    IF status = "DEVICE_NOT_READY" /\ board.firmware.PlaceholderFirmwareContract
                    THEN "FirmwareSequencePlaceholder" ELSE "VendorCommandFailed", status, FALSE)

\* And ControllerReady for Operational.
ValidateController ==
    LET status == IfxBtFirmwareValidateControllerReadyPlaceholder(board)
    IN  \/ status = "SUCCESS" /\ Passes("controller", "assign", "Operational")
        \/ /\ status # "SUCCESS"
           /\ Fails("controller", "latch",
                    IF status = "DEVICE_NOT_READY" THEN "ControllerValidationPlaceholder"
                                                   ELSE "ControllerValidationFailed", status, FALSE)

\* The caller stores TRUE.
DeviceInitialize ==
    /\ pc = "assign" /\ pc' = "ready"
    /\ DeviceInitialized' = TRUE
    /\ UNCHANGED <<inputs, serial, IoTargetSerial, TransportState, LastFailureReason,
                   LastFailureStatus, root, fault>>

\* IfxBtPreserveLatchedFailureStatus: the status that is recorded, and its reason.
LatchFailure ==
    /\ pc = "latch" /\ pc' = "failed"
    /\ IfxBtSetFailureReason(LastFailureReason, LastFailureStatus)
    /\ UNCHANGED <<inputs, serial, IoTargetSerial, root, fault>>

\* Mutant: the target is not deleted.
ReleaseKeepsTarget ==
    /\ pc = "failed" /\ pc' = "gone"
    /\ DeviceInitialized' = FALSE
    /\ TransportState' = "Created"
    /\ UNCHANGED <<inputs, serial, IoTargetSerial, LastFailureReason, LastFailureStatus, root,
                   fault>>

\* After a start that failed, the framework releases the hardware.
ReleaseHardware ==
    /\ pc = "failed" /\ pc' = "gone"
    /\ DeviceInitialized' = FALSE
    /\ TransportState' = "Created"
    /\ IoTargetSerial' = "none"
    /\ UNCHANGED <<inputs, serial, LastFailureReason, LastFailureStatus, root, fault>>

-----------------------------------------------------------------------------

\* What the port may do with an IOCTL it was sent.
Port(i) == IoctlSucceeds(i) \/ IoctlFails(i)

\* What the thread of PrepareHardware does itself; the timer is the framework's.
Driver ==
    \/ PrepareHardware \/ FdoFindConnectResources \/ FdoOpenDevice \/ HlpInitializeFdoExtension
    \/ DeviceEnable \/ DevicePowerOn \/ ValidatePlatform \/ ValidateUart
    \/ \E i \in 1..Len(Ioctls) : SendIoctl(i) \/ SkipIoctl(i) \/ IoctlTimesOut(i)
    \/ PowerReadiness \/ EvaluateFirmware \/ ValidateController
    \/ DeviceInitialize \/ LatchFailure \/ ReleaseHardware

\* The start has ended; Lifecycle goes on with a device that is ready.
Ended == pc \in {"ready", "gone"} /\ UNCHANGED vars

Next == Driver \/ (\E i \in 1..Len(Ioctls) : Port(i)) \/ Ended

\* The thread runs on and the timeout of an IOCTL elapses; the port owes nothing.
Spec == Init /\ [][Next]_vars /\ WF_vars(Driver)

-----------------------------------------------------------------------------
(* Properties.                                                             *)

Elements(s) == {s[i] : i \in DOMAIN s}

Stages == {"added", "resources", "open", "extension", "enable", "power on", "platform",
           "contract", "power", "firmware", "controller", "assign", "latch", "ready", "failed",
           "gone"}

Reasons == {"None", "MissingUartResource", "UartOpenFailed", "UartConfigPlaceholder",
            "UartConfigFailed", "PowerResourcesPlaceholder", "PowerSequenceFailed",
            "FirmwareSequencePlaceholder", "VendorCommandFailed",
            "ControllerValidationPlaceholder", "ControllerValidationFailed"}

States == {"Created", "ResourcesParsed", "UartOpened", "UartConfigured", "PlatformPowered",
           "BaudSynchronized", "Operational", "Failed"}

\* The range of every variable.
TypeOK ==
    /\ board \in Boards
    /\ resources \in Resources
    /\ pc \in Stages \cup Elements(Ioctls)
    /\ waiting \in BOOLEAN
    /\ sent \in Seq(Elements(Ioctls))
    /\ IoTargetSerial \in {"none", "started"}
    /\ TransportState \in States
    /\ LastFailureReason \in Reasons
    /\ LastFailureStatus \in Statuses
    /\ DeviceInitialized \in BOOLEAN
    /\ root \in [reason : Reasons, status : Statuses]
    /\ fault \in BOOLEAN

\* No serial IOCTL reaches the port before the board has said all it says of the
\* UART: the line settings are never those of a placeholder
\* ("UART_CONFIG no_serial_ioctls_issued_placeholder=1", IfxBtConfigureUart).
NoIoctlFromPlaceholder ==
    sent # <<>> =>
        /\ ~board.uart.PlaceholderUartConfig /\ FramingValid(board.uart)
        /\ resources.uart = "valid" /\ (pc # "gone" => IoTargetSerial = "started")

\* A platform contract that a port has not touched in any of its three placeholders.
AllPlaceholders(platform) ==
    /\ platform.PlaceholderPlatformValue
    /\ platform.PowerResourceState = "PlaceholderOnly"
    /\ platform.FirmwareSequenceState = "PlaceholderUnknown"

\* What keeps a board from starting, in the order a start meets it.
Obstacles ==
    LET power == IfxBtPowerOnController(board)
        fw    == board.firmware
        Row(blocked, reason) == [blocked |-> blocked, reason |-> reason]
    IN  << Row(resources.uart = "absent", "MissingUartResource"),
           Row(resources.uart = "zero", "UartOpenFailed"),
           Row((resources.gpio \/ resources.i2c) /\ power = "DEVICE_NOT_READY",
               "PowerResourcesPlaceholder"),
           Row((resources.gpio \/ resources.i2c) /\ power # "SUCCESS", "PowerSequenceFailed"),
           Row(~AllPlaceholders(board.platform) \/ ~board.platform.names
               \/ ~board.platform.RequiresBluetoothClientAcpiNode
               \/ ~board.platform.CandidateQcom0e16IsLowerControllerOnly, "UartConfigFailed"),
           Row(board.uart.PlaceholderUartConfig, "UartConfigPlaceholder"),
           Row(~FramingValid(board.uart), "UartConfigFailed"),
           Row(power = "DEVICE_NOT_READY", "PowerResourcesPlaceholder"),
           Row(power # "SUCCESS", "PowerSequenceFailed"),
           Row(fw.PlaceholderFirmwareContract
               /\ IfxBtFirmwareValidateContractShape(fw) = "SUCCESS", "FirmwareSequencePlaceholder"),
           Row(HoldsPlaceholder(fw) \/ IfxBtFirmwareValidateContractShape(fw) # "SUCCESS"
               \/ fw.FirmwareRequirement = "Required" \/ ~board.sequencer, "VendorCommandFailed"),
           Row(~board.validation, "ControllerValidationPlaceholder") >>

FirstObstacle(rows) ==
    rows[CHOOSE i \in DOMAIN rows : rows[i].blocked /\ \A j \in 1..i - 1 : ~rows[j].blocked].reason

\* A start that fails for no fault of its environment names the first thing that
\* is missing on the board, so that whoever fills in the contracts is led through
\* them ("Failure paths preserve the root failure reason",
\* docs/architecture/power-reset-wake-contract.md); one that ends ready missed
\* nothing.
ReasonIsFirstObstacle ==
    /\ pc \in {"failed", "gone"} /\ ~fault => LastFailureReason = FirstObstacle(Obstacles)
    /\ pc = "ready" => \A i \in DOMAIN Obstacles : ~Obstacles[i].blocked

\* The status PrepareHardware returns is the one the failing stage met, through
\* the second latch of its caller (IfxBtPreserveLatchedFailureStatus).
RootStatusKept ==
    pc \in {"failed", "gone"} =>
        LastFailureReason = root.reason /\ LastFailureStatus = root.status

\* The transport is operational only after every line setting was applied, in
\* order, on a board that powers its controller itself, with a port's vendor
\* commands and validation: its UART, power and firmware contracts hold no
\* placeholder.  Of the platform contract the opposite is true.  It must be
\* one placeholder from end to end (IfxBtPlatform.c:245, 260, 360), so that
\* whatever is Operational here is so beside an active placeholder contract, which
\* docs/architecture/firmware-vendor-init-contract.md:92 forbids.
OperationalNeedsEverything ==
    TransportState = "Operational" \/ DeviceInitialized =>
        /\ sent = IF board.uart.PurgeMask = {} THEN SubSeq(Ioctls, 1, 4) ELSE Ioctls
        /\ AllPlaceholders(board.platform)
        /\ ~board.uart.PlaceholderUartConfig
        /\ ~board.power.PlaceholderPowerConfig
        /\ "PlaceholderUnknown" \notin OwnershipsOf(board.power)
        /\ ~HoldsPlaceholder(board.firmware)
        /\ board.power.PowerOwnership \in {"PlatformOwnedAlwaysOn", "AcpiPowerResourceOwned"}
        /\ board.firmware.FirmwareFileType \in PortFileTypes
        /\ board.firmware.VendorCommandSequence \in PortSequences
        /\ board.sequencer /\ board.validation

\* A start ends, with a device that is ready or gone: a port that never answers
\* does not hold the PnP thread ("with timeout (to prevent hang)",
\* FdoWriteToDeviceSync).
StartEnds == <>(pc \in {"ready", "gone"})
=============================================================================
