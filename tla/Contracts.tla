----------------------------- MODULE Contracts -----------------------------
(***************************************************************************)
(* The contracts a board fills in (WDK/IfxBtPlatform.c, IfxBtFirmware.c)   *)
(* and what the driver makes of them: the validators, and the decisions on *)
(* power, wake and reset of WDK/device.c.  A contract is a constant record *)
(* of the driver, so its pointer and its Size are always right and are     *)
(* left out; `names' says that no string of it is NULL.                    *)
(***************************************************************************)
EXTENDS Naturals

CONSTANTS
    PortFileTypes,     \* the file types and command sequences that a port
    PortSequences      \* adds to the enumerations; this tree has none

FileTypePlaceholders == {"Unknown", "HcdPlaceholder", "VendorSpecificPlaceholder"}
SequencePlaceholders == {"Unknown", "TableDrivenPlaceholder"}

ASSUME PortAssumption ==
    /\ PortFileTypes \cap FileTypePlaceholders = {}
    /\ PortSequences \cap SequencePlaceholders = {}

Ownerships == {"PlaceholderUnknown", "PlatformOwnedAlwaysOn", "AcpiPowerResourceOwned",
               "DriverControlledGpio", "NotPresentOptional"}

PurgeFlags == {"TxAbort", "RxAbort", "TxClear", "RxClear"}

\* Each of the two states has one value in this tree; "Other" is one that a port adds.
PlatformConfigs == [names : BOOLEAN, RequiresBluetoothClientAcpiNode : BOOLEAN,
                    CandidateQcom0e16IsLowerControllerOnly : BOOLEAN,
                    PowerResourceState : {"PlaceholderOnly", "Other"},
                    FirmwareSequenceState : {"PlaceholderUnknown", "Other"},
                    PlaceholderPlatformValue : BOOLEAN]

\* A baud rate is 0 or not; "Reserved" stands for the bits no flag has.
UartConfigs == [InitialBaud : {0, 1}, OperationalBaud : {0, 1}, DataBits : Nat, Parity : Nat,
                StopBits : Nat, FlowControl : {"PlaceholderUnknown", "PlatformProvided"},
                TimeoutPolicyPlaceholder : BOOLEAN, PurgePolicyPlaceholder : BOOLEAN,
                PurgeMask : SUBSET (PurgeFlags \cup {"Reserved"}),
                PlaceholderUartConfig : BOOLEAN]

\* "Invalid" is a value outside of an enumeration.
PowerConfigs == [names : BOOLEAN, PowerOwnership : Ownerships \cup {"Invalid"},
                 ResetOwnership : Ownerships \cup {"Invalid"},
                 DevWakeOwnership : Ownerships \cup {"Invalid"},
                 HostWakeOwnership : Ownerships \cup {"Invalid"},
                 PlaceholderPowerConfig : BOOLEAN]

FirmwareContracts ==
    [names : BOOLEAN,
     FirmwareRequirement : {"Unknown", "NotRequired", "Required", "Invalid"},
     FirmwareFileType : FileTypePlaceholders \cup PortFileTypes \cup {"Invalid"},
     FirmwareSource : {"Unknown", "FilePath", "RegistryConfigured",
                       "PackagedResourcePlaceholder", "Invalid"},
     VendorCommandSequence : SequencePlaceholders \cup PortSequences \cup {"Invalid"},
     ResponsePolicy : {"Unknown", "CommandComplete", "CommandStatus", "VendorSpecific", "Invalid"},
     BaudSwitchRequirement : {"Unknown", "NotRequired", "Required", "Invalid"},
     D3RetentionPolicy : {"Unknown", "Retained", "ReloadRequired", "Invalid"},
     PlaceholderFirmwareContract : BOOLEAN]

\* A board: its contracts, and whether a port has written the vendor command
\* sequencer and the controller validation, that are stubs in this tree.
BoardContracts == [platform : PlatformConfigs, uart : UartConfigs, power : PowerConfigs,
                   firmware : FirmwareContracts, sequencer : BOOLEAN, validation : BOOLEAN]

Statuses == {"SUCCESS", "INVALID_PARAMETER", "DEVICE_NOT_READY", "DEVICE_CONFIGURATION_ERROR",
             "NOT_IMPLEMENTED", "NOT_FOUND", "UNSUCCESSFUL", "IO_TIMEOUT"}

-----------------------------------------------------------------------------
(* The validators.  The tests of a validator come in the code's order.     *)

IfxBtPlatformValidatePowerResources(platform) ==
    IF platform.names /\ platform.PowerResourceState = "PlaceholderOnly"
    THEN "SUCCESS" ELSE "INVALID_PARAMETER"

\* A platform that has replaced one of its three placeholders is refused.
IfxBtPlatformValidateConfig(platform) ==
    IF /\ platform.names
       /\ IfxBtPlatformValidatePowerResources(platform) = "SUCCESS"
       /\ platform.FirmwareSequenceState = "PlaceholderUnknown"
       /\ platform.RequiresBluetoothClientAcpiNode
       /\ platform.CandidateQcom0e16IsLowerControllerOnly
       /\ platform.PlaceholderPlatformValue
    THEN "SUCCESS" ELSE "INVALID_PARAMETER"

FramingValid(uart) ==
    /\ uart.InitialBaud # 0 /\ uart.OperationalBaud # 0
    /\ uart.DataBits \in 5..8 /\ uart.Parity \in 0..4 /\ uart.StopBits \in 0..2
    /\ uart.FlowControl = "PlatformProvided"
    /\ ~uart.TimeoutPolicyPlaceholder /\ ~uart.PurgePolicyPlaceholder
    /\ uart.PurgeMask \subseteq PurgeFlags

IfxBtPlatformValidateUartConfig(uart) ==
    IF uart.PlaceholderUartConfig THEN "DEVICE_NOT_READY"
    ELSE IF FramingValid(uart) THEN "SUCCESS" ELSE "INVALID_PARAMETER"

OwnershipsOf(power) == {power.PowerOwnership, power.ResetOwnership,
                        power.DevWakeOwnership, power.HostWakeOwnership}

IfxBtPlatformValidatePowerConfig(power) ==
    IF ~power.names \/ ~(OwnershipsOf(power) \subseteq Ownerships) THEN "INVALID_PARAMETER"
    ELSE IF power.PlaceholderPowerConfig THEN "DEVICE_NOT_READY"
    ELSE IF "PlaceholderUnknown" \in OwnershipsOf(power) THEN "DEVICE_CONFIGURATION_ERROR"
    ELSE "SUCCESS"

IfxBtFirmwareValidateContractShape(firmware) ==
    IF /\ firmware.names
       /\ "Invalid" \notin {firmware.FirmwareRequirement, firmware.FirmwareFileType,
                            firmware.FirmwareSource, firmware.VendorCommandSequence,
                            firmware.ResponsePolicy, firmware.BaudSwitchRequirement,
                            firmware.D3RetentionPolicy}
    THEN "SUCCESS" ELSE "INVALID_PARAMETER"

\* Every file type and every command sequence of this tree is a placeholder.
HoldsPlaceholder(firmware) ==
    \/ firmware.PlaceholderFirmwareContract
    \/ firmware.FirmwareFileType \in FileTypePlaceholders
    \/ firmware.VendorCommandSequence \in SequencePlaceholders
    \/ firmware.FirmwareSource = "PackagedResourcePlaceholder"
    \/ "Unknown" \in {firmware.FirmwareRequirement, firmware.FirmwareSource,
                      firmware.ResponsePolicy, firmware.BaudSwitchRequirement,
                      firmware.D3RetentionPolicy}

IfxBtFirmwareValidateContract(firmware) ==
    IF IfxBtFirmwareValidateContractShape(firmware) # "SUCCESS" THEN "INVALID_PARAMETER"
    ELSE IF HoldsPlaceholder(firmware) THEN "DEVICE_NOT_READY" ELSE "SUCCESS"

-----------------------------------------------------------------------------
(* The decisions on power, wake and reset.                                 *)

\* Mutant: a line of the driver's own is taken for one of the platform.
PowerOnDrivenLines(board) ==
    IF IfxBtPlatformValidateConfig(board.platform) # "SUCCESS" THEN "INVALID_PARAMETER"
    ELSE IfxBtPlatformValidatePowerConfig(board.power)

\* The driver can power on no controller itself.
IfxBtPowerOnController(board) ==
    IF IfxBtPlatformValidateConfig(board.platform) # "SUCCESS" THEN "INVALID_PARAMETER"
    ELSE IF IfxBtPlatformValidatePowerConfig(board.power) # "SUCCESS"
         THEN IfxBtPlatformValidatePowerConfig(board.power)
    ELSE IF board.power.PowerOwnership \in {"PlatformOwnedAlwaysOn", "AcpiPowerResourceOwned"}
         THEN "SUCCESS" ELSE "DEVICE_CONFIGURATION_ERROR"

IfxBtMapPowerFailureReason(power, status) ==
    IF status = "DEVICE_NOT_READY" /\ power.PlaceholderPowerConfig
    THEN "PowerResourcesPlaceholder" ELSE "PowerSequenceFailed"

IfxBtConfigureWake(power, arm) ==
    IF IfxBtPlatformValidatePowerConfig(power) = "DEVICE_NOT_READY"
    THEN IF arm THEN "DEVICE_NOT_READY" ELSE "SUCCESS"
    ELSE IF IfxBtPlatformValidatePowerConfig(power) # "SUCCESS"
         THEN IfxBtPlatformValidatePowerConfig(power)
    ELSE IF "DriverControlledGpio" \in {power.HostWakeOwnership, power.DevWakeOwnership}
         THEN "DEVICE_CONFIGURATION_ERROR" ELSE "SUCCESS"

\* The stages up to the blob and the image read nothing from a file; the vendor
\* commands are those of a port, if there is one.
IfxBtFirmwareEvaluateInitialization(board) ==
    IF IfxBtPlatformValidateConfig(board.platform) # "SUCCESS" THEN "INVALID_PARAMETER"
    ELSE IF IfxBtFirmwareValidateContract(board.firmware) # "SUCCESS"
         THEN IfxBtFirmwareValidateContract(board.firmware)
    ELSE IF board.firmware.FirmwareRequirement = "Required" \/ ~board.sequencer
         THEN "NOT_IMPLEMENTED" ELSE "SUCCESS"

IfxBtFirmwareValidateControllerReadyPlaceholder(board) ==
    IF IfxBtPlatformValidateConfig(board.platform) # "SUCCESS" THEN "INVALID_PARAMETER"
    ELSE IF IfxBtFirmwareValidateContractShape(board.firmware) # "SUCCESS"
         THEN "INVALID_PARAMETER"
    ELSE IF board.validation THEN "SUCCESS" ELSE "DEVICE_NOT_READY"
=============================================================================
