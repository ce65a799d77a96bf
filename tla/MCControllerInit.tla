-------------------------- MODULE MCControllerInit --------------------------
(***************************************************************************)
(* Boards to start on: the one this tree describes, one a port has         *)
(* completed, and those that differ from it in one contract.               *)
(***************************************************************************)
EXTENDS ControllerRefinement

GoodPlatform == [names |-> TRUE, RequiresBluetoothClientAcpiNode |-> TRUE,
                 CandidateQcom0e16IsLowerControllerOnly |-> TRUE,
                 PowerResourceState |-> "PlaceholderOnly",
                 FirmwareSequenceState |-> "PlaceholderUnknown",
                 PlaceholderPlatformValue |-> TRUE]

GoodUart == [InitialBaud |-> 1, OperationalBaud |-> 1, DataBits |-> 8, Parity |-> 0,
             StopBits |-> 0, FlowControl |-> "PlatformProvided",
             TimeoutPolicyPlaceholder |-> FALSE, PurgePolicyPlaceholder |-> FALSE,
             PurgeMask |-> {"TxClear", "RxClear"}, PlaceholderUartConfig |-> FALSE]

GoodPower == [names |-> TRUE, PowerOwnership |-> "AcpiPowerResourceOwned",
              ResetOwnership |-> "NotPresentOptional", DevWakeOwnership |-> "NotPresentOptional",
              HostWakeOwnership |-> "PlatformOwnedAlwaysOn", PlaceholderPowerConfig |-> FALSE]

GoodFirmware == [names |-> TRUE, FirmwareRequirement |-> "NotRequired",
                 FirmwareFileType |-> "Hcd", FirmwareSource |-> "FilePath",
                 VendorCommandSequence |-> "TableDriven", ResponsePolicy |-> "CommandComplete",
                 BaudSwitchRequirement |-> "NotRequired", D3RetentionPolicy |-> "Retained",
                 PlaceholderFirmwareContract |-> FALSE]

Good == [platform |-> GoodPlatform, uart |-> GoodUart, power |-> GoodPower,
         firmware |-> GoodFirmware, sequencer |-> TRUE, validation |-> TRUE]

\* What IfxBtPlatform.c and IfxBtFirmware.c hold today.
ShippedUart == [InitialBaud |-> 0, OperationalBaud |-> 0, DataBits |-> 0, Parity |-> 255,
                StopBits |-> 255, FlowControl |-> "PlaceholderUnknown",
                TimeoutPolicyPlaceholder |-> TRUE, PurgePolicyPlaceholder |-> TRUE,
                PurgeMask |-> {}, PlaceholderUartConfig |-> TRUE]

ShippedPower == [f \in DOMAIN GoodPower |->
                    IF f \in {"names", "PlaceholderPowerConfig"} THEN TRUE
                                                                 ELSE "PlaceholderUnknown"]

ShippedFirmware == [f \in DOMAIN GoodFirmware |->
                       IF f \in {"names", "PlaceholderFirmwareContract"} THEN TRUE ELSE "Unknown"]

Shipped == [platform |-> GoodPlatform, uart |-> ShippedUart, power |-> ShippedPower,
            firmware |-> ShippedFirmware, sequencer |-> FALSE, validation |-> FALSE]

OtherPlatforms == {[GoodPlatform EXCEPT !.PlaceholderPlatformValue = FALSE],
                   [GoodPlatform EXCEPT !.PowerResourceState = "Other"],
                   [GoodPlatform EXCEPT !.FirmwareSequenceState = "Other"],
                   [GoodPlatform EXCEPT !.names = FALSE]}

OtherUarts == {ShippedUart, [ShippedUart EXCEPT !.PlaceholderUartConfig = FALSE],
               [GoodUart EXCEPT !.PlaceholderUartConfig = TRUE],
               [GoodUart EXCEPT !.OperationalBaud = 0], [GoodUart EXCEPT !.DataBits = 9],
               [GoodUart EXCEPT !.DataBits = 4], [GoodUart EXCEPT !.Parity = 5],
               [GoodUart EXCEPT !.StopBits = 3], [GoodUart EXCEPT !.PurgeMask = {}],
               [GoodUart EXCEPT !.PurgeMask = {"Reserved"}],
               [GoodUart EXCEPT !.PurgePolicyPlaceholder = TRUE]}

OtherPowers == {ShippedPower, [ShippedPower EXCEPT !.PlaceholderPowerConfig = FALSE],
                [GoodPower EXCEPT !.names = FALSE],
                [GoodPower EXCEPT !.PowerOwnership = "PlatformOwnedAlwaysOn"],
                [GoodPower EXCEPT !.PowerOwnership = "DriverControlledGpio"],
                [GoodPower EXCEPT !.HostWakeOwnership = "Invalid"]}

OtherFirmwares == {ShippedFirmware, [ShippedFirmware EXCEPT !.PlaceholderFirmwareContract = FALSE],
                   [GoodFirmware EXCEPT !.PlaceholderFirmwareContract = TRUE],
                   [GoodFirmware EXCEPT !.FirmwareFileType = "HcdPlaceholder"],
                   [GoodFirmware EXCEPT !.FirmwareRequirement = "Required"],
                   [GoodFirmware EXCEPT !.ResponsePolicy = "Invalid"]}

\* Two contracts of a board may be unfinished at once.
MCBoards ==
    LET P == {GoodPlatform} \cup OtherPlatforms
        U == {GoodUart} \cup OtherUarts
        W == {GoodPower} \cup OtherPowers
        F == {GoodFirmware} \cup OtherFirmwares
    IN  {[Good EXCEPT !.platform = p, !.uart = u] : p \in P, u \in U}
        \cup {[Good EXCEPT !.uart = u, !.power = w] : u \in U, w \in W}
        \cup {[Good EXCEPT !.power = w, !.firmware = f] : w \in W, f \in F}
        \cup {[Good EXCEPT !.firmware = f, !.sequencer = b, !.validation = c] :
                  f \in F, b \in BOOLEAN, c \in BOOLEAN}
        \cup {Shipped, [Shipped EXCEPT !.platform.PlaceholderPlatformValue = FALSE]}
=============================================================================
