------------------------ MODULE ControllerRefinement ------------------------
(***************************************************************************)
(* A start in detail as an implementation of the start of Lifecycle.       *)
(***************************************************************************)
EXTENDS ControllerInit

\* What Lifecycle says of the board: which stages fail for a placeholder.
PowerOf ==
    LET status == IfxBtPowerOnController(board)
    IN  CASE status = "SUCCESS" -> "platform"
          [] status = "DEVICE_NOT_READY" -> "placeholder"
          [] OTHER -> "driver"

UartPlaceholder ==
    /\ IfxBtPlatformValidateConfig(board.platform) = "SUCCESS"
    /\ IfxBtPlatformValidateUartConfig(board.uart) = "DEVICE_NOT_READY"

FirmwarePlaceholder ==
    /\ IfxBtFirmwareEvaluateInitialization(board) = "DEVICE_NOT_READY"
    /\ board.firmware.PlaceholderFirmwareContract

\* Stages of Lifecycle that are several here.
StageOf ==
    CASE pc = "power on" -> "enable"
      [] pc \in {"platform", "contract"} \cup Elements(Ioctls) -> "uart"
      [] OTHER -> pc

Device == INSTANCE Lifecycle WITH
    Pnp    <- "pnp",
    Reset  <- "reset",
    Radios <- {},
    config <- [uart |-> ~UartPlaceholder, power |-> PowerOf, firmware |-> ~FirmwarePlaceholder,
               controller |-> board.validation, control |-> resources.gpio \/ resources.i2c],
    pc     <- [t \in {"pnp", "reset"} |-> IF t = "pnp" THEN StageOf ELSE "idle"],
    callback       <- IF pc = "added" THEN "none" ELSE "PrepareHardware",
    initDone       <- FALSE,
    IsRadioEnabled <- FALSE,
    ChildLock      <- {},
    children       <- 0,
    cause          <- root.reason

\* The serial IOCTLs, their timeouts and the contracts a board can have make a
\* start do nothing that Lifecycle does not allow: the reason of every failing
\* stage, the state it is in and the order of the stages are those of Lifecycle,
\* whose properties therefore hold of every board (FdoDevPrepareHardware,
\* DeviceInitialize).
StartsAsLifecycle == Device!SafeSpec
=============================================================================
