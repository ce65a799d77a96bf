-------------------------- MODULE MCChildRequests --------------------------
(***************************************************************************)
(* One query, two requests and three boards for the child device.          *)
(***************************************************************************)
EXTENDS ChildRequests

CONSTANTS q1, r1, r2

MCSends == [r \in {q1, r1, r2} |->
               CASE r = q1 -> {"info"}
                 [] r = r1 -> {"read", "write"}
                 [] r = r2 -> {"write", "unknown"}]

Lines(host, dev, placeholder) ==
    [names |-> TRUE, PowerOwnership |-> "AcpiPowerResourceOwned",
     ResetOwnership |-> "NotPresentOptional", DevWakeOwnership |-> dev,
     HostWakeOwnership |-> host, PlaceholderPowerConfig |-> placeholder]

MCWakeConfigs == {Lines("PlatformOwnedAlwaysOn", "NotPresentOptional", FALSE),
                  Lines("DriverControlledGpio", "NotPresentOptional", FALSE),
                  Lines("PlaceholderUnknown", "PlaceholderUnknown", TRUE)}
=============================================================================
