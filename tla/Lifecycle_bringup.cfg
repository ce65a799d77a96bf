CONSTANTS
    r1 = r1
    r2 = r2
    Pnp = Pnp
    Reset = Reset
    Radios <- TwoRadios
SPECIFICATION Spec
INVARIANTS
    GatedByContracts
    OneChild
    RootReasonKept
    InitializedOnStartedTarget
PROPERTIES
    RadioRequestsComplete
    ChildBornReady
