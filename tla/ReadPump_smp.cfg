CONSTANTS
    t1 = t1
    t2 = t2
    t3 = t3
    Pnp = Pnp
    Routines <- ThreeRoutines
    RacingCompletion = TRUE
    RacingD0Exit = FALSE
SPECIFICATION Spec
INVARIANTS
    OneNextRead
    PumpFlagTruthful
    OnlyRestartFindsSent
PROPERTY KeepsReading
