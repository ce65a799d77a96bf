CONSTANTS
    t1 = t1
    t2 = t2
    t3 = t3
    Pnp = Pnp
    Routines <- ThreeRoutines
    RacingCompletion = TRUE
    RacingD0Exit = TRUE
SPECIFICATION Spec
INVARIANT OneReader
