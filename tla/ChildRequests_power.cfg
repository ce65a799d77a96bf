CONSTANTS
    q1 = q1
    r1 = r1
    r2 = r2
    Queries = {q1}
    Requests = {r1, r2}
    Sends <- MCSends
    WakeConfigs <- MCWakeConfigs
    PortFileTypes = {}
    PortSequences = {}
SPECIFICATION Spec
INVARIANTS
    CompletedByItsOwner
    IdleReferencesAccounted
PROPERTIES
    NoIdleUnderChild
    StackStarts
    ParentGetsDown
