CONSTANTS
    w1 = w1
    w2 = w2
    Writes <- MCWrites
    PrepareMayFail = TRUE
    SendMayFail = TRUE
SPECIFICATION Spec
INVARIANTS
    CompletedExactlyOnce
    ObjectsAliveWhenUsed
    DeliveredWriteReleased
    UndeliveredWriteReleased
    ResultFaithful
PROPERTIES
    KeepsPromise
    SentLateOnlyBehindCancel
