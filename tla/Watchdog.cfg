SPECIFICATION FairSpec
CONSTANTS
    Kickers = {"k1", "k2"}
    Timeout = 3
INVARIANTS
    Inv
    NoPrematureExpiry
    CancelIsFinal
    NoLostWakeup
PROPERTIES
    ExpiryDetected
    DestroyCompletes
    KickReturns
    ImplementsTimer
