SPECIFICATION FairSpec
CONSTANTS
    Period = 2
    MaxBeats = 4
INVARIANTS
    Inv
    AliveIsEarned
    AtMostOneLateVerdict
PROPERTIES
    NoFalseAlarm
    OneVerdictPerPeriod
    SilenceDetected
    DestroyCompletes
