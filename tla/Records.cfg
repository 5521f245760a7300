SPECIFICATION Spec
CONSTANTS
    Procs = {p, q}
    Topics = {"pr", "metrics", "hook", "sign"}
    MaxRuns = 5
CHECK_DEADLOCK FALSE
INVARIANTS
    Inv
    CalmLogKeeps
    VerdictIsOfTheSignature
PROPERTIES
    ForeignHookIsLeft
