SPECIFICATION MCSpec
CONSTANTS
    p1 = p1
    p2 = p2
    r1 = r1
    r2 = r2
    a = a
    b = b
    Rules = {r1, r2}
    Prints = {a, b}
    Findings <- MCFindings
    Procs = {p1, p2}
    InitialFiles <- MCFiles
    Faults = TRUE
SYMMETRY ProcSymmetry
INVARIANTS
    Inv
    NoInventedWaiver
    SoloGateObeysLatest
    SoundWaiverHolds
