SPECIFICATION MCSpec
CONSTANTS
    p1 = p1
    p2 = p2
    Procs = {p1, p2}
    Artifacts = {"tara"}
    Bodies = {"stub", "bland"}
    Placeholder = {"stub"}
    Repetitive = {"stub", "bland"}
    Dirs = {"canonical"}
    ReleaseFull = TRUE
    Faults = TRUE
    EditDuringRuns = TRUE
SYMMETRY ProcSymmetry
INVARIANTS
    Inv
    GateSound
    CalmKeeps
PROPERTIES
    CalmHonours
