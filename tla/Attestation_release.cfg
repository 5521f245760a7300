SPECIFICATION Spec
CONSTANTS
    Procs = {p1}
    Artifacts = {"tara", "fmea"}
    Bodies = {"bland"}
    Placeholder = {}
    Repetitive = {"bland"}
    Dirs = {"canonical", "relative"}
    ReleaseFull = TRUE
    Faults = FALSE
    EditDuringRuns = FALSE
INVARIANTS
    AttestationKept
