SPECIFICATION Spec
CONSTANTS
    Inputs = {}
    Regenerated = {"tara"}
    Faults = FALSE
INVARIANTS
    OutputsPinned
