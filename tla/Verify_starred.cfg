SPECIFICATION Spec
CONSTANTS
    Tests = {"t1", "t2"}
    Starred = {"failed", "skipped"}
    Faults = FALSE
INVARIANTS
    SuccessIsGreen
