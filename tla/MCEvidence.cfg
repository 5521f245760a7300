SPECIFICATION EvidenceSpec
CONSTANTS
    p1 = p1
    p2 = p2
    Texts <- MCTexts
    Files <- MCFiles
    Tables <- MCTables
    TagSets <- MCTagSets
    SourceDirs <- MCSourceDirs
    Excluded <- MCExcluded
    HighAsil = FALSE
    Inputs = {"reqs"}
    Regenerated = {"tara"}
    Tests = {"t1", "t2", "t3"}
    Starred = {"failed", "skipped"}
    Packs = {p1, p2}
    Names = {"reqs"}
    MaxVersion = 2
    Faults = TRUE
SYMMETRY PackSymmetry
INVARIANTS
    EvidenceInv
    EvidencePinned
    VerdictIsOfTheRun
    AloneOwnManifest
    GatesMeanTheirWord
    TraceRoundTrips
