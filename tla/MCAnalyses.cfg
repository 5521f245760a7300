SPECIFICATION Spec
CHECK_DEADLOCK FALSE
INVARIANTS
    RatingsFollowTheTables
    QualificationMeansTheRules
    GapsFollowTheEvidence
    ReportsTellTheFindings
    CoverageIsOfTheCode
    ArtifactsAreOfTheProject
    ScansFollowTheText
