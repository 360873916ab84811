SPECIFICATION Spec
CONSTANTS
    Embedded <- MCEmbedded
    Files <- MCFiles
    Overlay <- MCOverlay
    Objects <- MCObjects
    KindOf <- MCKindOf
    GroupOf <- MCGroupOf
    Rel <- MCRel
    Body <- MCBody
    MayFail <- MCMayFail
    Configs <- MCConfigs
INVARIANTS
    TypeOK
    Isolation
    OverrideHonoured
    PrintedOnce
    TopLevelPrinted
    ClaimsBacked
    FlatWithoutLiveQueries
PROPERTY RenderTerminates
