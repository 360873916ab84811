SPECIFICATION Spec
CONSTANTS
    Embedded <- MCEmbedded
    Files <- MCFiles
    Overlay <- MCOverlay
    Objects <- XRObjects
    KindOf <- XRKindOf
    GroupOf <- XRGroupOf
    Rel <- XRRel
    Body <- MCBody
    MayFail <- MCMayFail
    Configs <- XRConfigs
INVARIANT NeverInsideItself
