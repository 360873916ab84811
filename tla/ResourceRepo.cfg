SPECIFICATION Spec
CONSTANTS
    Types <- MCTypes
    Ids <- MCIds
    PodMetrics <- PodMetricsType
    References <- MCReferences
    Substring <- MCSubstring
    CLIType <- ReplicaSet
    CLINamespace = "a"
    Starts <- MCStarts
    MaxVersion = 3
CHECK_DEADLOCK FALSE
INVARIANTS
    TypeOKRepo
    MetricsOfOneMoment
    OwnersOnEvidence
    NamesResolved
PROPERTY
    ImplementsLedger
