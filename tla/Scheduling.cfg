CONSTANTS
    NaN = NaN
    Nothing = Nothing
    MaxNodes = 1
    Keys <- MCKeys
    Values <- MCValues
    Number <- MCNumber
    PodSpecs <- MCPodSpecs
    Pools <- MCPools
    Fields <- MCFields
SPECIFICATION Spec
INVARIANTS
    TypeOKScheduling
    ReportedBlocks
