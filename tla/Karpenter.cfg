CONSTANTS
    NaN = NaN
    Nothing = Nothing
    MaxNodes = 1
    Keys <- MCKeys
    Values <- MCValues
    Number <- MCNumber
    PodSpecs <- MCPodSpecs
    Pools <- MCPlainPools
    Fields <- MCFields
SPECIFICATION Spec
INVARIANTS
    NeverFalselyRuledOut
