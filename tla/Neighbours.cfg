CONSTANTS
    It = "it"
    Home = "ns"
    Absent = Absent
    Strings <- MCStrings
    Labellings <- MCLabellings
    Beginnings <- MCParts
    Endings <- MCParts
    Parts <- MCParts
    SelectorSelects <- evaluates
    Objects <- MCObjects
    LabelSets <- MCLabelSets
    Clusters <- MCClusters
SPECIFICATION Spec
CHECK_DEADLOCK FALSE
INVARIANTS
    TypeOKNeighbours
    PageWithinWindow
    DirectionsWithinWindow
