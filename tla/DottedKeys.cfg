CONSTANTS
    None = None
    Strings <- MCStrings
    Labellings <- MCLabellings
    Texts <- MCTexts
    Checks <- MCChecks
    DnsLabels = {"a", "b"}
    Names <- MCNames
    Beginnings <- MCBeginnings
    Endings <- MCEndings
    Parts <- MCParts
    DriftChecks <- MCDriftChecks
    Precision = 3
    KeyParts <- MCKeyParts
    Contents <- MCContents
    Depth <- MCDepth
    Before <- MCBefore
    SensitiveParts = {"password"}
    MaxDriftEntries = 2
    Hosts <- MCHosts
SPECIFICATION MatchingSpec
CHECK_DEADLOCK FALSE
INVARIANT
    EveryDriftRendered
