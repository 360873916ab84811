SPECIFICATION FairSpec
CONSTANTS
    first = first
    bad = bad
    fixed = fixed
    MaxReplicas = 3
    Partition = 1
    Threshold = 1
    Revisions <- MCRevisions
    Good <- MCGood
    FirstRevision = first
    NoPod = NoPod
    NoReport = NoReport
    NotRead = NotRead
    MaxChanges = 4
    MaxOutages = 1
INVARIANTS
    TypeOKTrap
PROPERTIES
    OnlyTheAdviceReplacesIt
    RecreatedOnTarget
    RolloutCompletes
