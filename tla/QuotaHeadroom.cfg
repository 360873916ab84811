SPECIFICATION Spec
CONSTANTS
    small = small
    big = big
    Workloads <- MCWorkloads
    Templates <- MCTemplates
    Requests <- MCRequests
    Limits <- MCLimits
    Entries <- MCEntries
    FirstUse <- MCFirstUse
    Resources <- MCResources
    NotTracked = NotTracked
    NotRead = NotRead
    NoReport = NoReport
    Deep = TRUE
    MaxReplicas = 2
    MaxChanges = 2
INVARIANTS
    TypeOKQuota
    RoomAsReported
    ShortfallIsReal
