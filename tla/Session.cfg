SPECIFICATION Spec
CONSTANTS
    a = a
    b = b
    Objects <- MCObjects
    Includes <- MCIncludes
    OnByDefault <- MCOnByDefault
    Requests <- MCRequests
    Queries <- MCQueries
    MaxVersion = 4
CHECK_DEADLOCK FALSE
INVARIANTS
    TypeOKSession
    SettingsAsAsked
    NothingLost
    ListingComplete
PROPERTIES
    NeverBackwards
    CommandProgresses
