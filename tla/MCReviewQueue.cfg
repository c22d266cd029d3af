CONSTANTS
    None = None
    Job = {1, 2, 3, 4}
    Employer = {1, 2}
    Listing <- MCListing
    Points = {0, 2}
    Walks <- MCWalks
    PageSize = 1
    InitScores <- MCScores
    WeekLength = 1
    Window = 1
    MaxChanges = 2
    MaxNow = 2
SPECIFICATION Spec
INVARIANTS
    TypeOK
    WalkShowsTheQueue
PROPERTY WeeksKeepTheirApplications
