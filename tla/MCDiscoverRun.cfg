\* A queue of one: both producers and the sentinel have to wait for room.
CONSTANTS
    ats = ats
    feedSource = feedSource
    b1 = b1
    b2 = b2
    b3 = b3
    b4 = b4
    j1 = j1
    j2 = j2
    j3 = j3
    f1 = f1
    f2 = f2
    f3 = f3
    f4 = f4
    s1 = s1
    s2 = s2
    s3 = s3
    pass = pass
    Source = {ats, feedSource}
    Board = {b1, b2, b3, b4}
    Item = {j1, j2, j3}
    Fingerprint = {f1, f2, f3, f4}
    SourceId = {s1, s2, s3}
    Verdict = {pass}
    NoRow = NoRow
    Done = Done
    Validating = {b1, b3}
    Paged = {feedSource}
    QueueSize = 1
    BoardsOf <- MCBoardsOf
    ItemsOf <- MCItemsOf
    PostingOf <- MCPostingOf
    StartTables <- MCStartTables
SPECIFICATION FairSpec
INVARIANTS
    TypeOK
    NothingLost
    QuietRunIsComplete
    SavepointConfines
PROPERTIES
    RunEnds
    LedgerSpec
