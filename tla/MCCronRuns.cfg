\* Two instances, each serving one delivery after the other.
CONSTANTS
    ats = ats
    remotive = remotive
    Run = {r1, r2}
    Source = {ats, remotive}
    NoRun = NoRun
    Rank <- MCRank
    Interval <- MCInterval
    Budget = 1
    Ceiling = 2
    MaxTime = 4
    MaxVersion <- MCMaxVersion
SPECIFICATION FairSpec
INVARIANTS
    TypeOK
    RunsAreSerialised
    ClaimsNeverDeadlock
    ValidatorsMatchRows
PROPERTIES
    ClaimsAreSpaced
    DeliveredRunsEnd
