\* A reply that arrives in time and is drained too late.
CONSTANTS
    ats = ats
    remotive = remotive
    Run = {r1, r2}
    Source = {ats, remotive}
    NoRun = NoRun
    Rank <- MCRank
    Interval <- MCInterval
    Budget = 1
    Ceiling = 2
    MaxTime = 4
    MaxVersion <- MCMaxVersion
SPECIFICATION Spec
INVARIANTS
    NextRunRefetches
