\* Two source ids over three contents: an edit to fresh content, an edit onto
\* another row, a repost and a swap are all possible.  Two runs: a first
\* ingest and a second sighting, with kills and drains.
CONSTANTS
    Fingerprint = {f1, f2, f3}
    SourceId = {s1, s2}
    Verdict = {pass, reject}
    NoRow = NoRow
    MaxRuns = 2
SPECIFICATION Spec
INVARIANTS
    TypeOK
    NewCountsRows
    RowsFollowTheirSightings
    RunTwiceSameJobs
PROPERTIES
    RowsArePermanent
SYMMETRY Symm
CHECK_DEADLOCK FALSE
