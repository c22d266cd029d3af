\* One posting edited between two runs is enough.
CONSTANTS
    Fingerprint = {f1, f2}
    SourceId = {s1}
    Verdict = {pass}
    NoRow = NoRow
    MaxRuns = 2
SPECIFICATION Spec
INVARIANT EverySightingStored
CHECK_DEADLOCK FALSE
