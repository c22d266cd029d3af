\* Two deliveries at once, or one that is rolled back after it was charged.
CONSTANTS
    j1 = j1
    j2 = j2
    c1 = c1
    c2 = c2
    None = None
    Run = {r1, r2}
    Ingest = {d}
    Job = {j1, j2}
    Company = {c1, c2}
    Listed = {c2}
    CompanyOf <- MCCompanyOf
    Rank <- MCRank
    Reply = {"allowed", "excluded"}
    Ruling = {"allowed"}
    BatchSize = 1
    JudgeLimit = 2
    PerCompany = 1
    Cap = 1
    MaxCost = 1
SPECIFICATION Spec
INVARIANT CapIsACeiling
