\* Two deliveries that may overlap; two jobs, one batch.
CONSTANTS
    j1 = j1
    j2 = j2
    c1 = c1
    c2 = c2
    None = None
    Run = {r1, r2}
    Ingest = {d}
    Job = {j1, j2}
    Company = {c1, c2}
    Listed = {c2}
    CompanyOf <- MCCompanyOf
    Rank <- MCRank
    Reply = {"allowed"}
    Ruling = {"allowed"}
    BatchSize = 2
    JudgeLimit = 2
    PerCompany = 1
    Cap = 1
    MaxCost = 1
SPECIFICATION FairSpec
INVARIANTS
    TypeOK
    SerialRunsKeepCap
PROPERTIES
    JudgementsStay
    RulingsStay
    TransactionsEnd
