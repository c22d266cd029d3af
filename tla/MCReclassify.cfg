\* Every content alone in the table; two rows beside a discovery run.
CONSTANTS
    sf = sf
    dublin = dublin
    newyork = newyork
    ca = ca
    tx = tx
    newmexico = newmexico
    canada = canada
    london = london
    us = us
    office = office
    d = d
    None = None
    Script = script
    Discovery = {d}
    Part = {sf, dublin, newyork, ca, tx, newmexico, canada, london, us, office}
    California = {}
    CaCode = ca
    Loose = {us}
    SalaryFloor = 125
    Geography <- MCGeography
    Content <- MCContent
    RulesOf <- MCRulesOf
    Scenario <- MCScenario
    Feed <- MCFeed
    MaxId = 4
    Sightings <- MCSightings
    Batch = 1
SPECIFICATION FairSpec
INVARIANTS
    TypeOK
    RowsRejudged
    ReportMatchesWrites
    BayOfficeIsLocal
    OfficesDecide
PROPERTIES
    ContentIsDiscoverys
    TransactionsEnd
CHECK_DEADLOCK FALSE
