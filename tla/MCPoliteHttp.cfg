CONSTANTS
    None = None
    Call = {c1, c2}
    Host = {"algolia"}
    Resource = {"page0", "page1"}
    HostOf <- MCHostOf
    UrlOf <- MCUrlOf
    DelayFor <- MCDelayFor
    DefaultDelay = 1
    RetryAfter = {0, 9}
    MaxRetryAfter = 2
    MaxRetries = 2
    MaxVersion <- MCMaxVersion
    ModifiedAt <- MCModifiedAt
    Offers <- MCOffers
    Garbled <- MCGarbled
SPECIFICATION FairSpec
INVARIANTS
    TypeOK
    NotModifiedMeansSeen
PROPERTIES
    RequestsAreSpaced
    CallsEnd
CHECK_DEADLOCK FALSE
