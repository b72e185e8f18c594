SPECIFICATION FairSpec
CONSTANTS
    t1 = t1
    n1 = n1
    None = None
    CorpCode = {c1}
    CompanyName <- MCCompanyName
    Ticker <- MCTicker
    CorpInfo <- MCCorpInfo
    Filing = {1, 2}
    MaxDocs = 2
    MaxTries = 2
    Pages = 2
    Amendable = {1}
    MaxVersion = 2
    MaxFaults = 0
    SeedScript = FALSE
PROPERTY RunsSeedTheEntity
