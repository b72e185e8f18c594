SPECIFICATION FairSpec
CONSTANTS
    c1 = c1
    c2 = c2
    n1 = n1
    n2 = n2
    t1 = t1
    CorpCode <- MCCorpCode
    CompanyName <- MCCompanyName
    Ticker <- MCTicker
    Call <- MCCall
    None = None
    Writer = {w1, w2}
    Seeder = {s1}
INVARIANTS
    TypeOK
    UniqueTickerAlias
    UniqueNameAlias
    CurrentTickerHeld
PROPERTIES
    SeedCovers
    WriterReturns
    ImplementsStore
