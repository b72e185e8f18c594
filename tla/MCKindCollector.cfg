SPECIFICATION FairSpec
CONSTANTS
    c1 = c1
    c2 = c2
    n1 = n1
    n2 = n2
    t1 = t1
    r1 = r1
    r2 = r2
    day1 = day1
    unfaithful = unfaithful
    None = None
    CorpCode = {c1, c2}
    CompanyName <- MCCompanyName
    Ticker <- MCTicker
    Company <- MCCompany
    EventType = {unfaithful}
    Unfaithful = unfaithful
    Day = {day1}
    Disclosure <- MCDisclosure
    Notice <- MCNotice
    Scope = {t1}
    MaxFaults = 2
INVARIANTS
    TypeOK
    EventsHaveParents
    OneInsertPerKey
    StoredOrReported
PROPERTY EventuallyCovered
