SPECIFICATION FairSpec
CONSTANTS
    c1 = c1
    c2 = c2
    n1 = n1
    n2 = n2
    t1 = t1
    t2 = t2
    k1 = k1
    k2 = k2
    p1 = p1
    p2 = p2
    f1 = f1
    f2 = f2
    None = None
    CorpCode = {c1, c2}
    CompanyName = {n1, n2}
    Ticker = {t1, t2}
    Company <- MCCompany
    Run = {p1, p2}
    Feed = {f1, f2}
    Link = {k1, k2}
    Carries <- MCCarries
    Mentions <- MCMentions
    Length <- MCLength
    MaxPerFeed = 1
    Scope = {t1, t2}
    MaxFaults = 1
INVARIANTS
    TypeOK
    TagsJustified
    ArticlesAccounted
PROPERTY EventuallyStored
