SPECIFICATION Spec
CONSTANTS
    c1 = c1
    c2 = c2
    n1 = n1
    t1 = t1
    t2 = t2
    p1 = p1
    p2 = p2
    None = None
    CorpCode = {c1, c2}
    CompanyName = {n1}
    Ticker = {t1, t2}
    Company <- MCCompany
    Scope = {t1, t2}
    Traded = {t1}
    Run <- MCRun
    MaxPrice = 2
    MaxFlow = 1
    MaxShort = 1
    MaxFaults = 1
SYMMETRY MCSymmetry
INVARIANTS
    TypeOK
    RowsAttributed
    TickersAccounted
    RerunAgrees
PROPERTY ShortKept
