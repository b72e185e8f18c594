SPECIFICATION FairSpec
CONSTANTS
    None = None
    Series = {s1, s2}
    Value <- MCValue
    Stored <- MCStored
    Window = 1
    LastDay = 2
    KeyType = {"date", "iso"}
    MaxFaults = 1
INVARIANTS
    TypeOK
    CountedIsStored
    SeriesAccounted
PROPERTIES
    RevisionsReported
    EventuallyStored
