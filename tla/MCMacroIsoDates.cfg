SPECIFICATION Spec
CONSTANTS
    None = None
    Series = {s1, s2}
    Value <- MCValue
    Stored <- MCStored
    Window = 1
    LastDay = 2
    KeyType = {"iso"}
    MaxFaults = 1
PROPERTY OverwritesAlwaysReported
