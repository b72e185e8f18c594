SPECIFICATION Spec
CONSTANTS
    None = None
    NoBlame = NoBlame
    Body <- MCBody
    Statement <- MCStatement
    Item <- MCItem
    LastPeriod = 3
    MaxCandidates = 2
INVARIANTS
    CandidatesComplete
    FirstValueKept
CHECK_DEADLOCK FALSE
