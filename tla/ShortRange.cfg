CONSTANTS
    YearDays = 14
    LongMonth = 11
    LastDay = 66
    Null = Null
    Ids = {e1, e2, e3}
    Templates = {}
    Displays <- MCDisplays
    Retimes = {17}
    FirstDay = 23
    FinalDay = 25
    Callers = {c1, c2}
    Inputs <- MCBiweekly
    Ranges <- MCShortRanges
    Payloads <- MCPayloads
    EditDays = {25}
    MaxEdited = 3
SPECIFICATION SeriesSpec
SYMMETRY Symmetry
CHECK_DEADLOCK FALSE
INVARIANTS
    GateMissesNothing
