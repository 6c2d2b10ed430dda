CONSTANTS
    YearDays = 14
    LongMonth = 11
    LastDay = 66
    Null = Null
    Ids = {e1, e2, e3}
    Templates <- MCTemplates
    Displays <- MCDisplays
    Retimes = {17}
    FirstDay = 23
    FinalDay = 25
    Callers = {c1, c2}
    Inputs <- MCInputs
    Ranges <- MCRanges
    Payloads <- MCPayloads
    EditDays = {24}
    MaxEdited = 3
SPECIFICATION SeriesSpec
SYMMETRY Symmetry
CHECK_DEADLOCK FALSE
INVARIANTS
    SplitsLoseNothing
    PagesCutTheCalendar
    EditsKeepTheCalendar
    GateAcceptsOccurrences
    ExportShowsTheCalendar
