CONSTANTS
    EventIds = {e1, e2}
    Tabs = {t1, t2}
    LastDay = 2
    Walls = {1, 2}
    MaxVersion = 3
    MaxCreated = 1
    None = None
SPECIFICATION Spec
SYMMETRY Symmetry
CHECK_DEADLOCK FALSE
INVARIANTS
    TablesAgree
    CalendarKept
    VersionNamesPage
PROPERTIES
    NoBlindWrite
    ImplementsLedger
