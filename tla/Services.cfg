SPECIFICATION ServicesSpec
CONSTANTS
    Tabs = {t1, t2}
    Subs = {s1, s2}
    MaxTurns = 1
    MaxRequests = 3
    None = None
    Amounts = {5, 6}
    MaxEdits = 2
    MaxRuns = 4
    Absent = Absent
    Providers = {google, zoho}
    MaxPanel = 3
    MaxEmailRuns = 3
    Nothing = Nothing
SYMMETRY Symmetry
CHECK_DEADLOCK FALSE
INVARIANTS
    PaidTabBuysNoMore
    ShopSetUp
    MailSetUp
PROPERTIES
    PlanAsShown
