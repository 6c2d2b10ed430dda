SPECIFICATION Spec
CONSTANTS
    Users = {u1, u2}
    Tabs = {t1, t2}
    Fresh = {u2}
    None = None
INVARIANTS
    KeysStayApart
    NothingLeftBehind
PROPERTIES
    NeverStuck
CHECK_DEADLOCK FALSE
