CONSTANTS
    Workspaces = {w}
    Subs = {s1, s2}
    Handlers = {h1, h2}
    MaxChanges = 2
    MaxFailures = 1
    None = None
SPECIFICATION FairSpec
CHECK_DEADLOCK FALSE
INVARIANTS
    BooksAgree
PROPERTIES
    NeverGoesBack
    EveryEventSettles
