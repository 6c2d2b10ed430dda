CONSTANTS
    Passwords = {w1, w2}
    Phrases = {q1, q2}
    Credentials = {c}
    Keys = {k1, k2}
    Tabs = {A, B}
    MaxFailures = 1
    None = None
    Fields = {f, g}
    Seals = {s1, s2, s3}
    RootKeys = {k}
    Unreadable = {s3}
    Opens <- OpensTheRest
    Passes = {p1, p2}
    Nothing = Nothing
SPECIFICATION UnlockingSpec
CHECK_DEADLOCK FALSE
INVARIANTS
    OneRootKey
    OnePassword
    PhraseInHand
    SettlesWhenQuiet
    ValuesBelong
PROPERTIES
    EventuallyOpened
