CONSTANTS
    A = A
    B = B
    x = x
    y = y
    z = z
    Fields = {notes}
    Required = {}
    Contents = {x, z}
    Tabs = {A, B}
    Opaque <- MCOpaque
    MaxVersion = 3
    None = None
SPECIFICATION Spec
CHECK_DEADLOCK FALSE
PROPERTIES
    OverwritesOnlyWhatItShowed
    UnreadableKept
    SplitKeepsContent
