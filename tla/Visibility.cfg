CONSTANTS
    Contacts = {c}
    Groups = {g, h}
    Events = {e}
    Everywhere = Everywhere
    Fields = {title, notes}
    RefOrder <- SomeOrder
    None = None
    Tabs = {A}
    Title = title
    Customizable = {notes}
    Offered = {"full", "busy"}
    Priorities = {1}
    MaxSaves = 2
    MaxChanges = 1
SPECIFICATION Spec
CHECK_DEADLOCK FALSE
INVARIANTS
    SeenAsSaid
PROPERTIES
    OnlyLateSavesStray
