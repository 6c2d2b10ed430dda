CONSTANTS
    A = A
    B = B
    ann = ann
    team = team
    standup = standup
    title = title
    notes = notes
    home = home
    work = work
    Tabs = {A, B}
    Page = A
    Nothing = Nothing
    MaxCalls = 2
    PrefFields = {"timezone", "holidayRegion", "defaultView"}
    Calendars = {home, work}
    Offered = {0, 1}
    MaxTyped = 1
    DayEnd = 3
    FirstStart = 1
    MaxWindows = 2
    MaxEdits = 2
    Durations = {15, 30}
    Typeable = {0, 20, 1440, 2000}
    DayMinutes = 1440
    MaxDrafts = 2
    Person = ann
    Team = team
    Event = standup
    Everywhere = Everywhere
    RuleFields = {title, notes}
    Title = title
    Levels = {"full", "busy"}
    Surfaces = {"calendar", "hours", "new", "rules", "holidays", "grid"}
    Unset = Unset
    Anchors <- MCAnchors
    Zones <- MCZones
    WeekStarts = {0, 6}
    Stretches <- MCStretches
    MaxBlocks = 3
    Open <- MCOpen
    GridWeek <- MCGridWeek
    GridDay <- MCGridDay
SPECIFICATION Spec
CHECK_DEADLOCK FALSE
INVARIANTS
    PicksStand
    HoursAreThoseStored
    TwinsOnlyAfterLoss
    SwitchesLand
    HolidaysHold
    ColumnsCanBeRead
