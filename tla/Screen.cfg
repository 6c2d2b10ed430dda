\* Days around the end of January 2026 in weeks that start on Monday: 20477 is
\* Saturday 24 January, 20484 the 31st, 20485 and 20491 the 1st and 7th of February.
CONSTANTS
    Unset = Unset
    Anchors = {20477, 20484, 20485, 20491}
    Tapped = {20477, 20485}
    Defaults = {"agenda", "month"}
    Day1 = 20484
    WeekStart = 1
    Guests = {"guest"}
SPECIFICATION ScreenSpec
CHECK_DEADLOCK FALSE
INVARIANTS
    ScreenTellsTruth
    CreatedIsShown
PROPERTIES
    LandsWhereAsked
