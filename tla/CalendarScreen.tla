--------------------------- MODULE CalendarScreen ---------------------------
(***************************************************************************)
(* The calendar in a browser.  Every place is an address, read by a server *)
(* that renders a page for it; the screen around the page is one client    *)
(* component whose state survives from page to page.  A link starts a      *)
(* navigation, which discards the one under way; the page on screen stays  *)
(* until the new one arrives.                                              *)
(***************************************************************************)
EXTENDS CalendarPages

CONSTANTS
    Anchors,     \* bound: dates a page may be anchored on
    Tapped,      \* bound: days that are tapped, and dates an event is put on
    Defaults,    \* bound: views that are made the default
    Day1,        \* the date it is when the screen opens
    WeekStart,   \* workspaces.week_start
    Guests       \* audiences other than the owner

ASSUME ScreenAssumption ==
    /\ Anchors \subseteq Int /\ Tapped \subseteq Anchors
    /\ {Day1, Day1 + 1} \subseteq Anchors
    /\ Defaults \subseteq Views
    /\ Unset \notin Int \cup Views
    /\ WeekStart \in 0..6
    /\ "owner" \notin Guests

VARIABLES
    today,        \* the date in the workspace's time zone
    defaultView,  \* workspaces.default_view
    event,        \* the date of the one event there is, or Unset
    url,          \* the address committed: view and date may be Unset
    page,         \* what the server rendered for it
    pending,      \* the navigation under way and what it was meant for, or Unset
    refreshing,   \* a router.refresh() is queued behind it
    clientView,   \* agenda or week, on a page that holds a week
    selected,     \* the day tapped in the month grid of a phone, or Unset
    todayLocal,   \* the date read when the screen was mounted
    saved,        \* the last write and the anchor it belongs to, or Unset
    deleted,      \* the date the deleted event had, or Unset
    sealing,      \* the audience switch being shown, or Unset
    undisturbed,  \* history: nothing but its own navigation followed the write
    overtaken     \* history: the switch being shown gave way to a link to the address on screen

server == <<today, defaultView, event>>
place == <<url, page, pending, refreshing>>
screen == <<clientView, selected, todayLocal, saved, deleted, sealing>>
screenVars == <<server, place, screen, undisturbed, overtaken>>

Audiences == {"owner"} \cup Guests

\* Two faces of one page.
Week == {"agenda", "week"}

Address == [view : Views \cup {Unset}, date : Anchors \cup {Unset}, as : Audiences]

\* What a navigation was meant for, and (history) the face of a week then on screen.
Navigation == [query : Address, view : Views, day : Int \cup {Unset}, as : Audiences, face : Week]
Notice == [kind : {"created", "edited"}, date : Anchors, anchor : Anchors]
Sealing == [cover : BOOLEAN]

\* Nothing is pending, said or covered when it is Unset.
ASSUME UnsetAssumption == Unset \notin Navigation \cup Notice \cup Sealing

ScreenOK ==
    /\ today \in {Day1, Day1 + 1} /\ todayLocal \in {Day1, Day1 + 1}
    /\ defaultView \in Views /\ clientView \in Week
    /\ event \in Anchors \cup {Unset} /\ deleted \in Anchors \cup {Unset}
    /\ url \in Address /\ pending \in Navigation \cup {Unset} /\ refreshing \in BOOLEAN
    /\ page \in [view : Views, anchor : Anchors, as : Audiences, event : Anchors \cup {Unset}]
    /\ selected \in Anchors \cup {Unset}
    /\ saved \in Notice \cup {Unset}
    /\ sealing \in Sealing \cup {Unset}
    /\ undisturbed \in BOOLEAN /\ overtaken \in BOOLEAN

-----------------------------------------------------------------------------
(* What is on screen.                                                      *)

OnWeekFetch == page.view \in Week

\* The view on screen: the client's own on a page that holds a week.
Shown == IF OnWeekFetch THEN clientView ELSE page.view

DatesShown == Fetched(page.view, page.anchor, WeekStart)

\* Mutant: the exclusive end of the range counted as its last day.
OffPageInclusive(date) == date \notin DatesShown \cup {d + 1 : d \in DatesShown}

OffPage(date) == date \notin DatesShown

IsShowingToday(view, anchor, day) ==
    CASE view = "day" -> anchor = day
      [] view = "month" -> MonthFirst(anchor) = MonthFirst(day)
      [] OTHER -> WeekFirst(anchor, WeekStart) = WeekFirst(day, WeekStart)

OnToday == IsShowingToday(Shown, page.anchor, todayLocal)

\* The day listed under the month grid of a phone.
MonthDay ==
    IF selected # Unset THEN selected
    ELSE IF MonthFirst(todayLocal) = MonthFirst(page.anchor) THEN todayLocal
         ELSE page.anchor

SavedNotice == saved # Unset /\ saved.anchor = page.anchor

CanCompose == page.as = "owner"

\* The cover takes the page under it out of reach: the header, the sidebar, the
\* sheets and the keys stay.
Uncovered == ~(sealing # Unset /\ sealing.cover)

-----------------------------------------------------------------------------
(* The server.                                                             *)

AnchorOf(address) == IF address.date = Unset THEN today ELSE address.date

\* The event is on a page whose range holds its date.
PageOf(address) ==
    LET view == ParseView(address.view, defaultView)
        anchor == AnchorOf(address)
    IN  [view |-> view, anchor |-> anchor, as |-> address.as,
         event |-> IF event \in Fetched(view, anchor, WeekStart) THEN event ELSE Unset]

\* The month's selection is for one anchor in one view.
SelectionFor(view, anchor) ==
    selected' = IF view = Shown /\ anchor = page.anchor THEN selected ELSE Unset

ShownOn(p) == IF p.view \in Week THEN clientView ELSE p.view

-----------------------------------------------------------------------------
(* Navigation.                                                             *)

Meaning(query, view, day, audience) ==
    [query |-> query, view |-> view, day |-> day, as |-> audience, face |-> clientView]

\* A link: it carries `query`, and whoever follows it asked for a day in a
\* view (Unset, the day it is).  The header, the sidebar and the keys stay
\* live while a switch of audiences is under way, which the link discards.
Follow(query, view, day) ==
    /\ query.date \in Anchors \cup {Unset}
    /\ pending' = Meaning(query, view, day, page.as)
    /\ undisturbed' = FALSE
    /\ overtaken' = (sealing # Unset /\ query = url)
    /\ UNCHANGED <<server, url, page, refreshing, screen>>

\* The day beyond what is on screen, which a step brings into sight.
Beyond(step) ==
    LET visible == Visible(page.view, page.anchor, WeekStart)
    IN  IF step = 1 THEN Max(visible) + 1 ELSE Min(visible) - 1

\* The steppers are built by the server, for its own view.
StepLink(step) ==
    Follow(StepQuery(page.anchor, page.view, step, page.as), Shown, Beyond(step))

StepKey(step) ==
    Follow(StepQuery(page.anchor, Shown, step, page.as), Shown, Beyond(step))

Today == Follow(TodayQuery(Shown, page.as), Shown, Unset)

\* A cell of the month grid, the mini month or the week strip.
OpenDay(day) ==
    /\ day \in MonthCells(page.anchor, WeekStart) \cup WeekOf(page.anchor, WeekStart)
    /\ Follow(DayQuery(day, page.as), "day", day)

\* Overlapping events drawn as one block open where there is room for them.
OpenCluster(day) ==
    /\ Uncovered /\ Shown \in {"week", "day"} /\ page.event = day
    /\ LET target == IF Shown = "day" THEN "agenda" ELSE "day"
       IN  Follow(ViewQuery(target, day, page.as), target, day)

\* The view control and the keys 1 to 4: a toggle while the page holds a
\* week, a link otherwise.
Toggle(target) ==
    /\ OnWeekFetch /\ target \in Week /\ target # clientView
    /\ clientView' = target
    /\ UNCHANGED <<server, place, selected, todayLocal, saved, deleted, sealing, undisturbed,
                   overtaken>>

SelectView(target) ==
    /\ ~(OnWeekFetch /\ target \in Week) /\ target # Shown
    /\ Follow(ViewQuery(target, page.anchor, page.as), target, page.anchor)

\* Mutant: covers when widening.
CoversWidening(audience) == audience = "owner"

\* Closing hides at once; opening may wait.
Covers(audience) == audience # "owner"

\* Mutant: not refused.
AlwaysSwitches(audience) == audience \in Audiences

\* Switching to the address on screen is refused: its query would not change.
Switches(audience) == audience # url.as

SwitchAudience(audience) ==
    /\ Switches(audience)
    /\ pending' = Meaning([url EXCEPT !.as = audience], Shown, url.date, audience)
    /\ sealing' = [cover |-> Covers(audience)]
    /\ undisturbed' = FALSE /\ overtaken' = FALSE
    /\ UNCHANGED <<server, url, page, refreshing, clientView, selected, todayLocal, saved, deleted>>

SelectDay(day) ==
    /\ Uncovered /\ Shown = "month" /\ day \in MonthCells(page.anchor, WeekStart)
    /\ selected' = day
    /\ UNCHANGED <<server, place, clientView, todayLocal, saved, deleted, sealing, undisturbed,
                   overtaken>>

\* The cover is released when the query string changes.
Release ==
    /\ sealing' = IF pending.query # url THEN Unset ELSE sealing
    /\ overtaken' = (overtaken /\ pending.query = url)

Arrive ==
    /\ pending # Unset
    /\ page' = PageOf(pending.query)
    /\ url' = pending.query
    /\ Release
    /\ SelectionFor(ShownOn(page'), page'.anchor)
    /\ pending' = Unset
    /\ UNCHANGED <<server, refreshing, clientView, todayLocal, saved, deleted, undisturbed>>

Refresh ==
    /\ refreshing /\ pending = Unset
    /\ page' = PageOf(url)
    /\ SelectionFor(ShownOn(page'), page'.anchor)
    /\ refreshing' = FALSE
    /\ undisturbed' = (undisturbed /\ page'.anchor = page.anchor)
    /\ UNCHANGED <<server, url, pending, clientView, todayLocal, saved, deleted, sealing,
                   overtaken>>

\* Opening an address, or reloading: the screen is mounted anew.
Mounted(address) ==
    LET p == PageOf(address)
    IN  /\ page' = p
        /\ url' = address
        /\ clientView' = IF p.view = "week" THEN "week" ELSE "agenda"
        /\ todayLocal' = today

Reload ==
    /\ Mounted(url)
    /\ pending' = Unset /\ refreshing' = FALSE
    /\ selected' = Unset /\ saved' = Unset /\ deleted' = Unset /\ sealing' = Unset
    /\ undisturbed' = FALSE /\ overtaken' = FALSE
    /\ UNCHANGED server

-----------------------------------------------------------------------------
(* Writes, and what the screen says of them.                               *)

\* A creation that landed off the page is gone to; an edit never moves you.
GoThere(kind, date) == kind = "created" /\ OffPage(date)

ReportSaved(kind, date) ==
    /\ deleted' = Unset
    /\ saved' = [kind |-> kind, date |-> date,
                 anchor |-> IF GoThere(kind, date) THEN date ELSE page.anchor]
    /\ IF GoThere(kind, date)
       THEN /\ pending' = Meaning(ViewQuery(Shown, date, page.as), Shown, date, page.as)
            /\ undisturbed' = TRUE /\ overtaken' = FALSE
       ELSE /\ undisturbed' = (pending = Unset)
            /\ UNCHANGED <<pending, overtaken>>
    /\ refreshing' = TRUE

\* The sidebar's button and a key open the form, covered or not.
Create(date) ==
    /\ CanCompose /\ event = Unset
    /\ event' = date
    /\ ReportSaved("created", date)
    /\ UNCHANGED <<today, defaultView, url, page, clientView, selected, todayLocal, sealing>>

Edit(date) ==
    /\ CanCompose /\ Uncovered /\ page.event # Unset /\ event = page.event
    /\ event' = date
    /\ ReportSaved("edited", date)
    /\ UNCHANGED <<today, defaultView, url, page, clientView, selected, todayLocal, sealing>>

\* The door offered by the notice of an edit that moved an event off the page.
ShowMe ==
    /\ SavedNotice /\ saved.kind = "edited" /\ OffPage(saved.date)
    /\ Uncovered
    /\ Follow(ViewQuery(Shown, saved.date, page.as), Shown, saved.date)

Delete ==
    /\ CanCompose /\ Uncovered /\ page.event # Unset /\ event = page.event
    /\ event' = Unset /\ saved' = Unset /\ deleted' = event
    /\ refreshing' = TRUE /\ undisturbed' = FALSE
    /\ UNCHANGED <<today, defaultView, url, page, pending, clientView, selected, todayLocal,
                   sealing, overtaken>>

Undo ==
    /\ deleted # Unset /\ event = Unset /\ Uncovered
    /\ event' = deleted /\ deleted' = Unset /\ refreshing' = TRUE
    /\ UNCHANGED <<today, defaultView, url, page, pending, clientView, selected, todayLocal,
                   saved, sealing, undisturbed, overtaken>>

Dismiss ==
    /\ Uncovered
    /\ \/ SavedNotice /\ saved' = Unset /\ UNCHANGED deleted
       \/ deleted # Unset /\ deleted' = Unset /\ UNCHANGED saved
    /\ undisturbed' = FALSE
    /\ UNCHANGED <<server, place, clientView, selected, todayLocal, sealing, overtaken>>

\* The bookmark beside the views: this view is where the calendar opens.
MakeDefault ==
    /\ CanCompose /\ Shown \in Defaults \ {defaultView}
    /\ defaultView' = Shown
    /\ refreshing' = TRUE
    /\ UNCHANGED <<today, event, url, page, pending, screen, undisturbed, overtaken>>

Midnight ==
    /\ today = Day1
    /\ today' = Day1 + 1
    /\ UNCHANGED <<defaultView, event, place, screen, undisturbed, overtaken>>

-----------------------------------------------------------------------------
ScreenInit ==
    /\ today = Day1 /\ defaultView \in Defaults /\ event = Unset
    /\ url \in [view : Views \cup {Unset}, date : {Unset, Day1}, as : Audiences]
    /\ page = PageOf(url)
    /\ clientView = IF page.view = "week" THEN "week" ELSE "agenda"
    /\ todayLocal = today
    /\ pending = Unset /\ refreshing = FALSE
    /\ selected = Unset /\ saved = Unset /\ deleted = Unset /\ sealing = Unset
    /\ undisturbed = FALSE /\ overtaken = FALSE

Step == \E n \in {-1, 1} : StepLink(n) \/ StepKey(n)

ScreenNext ==
    \/ Arrive \/ Refresh \/ Reload \/ Midnight
    \/ Step \/ Today
    \/ \E day \in Tapped : OpenDay(day) \/ OpenCluster(day) \/ SelectDay(day)
    \/ \E target \in Views : Toggle(target) \/ SelectView(target)
    \/ \E audience \in Audiences : SwitchAudience(audience)
    \/ \E date \in Tapped : Create(date) \/ Edit(date)
    \/ ShowMe \/ Delete \/ Undo \/ Dismiss \/ MakeDefault

ScreenSpec == ScreenInit /\ [][ScreenNext]_screenVars

-----------------------------------------------------------------------------
(* Properties.                                                             *)

Settled == pending = Unset /\ ~refreshing

\* Of the two faces of a week the screen keeps the one it last had, when the
\* link was followed from a page that holds no week, or the face was changed
\* while the page was on its way.
KeepsFace ==
    /\ pending.view \in Week /\ ShownOn(page') = clientView
    /\ ~OnWeekFetch \/ clientView # pending.face

\* Every control leads where it says: the page that arrives is for the audience
\* asked for, shows the day asked for, and is drawn in the view asked for (or
\* in the other face of a week, in the two cases of KeepsFace and no other).
\* For a step the day is the one next to the last one shown, so that stepping
\* skips no day and no month; for Today it is the day it is when the server
\* answers.
LandsWhereAsked ==
    [][Arrive =>
        /\ page'.as = pending.as
        /\ ShownOn(page') = pending.view \/ KeepsFace
        /\ IF pending.day = Unset THEN page'.anchor = today
           ELSE pending.day \in Fetched(page'.view, page'.anchor, WeekStart)]_screenVars

\* While the page of a narrower audience is being fetched the page on screen is
\* covered; and what is shown of a switch goes with the page on its way, unless
\* the switch gave way to a link to the address already on screen.
CoverIsHonest ==
    /\ pending # Unset /\ pending.as # page.as /\ pending.as \in Guests =>
          sealing # Unset /\ sealing.cover
    /\ sealing # Unset /\ ~overtaken => pending # Unset /\ pending.query # url

\* An event just created is on the page that says so, when nothing but the
\* screen's own navigation followed: the screen goes to it if and only if it
\* would not be seen otherwise.
CreatedIsShown ==
    (Settled /\ undisturbed /\ saved # Unset /\ saved.kind = "created") =>
        SavedNotice /\ page.event = saved.date

\* The Today control of a phone is there when there is somewhere to go: until
\* midnight, it is absent exactly on the pages Today would lead to.
TodayOffered ==
    todayLocal = today =>
        (OnToday <=> Visible(Shown, page.anchor, WeekStart) = Visible(Shown, today, WeekStart))

\* The day listed under the month grid is a day of that grid.
MonthListOnGrid == Shown = "month" => MonthDay \in DatesShown

\* What the screen offers and hides belongs to the page that is on it, however
\* links, switches before and after them, writes, refreshes and midnight follow
\* each other.
ScreenTellsTruth == CoverIsHonest /\ TodayOffered /\ MonthListOnGrid

=============================================================================
