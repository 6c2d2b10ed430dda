---------------------------- MODULE SettingsPages ----------------------------
(***************************************************************************)
(* The forms of the settings and people pages, and two things that hang on *)
(* those settings: the holidays, and the grid that shades the owner's      *)
(* hours.  They share the way a call is made and no state, so a behaviour  *)
(* stays on one surface.                                                   *)
(***************************************************************************)
EXTENDS CalendarForms, HoursForm, NewRows, RuleForms, HolidayPages, WeekGrid

CONSTANT Surfaces  \* those that are looked at

VARIABLE surface

allVars == <<callVars, formVars, hoursVars, newVars, ruleVars, holidayVars, gridVars, surface>>

HolidaysAway ==
    /\ preference = "off" /\ timezone = "" /\ weekStart = 0
    /\ page = [anchor |-> 0, region |-> "none", found |-> {}]

Init ==
    /\ surface \in Surfaces
    /\ FormsInit /\ HoursInit /\ NewInit /\ RulesInit
    \* A surface nobody is on stays in one state.
    /\ surface # "calendar" => ~demo
    /\ surface # "hours" => hours = {}
    /\ GridInit
    /\ surface # "grid" => gridDays = {GridDay} /\ availability = [d \in 0..6 |-> {}]
    /\ IF surface = "holidays" THEN HolidaysInit ELSE HolidaysAway

OnCalendar == <<demo, stored, shown, busyId, renaming, typed, pick, unsure>>
OnHours == <<hours, draft, edits, saved, overtaken>>
OnNew == <<rows, form, drafts, store, broken>>
OnHolidays == holidayVars
OnGrid == gridVars
OnRules == <<people, rules, issued, drawn, wish, doubt, tacit>>

Next ==
    /\ UNCHANGED surface
    /\ \/ surface = "calendar" /\ FormsNext /\ UNCHANGED <<OnHours, OnNew, OnRules, OnHolidays, OnGrid>>
       \/ surface = "hours" /\ HoursNext /\ UNCHANGED <<OnCalendar, OnNew, OnRules, OnHolidays, OnGrid>>
       \/ surface = "new" /\ NewNext /\ UNCHANGED <<OnCalendar, OnHours, OnRules, OnHolidays, OnGrid>>
       \/ surface = "rules" /\ RulesNext /\ UNCHANGED <<OnCalendar, OnHours, OnNew, OnHolidays, OnGrid>>
       \/ surface = "holidays" /\ HolidaysNext /\ UNCHANGED <<callVars, OnCalendar, OnHours, OnNew, OnRules, OnGrid>>
       \/ surface = "grid" /\ GridNext /\ UNCHANGED <<callVars, OnCalendar, OnHours, OnNew, OnRules, OnHolidays>>

Spec == Init /\ [][Next]_allVars

\* The state of the forms.
TypeOK == FormsOK /\ HoursOK /\ NewOK /\ RulesOK

=============================================================================
