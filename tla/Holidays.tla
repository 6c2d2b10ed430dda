------------------------------ MODULE Holidays ------------------------------
(***************************************************************************)
(* Public holidays and observances of the regions the calendar knows, as   *)
(* rules: the date of each in a year, the substitute for one that falls on *)
(* a weekend, and the ones in a range of dates.                            *)
(***************************************************************************)
EXTENDS Dates, Sequences, SequencesExt

HolidayRegions == {"US", "GB", "CA", "AU", "IE", "NZ"}

-----------------------------------------------------------------------------
(* Rules: functions from a year to the date, or NoDate.                    *)

NoDate == -1000000

EasterSunday(year) ==
    LET a == year % 19
        b == year \div 100
        c == year % 100
        g == (b - (b + 8) \div 25 + 1) \div 3
        h == (19 * a + b - b \div 4 - g + 15) % 30
        l == (32 + 2 * (b % 4) + 2 * (c \div 4) - h - (c % 4)) % 7
        n == h + l - 7 * ((a + 11 * h + 22 * l) \div 451) + 114
    IN  Date(year, n \div 31, (n % 31) + 1)

\* `nth` counts from the end of the month when it is negative.
NthWeekday(year, month, weekday, nth) ==
    LET first == Date(year, month, 1)
        last == MonthLast(first) IN
    IF nth < 0
    THEN last - ((Weekday(last) - weekday) % 7) - 7 * (-nth - 1)
    ELSE first + ((weekday - Weekday(first)) % 7) + 7 * (nth - 1)

On(m, d) == [on |-> "fixed", month |-> m, day |-> d]
Nth(m, w, n) == [on |-> "nth-weekday", month |-> m, weekday |-> w, nth |-> n]
Easter(n) == [on |-> "easter", offset |-> n]
OnOrBefore(m, d, w) == [on |-> "weekday-on-or-before", month |-> m, day |-> d, weekday |-> w]
Table(dates) == [on |-> "table", dates |-> dates]

Resolve(spec, year) ==
    LET r == spec.rule IN
    CASE r.on = "fixed" -> Date(year, r.month, r.day)
      [] r.on = "nth-weekday" ->
           IF spec.name = "StBrigidsDay" /\ Weekday(Date(year, 2, 1)) = 5
           THEN Date(year, 2, 1)
           ELSE NthWeekday(year, r.month, r.weekday, r.nth)
      [] r.on = "easter" -> EasterSunday(year) + r.offset
      [] r.on = "weekday-on-or-before" ->
           LET target == Date(year, r.month, r.day)
           IN  target - ((Weekday(target) - r.weekday) % 7)
      [] r.on = "table" -> IF year \in DOMAIN r.dates THEN r.dates[year] ELSE NoDate

-----------------------------------------------------------------------------
(* The tables.  A holiday's name is written as an identifier.              *)

Spec0(name, kind, rule, weekend, from) ==
    [name |-> name, kind |-> kind, rule |-> rule, weekend |-> weekend, from |-> from]
Public(name, rule) == Spec0(name, "public", rule, "none", 0)
Moved(name, rule, weekend) == Spec0(name, "public", rule, weekend, 0)
Observance(name, rule) == Spec0(name, "observance", rule, "none", 0)

Matariki ==
    [y \in 2022..2032 |->
        CASE y = 2022 -> Date(y, 6, 24) [] y = 2023 -> Date(y, 7, 14)
          [] y = 2024 -> Date(y, 6, 28) [] y = 2025 -> Date(y, 6, 20)
          [] y = 2026 -> Date(y, 7, 10) [] y = 2027 -> Date(y, 6, 25)
          [] y = 2028 -> Date(y, 7, 14) [] y = 2029 -> Date(y, 7, 6)
          [] y = 2030 -> Date(y, 6, 21) [] y = 2031 -> Date(y, 7, 11)
          [] y = 2032 -> Date(y, 7, 2)]

CommonObservances ==
    <<Observance("ValentinesDay", On(2, 14)), Observance("EasterSunday", Easter(0)),
      Observance("FathersDay", Nth(6, 7, 3)), Observance("Halloween", On(10, 31)),
      Observance("ChristmasEve", On(12, 24)), Observance("NewYearsEve", On(12, 31))>>

MothersDayMay == Observance("MothersDay", Nth(5, 7, 2))

NewYear(weekend) == Moved("NewYearsDay", On(1, 1), weekend)
Christmas(weekend) == Moved("ChristmasDay", On(12, 25), weekend)
BoxingDay(name) == Moved(name, On(12, 26), "forward")

US == <<NewYear("us"), Public("MartinLutherKingJrDay", Nth(1, 1, 3)),
        Public("PresidentsDay", Nth(2, 1, 3)), Public("MemorialDay", Nth(5, 1, -1)),
        Spec0("Juneteenth", "public", On(6, 19), "us", 2021),
        Moved("IndependenceDay", On(7, 4), "us"), Public("LaborDay", Nth(9, 1, 1)),
        Public("ColumbusDay", Nth(10, 1, 2)), Moved("VeteransDay", On(11, 11), "us"),
        Public("Thanksgiving", Nth(11, 4, 4)), Christmas("us"), MothersDayMay,
        Observance("StPatricksDay", On(3, 17))>>

GB == <<NewYear("forward"), Public("GoodFriday", Easter(-2)), Public("EasterMonday", Easter(1)),
        Public("EarlyMayBankHoliday", Nth(5, 1, 1)), Public("SpringBankHoliday", Nth(5, 1, -1)),
        Public("SummerBankHoliday", Nth(8, 1, -1)), Christmas("forward"), BoxingDay("BoxingDay"),
        Observance("MothersDay", Easter(-21)), Observance("BonfireNight", On(11, 5)),
        Observance("RemembranceSunday", Nth(11, 7, 2))>>

CA == <<NewYear("forward"), Public("GoodFriday", Easter(-2)),
        Public("VictoriaDay", OnOrBefore(5, 24, 1)), Moved("CanadaDay", On(7, 1), "forward"),
        Public("LabourDay", Nth(9, 1, 1)),
        Spec0("NationalDayForTruthAndReconciliation", "public", On(9, 30), "forward", 2021),
        Public("Thanksgiving", Nth(10, 1, 2)), Public("RemembranceDay", On(11, 11)),
        Christmas("forward"), BoxingDay("BoxingDay"), MothersDayMay>>

AU == <<NewYear("forward"), Moved("AustraliaDay", On(1, 26), "forward"),
        Public("GoodFriday", Easter(-2)), Public("EasterSaturday", Easter(-1)),
        Public("EasterMonday", Easter(1)), Public("AnzacDay", On(4, 25)),
        Public("KingsBirthday", Nth(6, 1, 2)), Christmas("forward"), BoxingDay("BoxingDay"),
        MothersDayMay>>

IE == <<NewYear("forward"), Spec0("StBrigidsDay", "public", Nth(2, 1, 1), "none", 2023),
        Moved("StPatricksDay", On(3, 17), "forward"), Public("EasterMonday", Easter(1)),
        Public("MayBankHoliday", Nth(5, 1, 1)), Public("JuneBankHoliday", Nth(6, 1, 1)),
        Public("AugustBankHoliday", Nth(8, 1, 1)), Public("OctoberBankHoliday", Nth(10, 1, -1)),
        Christmas("forward"), BoxingDay("StStephensDay"),
        Observance("MothersDay", Easter(-21))>>

NZ == <<NewYear("forward"), Moved("DayAfterNewYearsDay", On(1, 2), "forward"),
        Moved("WaitangiDay", On(2, 6), "forward"), Public("GoodFriday", Easter(-2)),
        Public("EasterMonday", Easter(1)), Moved("AnzacDay", On(4, 25), "forward"),
        Public("KingsBirthday", Nth(6, 1, 1)),
        Spec0("Matariki", "public", Table(Matariki), "none", 2022),
        Public("LabourDay", Nth(10, 1, 4)), Christmas("forward"), BoxingDay("BoxingDay"),
        MothersDayMay>>

Tables == [US |-> US \o CommonObservances, GB |-> GB \o CommonObservances,
           CA |-> CA \o CommonObservances, AU |-> AU \o CommonObservances,
           IE |-> IE \o CommonObservances, NZ |-> NZ \o CommonObservances]

-----------------------------------------------------------------------------
(* A year, and a range of dates.                                           *)

IsWeekend(date) == Weekday(date) >= 6

Substitute(weekend, date, taken) ==
    IF weekend = "us"
    THEN IF Weekday(date) = 6 THEN date - 1 ELSE date + 1
    ELSE Min({d \in date + 1..date + 9 : ~IsWeekend(d) /\ d \notin taken})

Entry(date, spec, observed) ==
    [date |-> date, name |-> spec.name, kind |-> spec.kind, observed |-> observed]

\* Rules that begin later or give no date are passed over.
Applies(spec, year) == year >= spec.from /\ Resolve(spec, year) # NoDate

\* A holiday on a weekend is observed on another day as well, which the later
\* ones keep clear of.
Observe(acc, spec, year) ==
    LET date == Resolve(spec, year)
        taken == {e.date : e \in {x \in acc : x.kind = "public"}}
    IN  IF Applies(spec, year) /\ spec.weekend # "none" /\ IsWeekend(date)
        THEN acc \cup {Entry(Substitute(spec.weekend, date, taken), spec, TRUE)}
        ELSE acc

HolidaysForYear(region, year) ==
    LET actual == {Entry(Resolve(s, year), s, FALSE) :
                     s \in {x \in ToSet(Tables[region]) : Applies(x, year)}}
    IN  FoldLeft(LAMBDA acc, s : Observe(acc, s, year), actual, Tables[region])

\* Half open, and with the years on either side.
HolidaysInRange(region, from, to) ==
    LET years == (YearOf(from) - 1)..(YearOf(to) + 1)
    IN  {h \in UNION {HolidaysForYear(region, y) : y \in years} : from <= h.date /\ h.date < to}

-----------------------------------------------------------------------------
(* What a workspace chose, and what that means.                            *)

RegionFromTimezone(zone) ==
    CASE zone = "Europe/London" -> "GB" [] zone = "Europe/Dublin" -> "IE"
      [] zone = "Australia/Sydney" -> "AU" [] zone = "Pacific/Auckland" -> "NZ"
      [] zone = "America/Toronto" -> "CA"
      [] zone \in {"America/New_York", "Pacific/Honolulu"} -> "US"
      [] OTHER -> "none"

ResolveHolidayRegion(preference, zone) ==
    CASE preference = "off" -> "none"
      [] preference = "auto" -> RegionFromTimezone(zone)
      [] OTHER -> preference
=============================================================================
