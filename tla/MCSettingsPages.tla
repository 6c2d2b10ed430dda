--------------------------- MODULE MCSettingsPages ---------------------------
(* The holidays: the days around the ends of years, and the springs in      *)
(* which a holiday with a substitute meets Easter.  The grid: a Wednesday   *)
(* and a Thursday, with blocks that touch, meet and pass midnight.          *)
EXTENDS SettingsPages

CONSTANTS A, B, home, work, ann, team, standup, title, notes

MCAnchors ==
    UNION {Date(y, 12, 31) - 7..Date(y, 12, 31) + 8 : y \in {2021, 2024}}
      \cup {Date(y, m, 15) : y \in {2021}, m \in 1..12}
      \cup {Date(y, 12, 1) : y \in {2004, 2010, 2016, 2022, 2023}}
      \cup {Date(y, 4, 15) : y \in {2008, 2019, 2025, 2027, 2038, 2049, 2076, 2100}}

MCGridWeek == Date(2026, 3, 1)
MCGridDay == MCGridWeek + 3

Stretch(day, from, to) == [day |-> day, start |-> from, end |-> to]

MCStretches ==
    {Stretch(MCGridDay, from, to) :
        <<from, to>> \in {<<540, 600>>, <<540, 630>>, <<570, 600>>, <<600, 660>>,
                          <<0, 15>>, <<1380, 30>>, <<1425, 1425>>}}
      \cup {Stretch(MCGridDay + 1, 420, 1050), Stretch(MCGridDay + 1, 615, 630)}

Hours(windows) == [d \in 0..6 |-> IF d = 3 THEN windows ELSE IF d = 4 THEN {Window(600, 780)} ELSE {}]

MCOpen ==
    {[d \in 0..6 |-> {}], Hours({Window(540, 720), Window(780, 1020)}), Hours({Window(0, 1440)})}

MCZones == {"Europe/London", "Europe/Paris"}

=============================================================================
