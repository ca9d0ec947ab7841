--------------------------- MODULE MCWeekSchedule ---------------------------
(* WeekSchedule for TLC: a full week, a sparse one, and one with blocks of its own for bank holidays. *)
EXTENDS WeekSchedule

B(slot, preset, warm_by) == [slot |-> slot, preset |-> preset, warm_by |-> warm_by]

Weekdays == {B(1, "comfort", TRUE), B(2, "eco", FALSE)}
Weekend  == {B(0, "eco", FALSE), B(2, "comfort", TRUE)}

Full    == [k \in DayKeys |-> IF k < Saturday THEN Weekdays ELSE IF k = NonWorkday THEN {} ELSE Weekend]
Sparse  == [k \in DayKeys |-> CASE k = Monday -> {B(1, "comfort", FALSE)}
                                [] k = 3 -> {B(2, "eco", FALSE)}
                                [] OTHER -> {}]
Holiday == [k \in DayKeys |-> CASE k = Monday -> Weekdays
                                [] k = Saturday -> {B(1, "eco", FALSE)}
                                [] k = NonWorkday -> {B(1, "eco", FALSE), B(2, "comfort", TRUE)}
                                [] OTHER -> {}]

MCSchedules == {Full, Sparse, Holiday}
MCCalendars == {{}, {14}, {14, 15}, {17, 21}, {18, 21}, {14, 21, 22}}
=============================================================================
