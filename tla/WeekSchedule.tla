---------------------------- MODULE WeekSchedule ----------------------------
(***************************************************************************)
(* Which block of a room's week is in force, and which comes next          *)
(* (core/schedule.py, mech_schedule.py; DECISIONS.md D23, D30).  Both are  *)
(* derived afresh at every evaluation from the weekly blocks and from what *)
(* a Workday sensor has said of the days around today.  What is done with  *)
(* the block is PresetControl's.                                           *)
(*                                                                         *)
(* Time is counted in slots, of which a day has a few; a day is a number,  *)
(* and day 0 a Monday.  The room has a Workday sensor.                     *)
(***************************************************************************)
EXTENDS Integers, FiniteSets

CONSTANTS Slots,       \* the slots of a day
          Schedules,   \* weekly schedules, and
          Calendars,   \* sets of bank holidays, to choose from
          FirstDay,    \* the day the room starts on, a window after day 0
          LastDay,     \* bound: the last day
          MaxMoves     \* bound: evaluations with a failed lookup, and reloads

Monday == 0
Saturday == 5
NonWorkday == 7
DayKeys == Monday..NonWorkday

\* Per day key its blocks: at a slot, warm by it or not.
Blocks == [slot : 0..Slots - 1, preset : {"comfort", "eco"}, warm_by : BOOLEAN]

ASSUME WeekAssumption ==
  /\ Slots \in Nat \ {0} /\ FirstDay \in Nat \ 0..7 /\ LastDay \in Nat /\ FirstDay <= LastDay /\ MaxMoves \in Nat
  /\ Calendars \subseteq SUBSET Nat
  /\ \A s \in Schedules : /\ s \in [DayKeys -> SUBSET Blocks]
                          /\ \E k \in DayKeys \ {NonWorkday} : s[k] # {}
                          /\ \A k \in DayKeys : \A b, c \in s[k] : b.slot = c.slot => b = c

VARIABLES now,
          calendar,    \* the bank holidays there are
          schedule,
          cache,       \* the days of which the sensor's answer is kept (sched["workdays"], persisted)
          known,       \* those in the schedule that are no workdays (non_workdays, in memory)
          force,       \* the block in force, as of the last evaluation
          due,         \* the block after it, at which the timer and the stand-downs aim
          warm,        \* the warm-by block that the preheat is planned for
          at,          \* when the last evaluation was, -1 after a reload
          unheard,     \* history: the days it asked for in vain
          moves        \* bound

vars == <<now, calendar, schedule, cache, known, force, due, warm, at, unheard, moves>>

Today == now \div Slots
Weekday(day) == day % 7
Midweek(day) == Weekday(day) < Saturday

---------------------------------------------------------------------------
(* Schedule *)

(* Mutant: a weekend day that is no workday has the holiday's blocks. *)
DayKeyOfAny(day, off) == IF day \in off THEN NonWorkday ELSE Weekday(day)

DayKey(day, off) == IF Midweek(day) /\ day \in off
                    THEN IF schedule[NonWorkday] # {} THEN NonWorkday ELSE Saturday
                    ELSE Weekday(day)

NoBlock == [start |-> -1, preset |-> "none", warm_by |-> FALSE]
Instance(day, b) == [start |-> day * Slots + b.slot, preset |-> b.preset, warm_by |-> b.warm_by]

\* The instances with from <= start < to.
InstancesBetween(from, to, off) ==
  {i \in UNION {{Instance(day, b) : b \in schedule[DayKey(day, off)]} : day \in from \div Slots..to \div Slots} :
     from <= i.start /\ i.start < to}

First(is) == IF is = {} THEN NoBlock ELSE CHOOSE i \in is : \A j \in is : i.start <= j.start
Latest(is) == IF is = {} THEN NoBlock ELSE CHOOSE i \in is : \A j \in is : j.start <= i.start

\* lookback_days and lookahead_days
Window == 8 * Slots

Current(off) == Latest(InstancesBetween(now - Window, now + 1, off))
(* Mutant: a block that starts now is still to come. *)
NextFromNow(off) == First(InstancesBetween(now, now + Window, off))

NextBlock(off) == First(InstancesBetween(now + 1, now + Window, off))
NextWarmBy(off) == First({i \in InstancesBetween(now + 1, now + Window, off) : i.warm_by})

---------------------------------------------------------------------------
(* _refresh_workdays *)

Wanted == Today - 1..Today + 2

(* Mutant: what has been heard is kept for good. *)
KeptAll(days) == days
Kept(days) == {day \in days : day >= Today - 1}

\* The sensor says of a weekend, too, that it is no workday.
Off(days) == {day \in days : day \in calendar \/ ~Midweek(day)}

Init == /\ now = FirstDay * Slots /\ calendar \in Calendars /\ schedule \in Schedules
        /\ cache = {} /\ known = {} /\ force = NoBlock /\ due = NoBlock /\ warm = NoBlock
        /\ at = -1 /\ unheard = {} /\ moves = 0

\* heard are the days on which the sensor answers; today's it may also have as its own state.
Evaluate(heard) ==
  /\ heard \subseteq Wanted \ cache
  /\ IF heard = Wanted \ cache THEN UNCHANGED moves ELSE moves < MaxMoves /\ moves' = moves + 1
  /\ cache' = Kept(cache \cup heard)
  /\ known' = Off(cache')
  /\ force' = Current(known') /\ due' = NextBlock(known') /\ warm' = NextWarmBy(known')
  /\ at' = now /\ unheard' = Wanted \ cache'
  /\ UNCHANGED <<now, calendar, schedule>>

\* The options are saved, with another schedule or not, and the entry reloads; the cache is in the store.
Reload(week) ==
  /\ moves < MaxMoves /\ moves' = moves + 1
  /\ schedule' = week /\ known' = {} /\ force' = NoBlock /\ due' = NoBlock /\ warm' = NoBlock
  /\ at' = -1 /\ unheard' = {}
  /\ UNCHANGED <<now, calendar, cache>>

\* An evaluation comes with the poll and the timer in every slot.
Tick == /\ at = now /\ now + 1 < (LastDay + 1) * Slots /\ now' = now + 1
        /\ UNCHANGED <<calendar, schedule, cache, known, force, due, warm, at, unheard, moves>>

Next == \/ \E heard \in SUBSET (Wanted \ cache) : Evaluate(heard)
        \/ \E week \in Schedules : Reload(week)
        \/ Tick

Spec == Init /\ [][Next]_vars

---------------------------------------------------------------------------
(* What goes wrong with what is known of the days. *)

HolidaysSince(start) == {day \in calendar : Midweek(day) /\ start \div Slots <= day /\ day <= Today}

\* A day before yesterday counts as what its weekday is, whatever the sensor had said.
Forgotten(start, off) == \E day \in HolidaysSince(start) \ off : day < Today - 1

\* A block from before the window is none.
Faded(start) == start < now - Window

\* What the variables hold; no more of the days is kept than is asked for.
TypeOK ==
  /\ now \in FirstDay * Slots..(LastDay + 1) * Slots - 1 /\ at \in -1..now /\ moves \in 0..MaxMoves
  /\ calendar \in Calendars /\ schedule \in Schedules
  /\ \A b \in {force, due, warm} : b = NoBlock \/ [slot |-> b.start % Slots, preset |-> b.preset, warm_by |-> b.warm_by] \in Blocks
  /\ at = now => cache \subseteq Today - 1..Today + 2 /\ known \subseteq cache

\* D23, D30: the block in force is the last one that there has been, each day taken for what it was - a bank holiday
\* with the non_workday blocks or Saturday's -, unless its start is out of the window, a lookup of yesterday or today
\* has failed, or a holiday before yesterday has been forgotten since.
InForce ==
  at = now =>
    LET last == Latest(InstancesBetween(0, now + 1, calendar))
    IN \/ force = last \/ Faded(last.start) \/ Forgotten(last.start, known)
       \/ HolidaysSince(last.start) \cap unheard # {}

\* What the last evaluation took for due is what happens.
AsDue == /\ force' = IF due # NoBlock /\ due.start <= now THEN due ELSE force
         /\ warm # NoBlock /\ warm.start = now => force' = warm

\* A holiday that the sensor told too late, when it had begun.
Late == \E day \in known' \ known : Midweek(day) /\ day <= Today

\* The timer, the stand-downs and the preheat aim at a block that was derived earlier, with less known of the days: when
\* its time comes it is the block in force, and until then that does not change - unless a holiday was told too
\* late, or forgotten, or no block is left in the window.
BoundaryIsHonest ==
  [][at >= 0 /\ at' = now => AsDue \/ Late \/ Forgotten(force.start, known') \/ Faded(force.start)]_vars

\* D23 as it is written: "It never re-applies within the same block, so a manual preset change stands until the next
\* block boundary". With every lookup answered, the block in force changes when the next one starts, and only then.
StandsUntilTheBoundary ==
  [][at >= 0 /\ at' = now => AsDue \/ Late \/ Faded(force.start)]_vars
=============================================================================
