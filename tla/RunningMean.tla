---------------------------- MODULE RunningMean ----------------------------
(***************************************************************************)
(* The running mean of the outdoor temperature (core/comfort.py, room.py;  *)
(* DECISIONS.md D7, D8, D43): samples collect under their day, and a day   *)
(* that is over is folded into T_rm once a day, at daily_recompute_time.   *)
(* T_rm is known here by what it is made of: the days folded into it, each *)
(* with its samples.                                                       *)
(*                                                                         *)
(* A day has a few slots; in each of them a room that is up evaluates and  *)
(* saves, both of which take the code minutes.                             *)
(***************************************************************************)
EXTENDS Integers, FiniteSets

CONSTANTS LastDay,     \* bound: the last day
          Slots,       \* the slots of a day
          RollAt,      \* daily_recompute_time, as a slot
          Interval,    \* outdoor_sample_interval_min, in slots
          Stale,       \* outdoor_stale_min, in slots
          MaxMoves     \* bound: outages, crashes, stops, exports and imports

ASSUME DaysAssumption == /\ LastDay \in Nat \ {0} /\ Slots \in Nat \ {0} /\ RollAt \in 0..Slots - 1
                         /\ Interval \in Nat \ {0} /\ Stale \in Nat /\ MaxMoves \in Nat

VARIABLES today, slot,
          sensor,      \* whether the outdoor temperature is available
          up,          \* whether the room is loaded
          room,        \* its memory
          disk,        \* its store
          blob,        \* the last export
          moves        \* bound

vars == <<today, slot, sensor, up, room, disk, blob, moves>>

Never == <<-1, 0>>
Now == <<today, slot>>
Since(t) == (today - t[1]) * Slots + slot - t[2]

NoDay == [day |-> -1, samples |-> {}]

\* RunningMeanState. seeded is seeded_at, day t_rm_day; folded is T_rm itself; rolled is the last day on which an
\* evaluation after daily_recompute_time has seen this state (history).
NoMean == [seeded |-> Never, day |-> -1, folded |-> {}, current |-> NoDay, completed |-> NoDay,
           frozen |-> FALSE, rolled |-> -1]

\* What a room remembers: at is its last evaluation.
NoRoom == [mean |-> NoMean, sampled |-> Never, seen |-> Never, reported |-> FALSE, at |-> Never]

Move == moves < MaxMoves /\ moves' = moves + 1

---------------------------------------------------------------------------
(* RunningMeanTracker *)

\* The seed stands for T_rm as of the start of today, from the recorder's days before it or from one reading.
Seeded(m) == IF m.seeded # Never THEN m ELSE [m EXCEPT !.seeded = Now, !.day = today - 1]

(* Mutant: at the turn of the day the old accumulator makes way. *)
AddSampleForgets(m) ==
  [m EXCEPT !.frozen = FALSE,
            !.current = [day |-> today, samples |-> (IF m.current.day = today THEN m.current.samples ELSE {}) \cup {Now}]]

AddSample(m) ==
  [m EXCEPT !.frozen = FALSE,
            !.completed = IF m.current.day # today /\ m.current.day > m.day THEN m.current ELSE @,
            !.current = [day |-> today, samples |-> (IF m.current.day = today THEN m.current.samples ELSE {}) \cup {Now}]]

(* Mutant: the day of the accumulator is over when it is rolled. *)
OverAtOnce(m) == m.current # NoDay
Over(m) == m.current # NoDay /\ m.current.day < today

Roll(m) ==
  LET completed == IF Over(m) /\ m.current.day > m.day THEN m.current ELSE m.completed
      rest == [m EXCEPT !.current = IF Over(m) THEN NoDay ELSE @, !.completed = NoDay]
  IN IF completed.day <= m.day THEN rest
     ELSE [rest EXCEPT !.day = completed.day, !.folded = @ \cup {completed}]

---------------------------------------------------------------------------
(* The room, from one evaluation to the next. *)

IsStale(r) == r.seen = Never \/ Since(r.seen) > Stale

(* Mutant: what has been reported is frozen already. *)
FreezesOnReport(r) == IsStale(r) /\ ~r.reported
Freezes(r) == IsStale(r)

Due(r) == r.sampled = Never \/ Since(r.sampled) >= Interval

(* Mutant: a first reading is sampled, but seeds nothing. *)
SampleOutdoorUnseeded(r) ==
  IF sensor
  THEN LET s == [r EXCEPT !.seen = Now, !.reported = FALSE]
       IN IF Due(r) THEN [s EXCEPT !.sampled = Now, !.mean = AddSample(@)] ELSE s
  ELSE [r EXCEPT !.mean.frozen = @ \/ Freezes(r), !.reported = @ \/ IsStale(r)]

SampleOutdoor(r) ==
  IF sensor
  THEN LET s == [r EXCEPT !.seen = Now, !.reported = FALSE, !.mean = Seeded(@)]
       IN IF Due(r) THEN [s EXCEPT !.sampled = Now, !.mean = AddSample(@)] ELSE s
  ELSE [r EXCEPT !.mean.frozen = @ \/ Freezes(r), !.reported = @ \/ IsStale(r)]

MaybeRoll(r) == IF slot < RollAt THEN r ELSE [r EXCEPT !.mean = [Roll(@) EXCEPT !.rolled = today]]

Evaluated(r) == [MaybeRoll(SampleOutdoor(r)) EXCEPT !.at = Now]

\* reported and at live in memory only.
Stored(r) == [r EXCEPT !.reported = FALSE, !.at = Never]

Init == /\ today = 1 /\ slot = 0 /\ sensor \in BOOLEAN /\ up = FALSE
        /\ room = NoRoom /\ disk = NoRoom /\ blob = NoMean /\ moves = 0

Evaluate == /\ up /\ room' = Evaluated(room)
            /\ UNCHANGED <<today, slot, sensor, up, disk, blob, moves>>

Save == /\ up /\ disk' = Stored(room)
        /\ UNCHANGED <<today, slot, sensor, up, room, blob, moves>>

\* async_setup: load, seed from the recorder if it has any days, and the first evaluation.
Start == /\ ~up /\ up' = TRUE
         /\ \E recorder \in BOOLEAN :
              room' = Evaluated(IF recorder \/ sensor THEN [disk EXCEPT !.mean = Seeded(@)] ELSE disk)
         /\ UNCHANGED <<today, slot, sensor, disk, blob, moves>>

Stop == /\ Move /\ up /\ up' = FALSE /\ disk' = Stored(room) /\ room' = NoRoom
        /\ UNCHANGED <<today, slot, sensor, blob>>

Crash == /\ Move /\ up /\ up' = FALSE /\ room' = NoRoom
         /\ UNCHANGED <<today, slot, sensor, disk, blob>>

\* An unseeded mean has no content to export.
Export == /\ Move /\ up /\ room.mean.seeded # Never /\ blob' = room.mean
          /\ UNCHANGED <<today, slot, sensor, up, room, disk>>

\* The state is replaced and saved, then evaluated.
Import == /\ Move /\ up /\ blob # NoMean
          /\ LET swapped == [room EXCEPT !.mean = blob]
             IN disk' = Stored(swapped) /\ room' = Evaluated(swapped)
          /\ UNCHANGED <<today, slot, sensor, up, blob>>

SensorTurns == /\ Move /\ sensor' = ~sensor
               /\ UNCHANGED <<today, slot, up, room, disk, blob>>

Tick == /\ up => room.at = Now /\ disk = Stored(room)
        /\ IF slot + 1 < Slots THEN slot' = slot + 1 /\ UNCHANGED today
           ELSE today < LastDay /\ today' = today + 1 /\ slot' = 0
        /\ UNCHANGED <<sensor, up, room, disk, blob, moves>>

Next == Evaluate \/ Save \/ Start \/ Stop \/ Crash \/ Export \/ Import \/ SensorTurns \/ Tick

Spec == Init /\ [][Next]_vars

---------------------------------------------------------------------------
Times == (-1..LastDay) \X (0..Slots - 1)

Samples(m) == UNION {f.samples : f \in m.folded \cup {m.current, m.completed}}

\* What the variables hold; a mean that has not been seeded has no samples, and none has any of later.
TypeOK == /\ today \in 1..LastDay /\ slot \in 0..Slots - 1 /\ sensor \in BOOLEAN /\ up \in BOOLEAN
          /\ \A r \in {room, disk} : /\ {r.sampled, r.seen, r.at} \subseteq Times /\ r.reported \in BOOLEAN
          /\ \A m \in {room.mean, disk.mean, blob} :
               /\ m.seeded \in Times /\ {m.day, m.rolled} \subseteq -1..today /\ m.frozen \in BOOLEAN
               /\ Samples(m) # {} => m.seeded # Never
               /\ \A s \in Samples(m) : s[1] \in 1..today /\ s[2] \in 0..Slots - 1
          /\ moves \in 0..MaxMoves

\* D7: a day is folded into T_rm at most once, with nothing but its own samples, and only when it is over - through
\* stops, crashes, seeds and imports of older means.
EachDayOnce ==
  \A f \in room.mean.folded :
    /\ f.day < today /\ \A s \in f.samples : s[1] = f.day
    /\ \A g \in room.mean.folded : g.day = f.day => g = f

\* What has been sampled of a day is kept until the day is folded in, unless no evaluation saw that state between the
\* next day's daily_recompute_time and its midnight: the room was down, or the export or the save it goes on with
\* was made before. (D7 has no such exception: "folds the completed day into T_rm exactly once".)
NoDayIsLost ==
  [][up' => LET m == IF ~up THEN disk.mean ELSE IF Import THEN blob ELSE room.mean
            IN \A s \in Samples(m) \ Samples(room'.mean) : m.rolled <= s[1] /\ today > s[1] + 1]_vars

\* The offset is held as soon as an evaluation finds the outdoor temperature out for too long, also when an import has
\* just put in place a mean that is not frozen. Once there are readings a sample is never far, and it lifts the hold,
\* unless an import has put in place a mean that is frozen.
HeldWhileStale ==
  up => /\ room.at = Now /\ IsStale(room) => room.mean.frozen
        /\ room.seen = Now => Since(room.sampled) < Interval
        /\ room.sampled = Now /\ room.mean.frozen => blob.frozen
=============================================================================
