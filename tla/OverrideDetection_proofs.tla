--------------------- MODULE OverrideDetection_proofs ---------------------
(***************************************************************************)
(* Who is heard and who is not, for any number of tasks and sources, any   *)
(* lengths of the windows and of the log, and any number of moves.         *)
(***************************************************************************)
EXTENDS OverrideDetection, SequenceTheorems, TLAPS

Actors  == {"nobody", "hearth", "vtherm", "person", "scheduler", "automation"}
Excuses == {"late", "hidden", "pushed", "edited", "slow", "stacked"}
Entries == [entity : {"vtherm", "comfort"}, value : Presets \cup Temps, at : Int]
Calls   == {NoCall} \cup ({"vtherm"} \X {"comfort", "eco"}) \cup ({"comfort"} \X Temps)
StandDowns == [until : 0..MaxClock + Timeout, by : Actors, why : SUBSET Excuses]
Folds == [at : Int, deaf : BOOLEAN]
Words == [at : Int, lost : SUBSET {"masked", "scheduler", "taken", "folded"}]
VTherms == [preset : Presets, target : Temps \cup {Eco, Manual, Frost}, window : BOOLEAN, ready : BOOLEAN]

(* A task in a call has read the clock.                                    *)
Tasked == /\ task \in [Tasks -> [now : Int, call : Calls]]
          /\ \A t \in Tasks : task[t].now \in -1..clock /\ (task[t].call # NoCall => task[t].now >= 0)

(***************************************************************************)
(* The types of the log, of what a task holds and of what is kept of the   *)
(* past.                                                                   *)
(***************************************************************************)
Typed ==
  /\ TypeOK
  /\ log \in Seq(Entries)
  /\ Tasked
  /\ standdown \in StandDowns
  /\ undo \in [at : Int, standdown : StandDowns]
  /\ fold \in Folds /\ {reloaded, reenabled} \subseteq Int
  /\ source \in [Sources -> SUBSET {"slot", "state"}]
  /\ word \in Words

LEMMA Windows ==
  /\ Match \in Nat /\ Timeout \in Nat /\ ReloadGrace \in Nat /\ SourceGrace \in Nat /\ Coalesce \in Nat
  /\ MaxClock \in Nat /\ MaxMoves \in Nat /\ LogLen \in Nat \ {0}
BY WindowsAssumption

(***************************************************************************)
(* A stand-down that begins later does not end earlier.                    *)
(***************************************************************************)
LEMMA Ends ==
  ASSUME NEW c \in 0..MaxClock
  PROVE  StanddownUntil(c) \in 0..MaxClock + Timeout
BY Windows, BoundaryAssumption DEF StanddownUntil

LEMMA LaterEnds ==
  ASSUME NEW c \in 0..MaxClock, NEW d \in 0..MaxClock, c <= d
  PROVE  StanddownUntil(c) <= StanddownUntil(d)
<1>1. Timeout \in Nat /\ NextBoundary[c] \in Nat /\ NextBoundary[d] \in Nat /\ c \in Nat /\ d \in Nat
  BY Windows, BoundaryAssumption
<1>2. d < NextBoundary[d] => c < NextBoundary[c] /\ NextBoundary[c] <= NextBoundary[d]
  BY BoundaryAssumption
<1> QED
  BY <1>1, <1>2 DEF StanddownUntil

LEMMA InitTypes == Init => Typed
<1> SUFFICES ASSUME Init PROVE Typed
  OBVIOUS
<1> USE DEF Init
<1>1. log \in Seq(Entries)
  OBVIOUS
<1>2. NoStandDown \in StandDowns
  BY Windows DEF NoStandDown, StandDowns, Actors
<1>3. Tasked
  BY DEF Tasked, NoTask, Calls, NoCall
<1>4. TypeOK
  <2>1. vt \in [preset : Presets, target : Temps \cup {Eco, Manual, Frost}, window : BOOLEAN, ready : BOOLEAN]
    <3>1. /\ [preset |-> "comfort", target |-> 1, window |-> FALSE, ready |-> TRUE] \in VTherms
          /\ [preset |-> "eco", target |-> Eco, window |-> FALSE, ready |-> TRUE] \in VTherms
      BY TempsAssumption DEF Presets, VTherms
    <3>2. vt \in VTherms
      BY <3>1
    <3> QED
      BY <3>2 DEF VTherms
  <2>2. /\ clock \in 0..MaxClock /\ moves \in 0..MaxMoves /\ Len(log) <= LogLen
        /\ standdown.until \in 0..MaxClock + Timeout /\ undo.at \in -1..clock
        /\ \A t \in Tasks : task[t].now \in -1..clock
    BY <1>1, Windows DEF NoTask, NoStandDown, NoUndo
  <2>3. number \in [value : Temps, moved : -Match - 1..MaxClock, by : {"hearth", "person"}, read : 0..clock, due : BOOLEAN]
    BY Windows, TempsAssumption
  <2> QED
    BY <2>1, <2>2, <2>3 DEF TypeOK
<1> QED
  BY <1>1, <1>2, <1>3, <1>4 DEF Typed, NoUndo, NoFold, Folds, Words

LEMMA RecordTypes ==
  ASSUME log \in Seq(Entries), NEW entity \in {"vtherm", "comfort"}, NEW value \in Presets \cup Temps, NEW at \in Int
  PROVE  Record(entity, value, at) \in Seq(Entries) /\ Len(Record(entity, value, at)) <= LogLen
<1> DEFINE l == Append(log, [entity |-> entity, value |-> value, at |-> at])
           m == IF Len(l) > LogLen THEN Len(l) - LogLen + 1 ELSE 1
<1>1. l \in Seq(Entries) /\ Len(l) \in Nat /\ Len(l) = Len(log) + 1
  BY AppendProperties DEF Entries
<1> HIDE DEF l
<1>2. /\ m \in 1..Len(l) + 1 /\ m \in Int
      /\ (IF m <= Len(l) THEN Len(l) - m + 1 ELSE 0) <= LogLen
  BY <1>1, Windows
<1>3. \A i \in m..Len(l) : i \in 1..Len(l)
  BY <1>1, <1>2
<1>4. SubSeq(l, m, Len(l)) \in Seq(Entries) /\ Len(SubSeq(l, m, Len(l))) = IF m <= Len(l) THEN Len(l) - m + 1 ELSE 0
  BY <1>1, <1>2, SubSeqProperties
<1> QED
  BY <1>2, <1>4 DEF Record, l

(***************************************************************************)
(* A change of the VTherm keeps the types.                                 *)
(***************************************************************************)
LEMMA ChangeTypes ==
  ASSUME Typed, NEW new \in VTherms, NEW user, NEW who \in Actors, NEW why \in SUBSET Excuses,
         Change(new, user, who, why)
  PROVE  /\ vt' \in VTherms /\ standdown' \in StandDowns /\ fold' \in Folds /\ reloaded' \in Int
         /\ undo' \in [at : Int, standdown : StandDowns] /\ undo'.at \in -1..clock
         /\ word' \in Words
<1>1. clock \in Nat /\ clock <= MaxClock /\ Timeout \in Nat /\ MaxClock \in Nat
  BY Windows DEF Typed, TypeOK
<1>2. [until |-> StanddownUntil(clock), by |-> who, why |-> why] \in StandDowns
  BY <1>1, Ends DEF StandDowns
<1>3. [at |-> clock, standdown |-> standdown] \in [at : Int, standdown : StandDowns]
  BY <1>1 DEF Typed
<1>4. \A v : [at |-> clock, lost |-> Lost(v)] \in Words
  BY <1>1 DEF Lost, Words
<1>5. vt' \in VTherms /\ fold' \in Folds /\ reloaded' \in Int
  <2>1. [fold EXCEPT !.at = clock] \in Folds /\ [at |-> clock, deaf |-> ~StandsDown(new)] \in Folds /\ NoFold \in Folds
    BY <1>1 DEF Typed, Folds, NoFold
  <2> QED
    BY <1>1, <2>1 DEF Change, Typed
<1>6. standdown' \in StandDowns
  BY <1>2 DEF Change, Typed
<1>7. undo' \in [at : Int, standdown : StandDowns] /\ undo'.at \in -1..clock
  BY <1>1, <1>3 DEF Change, Typed, TypeOK
<1>8. word' \in Words
  BY <1>4 DEF Change, Typed
<1> QED
  BY <1>5, <1>6, <1>7, <1>8

(***************************************************************************)
(* What a VTherm may become.                                               *)
(***************************************************************************)
LEMMA NewTypes ==
  ASSUME Typed, NEW p \in Presets, NEW value \in Temps
  PROVE  /\ Set(p) \in VTherms /\ Wants(vt) \in VTherms
         /\ Wants([vt EXCEPT !.window = ~@]) \in VTherms
         /\ Wants([vt EXCEPT !.ready = TRUE, !.preset = p]) \in VTherms
         /\ [vt EXCEPT !.ready = FALSE] \in VTherms
         /\ [vt EXCEPT !.preset = "none", !.target = Manual] \in VTherms
         /\ [vt EXCEPT !.target = value] \in VTherms
<1>1. vt \in VTherms /\ number.value \in Temps
  BY DEF Typed, TypeOK, VTherms
<1>2. \A v \in VTherms : Wants(v) \in VTherms
  BY <1>1 DEF VTherms, Wants, PresetTemp, Presets
<1>3. /\ [vt EXCEPT !.preset = p] \in VTherms
      /\ [vt EXCEPT !.window = ~@] \in VTherms
      /\ [vt EXCEPT !.ready = TRUE, !.preset = p] \in VTherms
      /\ [vt EXCEPT !.ready = FALSE] \in VTherms
      /\ [vt EXCEPT !.preset = "none", !.target = Manual] \in VTherms
      /\ [vt EXCEPT !.target = value] \in VTherms
  BY <1>1 DEF VTherms, Presets
<1> QED
  BY <1>1, <1>2, <1>3 DEF Set

LEMMA SlippedTypes ==
  \A entity, value, at : Slipped(entity, value, at) \in SUBSET Excuses
BY DEF Slipped, Excuses

LEMMA EditedTypes == \A new : Edited(new) \in SUBSET Excuses
BY SlippedTypes DEF Edited, Excuses

Numbers(m) == m \in [value : Temps, moved : -Match - 1..MaxClock, by : {"hearth", "person"}, read : 0..clock, due : BOOLEAN]

LEMMA MoveTypes == Typed /\ Move => moves' \in 0..MaxMoves
<1> SUFFICES ASSUME Typed, Move PROVE moves' \in 0..MaxMoves
  OBVIOUS
<1>1. moves \in 0..MaxMoves /\ MaxMoves \in Nat
  BY Windows DEF Typed, TypeOK
<1> QED
  BY <1>1 DEF Move

(***************************************************************************)
(* A step that is the change of the VTherm to new keeps the types.         *)
(***************************************************************************)
LEMMA ChangeStepTypes ==
  ASSUME Typed, NEW new \in VTherms, NEW user, NEW who \in Actors, NEW why \in SUBSET Excuses,
         Change(new, user, who, why), clock' = clock, Numbers(number)', UNCHANGED <<log, reenabled>>,
         Tasked',
         source' \in [Sources -> SUBSET {"slot", "state"}], moves' \in 0..MaxMoves
  PROVE  Typed'
<1>1. /\ vt' \in VTherms /\ standdown' \in StandDowns /\ fold' \in Folds /\ reloaded' \in Int
      /\ undo' \in [at : Int, standdown : StandDowns] /\ undo'.at \in -1..clock
      /\ word' \in Words
  BY ChangeTypes
<1>2. TypeOK'
  BY <1>1 DEF Typed, TypeOK, Tasked, VTherms, StandDowns, Numbers
<1> QED
  BY <1>1, <1>2 DEF Typed

(***************************************************************************)
(* A step that leaves the VTherm and what is made of its changes alone.    *)
(***************************************************************************)
LEMMA OtherStepTypes ==
  ASSUME Typed, clock' = clock, UNCHANGED <<vt, standdown, undo, fold, reloaded, reenabled, word>>, Numbers(number)',
         log' \in Seq(Entries), Len(log') <= LogLen,
         Tasked',
         source' \in [Sources -> SUBSET {"slot", "state"}], moves' \in 0..MaxMoves
  PROVE  Typed'
<1>1. TypeOK'
  BY DEF Typed, TypeOK, Tasked, Numbers
<1> QED
  BY <1>1 DEF Typed

(***************************************************************************)
(* The steps of a task of Hearth's.                                        *)
(***************************************************************************)
LEMMA TaskTypes ==
  ASSUME Typed, NEW t \in Tasks,
         \/ Begin(t) \/ End(t) \/ PresetLands(t) \/ NumberLands(t)
         \/ \E p \in {"comfort", "eco"} : Write(t, "vtherm", p)
         \/ \E value \in Temps : Write(t, "comfort", value)
  PROVE  Typed'
<1>1. /\ clock \in Nat /\ clock <= MaxClock /\ MaxClock \in Nat /\ moves \in 0..MaxMoves /\ Numbers(number) /\ Match \in Nat
      /\ log \in Seq(Entries) /\ Len(log) <= LogLen
      /\ Tasked /\ task[t] \in [now : Int, call : Calls] /\ NoCall \in Calls
      /\ source \in [Sources -> SUBSET {"slot", "state"}]
  <2>1. Tasked /\ task[t] \in [now : Int, call : Calls] /\ NoCall \in Calls
    BY DEF Typed, Tasked, Calls
  <2>2. clock \in Nat /\ clock <= MaxClock /\ MaxClock \in Nat /\ Match \in Nat
    BY Windows DEF Typed, TypeOK
  <2> QED
    BY <2>1, <2>2 DEF Typed, TypeOK, Numbers
<1>2. CASE Begin(t)
  <2>1. Tasked'
    BY <1>1, <1>2 DEF Begin, Tasked
  <2> QED
    BY <1>1, <1>2, <2>1, OtherStepTypes DEF Begin, Numbers
<1>3. CASE End(t)
  <2>1. Tasked'
    BY <1>1, <1>3 DEF End, NoTask, Tasked
  <2> QED
    BY <1>1, <1>3, <2>1, OtherStepTypes DEF End, Numbers
<1>4. ASSUME NEW entity \in {"vtherm", "comfort"}, NEW value \in Presets \cup Temps, <<entity, value>> \in Calls,
             Write(t, entity, value)
      PROVE  Typed'
  <2>1. Tasked'
    <3> DEFINE mine == [now |-> task[t].now, call |-> <<entity, value>>]
    <3>1. mine \in [now : Int, call : Calls] /\ mine.now \in 0..clock
      BY <1>1, <1>4 DEF Write, Tasked
    <3>2. task' = [task EXCEPT ![t] = mine]
      <4>1. task[t] \in [now : Int, call : Calls]
        BY <1>1
      <4>2. [task[t] EXCEPT !.call = <<entity, value>>] = mine
        BY <4>1
      <4> QED
        BY <4>2, <1>4 DEF Write
    <3>3. clock' = clock
      BY <1>4 DEF Write
    <3> HIDE DEF mine
    <3> QED
      BY <1>1, <3>1, <3>2, <3>3 DEF Tasked
  <2>2. log' \in Seq(Entries) /\ Len(log') <= LogLen
    <3>1. task[t].now \in Int
      BY <1>1
    <3> QED
      BY <1>1, <1>4, <3>1, RecordTypes DEF Write
  <2>3. moves' \in 0..MaxMoves
    BY <1>4, MoveTypes DEF Write
  <2> QED
    BY <1>1, <1>4, <2>1, <2>2, <2>3, OtherStepTypes DEF Write, Numbers
<1>5. \A p \in {"comfort", "eco"} : <<"vtherm", p>> \in Calls /\ p \in Presets \cup Temps
  BY DEF Calls, Presets
<1>6. \A value \in Temps : <<"comfort", value>> \in Calls
  BY DEF Calls
<1>7. CASE PresetLands(t)
  <2>1. task[t].call[2] \in Presets
    BY <1>1, <1>7 DEF PresetLands, Calls, Presets, NoCall
  <2>2. Tasked'
    BY <1>1, <1>7 DEF PresetLands, Tasked
  <2>3. /\ Set(task[t].call[2]) \in VTherms
        /\ Slipped("vtherm", task[t].call[2], task[t].now) \in SUBSET Excuses /\ "hearth" \in Actors
    BY <2>1, NewTypes, SlippedTypes, TempsAssumption DEF Actors
  <2> QED
    BY <1>1, <1>7, <2>2, <2>3, ChangeStepTypes DEF PresetLands, Numbers
<1>8. CASE NumberLands(t)
  <2>1. Tasked'
    BY <1>1, <1>8 DEF NumberLands, Tasked
  <2>2. Numbers(number)'
    <3>1. task[t].call[2] \in Temps
      BY <1>1, <1>8 DEF NumberLands, Calls, NoCall
    <3>2. clock \in -Match - 1..MaxClock
      BY <1>1
    <3>3. task[t].now \in 0..clock
      BY <1>1, <1>8 DEF NumberLands, Tasked
    <3>4. [value |-> task[t].call[2], moved |-> clock, by |-> "hearth", read |-> task[t].now, due |-> TRUE]
            \in [value : Temps, moved : -Match - 1..MaxClock, by : {"hearth", "person"}, read : 0..clock, due : BOOLEAN]
      BY <3>1, <3>2, <3>3
    <3> QED
      BY <1>1, <1>8, <3>4 DEF NumberLands, Numbers
  <2> QED
    BY <1>1, <1>8, <2>1, <2>2, OtherStepTypes DEF NumberLands
<1> QED
  BY <1>2, <1>3, <1>4, <1>5, <1>6, <1>7, <1>8

(***************************************************************************)
(* The steps of everybody else, and of the clock.                          *)
(***************************************************************************)
LEMMA OthersTypes ==
  ASSUME Typed,
         \/ TargetFollows \/ PersonTurns \/ Window \/ Gone
         \/ \E p \in {"comfort", "eco"} : PersonTaps(p) \/ AutomationSets(p) \/ Back(p) \/ Restores(p)
         \/ \E value \in Temps : PersonEdits(value) \/ PersonDrags(value)
  PROVE  Typed'
<1>1. /\ clock \in Nat /\ clock <= MaxClock /\ MaxClock \in Nat /\ Match \in Nat
      /\ moves \in 0..MaxMoves /\ Numbers(number) /\ vt \in VTherms
      /\ log \in Seq(Entries) /\ Len(log) <= LogLen /\ Tasked
      /\ source \in [Sources -> SUBSET {"slot", "state"}]
  BY Windows DEF Typed, TypeOK, Numbers, VTherms
<1>2. {"hearth", "vtherm", "person", "automation", "scheduler"} \subseteq Actors /\ {"comfort", "eco"} \subseteq Presets
  BY DEF Actors, Presets
<1>3. ASSUME NEW new \in VTherms, NEW user, NEW who \in Actors, NEW why \in SUBSET Excuses, Change(new, user, who, why),
             UNCHANGED <<clock, number, log, task, reenabled, source>>, moves' \in 0..MaxMoves
      PROVE  Typed'
  <2>1. Tasked' /\ Numbers(number)'
    BY <1>1, <1>3 DEF Tasked, Numbers
  <2> QED
    BY <1>1, <1>3, <2>1, ChangeStepTypes
<1>4. CASE TargetFollows
  <2> DEFINE new == IF vt.ready /\ vt.preset = "comfort" THEN Wants(vt) ELSE vt
             why == Slipped("comfort", number.value, number.read)
  <2>1. new \in VTherms /\ number.by \in Actors /\ why \in SUBSET Excuses
    BY <1>1, <1>2, NewTypes, SlippedTypes, TempsAssumption DEF Presets, Numbers
  <2>2. Tasked' /\ Numbers(number)'
    BY <1>1, <1>4 DEF TargetFollows, Tasked, Numbers
  <2>3. Change(new, FALSE, number.by, why) /\ UNCHANGED <<clock, log, task, reenabled, source, moves>>
    BY <1>4 DEF TargetFollows
  <2> HIDE DEF new, why
  <2> QED
    BY <1>1, <2>1, <2>2, <2>3, ChangeStepTypes
<1>5. ASSUME NEW new \in VTherms, PersonSets(new)
      PROVE  Typed'
  <2>1. moves' \in 0..MaxMoves /\ {} \in SUBSET Excuses
    BY <1>5, MoveTypes DEF PersonSets
  <2> QED
    BY <1>2, <1>3, <1>5, <2>1 DEF PersonSets
<1>6. CASE PersonTurns
  BY <1>2, <1>5, <1>6, NewTypes, TempsAssumption DEF PersonTurns, Presets
<1>7. CASE Window
  <2> DEFINE new == Wants([vt EXCEPT !.window = ~@])
  <2>1. new \in VTherms /\ Edited(new) \in SUBSET Excuses
    BY NewTypes, EditedTypes, TempsAssumption DEF Presets
  <2>2. moves' \in 0..MaxMoves
    BY <1>7, MoveTypes DEF Window
  <2>3. Change(new, FALSE, "vtherm", Edited(new)) /\ UNCHANGED <<clock, number, log, task, reenabled, source>>
    BY <1>7 DEF Window
  <2> HIDE DEF new
  <2> QED
    BY <1>2, <1>3, <2>1, <2>2, <2>3
<1>8. CASE Gone
  <2>1. [vt EXCEPT !.ready = FALSE] \in VTherms
    BY NewTypes, TempsAssumption DEF Presets
  <2>2. moves' \in 0..MaxMoves
    BY <1>8, MoveTypes DEF Gone
  <2>3. {} \in SUBSET Excuses
    OBVIOUS
  <2> QED
    BY <1>2, <1>3, <1>8, <2>1, <2>2, <2>3 DEF Gone
<1>9. ASSUME NEW p \in {"comfort", "eco"}, PersonTaps(p) \/ AutomationSets(p) \/ Back(p) \/ Restores(p)
      PROVE  Typed'
  <2>1. Set(p) \in VTherms /\ Wants([vt EXCEPT !.ready = TRUE, !.preset = p]) \in VTherms
    BY <1>2, NewTypes, TempsAssumption
  <2>2. CASE PersonTaps(p)
    BY <1>5, <2>1, <2>2 DEF PersonTaps
  <2>3. CASE AutomationSets(p)
    <3>1. moves' \in 0..MaxMoves /\ {} \in SUBSET Excuses
      BY <2>3, MoveTypes DEF AutomationSets
    <3> QED
      BY <1>2, <1>3, <2>1, <2>3, <3>1 DEF AutomationSets
  <2>4. CASE Back(p)
    <3> DEFINE new == Wants([vt EXCEPT !.ready = TRUE, !.preset = p])
    <3>1. /\ Change(new, FALSE, "vtherm", Edited(new)) /\ new \in VTherms /\ Edited(new) \in SUBSET Excuses
          /\ UNCHANGED <<clock, number, log, task, reenabled, source, moves>>
      BY <2>1, <2>4, EditedTypes DEF Back
    <3> HIDE DEF new
    <3> QED
      BY <1>1, <1>2, <1>3, <3>1
  <2>5. CASE Restores(p)
    <3> DEFINE why == IF clock - reloaded > ReloadGrace THEN {"slow"} ELSE {}
    <3>1. moves' \in 0..MaxMoves /\ why \in SUBSET Excuses
      BY <2>5, MoveTypes DEF Restores, Excuses
    <3> QED
      BY <1>2, <1>3, <2>1, <2>5, <3>1 DEF Restores
  <2> QED
    BY <1>9, <2>2, <2>3, <2>4, <2>5
<1>10. ASSUME NEW value \in Temps, PersonEdits(value) \/ PersonDrags(value)
       PROVE  Typed'
  <2>1. CASE PersonEdits(value)
    <3>1. Numbers(number)'
      <4>1. [value |-> value, moved |-> clock, by |-> "person", read |-> clock, due |-> TRUE]
              \in [value : Temps, moved : -Match - 1..MaxClock, by : {"hearth", "person"}, read : 0..clock, due : BOOLEAN]
        BY <1>1
      <4> QED
        BY <2>1, <4>1 DEF PersonEdits, Numbers
    <3>2. moves' \in 0..MaxMoves /\ Tasked'
      BY <1>1, <2>1, MoveTypes DEF PersonEdits, Tasked
    <3> QED
      BY <1>1, <2>1, <3>1, <3>2, OtherStepTypes DEF PersonEdits
  <2>2. CASE PersonDrags(value)
    BY <1>2, <1>5, <2>2, NewTypes DEF PersonDrags, Presets
  <2> QED
    BY <1>10, <2>1, <2>2
<1> QED
  BY <1>4, <1>6, <1>7, <1>8, <1>9, <1>10

(***************************************************************************)
(* The steps of the Scheduler.                                             *)
(***************************************************************************)
LEMMA SourceTypes ==
  ASSUME Typed, NEW s \in Sources, SourceOn(s) \/ Shows(s) \/ \E p \in {"comfort", "eco"} : Fires(s, p)
  PROVE  Typed'
<1>1. /\ clock \in Nat /\ clock <= MaxClock /\ MaxClock \in Nat /\ Match \in Nat
      /\ moves \in 0..MaxMoves /\ Numbers(number) /\ Tasked
      /\ log \in Seq(Entries) /\ Len(log) <= LogLen
      /\ source \in [Sources -> SUBSET {"slot", "state"}]
  BY Windows DEF Typed, TypeOK, Numbers
<1>2. CASE SourceOn(s)
  <2>1. source' \in [Sources -> SUBSET {"slot", "state"}]
    BY <1>1, <1>2 DEF SourceOn
  <2>2. moves' \in 0..MaxMoves /\ Tasked' /\ Numbers(number)'
    BY <1>1, <1>2, MoveTypes DEF SourceOn, Tasked, Numbers
  <2> QED
    BY <1>1, <1>2, <2>1, <2>2, OtherStepTypes DEF SourceOn
<1>3. ASSUME NEW p \in {"comfort", "eco"}, Fires(s, p)
      PROVE  Typed'
  <2>1. Set(p) \in VTherms /\ "scheduler" \in Actors /\ {} \in SUBSET Excuses
    BY NewTypes, TempsAssumption DEF Presets, Actors
  <2>2. source' \in [Sources -> SUBSET {"slot", "state"}]
    BY <1>1, <1>3 DEF Fires
  <2>3. Tasked' /\ Numbers(number)'
    BY <1>1, <1>3 DEF Fires, Tasked, Numbers
  <2> QED
    BY <1>1, <1>3, <2>1, <2>2, <2>3, ChangeStepTypes DEF Fires
<1>4. CASE Shows(s)
  <2>1. source' \in [Sources -> SUBSET {"slot", "state"}]
    BY <1>1, <1>4 DEF Shows
  <2>2. standdown' \in StandDowns
    <3>1. [undo.standdown EXCEPT !.why = @ \cup {"stacked"}] \in StandDowns
      BY DEF Typed, StandDowns, Excuses
    <3> QED
      BY <1>4, <3>1 DEF Shows, Typed
  <2>3. word' \in Words
    <3>1. [word EXCEPT !.lost = @ \cup {"taken"}] \in Words
      BY DEF Typed, Words
    <3> QED
      BY <1>4, <3>1 DEF Shows, Typed
  <2>4. undo' \in [at : Int, standdown : StandDowns] /\ undo'.at = -1
    <3>1. NoStandDown \in StandDowns
      BY Windows DEF NoStandDown, StandDowns, Actors
    <3> QED
      BY <1>4, <3>1 DEF Shows, NoUndo
  <2>5. /\ Tasked' /\ Numbers(number)' /\ reenabled' \in Int
        /\ UNCHANGED <<clock, vt, log, fold, reloaded, moves>>
    BY <1>1, <1>4 DEF Shows, Tasked, Numbers
  <2>6. TypeOK'
    BY <1>1, <2>2, <2>4, <2>5 DEF Typed, TypeOK, Numbers, Tasked, StandDowns
  <2> QED
    BY <1>1, <2>1, <2>2, <2>3, <2>4, <2>5, <2>6 DEF Typed
<1> QED
  BY <1>2, <1>3, <1>4

LEMMA TickTypes == Typed /\ Tick => Typed'
<1> SUFFICES ASSUME Typed, Tick PROVE Typed'
  OBVIOUS
<1>1. /\ clock \in Nat /\ clock < MaxClock /\ MaxClock \in Nat /\ Match \in Nat /\ clock' = clock + 1
      /\ UNCHANGED <<vt, number, log, task, standdown, undo, fold, reloaded, reenabled, source, word, moves>>
  BY Windows DEF Typed, TypeOK, Tick
<1>2. Tasked'
  BY <1>1 DEF Typed, Tasked
<1>3. TypeOK'
  BY <1>1 DEF Typed, TypeOK
<1> QED
  BY <1>1, <1>2, <1>3 DEF Typed

LEMMA NextTypes == Typed /\ [Next]_vars => Typed'
<1> SUFFICES ASSUME Typed, [Next]_vars PROVE Typed'
  OBVIOUS
<1>1. CASE UNCHANGED vars
  BY <1>1 DEF vars, Typed, TypeOK, Tasked
<1>2. CASE Next
  BY <1>2, TaskTypes, OthersTypes, SourceTypes, TickTypes DEF Next
<1> QED
  BY <1>1, <1>2

(***************************************************************************)
(* The log never outgrows its length, and every stand-down has an end.     *)
(***************************************************************************)
THEOREM TypesHold == Spec => []TypeOK
<1>1. Spec => []Typed
  BY InitTypes, NextTypes, PTL DEF Spec
<1> QED
  BY <1>1, PTL DEF Typed

-----------------------------------------------------------------------------
(***************************************************************************)
(* Neither Hearth nor the VTherm stands a room down.                       *)
(*                                                                         *)
(* The undo of an override puts a stand-down back, so what is said of the  *)
(* one in force is said of that one too.                                   *)
(***************************************************************************)
Blameless(sd) == sd.by \in {"hearth", "vtherm"} => sd.why # {}
BlameInv      == Blameless(standdown) /\ Blameless(undo.standdown)

LEMMA BlameInit == Init => BlameInv
BY DEF Init, BlameInv, Blameless, NoStandDown, NoUndo

(***************************************************************************)
(* A write that has not slipped is found in the log.                       *)
(***************************************************************************)
LEMMA EchoIsKnown ==
  ASSUME Typed, NEW entity, NEW value, NEW at, Slipped(entity, value, at) = {}
  PROVE  MadeByUs(entity, value)
<1>1. [entity |-> entity, value |-> value, at |-> at] \in Logged(entity)
  BY DEF Slipped
<1>2. \A i \in DOMAIN log : ~(clock - log[i].at > Match)
  BY DEF Slipped
<1>3. PICK i \in DOMAIN log : log[i] = [entity |-> entity, value |-> value, at |-> at]
  BY <1>1 DEF Logged
<1>4. log[i].entity = entity /\ log[i].value = value
  BY <1>3
<1>5. DOMAIN log = 1..Len(log) /\ Len(log) \in Nat /\ \A j \in DOMAIN log : log[j].at \in Int
  <2>1. log \in Seq(Entries)
    BY DEF Typed
  <2>2. DOMAIN log = 1..Len(log) /\ Len(log) \in Nat /\ \A j \in DOMAIN log : log[j] \in Entries
    BY <2>1
  <2> QED
    BY <2>2 DEF Entries
<1>6. \A j \in i..Len(log) : clock - log[j].at <= Match
  <2> SUFFICES ASSUME NEW j \in i..Len(log) PROVE clock - log[j].at <= Match
    OBVIOUS
  <2>1. j \in DOMAIN log
    BY <1>5
  <2>2. clock \in Int /\ Match \in Int
    BY Windows DEF Typed, TypeOK
  <2> QED
    BY <1>2, <1>5, <2>1, <2>2
<1> QED
  BY <1>4, <1>6 DEF MadeByUs

External(new, user) == Verdict(new, user) \in {"human", "automation"} /\ StandsDown(new)

LEMMA ChangeBlame ==
  ASSUME BlameInv, NEW new, NEW user, NEW who, NEW why, Change(new, user, who, why),
         External(new, user) /\ who \in {"hearth", "vtherm"} => why # {}
  PROVE  BlameInv'
<1>2. Blameless(undo.standdown)'
  BY DEF Change, BlameInv, Blameless
<1>3. Blameless(standdown)'
  <2>1. CASE External(new, user)
    <3>1. standdown' = [until |-> StanddownUntil(clock), by |-> who, why |-> why]
      BY <2>1 DEF Change, External
    <3> QED
      BY <2>1, <3>1 DEF Blameless
  <2>2. CASE ~External(new, user)
    <3>1. standdown' = standdown
      BY <2>2 DEF Change, External
    <3> QED
      BY <3>1 DEF BlameInv, Blameless
  <2> QED
    BY <2>1, <2>2
<1> QED
  BY <1>2, <1>3 DEF BlameInv

(***************************************************************************)
(* What Hearth wrote is its own, or has slipped.                           *)
(***************************************************************************)
LEMMA PresetLandsBlame == ASSUME Typed, BlameInv, NEW t \in Tasks, PresetLands(t) PROVE BlameInv'
<1> DEFINE p == task[t].call[2]
           why == Slipped("vtherm", p, task[t].now)
<1>1. Change(Set(p), FALSE, "hearth", why)
  BY DEF PresetLands
<1>2. External(Set(p), FALSE) => why # {}
  <2> SUFFICES ASSUME why = {} PROVE Verdict(Set(p), FALSE) \notin {"human", "automation"}
    BY DEF External
  <2>1. MadeByUs("vtherm", p)
    BY EchoIsKnown
  <2>2. CASE p = vt.preset
    BY <2>2 DEF Set, Verdict
  <2>3. CASE p # vt.preset
    <3>1. Set(p).preset = p
      BY <2>3 DEF Typed, TypeOK, Set, Wants
    <3> QED
      BY <2>1, <2>3, <3>1 DEF Verdict
  <2> QED
    BY <2>2, <2>3
<1> HIDE DEF p, why
<1> QED
  BY <1>1, <1>2, ChangeBlame

LEMMA TargetFollowsBlame == ASSUME Typed, BlameInv, TargetFollows PROVE BlameInv'
<1> DEFINE new == IF vt.ready /\ vt.preset = "comfort" THEN Wants(vt) ELSE vt
           why == Slipped("comfort", number.value, number.read)
<1>1. vt \in VTherms /\ number.by \in {"hearth", "person"}
  BY DEF Typed, TypeOK, VTherms
<1>2. Change(new, FALSE, number.by, why)
  BY <1>1 DEF TargetFollows
<1>3. External(new, FALSE) /\ number.by = "hearth" => why # {}
  <2> SUFFICES ASSUME why = {} PROVE ~External(new, FALSE)
    OBVIOUS
  <2>1. MadeByUs("comfort", number.value)
    BY EchoIsKnown
  <2>2. new.preset = vt.preset
    BY <1>1 DEF Wants, VTherms
  <2>3. new.window \/ new.target = vt.target \/ (new.preset = "comfort" /\ new.target = number.value)
    BY <1>1 DEF Wants, VTherms, PresetTemp
  <2> HIDE DEF new, why
  <2> QED
    BY <2>1, <2>2, <2>3 DEF External, StandsDown, Verdict
<1> HIDE DEF new, why
<1> QED
  BY <1>1, <1>2, <1>3, ChangeBlame

(***************************************************************************)
(* What the VTherm does of itself is known as such, or has an excuse.      *)
(***************************************************************************)
LEMMA WindowBlame == ASSUME Typed, BlameInv, Window PROVE BlameInv'
<1> DEFINE new == Wants([vt EXCEPT !.window = ~@])
<1>1. vt \in VTherms /\ [vt EXCEPT !.window = ~@] \in VTherms
  BY DEF Typed, TypeOK, VTherms
<1>2. /\ new.preset = vt.preset /\ new.window = ~vt.window
      /\ ~new.window => new.target = PresetTemp(vt.preset)
  BY <1>1 DEF Wants, VTherms
<1>3. Change(new, FALSE, "vtherm", Edited(new))
  BY DEF Window
<1> HIDE DEF new
<1>4. External(new, FALSE) => Edited(new) # {}
  <2> SUFFICES ASSUME External(new, FALSE), Edited(new) = {} PROVE FALSE
    OBVIOUS
  <2>1. ~new.window /\ vt.preset = "comfort"
    BY <1>2 DEF External, StandsDown, Affected
  <2>2. ~Reapply(new) /\ new.target # vt.target /\ ~MadeByUs(new.preset, new.target)
    BY <1>2 DEF External, Verdict
  <2>3. Slipped("comfort", number.value, number.read) = {}
    BY <1>2, <2>1, <2>2 DEF Edited
  <2>4. MadeByUs("comfort", number.value)
    BY <2>3, EchoIsKnown
  <2> QED
    BY <1>2, <2>1, <2>2, <2>4 DEF PresetTemp
<1> QED
  BY <1>3, <1>4, ChangeBlame

LEMMA GoneBlame == ASSUME Typed, BlameInv, Gone PROVE BlameInv'
<1> DEFINE new == [vt EXCEPT !.ready = FALSE]
<1>1. new.preset = vt.preset /\ new.target = vt.target
  BY DEF Typed, TypeOK
<1>2. Change(new, FALSE, "vtherm", {})
  BY DEF Gone
<1> HIDE DEF new
<1>3. ~External(new, FALSE)
  BY <1>1 DEF External, Verdict
<1> QED
  BY <1>2, <1>3, ChangeBlame

LEMMA BackBlame == ASSUME Typed, BlameInv, NEW p \in {"comfort", "eco"}, Back(p) PROVE BlameInv'
<1> DEFINE new == Wants([vt EXCEPT !.ready = TRUE, !.preset = p])
<1>1. Change(new, FALSE, "vtherm", Edited(new)) /\ ~vt.ready
  BY DEF Back
<1> HIDE DEF new
<1>2. External(new, FALSE) => Edited(new) # {}
  <2> SUFFICES ASSUME External(new, FALSE) PROVE Edited(new) # {}
    OBVIOUS
  <2>1. new.preset = vt.preset /\ EditedNow(new) /\ ~Reapply(new)
    BY <1>1 DEF External, Verdict, Judge, Startup
  <2> QED
    BY <2>1 DEF EditedNow, Edited
<1> QED
  BY <1>1, <1>2, ChangeBlame

LEMMA RestoresBlame == ASSUME Typed, BlameInv, NEW p \in {"comfort", "eco"}, Restores(p) PROVE BlameInv'
<1> DEFINE why == IF clock - reloaded > ReloadGrace THEN {"slow"} ELSE {}
<1>1. Change(Set(p), FALSE, "vtherm", why) /\ reloaded >= 0 /\ p # vt.preset
  BY DEF Restores
<1>2. External(Set(p), FALSE) => why # {}
  <2> SUFFICES ASSUME why = {} PROVE Verdict(Set(p), FALSE) \notin {"human", "automation"}
    BY DEF External
  <2>1. Startup
    <3>1. clock \in Int /\ reloaded \in Int /\ ReloadGrace \in Int
      BY Windows DEF Typed, TypeOK
    <3> QED
      BY <1>1, <3>1 DEF Startup
  <2>2. Set(p).preset # vt.preset
    BY <1>1 DEF Typed, TypeOK, Set, Wants
  <2> QED
    BY <2>1, <2>2 DEF Verdict, Judge
<1> HIDE DEF why
<1> QED
  BY <1>1, <1>2, ChangeBlame

LEMMA BlameNext == Typed /\ BlameInv /\ [Next]_vars => BlameInv'
<1> SUFFICES ASSUME Typed, BlameInv, [Next]_vars PROVE BlameInv'
  OBVIOUS
<1>1. ASSUME UNCHANGED <<standdown, undo>> PROVE BlameInv'
  BY <1>1 DEF BlameInv, Blameless
<1>2. ASSUME NEW new, NEW user, NEW who \in {"person", "automation", "scheduler"}, Change(new, user, who, {})
      PROVE  BlameInv'
  BY <1>2, ChangeBlame
<1>3. ASSUME NEW t \in Tasks,
             \/ Begin(t) \/ End(t) \/ PresetLands(t) \/ NumberLands(t)
             \/ \E p \in {"comfort", "eco"} : Write(t, "vtherm", p)
             \/ \E value \in Temps : Write(t, "comfort", value)
      PROVE  BlameInv'
  BY <1>1, <1>3, PresetLandsBlame DEF Begin, End, NumberLands, Write
<1>4. ASSUME NEW p, PersonTaps(p) \/ AutomationSets(p) PROVE BlameInv'
  BY <1>2, <1>4 DEF PersonTaps, PersonSets, AutomationSets
<1>5. ASSUME NEW value, PersonTurns \/ PersonDrags(value) PROVE BlameInv'
  BY <1>2, <1>5 DEF PersonTurns, PersonDrags, PersonSets
<1>6. ASSUME NEW value, PersonEdits(value) PROVE BlameInv'
  BY <1>1, <1>6 DEF PersonEdits
<1>7. ASSUME NEW s \in Sources, SourceOn(s) \/ Shows(s) \/ \E p \in {"comfort", "eco"} : Fires(s, p)
      PROVE  BlameInv'
  <2>1. CASE SourceOn(s)
    BY <1>1, <2>1 DEF SourceOn
  <2>2. ASSUME NEW p, Fires(s, p) PROVE BlameInv'
    BY <1>2, <2>2 DEF Fires
  <2>3. CASE Shows(s)
    <3>1. Blameless([undo.standdown EXCEPT !.why = @ \cup {"stacked"}])
      <4>1. undo.standdown \in StandDowns
        BY DEF Typed
      <4>2. [undo.standdown EXCEPT !.why = @ \cup {"stacked"}].why = undo.standdown.why \cup {"stacked"}
        BY <4>1 DEF StandDowns
      <4> QED
        BY <4>2 DEF Blameless
    <3>2. Blameless(standdown') /\ undo' = NoUndo
      BY <2>3, <3>1 DEF Shows, BlameInv
    <3> QED
      BY <3>2 DEF BlameInv, Blameless, NoUndo, NoStandDown
  <2> QED
    BY <1>7, <2>1, <2>2, <2>3
<1>8. CASE Tick
  BY <1>1, <1>8 DEF Tick
<1>9. CASE UNCHANGED vars
  BY <1>1, <1>9 DEF vars
<1> QED
  BY <1>3, <1>4, <1>5, <1>6, <1>7, <1>8, <1>9, TargetFollowsBlame, WindowBlame, GoneBlame, BackBlame, RestoresBlame DEF Next

LEMMA BlameHolds == Spec => []BlameInv
<1>1. Init => Typed /\ BlameInv
  BY InitTypes, BlameInit
<1>2. Typed /\ BlameInv /\ [Next]_vars => (Typed /\ BlameInv)'
  BY NextTypes, BlameNext
<1> QED
  BY <1>1, <1>2, PTL DEF Spec

(***************************************************************************)
(* Hearth is never stood down by its own write, but for one that came      *)
(* late, is hidden in the log or pushed out of it.                         *)
(***************************************************************************)
THEOREM EchoHolds == Spec => []EchoIsNobody
<1>1. BlameInv => EchoIsNobody
  BY DEF BlameInv, Blameless, EchoIsNobody
<1> QED
  BY <1>1, BlameHolds, PTL

(***************************************************************************)
(* Nor by what the VTherm does of itself, but for the excuses named.       *)
(***************************************************************************)
THEOREM RestoreHolds == Spec => []RestoreIsNobody
<1>1. BlameInv => RestoreIsNobody
  BY DEF BlameInv, Blameless, RestoreIsNobody
<1> QED
  BY <1>1, BlameHolds, PTL

-----------------------------------------------------------------------------
(***************************************************************************)
(* A person is heard.                                                      *)
(*                                                                         *)
(* The stand-down lasts as long as the word does, and so does the one an   *)
(* undo would put back if it was captured after the word; a number a       *)
(* person has edited is followed in the same moment.                       *)
(***************************************************************************)
Unlost == word.at >= 0 /\ word.lost = {}
Followed == number.due => number.moved = clock

HeardInv ==
  /\ Unlost => standdown.until >= StanddownUntil(word.at)
  /\ Unlost /\ undo.at > word.at => undo.standdown.until >= StanddownUntil(word.at)
  /\ word.at <= clock
  /\ Followed

LEMMA HeardInit == Init => HeardInv
BY DEF Init, HeardInv, Unlost, Followed

LEMMA Times ==
  ASSUME Typed
  PROVE  /\ clock \in 0..MaxClock /\ clock \in Nat /\ MaxClock \in Nat /\ word.at \in Int /\ undo.at \in Int /\ undo.at <= clock /\ Timeout \in Nat /\ Match \in Nat
         /\ standdown.until \in Int /\ undo.standdown.until \in Int /\ {reloaded, reenabled} \subseteq Int
<1>1. standdown.until \in Int /\ undo.standdown.until \in Int
  BY Windows DEF Typed, StandDowns
<1> QED
  BY <1>1, Windows DEF Typed, TypeOK, Words

(***************************************************************************)
(* A change that a person made is taken for one, or for another's.         *)
(***************************************************************************)
Taken(new, user) == Verdict(new, user) \in {"nothing", "folded", "own", "scheduler", "human", "automation"}

LEMMA UserIsTaken == ASSUME NEW new PROVE Taken(new, TRUE)
BY DEF Taken, Verdict, Judge

LEMMA ChangeHeard ==
  ASSUME Typed, HeardInv, NEW new, NEW user, NEW who, NEW why, Change(new, user, who, why),
         clock' = clock, Followed', who = "person" => Taken(new, user)
  PROVE  HeardInv'
<1> DEFINE verdict == Verdict(new, user)
           external == verdict \in {"human", "automation"}
           said == who = "person" /\ IsSaid(verdict) /\ StandsDown(new)
<1>1. /\ undo' = IF external THEN [at |-> clock, standdown |-> standdown] ELSE undo
      /\ standdown' = IF external /\ StandsDown(new) THEN [until |-> StanddownUntil(clock), by |-> who, why |-> why] ELSE standdown
      /\ word' = IF said THEN [at |-> clock, lost |-> Lost(verdict)] ELSE word
  BY DEF Change
<1>2. said => external \/ Lost(verdict) # {}
  BY DEF Taken, Lost, IsSaid
<1> HIDE DEF verdict, external, said
<1>3. CASE said
  <2>1. word'.at = clock /\ word'.lost = Lost(verdict) /\ ~(undo'.at > clock)
    BY <1>1, <1>3, Times
  <2>2. Unlost' => standdown'.until = StanddownUntil(clock)
    BY <1>1, <1>2, <1>3, <2>1 DEF Unlost, said
  <2> QED
    BY <2>1, <2>2, Times, Ends DEF HeardInv
<1>4. CASE ~said
  <2>1. word' = word
    BY <1>1, <1>4
  <2>2. Unlost' => standdown'.until >= StanddownUntil(word.at)
    <3>1. standdown'.until = StanddownUntil(clock) \/ standdown'.until = standdown.until
      BY <1>1
    <3>2. Unlost => StanddownUntil(clock) >= StanddownUntil(word.at)
      BY Times, LaterEnds DEF HeardInv, Unlost
    <3> QED
      BY <2>1, <3>1, <3>2 DEF HeardInv, Unlost
  <2>3. Unlost' /\ undo'.at > word.at => undo'.standdown.until >= StanddownUntil(word.at)
    <3>1. undo' = undo \/ undo'.standdown = standdown
      BY <1>1
    <3> QED
      BY <2>1, <3>1 DEF HeardInv, Unlost
  <2> QED
    BY <2>1, <2>2, <2>3 DEF HeardInv
<1> QED
  BY <1>3, <1>4

LEMMA TargetFollowsHeard == ASSUME Typed, HeardInv, TargetFollows PROVE HeardInv'
<1> DEFINE new == IF vt.ready /\ vt.preset = "comfort" THEN Wants(vt) ELSE vt
           why == Slipped("comfort", number.value, number.read)
<1>1. Change(new, FALSE, number.by, why) /\ clock' = clock /\ number.moved = clock
  BY DEF TargetFollows, HeardInv, Followed
<1>2. Followed'
  <2>1. number'.due = FALSE
    BY DEF TargetFollows, Typed, TypeOK
  <2> QED
    BY <2>1 DEF Followed
<1>3. number.by = "person" => Taken(new, FALSE)
  <2>1. new = vt \/ (new.preset = "comfort" /\ new.preset = vt.preset)
    BY DEF Wants, Typed, TypeOK
  <2>2. new.preset = "comfort" => ~Reapply(new)
    BY <1>1, Times DEF Reapply
  <2> HIDE DEF new
  <2>3. CASE new = vt
    BY <2>3 DEF Taken, Verdict
  <2>4. CASE new.preset = "comfort" /\ new.preset = vt.preset
    BY <1>1, <2>2, <2>4 DEF Taken, Verdict, Judge, EditedNow
  <2> QED
    BY <2>1, <2>3, <2>4
<1> HIDE DEF new, why
<1> QED
  BY <1>1, <1>2, <1>3, ChangeHeard

LEMMA HeardNext == Typed /\ HeardInv /\ [Next]_vars => HeardInv'
<1> SUFFICES ASSUME Typed, HeardInv, [Next]_vars PROVE HeardInv'
  OBVIOUS
<1>1. ASSUME UNCHANGED <<clock, standdown, undo, word>>, Followed' PROVE HeardInv'
  BY <1>1 DEF HeardInv, Unlost
<1>2. UNCHANGED <<clock, number>> => Followed'
  BY DEF HeardInv, Followed
<1>3. ASSUME NEW new, NEW who \in {"hearth", "vtherm", "automation", "scheduler"}, NEW why,
             Change(new, FALSE, who, why), UNCHANGED <<clock, number>>
      PROVE  HeardInv'
  BY <1>2, <1>3, ChangeHeard
<1>4. ASSUME NEW t \in Tasks,
             \/ Begin(t) \/ End(t) \/ PresetLands(t) \/ NumberLands(t)
             \/ \E p \in {"comfort", "eco"} : Write(t, "vtherm", p)
             \/ \E value \in Temps : Write(t, "comfort", value)
      PROVE  HeardInv'
  <2>1. CASE PresetLands(t)
    BY <1>3, <2>1 DEF PresetLands
  <2>2. CASE NumberLands(t)
    <3>1. Followed'
      BY <2>2 DEF NumberLands, HeardInv, Followed
    <3> QED
      BY <1>1, <2>2, <3>1 DEF NumberLands
  <2> QED
    BY <1>1, <1>2, <1>4, <2>1, <2>2 DEF Begin, End, Write
<1>5. ASSUME NEW new, PersonSets(new) PROVE HeardInv'
  BY <1>2, <1>5, ChangeHeard, UserIsTaken DEF PersonSets
<1>6. ASSUME NEW value, PersonTurns \/ PersonDrags(value) PROVE HeardInv'
  BY <1>5, <1>6 DEF PersonTurns, PersonDrags
<1>7. ASSUME NEW p, PersonTaps(p) \/ AutomationSets(p) \/ Back(p) \/ Restores(p) PROVE HeardInv'
  BY <1>3, <1>5, <1>7 DEF PersonTaps, AutomationSets, Back, Restores
<1>8. CASE Window \/ Gone
  BY <1>3, <1>8 DEF Window, Gone
<1>9. ASSUME NEW value, PersonEdits(value) PROVE HeardInv'
  <2>1. Followed'
    BY <1>9 DEF PersonEdits, Followed
  <2> QED
    BY <1>1, <1>9, <2>1 DEF PersonEdits
<1>10. ASSUME NEW s \in Sources, SourceOn(s) \/ Shows(s) \/ \E p \in {"comfort", "eco"} : Fires(s, p)
       PROVE  HeardInv'
  <2>1. CASE SourceOn(s)
    BY <1>1, <1>2, <2>1 DEF SourceOn
  <2>2. ASSUME NEW p, Fires(s, p) PROVE HeardInv'
    BY <1>3, <2>2 DEF Fires
  <2>3. CASE Shows(s)
    <3> DEFINE takesBack == undo.at >= 0 /\ clock - undo.at <= SourceGrace
    <3>1. /\ clock' = clock /\ Followed' /\ undo' = NoUndo
          /\ standdown' = IF takesBack THEN [undo.standdown EXCEPT !.why = @ \cup {"stacked"}] ELSE standdown
          /\ word' = IF takesBack /\ word.at >= undo.at THEN [word EXCEPT !.lost = @ \cup {"taken"}] ELSE word
      BY <1>2, <2>3 DEF Shows
    <3> HIDE DEF takesBack
    <3>2. word'.at = word.at /\ (Unlost' => Unlost /\ (takesBack => undo.at > word.at))
      <4>1. [word EXCEPT !.lost = @ \cup {"taken"}].at = word.at /\ [word EXCEPT !.lost = @ \cup {"taken"}].lost # {}
        BY DEF Typed, Words
      <4>2. CASE takesBack /\ word.at >= undo.at
        BY <3>1, <4>1, <4>2 DEF Unlost
      <4>3. CASE ~(takesBack /\ word.at >= undo.at)
        BY <3>1, <4>3, Times DEF Unlost
      <4> QED
        BY <4>2, <4>3
    <3>3. standdown'.until = IF takesBack THEN undo.standdown.until ELSE standdown.until
      <4>1. undo.standdown \in StandDowns
        BY DEF Typed
      <4>2. [undo.standdown EXCEPT !.why = @ \cup {"stacked"}].until = undo.standdown.until
        BY <4>1 DEF StandDowns
      <4> QED
        BY <3>1, <4>2
    <3>4. Unlost' => ~(undo'.at > word'.at)
      BY <3>1, <3>2, Times DEF NoUndo, Unlost
    <3> QED
      BY <3>1, <3>2, <3>3, <3>4 DEF HeardInv
  <2> QED
    BY <1>10, <2>1, <2>2, <2>3
<1>11. CASE Tick
  <2>1. clock' = clock + 1 /\ UNCHANGED <<number, standdown, undo, word>> /\ ~number.due
    BY <1>11 DEF Tick
  <2> QED
    BY <2>1, Times DEF HeardInv, Unlost, Followed
<1>12. CASE UNCHANGED vars
  BY <1>1, <1>2, <1>12 DEF vars
<1> QED
  BY <1>4, <1>6, <1>7, <1>8, <1>9, <1>10, <1>11, <1>12, TargetFollowsHeard DEF Next

(***************************************************************************)
(* What a person says stands Hearth down until the next block or the       *)
(* time-out, but for what is taken for Hearth's own or the Scheduler's, or *)
(* folded into a change that stood nobody down.                            *)
(***************************************************************************)
THEOREM HeardHolds == Spec => []PersonIsHeard
<1>1. Init => Typed /\ HeardInv
  BY InitTypes, HeardInit
<1>2. Typed /\ HeardInv /\ [Next]_vars => (Typed /\ HeardInv)'
  BY NextTypes, HeardNext
<1>3. Typed /\ HeardInv => PersonIsHeard
  <2> SUFFICES ASSUME Typed, HeardInv, word.at >= 0, clock < word.at + Timeout, ~BlockSince(word.at), word.lost = {}
               PROVE  Active
    BY DEF PersonIsHeard
  <2>1. word.at \in 0..MaxClock /\ NextBoundary[word.at] \in Nat
    BY Times, BoundaryAssumption DEF HeardInv
  <2>2. clock < StanddownUntil(word.at) /\ StanddownUntil(word.at) \in Int
    BY <2>1, Times, Ends DEF StanddownUntil, BlockSince
  <2> QED
    BY <2>1, <2>2, Times DEF HeardInv, Unlost, Active
<1> QED
  BY <1>1, <1>2, <1>3, PTL DEF Spec

-----------------------------------------------------------------------------
(***************************************************************************)
(* A slot is taken back.                                                   *)
(*                                                                         *)
(* While the state of a source is still to come the undo is of this very   *)
(* moment; and once it has come, its slot falls within the grace.          *)
(***************************************************************************)
StateToCome == \E s \in Sources : "state" \in source[s]

SlotInv ==
  /\ standdown.by = "scheduler" => "stacked" \in standdown.why \/ (undo.at = clock /\ StateToCome)
  /\ \A s \in Sources : "slot" \in source[s] => "state" \in source[s] \/ reenabled = clock

LEMMA SlotInit == Init => SlotInv
BY DEF Init, SlotInv, NoStandDown

LEMMA ChangeSlot ==
  ASSUME SlotInv, NEW new, NEW user, NEW who, NEW why, Change(new, user, who, why), UNCHANGED <<clock, reenabled>>,
         StateToCome => StateToCome',
         \A s \in Sources : "slot" \in source'[s] => "slot" \in source[s] /\ ("state" \in source[s] => "state" \in source'[s]),
         who = "scheduler" => StateToCome' \/ Verdict(new, user) \notin {"human", "automation"}
  PROVE  SlotInv'
<1> DEFINE external == Verdict(new, user) \in {"human", "automation"}
<1>1. /\ undo' = IF external THEN [at |-> clock, standdown |-> standdown] ELSE undo
      /\ standdown' = IF external /\ StandsDown(new) THEN [until |-> StanddownUntil(clock), by |-> who, why |-> why] ELSE standdown
  BY DEF Change
<1>2. who = "scheduler" /\ external => StateToCome'
  OBVIOUS
<1>3. \A s \in Sources : "slot" \in source'[s] => "state" \in source'[s] \/ reenabled' = clock'
  BY DEF SlotInv
<1>4. undo.at = clock => undo'.at = clock
  BY <1>1
<1> HIDE DEF external
<1>5. standdown'.by = "scheduler" => "stacked" \in standdown'.why \/ (undo'.at = clock' /\ StateToCome')
  <2>1. CASE external /\ StandsDown(new)
    BY <1>1, <1>2, <2>1
  <2>2. CASE ~(external /\ StandsDown(new))
    BY <1>1, <1>4, <2>2 DEF SlotInv
  <2> QED
    BY <2>1, <2>2
<1> QED
  BY <1>3, <1>5 DEF SlotInv

LEMMA FiresSlot == ASSUME Typed, SlotInv, NEW s \in Sources, NEW p \in {"comfort", "eco"}, Fires(s, p) PROVE SlotInv'
<1>1. /\ "slot" \in source[s] /\ Change(Set(p), FALSE, "scheduler", {}) /\ UNCHANGED <<clock, reenabled>>
      /\ source' = [source EXCEPT ![s] = @ \ {"slot"}]
  BY DEF Fires
<1>2. \A r \in Sources : source'[r] = IF r = s THEN source[r] \ {"slot"} ELSE source[r]
  BY <1>1 DEF Typed
<1>3. StateToCome => StateToCome'
  BY <1>2 DEF StateToCome
<1>4. \A r \in Sources : "slot" \in source'[r] => "slot" \in source[r] /\ ("state" \in source[r] => "state" \in source'[r])
  BY <1>2
<1>5. StateToCome' \/ Verdict(Set(p), FALSE) \notin {"human", "automation"}
  <2>1. CASE "state" \in source[s]
    BY <1>2, <2>1 DEF StateToCome
  <2>2. CASE "state" \notin source[s]
    <3>1. SchedulerGrace
      <4>1. reenabled = clock
        BY <1>1, <2>2 DEF SlotInv
      <4>2. SourceGrace \in Nat
        BY Windows
      <4> QED
        BY <4>1, <4>2, Times DEF SchedulerGrace
    <3>2. Set(p) = vt \/ Set(p).preset # vt.preset
      BY DEF Typed, TypeOK, Set, Wants
    <3> QED
      BY <3>1, <3>2 DEF Verdict, Judge
  <2> QED
    BY <2>1, <2>2
<1> QED
  BY <1>1, <1>3, <1>4, <1>5, ChangeSlot

LEMMA ShowsSlot == ASSUME Typed, SlotInv, NEW s \in Sources, Shows(s) PROVE SlotInv'
<1> DEFINE takesBack == undo.at >= 0 /\ clock - undo.at <= SourceGrace
<1>1. /\ clock' = clock /\ reenabled' = clock
      /\ source' = [source EXCEPT ![s] = @ \ {"state"}]
      /\ standdown' = IF takesBack THEN [undo.standdown EXCEPT !.why = @ \cup {"stacked"}] ELSE standdown
  BY DEF Shows
<1>2. undo.at = clock => takesBack
  BY Windows, Times
<1> HIDE DEF takesBack
<1>3. standdown'.by = "scheduler" => "stacked" \in standdown'.why
  <2>1. CASE takesBack
    <3>1. undo.standdown \in StandDowns
      BY DEF Typed
    <3>2. [undo.standdown EXCEPT !.why = @ \cup {"stacked"}].why = undo.standdown.why \cup {"stacked"}
      BY <3>1 DEF StandDowns
    <3> QED
      BY <1>1, <2>1, <3>2
  <2>2. CASE ~takesBack
    BY <1>1, <1>2, <2>2 DEF SlotInv
  <2> QED
    BY <2>1, <2>2
<1> QED
  BY <1>1, <1>3 DEF SlotInv

LEMMA SlotNext == Typed /\ SlotInv /\ [Next]_vars => SlotInv'
<1> SUFFICES ASSUME Typed, SlotInv, [Next]_vars PROVE SlotInv'
  OBVIOUS
<1>1. ASSUME UNCHANGED <<clock, standdown, undo, source, reenabled>> PROVE SlotInv'
  BY <1>1 DEF SlotInv, StateToCome
<1>2. ASSUME NEW new, NEW user, NEW who \in {"hearth", "vtherm", "person", "automation"}, NEW why,
             Change(new, user, who, why), UNCHANGED <<clock, reenabled, source>>
      PROVE  SlotInv'
  <2>1. StateToCome => StateToCome'
    BY <1>2 DEF StateToCome
  <2> QED
    BY <1>2, <2>1, ChangeSlot
<1>3. ASSUME NEW t \in Tasks,
             \/ Begin(t) \/ End(t) \/ PresetLands(t) \/ NumberLands(t)
             \/ \E p \in {"comfort", "eco"} : Write(t, "vtherm", p)
             \/ \E value \in Temps : Write(t, "comfort", value)
      PROVE  SlotInv'
  BY <1>1, <1>2, <1>3 DEF Begin, End, Write, NumberLands, PresetLands
<1>4. CASE TargetFollows
  <2>1. number.by \in {"hearth", "vtherm", "person", "automation"}
    BY DEF Typed, TypeOK
  <2> QED
    BY <1>2, <1>4, <2>1 DEF TargetFollows
<1>5. ASSUME NEW new, PersonSets(new) PROVE SlotInv'
  BY <1>2, <1>5 DEF PersonSets
<1>6. ASSUME NEW value, PersonTurns \/ PersonDrags(value) \/ PersonEdits(value) PROVE SlotInv'
  BY <1>1, <1>5, <1>6 DEF PersonTurns, PersonDrags, PersonEdits
<1>7. ASSUME NEW p, PersonTaps(p) \/ AutomationSets(p) \/ Back(p) \/ Restores(p) PROVE SlotInv'
  BY <1>2, <1>5, <1>7 DEF PersonTaps, AutomationSets, Back, Restores
<1>8. CASE Window \/ Gone
  BY <1>2, <1>8 DEF Window, Gone
<1>9. ASSUME NEW s \in Sources, SourceOn(s) PROVE SlotInv'
  <2>1. \A r \in Sources : source'[r] = IF r = s THEN {"slot", "state"} ELSE source[r]
    BY <1>9 DEF SourceOn, Typed
  <2>2. StateToCome'
    BY <2>1 DEF StateToCome
  <2> QED
    BY <1>9, <2>1, <2>2 DEF SourceOn, SlotInv
<1>10. CASE Tick
  <2>1. (\A s \in Sources : source[s] = {}) /\ UNCHANGED <<standdown, undo, source, reenabled>>
    BY <1>10 DEF Tick
  <2> QED
    BY <2>1 DEF SlotInv, StateToCome
<1>11. CASE UNCHANGED vars
  BY <1>1, <1>11 DEF vars
<1> QED
  BY <1>3, <1>4, <1>6, <1>7, <1>8, <1>9, <1>10, <1>11, FiresSlot, ShowsSlot DEF Next

(***************************************************************************)
(* A slot that a source fired when it came on leaves no stand-down, but    *)
(* for one that another change has come on top of.                         *)
(***************************************************************************)
THEOREM SlotHolds == Spec => []SlotIsTakenBack
<1>1. Init => Typed /\ SlotInv
  BY InitTypes, SlotInit
<1>2. Typed /\ SlotInv /\ [Next]_vars => (Typed /\ SlotInv)'
  BY NextTypes, SlotNext
<1>3. SlotInv => SlotIsTakenBack
  BY DEF SlotInv, SlotIsTakenBack, StateToCome
<1> QED
  BY <1>1, <1>2, <1>3, PTL DEF Spec

=============================================================================
