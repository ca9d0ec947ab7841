------------------------- MODULE OverrideDetection -------------------------
(***************************************************************************)
(* Whose doing a change of the VTherm is (mech_learning.py,                *)
(* core/override.py; DECISIONS.md D26, D47, D48, D55, D58, D66, D67).      *)
(* Every change of the preset or the target reaches Hearth as one event,   *)
(* and all that tells them apart is a user on the context, the log of      *)
(* Hearth's own writes, the preset's number and a few windows of time.     *)
(* What stands down a room is taken from here by PresetControl as a choice.*)
(*                                                                         *)
(* Time is counted in ticks, of which the windows are a few; what is a     *)
(* matter of moments in the code happens within one tick.                  *)
(***************************************************************************)
EXTENDS Integers, Sequences

CONSTANTS Tasks,       \* what writes: the evaluation and the tasks of services
          Sources,     \* the Scheduler entities of the room
          Temps,       \* temperatures of comfort's number
          LogLen,      \* write_log_len
          Match, Timeout, ReloadGrace, SourceGrace, Coalesce,   \* the windows, in ticks
          NextBoundary,   \* next_boundary: when, seen from each tick, the next block begins; not later: no block does
          MaxClock,    \* bound: ticks
          MaxMoves     \* bound: writes of Hearth, and acts of people, automations, the Scheduler and the window

ASSUME WindowsAssumption == /\ {Match, Timeout, ReloadGrace, SourceGrace, Coalesce, MaxClock, MaxMoves} \subseteq Nat
                            /\ SourceGrace <= ReloadGrace /\ ReloadGrace <= Match /\ Match < Timeout
                            /\ Coalesce = SourceGrace /\ LogLen \in Nat \ {0}
ASSUME TempsAssumption == 1 \in Temps
ASSUME BoundaryAssumption ==
  /\ NextBoundary \in [0..MaxClock -> Nat]
  /\ \A c, d \in 0..MaxClock : c <= d /\ d < NextBoundary[d] => c < NextBoundary[c] /\ NextBoundary[c] <= NextBoundary[d]

VARIABLES clock,
          vt,          \* the VTherm: its preset and target, whether a window is open, whether it is ready
          number,      \* comfort's number: its value, when it last moved, by whom, the writer's
                       \* reading of the clock, and whether the VTherm has yet to follow it
          log,         \* write_log, newest last
          task,        \* per task the now it goes by and the call it is in
          standdown,   \* until when; and by whom, in truth, and what went wrong if by nobody (history)
          undo,        \* _override_undo
          fold,        \* _coalesce: when the stepped change had its last step, -1 without one; and whether what it
                       \* began with stood nobody down (history)
          reloaded,    \* when the VTherm came back last, -1 before
          reenabled,   \* _source_reenabled_at, -1 before
          source,      \* what a source that has been switched on has still to do: fire its slot, show its state
          word,        \* history: when a person last said something Hearth must heed, and what it was lost to
          moves        \* bound

vars == <<clock, vt, number, log, task, standdown, undo, fold, reloaded, reenabled, source, word, moves>>

Presets == {"comfort", "eco", "none"}
Affected == {"comfort"}
Eco == 0       \* the temperature of eco
Manual == 9    \* a target that is no preset's
Frost == -9    \* the target once a window is open

NoCall == <<>>
NoTask == [now |-> -1, call |-> NoCall]
NoStandDown == [until |-> 0, by |-> "nobody", why |-> {}]
NoUndo == [at |-> -1, standdown |-> NoStandDown]
NoFold == [at |-> -1, deaf |-> FALSE]

Init == /\ clock = 0
        /\ vt \in {[preset |-> "comfort", target |-> 1, window |-> FALSE, ready |-> TRUE],
                   [preset |-> "eco", target |-> Eco, window |-> FALSE, ready |-> TRUE]}
        /\ number = [value |-> 1, moved |-> -Match - 1, by |-> "hearth", read |-> 0, due |-> FALSE]
        /\ log = <<>> /\ task = [t \in Tasks |-> NoTask]
        /\ standdown = NoStandDown /\ undo = NoUndo /\ fold = NoFold /\ reloaded = -1 /\ reenabled = -1
        /\ source = [s \in Sources |-> {}]
        /\ word = [at |-> -1, lost |-> {}] /\ moves = 0

Move == moves < MaxMoves /\ moves' = moves + 1

PresetTemp(p) == CASE p = "comfort" -> number.value [] p = "eco" -> Eco [] p = "none" -> Manual
Wants(v) == [v EXCEPT !.target = IF v.window THEN Frost ELSE PresetTemp(v.preset)]

\* A VTherm that is asked for the preset it has does nothing.
Set(p) == IF p = vt.preset THEN vt ELSE Wants([vt EXCEPT !.preset = p])

---------------------------------------------------------------------------
(* The write log. *)

(* Mutant: a log that grows. *)
RecordAll(entity, value, at) == Append(log, [entity |-> entity, value |-> value, at |-> at])

Record(entity, value, at) == LET l == Append(log, [entity |-> entity, value |-> value, at |-> at])
                             IN SubSeq(l, IF Len(l) > LogLen THEN Len(l) - LogLen + 1 ELSE 1, Len(l))

(* Mutant: the newest record is the one that is echoed. *)
MadeByUsLast(entity, value) ==
  LET last == log[Len(log)]
  IN log # <<>> /\ last.entity = entity /\ last.value = value /\ clock - last.at <= Match

\* WriteLog.made_by_us: from the newest on, up to the first record that is too old.
MadeByUs(entity, value) ==
  \E i \in DOMAIN log : /\ log[i].entity = entity /\ log[i].value = value
                        /\ \A j \in i..Len(log) : clock - log[j].at <= Match

---------------------------------------------------------------------------
(* _on_vtherm_change: old is vt, new the state it produced. *)

Reapply(new) == /\ new.preset # "none" /\ new.target = PresetTemp(new.preset)
                /\ new.preset = "comfort" => clock - number.moved > Match

\* The target follows a number that a person has just edited.
EditedNow(new) == new.preset = "comfort" /\ number.by = "person" /\ number.moved = clock

(* Mutant: a reload is over when the VTherm is ready. *)
StartupNotReady == ~vt.ready

Startup == ~vt.ready \/ (reloaded >= 0 /\ clock - reloaded <= ReloadGrace)
(* Mutant: what follows the source's state is not the Scheduler's. *)
SchedulerGraceBefore == FALSE

SchedulerGrace == reenabled >= 0 /\ clock - reenabled <= SourceGrace

\* A change of the target, which may come in steps, and not the tap of a preset.
OfTarget(new) == new.preset = vt.preset \/ new.preset = "none"

\* _record_external_change
Judge(human, stepped) ==
  IF Startup /\ ~human THEN "startup"
  ELSE IF SchedulerGrace THEN "scheduler"
  ELSE IF human /\ stepped /\ fold.at >= 0 /\ clock - fold.at <= Coalesce THEN "folded"
  ELSE IF human THEN "human" ELSE "automation"

(* Mutant: a target on the preset's temperature is the VTherm's own doing, with or without a user. *)
VerdictDeaf(new, user) ==
  IF new.preset # vt.preset
  THEN IF MadeByUs("vtherm", new.preset) THEN "own" ELSE Judge(user, OfTarget(new))
  ELSE IF new.target = vt.target THEN "nothing"
  ELSE IF Reapply(new) THEN "reapply"
  ELSE IF MadeByUs(new.preset, new.target) THEN "own"
  ELSE Judge(user \/ EditedNow(new), OfTarget(new))

Verdict(new, user) ==
  IF new.preset # vt.preset
  THEN IF MadeByUs("vtherm", new.preset) THEN "own" ELSE Judge(user, OfTarget(new))
  ELSE IF new.target = vt.target THEN "nothing"
  ELSE IF ~user /\ Reapply(new) THEN "reapply"
  ELSE IF MadeByUs(new.preset, new.target) THEN "own"
  ELSE Judge(user \/ EditedNow(new), OfTarget(new))

\* _handle_override: a dormant room, and presets nobody learns from, do not stand down.
StandsDown(new) == ~new.window /\ (vt.preset \in Affected \/ (new.preset \in Affected /\ new.preset # vt.preset))

\* standdown_until: at the next block, or after the time-out if that is sooner.
StanddownUntil(now) ==
  IF now < NextBoundary[now] /\ NextBoundary[now] < now + Timeout THEN NextBoundary[now] ELSE now + Timeout

\* What a person says is taken for something else (history).
Lost(verdict) == CASE verdict = "own" -> {"masked"} [] verdict = "scheduler" -> {"scheduler"}
                   [] verdict = "folded" -> {"folded"} [] OTHER -> {}

\* A step is not a word of its own, unless the change it is folded into stood nobody down (history).
IsSaid(verdict) == verdict # "nothing" /\ (verdict = "folded" => fold.deaf)

\* The VTherm becomes new, with a user on the context or not; who is the one whose doing it is in truth, and why what
\* may excuse Hearth for not seeing that it is nobody's.
Change(new, user, who, why) ==
  LET verdict == Verdict(new, user)
      external == verdict \in {"human", "automation"}
  IN /\ vt' = new
     /\ undo' = IF external THEN [at |-> clock, standdown |-> standdown] ELSE undo
     /\ standdown' = IF external /\ StandsDown(new) THEN [until |-> StanddownUntil(clock), by |-> who, why |-> why]
                                                     ELSE standdown
     /\ fold' = IF verdict = "folded" THEN [fold EXCEPT !.at = clock]
                ELSE IF verdict = "human" /\ OfTarget(new) THEN [at |-> clock, deaf |-> ~StandsDown(new)]
                ELSE IF external THEN NoFold ELSE fold
     /\ reloaded' = IF ~vt.ready /\ new.ready THEN clock ELSE reloaded
     /\ word' = IF who = "person" /\ IsSaid(verdict) /\ StandsDown(new)
                THEN [at |-> clock, lost |-> Lost(verdict)] ELSE word

---------------------------------------------------------------------------
(* Hearth's writes. *)

\* An evaluation, or the task of a service, reads the clock once.
Begin(t) ==
  /\ task[t].now < 0 /\ task' = [task EXCEPT ![t].now = clock]
  /\ UNCHANGED <<clock, vt, number, log, standdown, undo, fold, reloaded, reenabled, source, word, moves>>

End(t) ==
  /\ task[t].now >= 0 /\ task[t].call = NoCall /\ task' = [task EXCEPT ![t] = NoTask]
  /\ UNCHANGED <<clock, vt, number, log, standdown, undo, fold, reloaded, reenabled, source, word, moves>>

\* async_set_preset and async_write_preset_temp: the write is recorded, with that reading, before the call.
Write(t, entity, value) ==
  /\ Move /\ vt.ready /\ task[t].now >= 0 /\ task[t].call = NoCall
  /\ log' = Record(entity, value, task[t].now)
  /\ task' = [task EXCEPT ![t].call = <<entity, value>>]
  /\ UNCHANGED <<clock, vt, number, standdown, undo, fold, reloaded, reenabled, source, word>>

\* Why the log may not know a write of Hearth's that arrives now (history).
Logged(entity) == {log[i] : i \in {j \in DOMAIN log : log[j].entity = entity}}
Slipped(entity, value, at) ==
  (IF clock - at > Match THEN {"late"} ELSE {}) \cup
  (IF \E i \in DOMAIN log : clock - log[i].at > Match THEN {"hidden"} ELSE {}) \cup
  (IF [entity |-> entity, value |-> value, at |-> at] \notin Logged(entity) THEN {"pushed"} ELSE {})

PresetLands(t) ==
  LET call == task[t].call
  IN /\ call # NoCall /\ call[1] = "vtherm" /\ vt.ready
     /\ Change(Set(call[2]), FALSE, "hearth", Slipped("vtherm", call[2], task[t].now))
     /\ task' = [task EXCEPT ![t].call = NoCall]
     /\ UNCHANGED <<clock, number, log, reenabled, source, moves>>

NumberLands(t) ==
  LET call == task[t].call
  IN /\ call # NoCall /\ call[1] = "comfort"
     /\ number' = IF number.value = call[2] THEN number 
                  ELSE [value |-> call[2], moved |-> clock, by |-> "hearth", read |-> task[t].now, due |-> TRUE]
     /\ task' = [task EXCEPT ![t].call = NoCall]
     /\ UNCHANGED <<clock, vt, log, standdown, undo, fold, reloaded, reenabled, source, word, moves>>

\* The VTherm moves its target after its number, without a user.
TargetFollows ==
  /\ number.due /\ number' = [number EXCEPT !.due = FALSE]
  /\ Change(IF vt.ready /\ vt.preset = "comfort" THEN Wants(vt) ELSE vt, FALSE, number.by,
            Slipped("comfort", number.value, number.read))
  /\ UNCHANGED <<clock, log, task, reenabled, source, moves>>

---------------------------------------------------------------------------
(* Everybody else's. *)

PersonSets(new) ==
  /\ Move /\ vt.ready /\ new # vt
  /\ Change(new, TRUE, "person", {})
  /\ UNCHANGED <<clock, number, log, task, reenabled, source>>

PersonTaps(p) == PersonSets(Set(p))
PersonTurns == PersonSets([vt EXCEPT !.preset = "none", !.target = Manual])
PersonDrags(value) == vt.preset = "comfort" /\ PersonSets([vt EXCEPT !.target = value])

PersonEdits(value) ==
  /\ Move /\ value # number.value
  /\ number' = [value |-> value, moved |-> clock, by |-> "person", read |-> clock, due |-> TRUE]
  /\ UNCHANGED <<clock, vt, log, task, standdown, undo, fold, reloaded, reenabled, source, word>>

AutomationSets(p) ==
  /\ Move /\ vt.ready
  /\ Change(Set(p), FALSE, "automation", {})
  /\ UNCHANGED <<clock, number, log, task, reenabled, source>>

\* The VTherm puts back a preset temperature that a person, or Hearth, has just moved (history).
Edited(new) == IF new.preset # "comfort" \/ Reapply(new) THEN {}
               ELSE IF number.by = "person" THEN {"edited"} ELSE Slipped("comfort", number.value, number.read)

\* The window is the VTherm's own affair; when it closes, the target goes back to the preset's.
Window ==
  /\ Move /\ vt.ready
  /\ LET new == Wants([vt EXCEPT !.window = ~@])
     IN Change(new, FALSE, "vtherm", Edited(new))
  /\ UNCHANGED <<clock, number, log, task, reenabled, source>>

\* The VTherm reloads, comes back, and puts back its preset at once or a while later.
Gone ==
  /\ Move /\ vt.ready
  /\ Change([vt EXCEPT !.ready = FALSE], FALSE, "vtherm", {})
  /\ UNCHANGED <<clock, number, log, task, reenabled, source>>
Back(p) ==
  /\ ~vt.ready
  /\ LET new == Wants([vt EXCEPT !.ready = TRUE, !.preset = p])
     IN Change(new, FALSE, "vtherm", Edited(new))
  /\ UNCHANGED <<clock, number, log, task, reenabled, source, moves>>
Restores(p) ==
  /\ Move /\ vt.ready /\ reloaded >= 0 /\ p # vt.preset
  /\ Change(Set(p), FALSE, "vtherm", IF clock - reloaded > ReloadGrace THEN {"slow"} ELSE {})
  /\ UNCHANGED <<clock, number, log, task, reenabled, source>>

---------------------------------------------------------------------------
(* The Scheduler: a source that comes on fires its slot and shows its state, in either order. *)

SourceOn(s) ==
  /\ Move /\ source[s] = {} /\ source' = [source EXCEPT ![s] = {"slot", "state"}]
  /\ UNCHANGED <<clock, vt, number, log, task, standdown, undo, fold, reloaded, reenabled, word>>

Fires(s, p) ==
  /\ "slot" \in source[s] /\ vt.ready
  /\ Change(Set(p), FALSE, "scheduler", {})
  /\ source' = [source EXCEPT ![s] = @ \ {"slot"}]
  /\ UNCHANGED <<clock, number, log, task, reenabled, moves>>

\* _on_source_reenabled, with undo_recent_override
Shows(s) ==
  LET takesBack == undo.at >= 0 /\ clock - undo.at <= SourceGrace
  IN /\ "state" \in source[s]
     /\ source' = [source EXCEPT ![s] = @ \ {"state"}]
     /\ reenabled' = clock
     /\ standdown' = IF takesBack THEN [undo.standdown EXCEPT !.why = @ \cup {"stacked"}] ELSE standdown
     /\ word' = IF takesBack /\ word.at >= undo.at THEN [word EXCEPT !.lost = @ \cup {"taken"}] ELSE word
     /\ undo' = NoUndo
     /\ UNCHANGED <<clock, vt, number, log, task, fold, reloaded, moves>>

Tick ==
  /\ clock < MaxClock /\ ~number.due /\ \A s \in Sources : source[s] = {}
  /\ clock' = clock + 1
  /\ UNCHANGED <<vt, number, log, task, standdown, undo, fold, reloaded, reenabled, source, word, moves>>

Next ==
  \/ \E t \in Tasks : \/ Begin(t) \/ End(t) \/ PresetLands(t) \/ NumberLands(t)
                      \/ \E p \in {"comfort", "eco"} : Write(t, "vtherm", p)
                      \/ \E value \in Temps : Write(t, "comfort", value)
  \/ TargetFollows \/ PersonTurns \/ Window \/ Gone \/ Tick
  \/ \E p \in {"comfort", "eco"} : PersonTaps(p) \/ AutomationSets(p) \/ Back(p) \/ Restores(p)
  \/ \E value \in Temps : PersonEdits(value) \/ PersonDrags(value)
  \/ \E s \in Sources : SourceOn(s) \/ Shows(s) \/ \E p \in {"comfort", "eco"} : Fires(s, p)

Spec == Init /\ [][Next]_vars

---------------------------------------------------------------------------
Active == clock < standdown.until

\* What the variables hold; the log never outgrows its length.
TypeOK ==
  /\ clock \in 0..MaxClock /\ moves \in 0..MaxMoves
  /\ vt \in [preset : Presets, target : Temps \cup {Eco, Manual, Frost}, window : BOOLEAN, ready : BOOLEAN]
  /\ number \in [value : Temps, moved : -Match - 1..MaxClock, by : {"hearth", "person"}, read : 0..clock, due : BOOLEAN]
  /\ Len(log) <= LogLen
  /\ \A t \in Tasks : task[t].now \in -1..clock
  /\ standdown.until \in 0..MaxClock + Timeout /\ undo.at \in -1..clock

\* D47: what Hearth wrote itself never stands Hearth down, whatever others write meanwhile and however the writes
\* overtake each other, unless a write came later than the window after its reading of the clock, a record that old
\* hides it, or the log has dropped it.
EchoIsNobody == Active /\ standdown.by = "hearth" => standdown.why # {}

\* D55, D58, D66: nor does what the VTherm does of itself, unless it restores itself after its time, or puts back a
\* preset temperature that has just been edited, or that Hearth wrote so long after its reading of the clock that the
\* record is too old while the number's own change is not.
RestoreIsNobody == Active /\ standdown.by = "vtherm" => standdown.why # {}

\* A block has begun since.
BlockSince(at) == at < NextBoundary[at] /\ NextBoundary[at] <= clock

\* D15, D26, D67: what a person says stands Hearth down until the next block or the time-out, whatever comes after,
\* unless it was taken for Hearth's own or the Scheduler's, or folded into a change that had stood nobody down.
PersonIsHeard ==
  word.at >= 0 /\ clock < word.at + Timeout /\ ~BlockSince(word.at) => Active \/ word.lost # {}

\* D48: a slot that a source fired when it came on leaves no stand-down behind, unless another change came between
\* the slot and the source's state.
SlotIsTakenBack ==
  (\A s \in Sources : source[s] = {}) /\ Active /\ standdown.by = "scheduler" => "stacked" \in standdown.why
=============================================================================
