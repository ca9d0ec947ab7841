----------------------------- MODULE PresetTemps ------------------------------
(***************************************************************************)
(* Who sets the preset temperatures of a room's VTherm, its number         *)
(* entities: the adaptive write and the night setback of an evaluation     *)
(* (room.py, mech_setback.py), hearth.boost and what puts the boost        *)
(* temperature back (mech_learning.py), and people.                        *)
(*                                                                         *)
(* Hearth borrows two of them: eco for a cold night, boost for a boost at  *)
(* a chosen temperature.  Every write is a call that is awaited, so people *)
(* and the other tasks come between the decision and the landing.  A day   *)
(* is three slots: evening, when a setback may be decided, night and day.  *)
(***************************************************************************)
EXTENDS Integers

CONSTANTS
  Base,       \* the configured base temperatures of comfort and boost
  Offsets,    \* how far the computed target may be above its base
  EcoAtFirst, \* what people have set eco to
  Edits,      \* what people may set each preset temperature to
  Wishes,     \* the temperatures that hearth.boost is called with
  Reduction,  \* setback_reduction
  MaxTime,    \* bound: the last slot
  MaxMoves    \* bound: how often people and the VTherm may act and calls raise

Presets == {"eco", "comfort", "boost"}

ASSUME TempsAssumption ==
  /\ Base \in [{"comfort", "boost"} -> Nat] /\ EcoAtFirst \in Nat
  /\ Offsets \subseteq Nat /\ 0 \in Offsets
  /\ Edits \in [Presets -> SUBSET Nat] /\ Wishes \subseteq Nat
  /\ Reduction \in Nat \ {0}
  /\ MaxTime \in Nat /\ MaxMoves \in Nat

VARIABLES
  temp,      \* the temperatures the numbers have
  there,     \* the VTherm and its numbers are available
  scope,     \* nothing else puts the room out of scope: a pause, a window
  wants,     \* the mechanisms that are enabled: adaptive, setback
  affected,  \* affected_presets
  offset,    \* the computed target is this far above the base
  time,      \* the slot
  boost,     \* the VTherm's timed boost: off, on, or on and prolonged
  moves,
  dormant,   \* dormant, as last computed
  down,      \* what the room stands down for, or "none"
  last,      \* last_written
  sb,        \* the setback, and the day of night_of
  decided,   \* its decided_date
  active,    \* learning["active_boost"]: what to put back
  over,      \* the time of active_boost is up
  saved,     \* what of down and of these four is in the store
  due,       \* async_evaluate is to be called: a new task, or _pending_evaluate
  ev,        \* the evaluation: what it still considers, or the call it awaits
  wish,      \* _pending_boost
  svc,       \* the call that hearth.boost awaits
  restores,  \* what the tasks that put the boost temperature back are writing
  home,      \* history: what eco and boost are by people's or adaptive doing
  slip,      \* history: why one of them may not be that, or "none"
  met,       \* history: whether the target is what was written last, or why not
  stands,    \* history: the presets whose edit by a person is to stand
  failed     \* history: the presets whose last adaptive write raised

world   == <<temp, there, scope, wants, affected, offset, time, boost>>
memory  == <<last, sb, decided, active>>
room    == <<dormant, down, over>>
tasks   == <<due, ev, wish, svc, restores>>
history == <<home, slip, met, stands, failed>>
vars    == <<world, moves, room, memory, saved, tasks, history>>

None   == -1
Temps  == Nat \cup {None}
NoNight == [on |-> FALSE, base |-> 0, target |-> 0, night |-> 0]
NoWish == [on |-> FALSE, restore |-> None]
Idle   == [pc |-> "idle", force |-> FALSE, todo |-> {}, p |-> "eco", to |-> None, base |-> 0]
Done   == [pc |-> "none", to |-> None, prev |-> None]

(***************************************************************************)
(* The ways in which a borrowed temperature is not given back.             *)
(***************************************************************************)
Slips == {"none",
          "failed",     \* the call that was to give it back raised
          "away",       \* the VTherm was away when it was to be given back
          "crossed",    \* it was set while a call was under way or a boost had it
          "crash",      \* that it was borrowed had not been saved
          "prolonged",  \* it was borrowed for a boost that was already running
          "nested"}     \* it was borrowed again before it was given back

(***************************************************************************)
(* What Hearth has on record of the target that now is.                    *)
(***************************************************************************)
Records == {"no",      \* it is not what was written, or found, last
            "yes",     \* it is
            "boosted", \* it was, and hearth.boost or what puts back wrote another
            "crash"}   \* it was, and a crash has brought an older record back

TypeOK ==
  /\ temp \in [Presets -> Nat]
  /\ {there, scope, dormant, over, due} \subseteq BOOLEAN
  /\ wants \subseteq {"adaptive", "setback"}
  /\ affected \subseteq {"comfort", "boost"}
  /\ offset \in Offsets
  /\ time \in 0..MaxTime /\ moves \in 0..MaxMoves
  /\ boost \in {"off", "on", "prolonged"}
  /\ down \in {"none", "change", "boost"}
  /\ last \in [Presets -> Temps]
  /\ sb \in [on : BOOLEAN, base : Nat, target : Nat, night : Nat]
  /\ decided \in Temps /\ active \in Temps
  /\ saved.sb \in [on : BOOLEAN, base : Nat, target : Nat, night : Nat]
  /\ saved.active \in Temps /\ saved.last \in [Presets -> Temps]
  /\ ev.pc \in {"idle", "start", "adaptive", "writing", "setback", "raising", "restoring", "rest"}
  /\ wish \in [on : BOOLEAN, restore : Temps]
  /\ svc.pc \in {"none", "writing", "calling", "undoing"}
  /\ restores \subseteq Nat
  /\ home \in [{"eco", "boost"} -> Nat]
  /\ slip \in [{"eco", "boost"} -> Slips]
  /\ met \in [{"comfort", "boost"} -> Records]
  /\ stands \subseteq {"comfort", "boost"} /\ failed \subseteq Presets

-----------------------------------------------------------------------------
Date    == time \div 3       \* the day that an evening and its night belong to
Evening == time % 3 = 0
Night   == time % 3 = 1

Target(p) == Base[p] + offset                     \* comfort_target
Shown(p)  == IF there THEN temp[p] ELSE None      \* preset_temp
Adapts(isDormant, standing) == "adaptive" \in wants /\ ~isDormant /\ standing = "none"

(* The outcomes of a call: it may raise.  On a number that is not          *)
(* available it does nothing, and does not raise.                          *)
Outcomes == IF moves < MaxMoves THEN BOOLEAN ELSE {TRUE}
Spend(ok) == moves' = IF ok THEN moves ELSE moves + 1
Lands(p, v, ok) == temp' = IF ok /\ there THEN [temp EXCEPT ![p] = v] ELSE temp
Wrote(p, v, ok) == last' = IF ok THEN [last EXCEPT ![p] = v] ELSE last

(* Another record than that of the target replaces it.                     *)
Loses(p, v, why) == IF met[p] = "no" \/ v = Target(p) THEN met[p] ELSE why
Boosted(v, ok)   == met' = IF ok THEN [met EXCEPT !.boost = Loses("boost", v, "boosted")] ELSE met

(* What a call leaves behind that was to give p back.                      *)
GivenBack(p, ok) == [slip EXCEPT ![p] = IF ~ok THEN "failed" ELSE IF ~there THEN "away" ELSE @]

Writing(p) ==
  \/ ev.pc \in {"writing", "raising", "restoring"} /\ ev.p = p
  \/ p = "boost" /\ (restores # {} \/ svc.pc \in {"writing", "undoing"})

(* The boost temperature is one that hearth.boost was asked for.           *)
Borrowed == svc.pc # "none" \/ wish.restore # None \/ active # None \/ restores # {}

Move == moves < MaxMoves /\ moves' = moves + 1

-----------------------------------------------------------------------------
(***************************************************************************)
(* An evaluation: the dormancy, the adaptive writes, the setback.          *)
(***************************************************************************)

(* When it was a pause that ended, the stand-down goes with it (D46).      *)
Enter(force) ==
  /\ ev' = [Idle EXCEPT !.pc = "start", !.force = force]
  /\ dormant' = ~(scope /\ there)
  /\ \E d \in {down} \cup (IF dormant /\ ~dormant' THEN {"none"} ELSE {}) : down' = d

(* What is asked for during an evaluation is one more, when it is over.    *)
Ask ==
  /\ due /\ due' = FALSE
  /\ ev.pc = "idle" /\ Enter(FALSE)
  /\ UNCHANGED <<world, moves, over, memory, saved, wish, svc, restores, history>>

(* The sources have been switched, and whatever came meanwhile counts.     *)
Start ==
  /\ ev.pc = "start"
  /\ ev' = IF Adapts(dormant, down) THEN [ev EXCEPT !.pc = "adaptive", !.todo = affected]
                                    ELSE [ev EXCEPT !.pc = "setback"]
  /\ UNCHANGED <<world, moves, room, memory, saved, due, wish, svc, restores, history>>

(* The next preset, or the setback.                                        *)
Onwards(e) == [e EXCEPT !.pc = IF e.todo = {} THEN "setback" ELSE "adaptive"]

(* Mutant: what is written is judged by what the number has.             *)
UnmovedNow(p) == ~ev.force /\ Shown(p) = Target(p)

(* _maybe_write_preset_temp: is there anything to write?                   *)
Unmoved(p) == ~ev.force /\ last[p] = Target(p)
Already(p) == ~ev.force /\ last[p] # Target(p) /\ Shown(p) = Target(p)

Consider(p) ==
  /\ ev.pc = "adaptive" /\ p \in ev.todo
  /\ IF Shown(p) = None \/ Unmoved(p) \/ Already(p)
       THEN ev' = Onwards([ev EXCEPT !.todo = @ \ {p}])
       ELSE ev' = [ev EXCEPT !.pc = "writing", !.todo = @ \ {p}, !.p = p, !.to = Target(p)]
  /\ last' = IF Already(p) THEN [last EXCEPT ![p] = Target(p)] ELSE last
  /\ failed' = IF Already(p) THEN failed \ {p} ELSE failed
  /\ met' = IF Already(p) THEN [met EXCEPT ![p] = "yes"] ELSE met
  /\ UNCHANGED <<world, moves, room, sb, decided, active, saved, due, wish, svc, restores,
                 home, slip, stands>>

WriteReturns ==
  /\ ev.pc = "writing"
  /\ \E ok \in Outcomes :
       /\ Lands(ev.p, ev.to, ok) /\ Wrote(ev.p, ev.to, ok) /\ Spend(ok)
       /\ failed' = IF ok THEN failed \ {ev.p} ELSE failed \cup {ev.p}
       /\ met' = IF ok THEN [met EXCEPT ![ev.p] = IF ev.to = Target(ev.p) THEN "yes" ELSE "no"] ELSE met
       /\ stands' = IF ok /\ there THEN stands \ {ev.p} ELSE stands
       /\ IF ok /\ there /\ ev.p = "boost"
            THEN /\ home' = [home EXCEPT !.boost = ev.to]
                 /\ slip' = [slip EXCEPT !.boost = IF Borrowed THEN "crossed" ELSE "none"]
            ELSE UNCHANGED <<home, slip>>
  /\ ev' = Onwards(ev)
  /\ UNCHANGED <<there, scope, wants, affected, offset, time, boost, room, sb, decided,
                 active, saved, due, wish, svc, restores>>

(***************************************************************************)
(* The setback: a cold night raises eco, no higher than the target of      *)
(* comfort, and the next day puts it back, unless it was changed since.    *)
(***************************************************************************)
Raised == LET up == Shown("eco") + Reduction
          IN IF up < Target("comfort") THEN up ELSE Target("comfort")

DecisionDue == ~sb.on /\ decided # Date /\ (Evening \/ Night)
MayRaise    == Evening /\ "setback" \in wants /\ ~dormant /\ down = "none"
RestoreDue  == sb.on /\ (time >= 3 * sb.night + 2 \/ "setback" \notin wants)

DecideSetback ==
  /\ ev.pc = "setback" /\ DecisionDue /\ decided' = Date
  /\ ev' = [ev EXCEPT !.pc = "rest"]
  /\ UNCHANGED <<world, moves, room, last, sb, active, saved, due, wish, svc, restores,
                 history>>

(* The morning will be cold, and there is room to raise eco.               *)
RaiseEco ==
  /\ ev.pc = "setback" /\ DecisionDue /\ decided' = Date
  /\ MayRaise /\ Shown("eco") # None /\ Raised > Shown("eco")
  /\ ev' = [ev EXCEPT !.pc = "raising", !.p = "eco", !.to = Raised, !.base = Shown("eco")]
  /\ UNCHANGED <<world, moves, room, last, sb, active, saved, due, wish, svc, restores,
                 history>>

EcoRaised ==
  /\ ev.pc = "raising"
  /\ \E ok \in Outcomes :
       /\ Lands("eco", ev.to, ok) /\ Wrote("eco", ev.to, ok) /\ Spend(ok)
       /\ sb' = IF ok THEN [on |-> TRUE, base |-> ev.base, target |-> ev.to, night |-> Date] ELSE sb
  /\ ev' = [ev EXCEPT !.pc = "rest"]
  /\ UNCHANGED <<there, scope, wants, affected, offset, time, boost, room, decided,
                 active, saved, due, wish, svc, restores, history>>

(* Mutant: eco is put back whatever it has become.                       *)
RestoreEcoAnyway ==
  /\ ev.pc = "setback" /\ RestoreDue
  /\ ev' = [ev EXCEPT !.pc = "restoring", !.p = "eco", !.to = sb.base]
  /\ UNCHANGED <<world, moves, room, memory, saved, due, wish, svc, restores, history>>

RestoreEco ==
  /\ ev.pc = "setback" /\ RestoreDue /\ Shown("eco") = sb.target
  /\ ev' = [ev EXCEPT !.pc = "restoring", !.p = "eco", !.to = sb.base]
  /\ UNCHANGED <<world, moves, room, memory, saved, due, wish, svc, restores, history>>

EcoRestored ==
  /\ ev.pc = "restoring"
  /\ \E ok \in Outcomes :
       /\ Lands("eco", ev.to, ok) /\ Wrote("eco", ev.to, ok) /\ Spend(ok)
       /\ slip' = GivenBack("eco", ok)
  /\ sb' = [sb EXCEPT !.on = FALSE]
  /\ ev' = [ev EXCEPT !.pc = "rest"]
  /\ UNCHANGED <<there, scope, wants, affected, offset, time, boost, room, decided,
                 active, saved, due, wish, svc, restores, home, met, stands, failed>>

LeaveEco ==
  /\ ev.pc = "setback" /\ RestoreDue /\ Shown("eco") # sb.target
  /\ sb' = [sb EXCEPT !.on = FALSE]
  /\ slip' = IF there THEN slip ELSE [slip EXCEPT !.eco = "away"]
  /\ ev' = [ev EXCEPT !.pc = "rest"]
  /\ UNCHANGED <<world, moves, room, last, decided, active, saved, due, wish, svc,
                 restores, home, met, stands, failed>>

(* Nothing is due, or the forecast is stale, and this is tried again.      *)
NoSetback ==
  /\ ev.pc = "setback" /\ ~RestoreDue
  /\ DecisionDue => MayRaise
  /\ ev' = [ev EXCEPT !.pc = "rest"]
  /\ UNCHANGED <<world, moves, room, memory, saved, due, wish, svc, restores, history>>

(* Mutant: it resets _pending_evaluate when it is over.                  *)
EndEvaluationDeaf ==
  /\ ev.pc = "rest"
  /\ ev' = Idle /\ due' = FALSE
  /\ UNCHANGED <<world, moves, room, memory, saved, wish, svc, restores, history>>

EndEvaluation ==
  /\ ev.pc = "rest"
  /\ ev' = Idle
  /\ UNCHANGED <<world, moves, room, memory, saved, due, wish, svc, restores, history>>

-----------------------------------------------------------------------------
(***************************************************************************)
(* A timed boost of the VTherm.  One that was asked for by hearth.boost at *)
(* a temperature says what to put back when it is over.                    *)
(***************************************************************************)
Nested == IF wish.restore \notin {None, home["boost"]} /\ slip["boost"] = "none"
            THEN [slip EXCEPT !.boost = "nested"] ELSE slip

(* Mutant: every boost that starts replaces what is to be put back.      *)
OnBoostStartAnew ==
  /\ boost' = "on"
  /\ down' = "boost" /\ over' = FALSE
  /\ wish' = NoWish
  /\ active' = wish.restore
  /\ slip' = Nested
  /\ due' = TRUE

OnBoostStart ==
  /\ boost' = "on"
  /\ down' = "boost" /\ over' = FALSE
  /\ wish' = NoWish
  /\ active' = IF wish.restore # None THEN wish.restore ELSE active
  /\ slip' = Nested
  /\ due' = TRUE

(* Mutant: it starts one although there is nothing to put back.          *)
PutBackNothing ==
  /\ restores' = restores \cup {active}
  /\ active' = None /\ over' = FALSE

(* _maybe_restore_boost_temp starts a task that writes it back.            *)
PutBack ==
  /\ restores' = IF active # None THEN restores \cup {active} ELSE restores
  /\ active' = None /\ over' = FALSE

HearthBoost(v) ==
  /\ Move /\ svc.pc = "none"
  /\ svc' = [pc |-> "writing", to |-> v, prev |-> Shown("boost")]
  /\ UNCHANGED <<world, room, memory, saved, due, ev, wish, restores, history>>

BoostWritten ==
  /\ svc.pc = "writing"
  /\ \E ok \in Outcomes :
       /\ Lands("boost", svc.to, ok) /\ Wrote("boost", svc.to, ok) /\ Spend(ok) /\ Boosted(svc.to, ok)
       /\ wish' = [on |-> TRUE, restore |-> IF ok THEN svc.prev ELSE None]
       /\ slip' = IF ok /\ there /\ svc.prev = None THEN [slip EXCEPT !.boost = "away"] ELSE slip
  /\ svc' = [svc EXCEPT !.pc = "calling"]
  /\ UNCHANGED <<there, scope, wants, affected, offset, time, boost, room, sb, decided,
                 active, saved, due, ev, restores, home, stands, failed>>

(* set_timed_preset starts a boost, or prolongs the one that is running.   *)
BoostCalled ==
  /\ svc.pc = "calling" /\ there /\ boost = "off"
  /\ OnBoostStart
  /\ svc' = Done
  /\ UNCHANGED <<temp, there, scope, wants, affected, offset, time, moves, dormant, last,
                 sb, decided, saved, ev, restores, home, met, stands, failed>>

BoostProlonged ==
  /\ svc.pc = "calling" /\ there /\ boost # "off"
  /\ boost' = "prolonged"
  /\ svc' = Done
  /\ slip' = IF active = None /\ wish.restore # None THEN [slip EXCEPT !.boost = "prolonged"] ELSE slip
  /\ due' = TRUE
  /\ UNCHANGED <<temp, there, scope, wants, affected, offset, time, moves, room, memory,
                 saved, ev, wish, restores, home, met, stands, failed>>

BoostCalledAway ==
  /\ svc.pc = "calling" /\ ~there
  /\ svc' = Done
  /\ slip' = IF wish.restore # None THEN [slip EXCEPT !.boost = "away"] ELSE slip
  /\ due' = TRUE
  /\ UNCHANGED <<world, moves, room, memory, saved, ev, wish, restores, home, met,
                 stands, failed>>

(* It raises: what was written for it is undone.                           *)
BoostRaises ==
  /\ Move /\ svc.pc = "calling"
  /\ wish' = NoWish
  /\ svc' = IF wish.restore = None THEN Done ELSE [svc EXCEPT !.pc = "undoing", !.to = wish.restore]
  /\ slip' = Nested
  /\ due' = TRUE
  /\ UNCHANGED <<world, room, memory, saved, ev, restores, home, met, stands, failed>>

BoostUndone ==
  /\ svc.pc = "undoing"
  /\ \E ok \in Outcomes :
       /\ Lands("boost", svc.to, ok) /\ Wrote("boost", svc.to, ok) /\ Spend(ok) /\ Boosted(svc.to, ok)
       /\ slip' = GivenBack("boost", ok)
  /\ svc' = Done
  /\ due' = TRUE
  /\ UNCHANGED <<there, scope, wants, affected, offset, time, boost, room, sb, decided,
                 active, saved, ev, wish, restores, home, stands, failed>>

PersonBoosts ==
  /\ Move /\ there /\ boost = "off"
  /\ OnBoostStart
  /\ UNCHANGED <<temp, there, scope, wants, affected, offset, time, dormant, last, sb,
                 decided, saved, ev, svc, restores, home, met, stands, failed>>

(* _on_boost_end, unless the VTherm is away and nobody sees it end.        *)
BoostEnds ==
  /\ boost # "off" /\ boost' = "off"
  /\ IF there THEN /\ PutBack /\ due' = TRUE
                   /\ down' = IF down = "boost" THEN "none" ELSE down
             ELSE UNCHANGED <<active, over, restores, down, due>>
  /\ UNCHANGED <<temp, there, scope, wants, affected, offset, time, moves, dormant, last,
                 sb, decided, saved, ev, wish, svc, history>>

(* A person chooses another preset: what is borrowed stays so until the    *)
(* time is up (LateRestore).                                               *)
PersonEndsBoost ==
  /\ Move /\ there
  /\ boost # "off" /\ boost' = "off"
  /\ \E d \in {down, "change"} : down' = d
  /\ due' = TRUE
  /\ UNCHANGED <<temp, there, scope, wants, affected, offset, time, dormant, over, memory,
                 saved, ev, wish, svc, restores, history>>

(* The time of the boost that Hearth knows of is up.  The poll sees it.    *)
TimeIsUp ==
  /\ ~over /\ over' = (active # None)
  /\ down = "boost" \/ active # None
  /\ boost # "on"
  /\ down' = IF down = "boost" THEN "none" ELSE down
  /\ due' = TRUE
  /\ UNCHANGED <<world, moves, dormant, memory, saved, ev, wish, svc, restores, history>>

(* A VTherm that is not boosting changes, after that time.                 *)
LateRestore ==
  /\ active # None /\ over /\ (boost = "off" \/ ~there)
  /\ PutBack /\ due' = TRUE
  /\ UNCHANGED <<world, moves, dormant, down, last, sb, decided, saved, ev, wish, svc,
                 history>>

BoostRestored(v) ==
  /\ v \in restores
  /\ \E ok \in Outcomes :
       /\ Lands("boost", v, ok) /\ Wrote("boost", v, ok) /\ Spend(ok) /\ Boosted(v, ok)
       /\ slip' = GivenBack("boost", ok)
  /\ restores' = restores \ {v}
  /\ due' = TRUE
  /\ UNCHANGED <<there, scope, wants, affected, offset, time, boost, room, sb, decided,
                 active, saved, ev, wish, svc, home, stands, failed>>

-----------------------------------------------------------------------------
(***************************************************************************)
(* People, the VTherm and the clock.                                       *)
(***************************************************************************)

(* hearth.recompute with force; into an evaluation, it is like any other.  *)
Recompute ==
  /\ Move
  /\ IF ev.pc = "idle" THEN Enter(TRUE) /\ UNCHANGED due
                       ELSE due' = TRUE /\ UNCHANGED <<ev, dormant, down>>
  /\ UNCHANGED <<world, over, memory, saved, wish, svc, restores, history>>

(* A person sets a preset temperature.  Eco at just what the setback had   *)
(* raised it to is eco as the setback left it.                             *)
PersonEdits(p, v) ==
  /\ Move /\ there /\ temp[p] # v
  /\ temp' = [temp EXCEPT ![p] = v]
  /\ \E d \in {down, IF down = "boost" THEN down ELSE "change"} : down' = d
  /\ IF p = "comfort"
       THEN UNCHANGED <<home, slip>>
       ELSE /\ home' = [home EXCEPT ![p] = IF p = "eco" /\ sb.on /\ v = sb.target THEN sb.base ELSE v]
            /\ slip' = [slip EXCEPT ![p] = IF Writing(p) \/ (p = "boost" /\ Borrowed) THEN "crossed" ELSE "none"]
  /\ stands' = IF p # "eco" /\ met[p] # "no" /\ ~(ev.pc = "writing" /\ ev.p = p)
                 THEN stands \cup {p} ELSE stands \ {p}
  /\ due' = TRUE
  /\ UNCHANGED <<there, scope, wants, affected, offset, time, boost, dormant, over,
                 memory, saved, ev, wish, svc, restores, met, failed>>

StandDownEnds ==
  /\ down = "change" /\ down' = "none"
  /\ due' = TRUE
  /\ UNCHANGED <<world, moves, dormant, over, memory, saved, ev, wish, svc, restores,
                 history>>

(* The running mean rolls on, or a correction is learnt.                   *)
TargetMoves ==
  /\ Move
  /\ \E o \in Offsets \ {offset} : offset' = o
  /\ stands' = {}
  /\ met' = [p \in {"comfort", "boost"} |-> IF last[p] = Target(p)' THEN "yes" ELSE "no"]
  /\ due' = TRUE
  /\ UNCHANGED <<temp, there, scope, wants, affected, time, boost, room, memory, saved,
                 ev, wish, svc, restores, home, slip, failed>>

Flip(k) ==
  /\ Move
  /\ wants' = IF k \in wants THEN wants \ {k} ELSE wants \cup {k}
  /\ due' = TRUE
  /\ UNCHANGED <<temp, there, scope, affected, offset, time, boost, room, memory, saved,
                 ev, wish, svc, restores, history>>

(* A window is seen at once, a pause by the next evaluation.               *)
ScopeChanges ==
  /\ Move
  /\ scope' = ~scope
  /\ \E d \in {dormant, ~(scope' /\ there)} : dormant' = d
  /\ due' = TRUE
  /\ UNCHANGED <<temp, there, wants, affected, offset, time, boost, down, over, memory,
                 saved, ev, wish, svc, restores, history>>

VThermGone ==
  /\ Move
  /\ there /\ there' = FALSE
  /\ dormant' = TRUE
  /\ due' = TRUE
  /\ UNCHANGED <<temp, scope, wants, affected, offset, time, boost, down, over, memory,
                 saved, ev, wish, svc, restores, history>>

(* It comes back, and a boost that runs on starts anew for Hearth.         *)
VThermBack ==
  /\ ~there /\ there' = TRUE
  /\ dormant' = ~scope
  /\ IF boost = "off"
       THEN due' = TRUE /\ UNCHANGED <<boost, down, over, wish, active, slip>>
       ELSE OnBoostStart
  /\ UNCHANGED <<temp, scope, wants, affected, offset, time, moves, last, sb, decided,
                 saved, ev, svc, restores, home, met, stands, failed>>

Stored == [last |-> last, sb |-> sb, decided |-> decided, active |-> active, down |-> down]

(* The entry is reloaded, perhaps with other options.                      *)
Reload ==
  /\ Move /\ ev.pc = "idle" /\ svc.pc = "none" /\ restores = {}
  /\ affected' \in {{"comfort"}, {"comfort", "boost"}}
  /\ failed' = failed \cap affected'
  /\ saved' = Stored
  /\ wish' = NoWish
  /\ dormant' = FALSE
  /\ due' = TRUE
  /\ UNCHANGED <<temp, there, scope, wants, offset, time, boost, down, over, memory, ev,
                 svc, restores, home, slip, met, stands>>

(* Home Assistant dies.  What was not saved is lost, and so are the tasks. *)
Crash ==
  /\ Move
  /\ last' = saved.last /\ sb' = saved.sb /\ decided' = saved.decided /\ active' = saved.active
  /\ slip' = [p \in {"eco", "boost"} |->
                 IF \/ p = "eco" /\ (sb # saved.sb \/ Writing("eco"))
                    \/ p = "boost" /\ (Borrowed \/ Writing("boost") \/ saved.active # None)
                   THEN "crash" ELSE slip[p]]
  /\ met' = [p \in {"comfort", "boost"} |-> Loses(p, saved.last[p], "crash")]
  /\ failed' = {}
  /\ down' = saved.down /\ over' = FALSE
  /\ dormant' = FALSE /\ due' = TRUE
  /\ ev' = Idle /\ wish' = NoWish /\ svc' = Done /\ restores' = {}
  /\ UNCHANGED <<world, saved, home, stands>>

Settled == ev.pc = "idle" /\ ~due /\ svc.pc = "none" /\ restores = {}

(* The next slot: everything is saved long since, and the poll fires.      *)
Tick ==
  /\ Settled /\ time < MaxTime
  /\ time' = time + 1
  /\ saved' = Stored
  /\ wish' = NoWish
  /\ due' = TRUE
  /\ UNCHANGED <<temp, there, scope, wants, affected, offset, boost, moves, room, memory,
                 ev, svc, restores, history>>

-----------------------------------------------------------------------------
Init ==
  /\ temp = [p \in Presets |-> IF p = "eco" THEN EcoAtFirst ELSE Base[p]]
  /\ there = TRUE /\ scope = TRUE
  /\ wants = {"adaptive", "setback"}
  /\ affected \in {{"comfort"}, {"comfort", "boost"}}
  /\ offset = 0 /\ time = 0 /\ moves = 0
  /\ boost = "off"
  /\ dormant = FALSE /\ down = "none" /\ over = FALSE
  /\ last = [p \in Presets |-> None]
  /\ sb = NoNight /\ decided = None /\ active = None
  /\ saved = Stored
  /\ due = TRUE /\ ev = Idle
  /\ wish = NoWish /\ svc = Done /\ restores = {}
  /\ home = [p \in {"eco", "boost"} |-> temp[p]]
  /\ slip = [p \in {"eco", "boost"} |-> "none"]
  /\ met = [p \in {"comfort", "boost"} |-> "no"]
  /\ stands = {} /\ failed = {}

Evaluation ==
  \/ Ask \/ Start \/ WriteReturns \/ \E p \in Presets : Consider(p)
  \/ DecideSetback \/ RaiseEco \/ EcoRaised \/ RestoreEco \/ EcoRestored \/ LeaveEco \/ NoSetback
  \/ EndEvaluation

Boosting ==
  \/ BoostWritten \/ BoostCalled \/ BoostProlonged \/ BoostCalledAway \/ BoostRaises \/ BoostUndone
  \/ BoostEnds \/ TimeIsUp \/ LateRestore \/ \E v \in restores : BoostRestored(v)

People ==
  \/ \E v \in Wishes : HearthBoost(v)
  \/ \E p \in Presets : \E v \in Edits[p] : PersonEdits(p, v)
  \/ \E k \in {"adaptive", "setback"} : Flip(k)
  \/ PersonBoosts \/ PersonEndsBoost \/ Recompute \/ Reload \/ Crash

Around ==
  StandDownEnds \/ TargetMoves \/ ScopeChanges \/ VThermGone \/ VThermBack \/ Tick

Next == Evaluation \/ Boosting \/ People \/ Around

Spec == Init /\ [][Next]_vars

-----------------------------------------------------------------------------
(***************************************************************************)
(* D10, D21: a night gives eco back.  Once it is over, eco is what people  *)
(* have set it to, whether before the night or since.  The Slips are the   *)
(* only ways in which it is not.                                           *)
(***************************************************************************)
EcoIsGivenBack ==
  Settled /\ ~sb.on => temp["eco"] = home["eco"] \/ slip["eco"] # "none"

(* D61: the same of the boost temperature, which no boost has any more and *)
(* which the adaptive write, where it sets it, has caught up with.         *)
BoostIsGivenBack ==
  Settled /\ ~Borrowed =>
    \/ temp["boost"] = home["boost"]
    \/ slip["boost"] # "none"

(* D6: a preset temperature that a person set after the target that now is *)
(* was written stands until the target moves or somebody forces the write, *)
(* unless what Hearth remembers to have written is not the target any more *)
(* because hearth.boost or what puts back wrote another, or a crash has    *)
(* brought an older record back: then the target is written over the edit. *)
EditStands ==
  [][\A p \in stands :
        WriteReturns /\ temp'[p] # temp[p] => ev.force \/ met[p] \in {"boosted", "crash"}]_vars

(* A target that moved is written, however the moves, evaluations and      *)
(* dormancies fell: when everything is done only a call that raised, and   *)
(* is made again with the next poll, is missing.                           *)
TargetIsWritten ==
  Settled /\ Adapts(dormant, down) /\ there => \A p \in affected : last[p] = Target(p) \/ p \in failed

=============================================================================
