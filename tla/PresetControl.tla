--------------------------- MODULE PresetControl ----------------------------
(***************************************************************************)
(* Who sets the preset of a room's VTherm: the schedule, the preheat latch *)
(* and the forecast skip of Hearth, the hearth.override service, people,   *)
(* and the VTherm itself when a timed boost ends or it comes back.         *)
(*                                                                         *)
(* Time is one day in slots.  A block is known by the slot it starts in,   *)
(* which stands for its key.  One evaluation runs at a time (room.py), and *)
(* other tasks and events come between its awaits; the service runs beside *)
(* it.  The clock moves on only when every task is done: a call is short   *)
(* against a slot.                                                         *)
(***************************************************************************)
EXTENDS Integers

CONSTANTS
  Horizon,      \* bound: the last slot
  At,           \* the slots in which a block starts
  PresetOf,     \* the preset of each block
  WarmBy,       \* the blocks to be warm by their start
  Skippable,    \* the blocks a skip may run through
  SkipAt,       \* skip_decision_time
  SkipEnd,      \* skip_end_time
  Late,         \* skip_late_decision_window_min
  MaxLead,      \* max_preheat_min
  Bridge,       \* boost_end_bridge_min
  Timeout,      \* standdown_timeout_min
  MaxBoost,     \* bound: how long a timed boost or an override may last
  MaxMoves      \* bound: how often people and the VTherm may act and calls raise

Time    == 0..Horizon
Presets == {"eco", "comfort", "frost", "boost"}

ASSUME ScheduleAssumption ==
  /\ Horizon \in Nat
  /\ At \subseteq Time /\ 0 \in At
  /\ PresetOf \in [At -> Presets \ {"boost"}]
  /\ WarmBy \subseteq At /\ Skippable \subseteq At

ASSUME SizesAssumption ==
  /\ {SkipAt, SkipEnd, Late, MaxLead, Bridge} \subseteq Nat
  /\ {Timeout, MaxBoost} \subseteq Nat \ {0}
  /\ MaxMoves \in Nat

VARIABLES
  now,
  preset,      \* the VTherm's preset_mode
  boost,       \* the VTherm's timed preset
  vt,          \* why the VTherm puts the room out of scope, or "none"
  wants,       \* the room's mechanism switches that are on
  observe,     \* the room's observe switch
  active,      \* switch.hearth_active
  paused,      \* switch.hearth_paused
  moves,       \* how often the world around Hearth has acted
  reason,      \* dormant_reason
  resume,      \* _resume_pending
  standdown,   \* the stand-down
  external,    \* the slot of last_external_change_at
  touched,     \* it is later than the started_at of the skip, or of one this evaluation may start
  applied,     \* the schedule's applied_key
  latch,       \* the key of the preheat latch
  boostEnded,  \* boost_ended_at is fresh
  skip,        \* the forecast skip
  decided,     \* it was decided today
  due,         \* an evaluation was asked for
  ev,          \* where the evaluation is: its call, and the block it is for
  svc,         \* the call of hearth.override that ends a skip
  by,          \* history: who brought about the preset
  slip         \* history: why it may be the wrong one, or "none"

vtherm   == <<preset, boost, vt>>
switches == <<wants, observe, active, paused>>
memory   == <<standdown, external, touched, applied, latch, boostEnded, skip, decided>>
scope    == <<reason, resume>>
tasks    == <<due, ev, svc>>
history  == <<by, slip>>
vars     == <<now, vtherm, switches, moves, memory, scope, tasks, history>>

Never     == -1     \* no slot, no block
NoBoost   == [on |-> FALSE, from |-> "eco", until |-> 0, by |-> "hearth"]
NotDown   == [until |-> 0, cause |-> "none"]
NoSkip    == [on |-> FALSE, prev |-> "eco", from |-> 0, by |-> "hearth"]
Idle      == [pc |-> "idle", to |-> "eco", key |-> Never]
Mechanisms == {"schedule", "preheat", "skip", "learning"}
Scopes    == {"none", "window", "away", "gone"}
Owners    == {"hearth", "skip", "person", "paused", "vtherm"}
Phases    == {"idle", "skip", "starting", "restoring", "schedule", "setting"}

(***************************************************************************)
(* The ways in which the preset is left wrong for the rest of a block.     *)
(***************************************************************************)
Slips == {"none",
          "failed",    \* a call raised, and the schedule took it for done
          "kept",      \* changed while the room was preheating for the block
          "late",      \* a call of a skip arrived after the skip was over, or after a change
          "before",    \* a skip ended with the schedule off, and what was there before came back
          "stale",     \* a person's change since overwritten was left to stand
          "lost",      \* the end of a skip undid a request to re-apply the block
          "forgot"}    \* a reload lost that the pause had ended

TypeOK ==
  /\ now \in Time
  /\ preset \in Presets
  /\ boost \in [on : BOOLEAN, from : Presets, until : Nat, by : Owners]
  /\ vt \in Scopes
  /\ wants \subseteq Mechanisms
  /\ {observe, active, paused} \subseteq BOOLEAN
  /\ moves \in 0..MaxMoves
  /\ reason \in Scopes \cup {"disabled", "paused"}
  /\ resume \in BOOLEAN
  /\ standdown \in [until : Nat, cause : {"none", "change", "boost", "service"}]
  /\ external \in Time \cup {Never}
  /\ touched \in BOOLEAN
  /\ {applied, latch} \subseteq At \cup {Never}
  /\ boostEnded \in BOOLEAN
  /\ skip \in [on : BOOLEAN, prev : Presets, from : Time, by : Owners]
  /\ decided \in BOOLEAN
  /\ due \in BOOLEAN
  /\ ev \in [pc : Phases, to : Presets, key : At \cup {Never}]
  /\ svc \in [pc : {"idle", "restoring"}, to : Presets, key : At \cup {Never}]
  /\ by \in Owners
  /\ slip \in Slips

-----------------------------------------------------------------------------
(* The schedule: the block in force, and the blocks to come.               *)
Current  == CHOOSE a \in At : a <= now /\ \A b \in At : b <= now => b <= a
Upcoming == {a \in At : a > now}
NextWarmBy == {a \in WarmBy : a > now /\ \A b \in WarmBy : b > now => a <= b}

Enabled(k)   == active /\ k \in wants /\ ~observe
StandingDown == now < standdown.until

(* The preset as the snapshot has it.                                      *)
Seen == IF vt = "gone" THEN "none" ELSE preset

(***************************************************************************)
(* _update_dormant, when the VTherm says v: also run by every VTherm event.*)
(***************************************************************************)
ComputeDormant(v) == IF ~active THEN "disabled" ELSE IF paused THEN "paused" ELSE v
LeavesPause(v)    == reason = "paused" /\ ComputeDormant(v) # "paused"

UpdateDormant(v) ==
  /\ reason' = ComputeDormant(v)
  /\ resume' = (resume \/ LeavesPause(v))

(* The schedule acts through an open window (D57), not otherwise.          *)
Blocked == reason \notin {"none", "window"}

(* The end of a stand-down with no duration of its own.                    *)
StandDownUntil ==
  LET ends == {now + Timeout} \cup (IF Enabled("schedule") THEN Upcoming ELSE {})
  IN CHOOSE e \in ends : \A f \in ends : e <= f

-----------------------------------------------------------------------------
(***************************************************************************)
(* A set_preset call: it raises, it is dropped by a VTherm that is gone,   *)
(* or the preset arrives, which ends a boost and is seen by every room     *)
(* task as an event.                                                       *)
(***************************************************************************)
Outcomes ==
  IF vt = "gone" THEN {"lost"}
  ELSE {"done"} \cup (IF moves < MaxMoves THEN {"raised"} ELSE {})

(* The VTherm goes to preset p on Hearth's word.                           *)
Arrive(p) ==
  LET over == boost.on /\ p = boost.from
  IN /\ preset' = p
     /\ boost' = NoBoost
     /\ boostEnded' = (boostEnded \/ over)
     /\ standdown' = IF over /\ standdown.cause = "boost" THEN NotDown ELSE standdown
     /\ UpdateDormant(vt)
     /\ due' = TRUE

SetPreset(p, outcome, owner, wrong) ==
  /\ IF outcome = "done"
       THEN /\ Arrive(p)
            /\ by' = IF preset = p /\ owner = "skip" THEN by ELSE owner
            /\ slip' = wrong
       ELSE /\ UNCHANGED <<preset, boost, boostEnded, standdown, scope, due, by>>
            /\ slip' = IF outcome = "raised" THEN "failed" ELSE slip
  /\ moves' = IF outcome = "raised" THEN moves + 1 ELSE moves
  /\ UNCHANGED vt

(* A call c that ends a skip puts back the block in force or what was      *)
(* there before.  That is right if it is what counts as applied by now:    *)
(* the other task may have ended the skip and the schedule have gone on.   *)
PutBack(c, outcome) ==
  LET right == applied # Never /\ c.to = PresetOf[applied]
      owner == IF right \/ c.key # Never THEN "hearth" ELSE skip.by
      wrong == IF right THEN "none"
               ELSE IF applied = Never THEN slip
               ELSE IF c.key = Never THEN "before" ELSE "late"
  IN SetPreset(c.to, outcome, owner, wrong)

-----------------------------------------------------------------------------
(***************************************************************************)
(* The forecast skip.                                                      *)
(***************************************************************************)
(* restore_preset_for_skip: with a schedule, the block in force, which     *)
(* counts as applied from here on.                                         *)
RestoreTarget  == IF Enabled("schedule") THEN PresetOf[Current] ELSE skip.prev
RestoreApplied == IF Enabled("schedule") THEN Current ELSE applied
RestoreKey     == IF Enabled("schedule") THEN Current ELSE Never

(* Mutant: a dormant room is left as it is.                                *)
RestoresInScope(restore) ==
  restore /\ reason = "none" /\ Seen = "eco" /\ RestoreTarget # "eco"

(* Whether _end_skip has a preset to put back.                             *)
Restores(restore) == restore /\ Seen = "eco" /\ RestoreTarget # "eco"

(* What the skip found, and since when, is not read once it is over.       *)
SkipOver == skip' = [NoSkip EXCEPT !.by = skip.by]

(* The preset of the block in force is there: it is the schedule's.        *)
IsRestored == Enabled("schedule") /\ Seen = RestoreTarget

(* _end_skip with nothing to put back.                                     *)
EndSkipAtOnce(restore) ==
  /\ ~Restores(restore)
  /\ SkipOver
  /\ applied' = RestoreApplied
  /\ by' = IF IsRestored THEN "hearth" ELSE by
  /\ slip' = IF applied = Never /\ applied' # Never /\ Seen # RestoreTarget THEN "lost" ELSE slip

(* The schedule has moved on to a block that no skip runs through.         *)
ScheduleEndsSkip ==
  /\ Enabled("schedule")
  /\ Current > skip.from /\ Current \notin Skippable /\ PresetOf[Current] # "eco"

(* What _supervise_skip may find: the skip ends and the preset goes back,  *)
(* it ends and a person's change is left alone, or it goes on.  The room   *)
(* may turn out too cold at any time, which is looked at first.            *)
SkipEnds(restore) ==
  IF restore THEN skip.on
             ELSE skip.on /\ Enabled("skip") /\ touched

SkipGoesOn ==
  /\ Enabled("skip") /\ ~touched /\ reason = "none"
  /\ ~ScheduleEndsSkip /\ now < SkipEnd

DecisionDue == ~skip.on /\ ~decided /\ now >= SkipAt
DecisionMissed == now > SkipAt + Late \/ now >= SkipEnd
MaySkip == Enabled("skip") /\ reason = "none" /\ ~StandingDown /\ preset # "frost"

(***************************************************************************)
(* The steps of an evaluation.  ev.pc names what comes next; a call that   *)
(* is under way is "starting" or "restoring" a skip, or "setting" a block. *)
(***************************************************************************)
Goto(pc) == ev' = [Idle EXCEPT !.pc = pc]
Call(pc, p, key) == ev' = [pc |-> pc, to |-> p, key |-> key]

(* The time of an evaluation is that of a skip that it starts: only what   *)
(* changes after this touches such a skip.                                 *)
StampsSkip == touched' = (touched /\ skip.on)

(* Mutant: the applied block is not forgotten when the pause ends.         *)
StartEvaluationKeeps ==
  /\ due /\ ev.pc = "idle"
  /\ due' = FALSE
  /\ Goto("skip")
  /\ reason' = ComputeDormant(vt)
  /\ LET fresh == (resume \/ LeavesPause(vt)) /\ reason' = "none"
     IN /\ resume' = ((resume \/ LeavesPause(vt)) /\ ~fresh)
        /\ standdown' = IF fresh THEN NotDown ELSE standdown
  /\ StampsSkip
  /\ UNCHANGED <<now, vtherm, switches, moves, external, applied, latch, boostEnded,
                 skip, decided, svc, history>>

(* _update_dormant and _handle_resume.                                     *)
StartEvaluation ==
  /\ due /\ ev.pc = "idle"
  /\ due' = FALSE
  /\ Goto("skip")
  /\ reason' = ComputeDormant(vt)
  /\ LET fresh == (resume \/ LeavesPause(vt)) /\ reason' = "none"
     IN /\ resume' = ((resume \/ LeavesPause(vt)) /\ ~fresh)
        /\ standdown' = IF fresh THEN NotDown ELSE standdown
        /\ applied' = IF fresh THEN Never ELSE applied
  /\ StampsSkip
  /\ UNCHANGED <<now, vtherm, switches, moves, external, latch, boostEnded,
                 skip, decided, svc, history>>

(* _decide_skip: a skip may start (the forecast says), or the decision is  *)
(* made or missed, or a stale forecast leaves it for later.                *)
StartSkip ==
  /\ ev.pc = "skip" /\ DecisionDue /\ ~DecisionMissed /\ MaySkip
  /\ decided' = TRUE
  /\ skip' = [on |-> TRUE, prev |-> preset, from |-> now, by |-> by]
  /\ IF preset = "eco" THEN Goto("schedule") ELSE Call("starting", "eco", Never)
  /\ UNCHANGED <<now, vtherm, switches, moves, standdown, external, touched, applied, latch,
                 boostEnded, scope, due, svc, history>>

DecideAgainstSkip ==
  /\ ev.pc = "skip" /\ ~skip.on
  /\ decided' \in IF ~DecisionDue THEN {decided}
                  ELSE IF DecisionMissed \/ ~Enabled("skip") \/ reason # "none" \/ StandingDown THEN {TRUE}
                  ELSE BOOLEAN
  /\ Goto("schedule")
  /\ UNCHANGED <<now, vtherm, switches, moves, standdown, external, touched, applied, latch,
                 boostEnded, skip, scope, due, svc, history>>

SuperviseSkip ==
  /\ ev.pc = "skip" /\ skip.on
  /\ \/ \E restore \in BOOLEAN :
          /\ SkipEnds(restore)
          /\ \/ EndSkipAtOnce(restore) /\ Goto("schedule")
             \/ /\ Restores(restore)
                /\ applied' = RestoreApplied
                /\ Call("restoring", RestoreTarget, RestoreKey)
                /\ UNCHANGED <<skip, history>>
     \/ SkipGoesOn /\ Goto("schedule") /\ UNCHANGED <<skip, applied, history>>
  /\ UNCHANGED <<now, vtherm, switches, moves, standdown, external, touched, latch,
                 boostEnded, decided, scope, due, svc>>

(* The call of the skip returns.                                           *)
SkipCallReturns ==
  /\ \E outcome \in Outcomes :
       \/ /\ ev.pc = "starting"
          /\ SetPreset("eco", outcome, "skip", IF skip.on /\ ~touched THEN slip ELSE "late")
          /\ UNCHANGED skip
       \/ /\ ev.pc = "restoring"
          /\ PutBack(ev, outcome)
          /\ SkipOver
  /\ Goto("schedule")
  /\ UNCHANGED <<now, switches, external, touched, applied, latch, decided, svc>>

-----------------------------------------------------------------------------
(***************************************************************************)
(* The preheat latch.  The plan is either not there yet or due.            *)
(***************************************************************************)
CanPreheat == Enabled("schedule") /\ Enabled("preheat")
HeldBack   == (StandingDown /\ standdown.cause # "boost") \/ skip.on

LatchHolds ==
  /\ latch # Never /\ now < latch
  /\ CanPreheat
  /\ reason \in {"none", "window", "gone"}
  /\ ~HeldBack

(* The latch after _update_preheat_latch; the plan starts in time for b.   *)
LatchStarts(b) ==
  /\ CanPreheat /\ ~Blocked /\ ~HeldBack
  /\ b \in NextWarmBy
  /\ b - now <= MaxLead \/ (boostEnded /\ b - now <= Bridge)

LatchAfter == IF LatchHolds THEN {latch} ELSE {b \in WarmBy : LatchStarts(b)} \cup {Never}

MaySchedule == Enabled("schedule") /\ ~Blocked /\ ~StandingDown /\ ~skip.on

(* Mutant: the latched block is driven only when its preheat begins.       *)
DrivenOnce == IF latch' \notin {latch, Never} THEN latch' ELSE Current

(* The block to be applied: the one preheated for, or the one in force.    *)
Driven == IF latch' # Never THEN latch' ELSE Current

(* _evaluate_schedule: nothing to do, the block is marked as applied       *)
(* because a person changed the preset or it is there already, or a call.  *)
EvaluateSchedule ==
  /\ ev.pc = "schedule"
  /\ latch' \in LatchAfter
  /\ boostEnded' = (boostEnded /\ (latch' = latch \/ latch' = Never))
  /\ LET block == Driven
         kept  == external >= block /\ applied # Never
     IN \/ /\ ~MaySchedule \/ applied = block
           /\ Goto("idle") /\ UNCHANGED <<applied, history>>
        \/ /\ MaySchedule /\ applied # block
           /\ kept \/ Seen = PresetOf[block]
           /\ applied' = block
           /\ by' = IF kept THEN by ELSE "hearth"
           /\ slip' = IF ~kept THEN "none" ELSE IF by \in {"hearth", "vtherm"} THEN "stale" ELSE slip
           /\ Goto("idle")
        \/ /\ MaySchedule /\ applied # block
           /\ ~kept /\ Seen # PresetOf[block]
           /\ Call("setting", PresetOf[block], block)
           /\ UNCHANGED <<applied, history>>
  /\ UNCHANGED <<now, vtherm, switches, moves, standdown, external, touched, skip, decided,
                 scope, due, svc>>

(* The block counts as applied whatever became of the call.                *)
ScheduleCallReturns ==
  /\ ev.pc = "setting"
  /\ \E outcome \in Outcomes : SetPreset(ev.to, outcome, "hearth", "none")
  /\ applied' = ev.key
  /\ Goto("idle")
  /\ UNCHANGED <<now, switches, external, touched, latch, skip, decided, svc>>

-----------------------------------------------------------------------------
(***************************************************************************)
(* hearth.override, with or without a duration: it stands the room down,   *)
(* ends a skip beside whatever evaluation is running, and asks for one.    *)
(***************************************************************************)
Move == moves < MaxMoves /\ moves' = moves + 1

Override ==
  /\ Move /\ ~observe /\ svc = Idle
  /\ \E until \in {StandDownUntil} \cup {now + d : d \in 1..MaxBoost} :
       standdown' = [until |-> until, cause |-> "service"]
  /\ \/ /\ ~skip.on
        /\ due' = TRUE
        /\ UNCHANGED <<skip, applied, history, svc>>
     \/ /\ skip.on /\ EndSkipAtOnce(TRUE)
        /\ due' = TRUE
        /\ UNCHANGED svc
     \/ /\ skip.on /\ Restores(TRUE)
        /\ applied' = RestoreApplied
        /\ svc' = [pc |-> "restoring", to |-> RestoreTarget, key |-> RestoreKey]
        /\ UNCHANGED <<skip, history, due>>
  /\ UNCHANGED <<now, vtherm, switches, external, touched, latch, boostEnded,
                 decided, scope, ev>>

OverrideReturns ==
  /\ svc # Idle
  /\ \E outcome \in Outcomes :
       \/ /\ outcome = "done"
          /\ PutBack(svc, outcome)
       \/ /\ outcome # "done"
          /\ IF outcome = "raised" THEN slip' = "failed" /\ moves' = moves + 1
                                   ELSE UNCHANGED <<slip, moves>>
          /\ due' = TRUE
          /\ UNCHANGED <<vtherm, boostEnded, standdown, scope, by>>
  /\ SkipOver
  /\ svc' = Idle
  /\ UNCHANGED <<now, switches, external, touched, applied, latch, decided, ev>>

-----------------------------------------------------------------------------
(***************************************************************************)
(* The VTherm and people.                                                  *)
(***************************************************************************)
(* A change Hearth did not make, to preset p: with learning on and comfort *)
(* involved it stands an in-scope room down.                               *)
PersonSets(p) ==
  /\ Move /\ vt # "gone" /\ ~boost.on /\ p # preset
  /\ preset' = p
  /\ UpdateDormant(vt)
  /\ external' = now
  /\ touched' = TRUE
  /\ standdown' = IF Enabled("learning") /\ reason' = "none" /\ "comfort" \in {p, preset}
                    THEN [until |-> StandDownUntil, cause |-> "change"] ELSE standdown
  /\ due' = TRUE
  /\ by' = IF reason' = "paused" THEN "paused" ELSE "person"
  /\ slip' = IF applied > now THEN "kept" ELSE "none"
  /\ UNCHANGED <<now, boost, vt, switches, applied, latch, boostEnded, skip, decided,
                 ev, svc>>

(* A Scheduler source that has just come on writes its slot over Hearth's: *)
(* nobody's decision (D48), and Hearth puts its own block back.            *)
SchedulerSets(p) ==
  /\ Move /\ vt # "gone" /\ ~boost.on /\ p # preset
  /\ preset' = p
  /\ by' = "vtherm"
  /\ UpdateDormant(vt)
  /\ applied' = Never
  /\ due' = TRUE
  /\ UNCHANGED <<now, boost, vt, switches, standdown, external, touched, latch,
                 boostEnded, skip, decided, ev, svc, slip>>

(* Mutant: the change is stamped with the end of the boost.                *)
BoostStartsStamped(d) ==
  /\ Move /\ vt # "gone" /\ ~boost.on
  /\ preset' = "boost"
  /\ boost' = [on |-> TRUE, from |-> preset, until |-> now + d, by |-> by]
  /\ UpdateDormant(vt)
  /\ standdown' = [until |-> now + d, cause |-> "boost"]
  /\ external' = now + d
  /\ touched' = TRUE
  /\ due' = TRUE
  /\ by' = "person"
  /\ UNCHANGED <<now, vt, switches, applied, latch, boostEnded, skip, decided,
                 ev, svc, slip>>

(* A timed boost starts, for d slots.                                      *)
BoostStarts(d) ==
  /\ Move /\ vt # "gone" /\ ~boost.on
  /\ preset' = "boost"
  /\ boost' = [on |-> TRUE, from |-> preset, until |-> now + d, by |-> by]
  /\ UpdateDormant(vt)
  /\ standdown' = [until |-> now + d, cause |-> "boost"]
  /\ external' = now
  /\ touched' = TRUE
  /\ due' = TRUE
  /\ by' = "person"
  /\ UNCHANGED <<now, vt, switches, applied, latch, boostEnded, skip, decided,
                 ev, svc, slip>>

(* It ends, at its time or before, and the VTherm puts the preset back;    *)
(* Hearth drops applied_key to put its own block back (request_reapply).   *)
BoostEnds ==
  /\ boost.on /\ vt # "gone"
  /\ now < boost.until => moves < MaxMoves
  /\ moves' = IF now < boost.until THEN moves + 1 ELSE moves
  /\ preset' = boost.from
  /\ by' = boost.by
  /\ boost' = NoBoost
  /\ UpdateDormant(vt)
  /\ boostEnded' = TRUE
  /\ standdown' = IF standdown.cause = "boost" THEN NotDown ELSE standdown
  /\ applied' = Never
  /\ due' = TRUE
  /\ UNCHANGED <<now, vt, switches, external, touched, latch, skip, decided, ev, svc, slip>>

(* A window opens or closes, people leave or come home, the VTherm goes.   *)
ScopeChanges(v) ==
  /\ Move /\ vt # "gone" /\ v # vt
  /\ vt' = v
  /\ UpdateDormant(v)
  /\ due' = TRUE
  /\ UNCHANGED <<now, preset, boost, switches, memory, ev, svc, history>>

(* The VTherm is back, on preset p: its restore is nobody's decision       *)
(* (D55, D66), and Hearth puts its block back.  A boost may have gone on.  *)
VThermBack(p) ==
  /\ vt = "gone"
  /\ vt' = "none"
  /\ UpdateDormant("none")
  /\ due' = TRUE
  /\ \/ /\ boost.on /\ now < boost.until /\ p = "boost"
        /\ standdown' = [until |-> boost.until, cause |-> "boost"]
        /\ external' = now
        /\ touched' = TRUE
        /\ UNCHANGED <<preset, boost, applied, by>>
     \/ /\ ~boost.on \/ now >= boost.until
        /\ p # "boost"
        /\ preset' = p
        /\ boost' = NoBoost
        /\ applied' = Never
        /\ by' = IF boost.on /\ p = boost.from THEN boost.by ELSE IF p = preset THEN by ELSE "vtherm"
        /\ UNCHANGED <<standdown, external, touched>>
  /\ UNCHANGED <<now, switches, moves, latch, boostEnded, skip, decided, ev, svc, slip>>

-----------------------------------------------------------------------------
(***************************************************************************)
(* The switches, a reload of the config entry, and the clock.              *)
(***************************************************************************)
Flip(k) ==
  /\ Move
  /\ wants' = IF k \in wants THEN wants \ {k} ELSE wants \cup {k}
  /\ due' = TRUE
  /\ UNCHANGED <<now, vtherm, observe, active, paused, memory, scope, ev, svc, history>>

SetObserve ==
  /\ Move
  /\ observe' = ~observe
  /\ due' = TRUE
  /\ UNCHANGED <<now, vtherm, wants, active, paused, memory, scope, ev, svc, history>>

(* History: a pause that Hearth has not noticed since a reload is over.    *)
PauseUnnoticed ==
  IF by = "paused" /\ reason # "paused" /\ ~resume /\ active /\ paused THEN "forgot" ELSE slip

SetActive ==
  /\ Move
  /\ active' = ~active
  /\ due' = TRUE
  /\ slip' = PauseUnnoticed
  /\ UNCHANGED <<now, vtherm, wants, observe, paused, memory, scope, ev, svc, by>>

SetPaused ==
  /\ Move
  /\ paused' = ~paused
  /\ due' = TRUE
  /\ slip' = PauseUnnoticed
  /\ UNCHANGED <<now, vtherm, wants, observe, active, memory, scope, ev, svc, by>>

(* The entry is reloaded between two evaluations.  What is stored comes    *)
(* back; the dormancy and the flag of the ended pause start afresh.        *)
Reload ==
  /\ Move /\ ev.pc = "idle" /\ svc = Idle
  /\ reason' = "none"
  /\ resume' = FALSE
  /\ due' = TRUE
  /\ slip' = IF by = "paused" /\ (resume \/ LeavesPause(vt)) THEN "forgot" ELSE slip
  /\ UNCHANGED <<now, vtherm, switches, memory, ev, svc, by>>

Settled == ~due /\ ev.pc = "idle" /\ svc = Idle

(* The next slot: the poll and the exact timers ask for an evaluation.     *)
Tick ==
  /\ Settled /\ now < Horizon
  /\ boost.on /\ vt # "gone" => now < boost.until
  /\ now' = now + 1
  /\ boostEnded' = FALSE
  /\ due' = TRUE
  /\ UNCHANGED <<vtherm, switches, moves, standdown, external, touched, applied, latch, skip,
                 decided, scope, ev, svc, history>>

Init ==
  /\ now = 0
  /\ preset \in {PresetOf[0], "eco"}
  /\ boost = NoBoost
  /\ vt = "none"
  /\ wants \in {Mechanisms, Mechanisms \ {"schedule"}}
  /\ observe = FALSE /\ active = TRUE /\ paused = FALSE
  /\ moves = 0
  /\ reason = "none" /\ resume = FALSE
  /\ standdown = NotDown
  /\ external = Never /\ touched = FALSE
  /\ applied = Never /\ latch = Never /\ boostEnded = FALSE
  /\ skip = NoSkip /\ decided = FALSE
  /\ due = TRUE /\ ev = Idle /\ svc = Idle
  /\ by = "vtherm" /\ slip = "none"

Evaluation ==
  \/ StartEvaluation \/ StartSkip \/ DecideAgainstSkip \/ SuperviseSkip \/ SkipCallReturns
  \/ EvaluateSchedule \/ ScheduleCallReturns

People ==
  \/ Override
  \/ \E p \in {"eco", "comfort", "frost"} : PersonSets(p)
  \/ \E d \in 1..MaxBoost : BoostStarts(d)
  \/ \E k \in Mechanisms : Flip(k)
  \/ SetObserve \/ SetActive \/ SetPaused \/ Reload

VTherm ==
  \/ BoostEnds
  \/ \E p \in {"eco", "comfort"} : SchedulerSets(p)
  \/ \E v \in Scopes : ScopeChanges(v)
  \/ \E p \in Presets : VThermBack(p)

Next == Evaluation \/ OverrideReturns \/ People \/ VTherm \/ Tick

Spec == Init /\ [][Next]_vars

-----------------------------------------------------------------------------
(***************************************************************************)
(* Once everything is done, a room the schedule is in charge of is on the  *)
(* preset of the block in force, or of the block it preheats for, unless a *)
(* person changed the preset since that block began: not in a pause, for   *)
(* leaving it is a fresh start (D46), which waits for the room to be in    *)
(* scope.  The Slips are the only other ways.                              *)
(***************************************************************************)
InCharge == Enabled("schedule") /\ reason \in {"none", "window"} /\ ~StandingDown /\ ~skip.on

ScheduleObeyed ==
  Settled /\ InCharge /\ ~boost.on =>
    \/ preset = PresetOf[IF latch # Never THEN latch ELSE Current]
    \/ by = "person" /\ external >= Current
    \/ by = "paused" /\ resume
    \/ slip # "none"

(***************************************************************************)
(* A skip is over at its end time whatever happened meanwhile, and once it *)
(* is over its eco preset is gone too, or the schedule is still to         *)
(* put its block back.                                                     *)
(***************************************************************************)
SkipLeavesNothingBehind ==
  Settled => /\ now >= SkipEnd => ~skip.on
             /\ ~skip.on /\ vt # "gone" => by # "skip" \/ applied = Never \/ slip # "none"

(***************************************************************************)
(* D62, D63, D66: while a preheat holds, no write of Hearth's takes the    *)
(* room anywhere but to the preset of the block it preheats for.           *)
(***************************************************************************)
PreheatIsNotUndone ==
  [][latch # Never /\ latch' = latch /\ ScheduleCallReturns
       => preset' \in {preset, PresetOf[latch]}]_vars

=============================================================================
