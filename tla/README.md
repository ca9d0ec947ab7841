# A formal model of Hearth

Hearth is a Home Assistant integration (`custom_components/hearth`) that runs a
Versatile Thermostat (VTherm) per room: it takes the room over from the Scheduler
component, applies a schedule of presets, preheats, skips heating when the
forecast is mild, adapts the preset temperatures and learns from what people
change. It is one Python process on one asyncio event loop: a callback runs to
its end, a coroutine up to its next `await`, and at every `await` any other task
may run. Most of what is hard in Hearth is in those gaps, and that is what the
modules here are about. Paths below are relative to `custom_components/hearth`.

## The system

| part | state it keeps | operations | talks to |
|---|---|---|---|
| Scheduler sources (`mech_source.py`, `core/scheduler_source.py`) | `_took_over`, `_src_good`, the re-enabled time, `_reasserting`, two repair issues; nothing of it is stored | take over, hand back, re-assert, retry, 120 s check, unload | the `switch` service, one call per source; peers that share a source |
| Room evaluation (`room.py`) | `_evaluating`, `_pending_evaluate`, `dormant_reason`, `_resume_pending`, `last_written`, `settings`, `ready` | evaluate, set a setting, poll, set up, load, unload | every mechanism, in a fixed order |
| Schedule and preheat (`mech_schedule.py`, `core/schedule.py`, `core/preheat.py`) | `applied_key`, the preheat latch, `boost_ended_at`, the plan | apply a block once, latch, hand over from a boost | `async_set_preset` |
| Forecast skip (`mech_skip.py`, `core/forecast.py`) | active, previous preset, decided today, times | decide, supervise, end, stop | `async_set_preset`, the schedule's key |
| Overrides and boosts (`mech_learning.py`, `core/override.py`, `core/boost.py`) | stand-down, write log, ledger, stepped change, boost | classify a VTherm change, stand down, learn, `hearth.override` | skip, schedule |
| Night setback (`mech_setback.py`) | active, eco base and target | raise eco before a cold morning, restore it | the eco preset temperature |
| Learning transfer (`mech_transfer.py`, `core/learning_io.py`) | ledger, warming model, running mean, `last_reset` | export, import, reset, undo | the store |
| Adaptive comfort (`room.py`, `core/comfort.py`, `seed.py`) | running mean, frozen flag | roll the day, clamp, quantise, write | preset `number` entities |
| VTherm adapter (`vtherm.py`) | none | snapshot, set preset, write temperature | VTherm |
| Lifecycle and global switches (`__init__.py`, `services.py`, `switch.py`) | `hass.data`: rooms, owner, active, paused; registered services | set up, unload, global switch, service loops | every room |
| Forecast manager (`forecast.py`) | cache, hourly timer | refresh, start, stop | weather service, rooms |
| Entities, config flow, diagnostics, constants | none of their own | show state, edit options | room |

What makes each of them correct:

* **sources**: a source Hearth switched off is not forgotten; control comes back when
  Hearth may no longer have it, and is taken when it may; the repair says what is so.
* **preset**: the block in force is on unless something the code names stands in its way;
  a skip cleans up; a preheat is not undone.
* **lifecycle**: a setting reaches every room; awaiting loops end; shared things live as
  long as a room needs them, and no longer belong to one that is gone.
* **temperatures**: a write stays within its band; a person's edit stands; a setback gives eco back.
* **overrides and learning**: Hearth's own echo is not a person; one change is one ledger
  entry; an undo takes back what a reset took.

The hard behaviours, line by line, are the hazards of `PROJECT.json`.

## The modules

| module | models | runs | theorems |
|---|---|---|---|
| `SourceHandover` | who drives a room: its Scheduler entities or Hearth | `handover`, `handover_lives`, `late_reassert` | `SourceHandover_proofs` |
| `PresetControl` (with `MCPresetControl`) | who sets the preset: schedule, preheat, skip, override, people, the VTherm | `preset_control` | `PresetControl_proofs` |
| `WeekSchedule` (with `MCWeekSchedule`) | which block of the week is in force, and which is next | `week_schedule`, `forgotten_holiday` | `WeekSchedule_proofs` |
| `PresetTemps` (with `MCPresetTemps`) | who sets the preset temperatures: adaptive writes, setback, `hearth.boost`, people | `preset_temps` | `PresetTemps_proofs` |
| `ComfortTarget` | the computed target: cap, clamp, quantise | pure | `AdaptiveComfort_proofs` |
| `RunningMean` | the running mean the target follows: samples, days, stores, transfers | `running_mean` | `AdaptiveComfort_proofs` |
| `OverrideDetection` (with `MCOverrideDetection`) | whose doing a change of the VTherm is | `override_detection` | `OverrideDetection_proofs` |
| `LearntBaseline` | what a room has learnt, as a set of facts: the abstract specification | (refined) | - |
| `LearningLedger` (with `MCLearningLedger`) | the ledger, the heating runs, resets, undos, exports and imports; implements `LearntBaseline` | `learning_ledger` | `LearningLedger_proofs` |
| `Lifecycle` | several rooms, what they share, and loops over them | `lifecycle`, `observed_write` | `Lifecycle_proofs` |

They are views of one program, each with the part of the evaluation its
properties need. They overlap where the parts interact: `PresetControl` sees the
Scheduler as `SchedulerSets`, a fixed day as its schedule (which `WeekSchedule` derives), and any change of the
VTherm as a person's, the Scheduler's or the VTherm's (which `OverrideDetection` tells apart). `LearningLedger`
takes the changes that `OverrideDetection` finds to be people's. `SourceHandover` sees the peers as `shared`.
`PresetTemps` sees the schedule as nothing but dormancy and stand-downs, and its target as a value that moves, for which
`ComfortTarget` has the arithmetic and `RunningMean` the reason. `Lifecycle` sees an evaluation as "read the globals,
write, rest".

### SourceHandover

One config entry, `NSources` Scheduler entities. A **life** is one `HearthRoom`
object: an unloaded object can still have tasks running beside its successor.

* `ev[i]` is the evaluation holding `_evaluating`; its phases are the awaits of
  `_reconcile_source`. A loop over the sources is a pointer: `at = s` says that the call
  to `s` is under way. `Reconcile`, `TakeOver`, `HandBack`, `RetryReassert` and
  `EndEvaluation` are the stretches between two awaits.
* `Reassert` is the task of `_async_reassert_sources`, `reassert` where such tasks are;
  two that stand at the same source are one. `UnloadHandBack` is the loop of
  `async_source_unload`.
* `asked` is a task about to call `async_evaluate`. The program starts some of these tasks
  eagerly; letting them start at any time includes that.
* `fate` is a history variable: `held` is a source Hearth switched off and owes a
  `turn_on`; the other values name how the code loses that duty. Each is a real
  behaviour: `failed` (a `turn_on` raised, nobody retries), `partial` (a take-over raised
  half way and is then no longer wanted), `late` and `dead` (a loop of a room that has let
  go, or of an unloaded object, switches one off), `missed` (unavailable when it was handed
  back), `restart` (`_took_over` is in memory only).
* The world: people flip the global and room switches, a peer starts or stops standing in
  the way, the Scheduler or a person switches a source, a source disappears and comes back,
  Home Assistant restarts. `MaxMoves` bounds all of it, `MaxFailures` the raising calls.

| property | says |
|---|---|
| `Accounted` | every `held` source has somebody who will settle it |
| `RepairIsCurrent` | the two-brains repair is raised exactly while an owned source has been on for too long |
| `HandsBack`, `TakesOver` | ownership follows what is wanted, though calls raise |
| `ReenabledGoesOff` | D48: a source seen coming back on under an owned room goes off again |
| `SwitchOffReturnsTheSources` | README on the schedule switch; violated by the code |

**Fairness.** Weak, on every step of a task that has begun, on the tasks that are queued
and on the timers: asyncio runs what can run and its clock goes on. People, peers,
the Scheduler, set-up and unload have none. The outcome of a call is not fair either; raising calls are bounded.

**Bounds.** Two sources make every loop have a first, a last and an in-between. One failing call and
three moves in one life reach every slip but `dead` and `restart`; two lives with two
moves add those and the overlap of an old object with a new one.

### PresetControl

One room, one day in slots; a block is the slot it starts in. `now` moves only when
nothing is under way, for calls are short against a slot.

* An evaluation is `StartEvaluation` (dormancy, resume), the skip (`StartSkip`,
  `DecideAgainstSkip`, `SuperviseSkip`, `SkipCallReturns`), and the schedule
  (`EvaluateSchedule`, `ScheduleCallReturns`), with an await at each preset call.
  `Override`/`OverrideReturns` is `hearth.override` in a task of its own.
* `reason` is `dormant_reason` as last computed, not what it would be now: the code reads
  it that way between evaluations.
* `touched` is `_manual_change_since(started_at)`. A skip is stamped with the time its evaluation began
  (`StampsSkip`), so that a change made during the evaluation's awaits, before the skip starts, touches it too.
* `hearth.override` stands the room down until the next block or the time-out, or for the duration it is given.
* The forecast, the indoor floor and the preheat plan are nondeterministic: any decision, any
  start within `MaxLead`. All reasons of the VTherm other than a window or being
  unavailable are one, `away`. An `Enabled` mechanism is one that is wanted and not observed.
* `by` and `slip` are history. `slip` is why the preset may be wrong for the rest of a block:
  `failed` (a raising call counts as done, `mech_schedule.py:213-215`), `kept` (a change
  made while `applied_key` is already that of a preheated block), `late` (a call
  of a skip lands after the skip was ended or after a person's change: the eco call of its start, also when the change
  came between the beginning of the evaluation and that of the skip, or the restore of a block the schedule has moved
  on from), `before` (a skip that ends with the schedule off gives back the preset
  it found, and the schedule, switched on again, takes its block for applied), `stale`
  (`last_external_change_at` outlives a change Hearth has since overwritten), `lost` (the restore
  of a skip sets `applied_key` over a request to re-apply), `forgot` (neither `_resume_pending` nor
  `dormant_reason` survives a reload, so a pause may end unnoticed). `ScheduleObeyed` says that these are the only ways.

| property | says |
|---|---|
| `ScheduleObeyed` | when all is settled, the block in force or preheated for is on, unless a person changed it since, or the pause has ended and the resume waits for the window |
| `SkipLeavesNothingBehind` | a skip ends by its end time and leaves no eco of its own behind, unless the schedule is due to re-apply |
| `PreheatIsNotUndone` | D62, D63, D66: while the latch holds, no schedule write goes anywhere else |

The specification has no fairness and the module no liveness: the poll that gets the
room going again is `Tick`. A tick waits for everything, which is what
makes "settled" meaningful.

**Bounds.** The day of `MCPresetControl` has a block in every slot: eco, a warm-by comfort block that a skip may run
through, a frost block that it may not, and a warm-by comfort one that a boost's end preheats two slots ahead. The
skip is decided at 0 and would end at 3. Four moves (raising calls are among them) are needed: with three, a change in
a pause whose end a reload or an open window hides never happens, nor a restore that `hearth.override` began before a
boost and that arrives after the schedule's own call. Over six slots, with a decision window of two, three moves hold
too.

### PresetTemps

One room and its three preset `number` entities. Hearth *borrows* two of them: eco for a cold
night, boost for a `hearth.boost` with a temperature; comfort, and boost where it is affected, follow the
computed target. `time % 3` is the evening, in which a setback may be decided, the night, and the day.

* An evaluation is `Enter` (within `Ask` or `Recompute`: dormancy and resume are judged as it begins), `Start` once
  the sources are reconciled (whether the adaptive rule may write, with the stand-down as it then is), one
  `Consider`/`WriteReturns` per affected preset, and the setback (`DecideSetback`, `RaiseEco`/`EcoRaised`,
  `RestoreEco`/`EcoRestored`, `LeaveEco`), with an await at each write. `due` stands for a task that is about to call
  `async_evaluate` and for `_pending_evaluate` alike: both mean one more evaluation, without force.
* `HearthBoost`, `BoostWritten`, `BoostCalled` are `async_service_boost` with its two awaits; `restores` are the
  tasks of `_maybe_restore_boost_temp`. A boost that a person ends with another preset
  (`PersonEndsBoost`) keeps its temperature until its time is up. `wish` is `_pending_boost`, `active` is `active_boost`.
* `saved` is what the store has. A slot or a reload saves everything, a crash goes back to `saved`: any
  change since the last slot may be lost, and its write may have landed.
* A call that raises has changed nothing; one on a number that is unavailable does nothing and does not raise.
* `home` is what eco and boost would be had nothing been borrowed; `slip` is why one may be something else until a
  person sets it: `failed` and `away` (the giving back raised or found nobody there, and is not tried again:
  `mech_setback.py:124-130` then takes the raised eco for a person's, and the next night raises it further), `crossed`
  (set while a write is under way or a boost has it, and overwritten), `crash`, `prolonged` (borrowed for a boost that
  was running already, which a finding is about) and `nested` (borrowed again before it was given back, so the
  borrowed value is taken for the person's).
* `stands` has the presets with a person's edit that is owed, through boosts, reloads, crashes and dormancies, until
  the target moves or the adaptive rule has written after all. (An edit while such a write is on its way is not owed:
  the write was decided before it.) `met` says what has become of the record (`last_written`) that the target was
  written: `boosted` (`hearth.boost`, or what puts the temperature back, has replaced it by its own, `room.py:606`) and
  `crash` (an older record is back). In these two the next evaluation writes the target over the edit although it has
  not moved, which two findings are about; TLC reaches both.

| property | says |
|---|---|
| `EcoIsGivenBack` | D10, D21: when all is settled and no setback is active, eco is people's, or a slip is named |
| `BoostIsGivenBack` | D61: the same of the boost temperature, across reloads and the VTherm's absences |
| `EditStands` | D6: an edit made after the target was written stands until the target moves or the write is forced, through boosts, restores, reloads and crashes, but for `boosted` and `crash` |
| `TargetIsWritten` | a target that moved during evaluations, dormancies and stand-downs is written once all is settled |

**Bounds.** One evening, night and day; three moves (people, the VTherm, raising calls) reach every slip. Targets move
by one degree, eco is raised by one, and people set it to less or to just what a night may raise it to. No fairness,
no liveness.

### WeekSchedule

One room with a Workday sensor; days are numbers from a Monday, a schedule is a set of blocks per day key, a
calendar a set of bank holidays. Everything is derived at each evaluation, as in the code: `Evaluate` is
`_refresh_workdays` (with any subset of the open lookups answered), and then `current`, `next` and `next_warm_by`
over the eight-day window. `cache` is what is stored of the sensor's answers, `known` is `non_workdays`, empty
after a `Reload`. `force`, `due` and `warm` are what the last evaluation derived.

| property | says |
|---|---|
| `InForce` | the block in force is the last there has been, with every day taken for what it was, but for a start out of the window, a failed lookup, or a holiday before yesterday (forgotten) |
| `BoundaryIsHonest` | what an earlier evaluation took for the next block, and for the warm-by block of the preheat, is in force when its time comes, and until then nothing else comes into force; but for a holiday told late or forgotten |
| `StandsUntilTheBoundary` | D23: the same without "forgotten"; violated by the code |

**Bounds.** A full week, one with blocks on two days (so that the last block lies several days back), and one with
`non_workday` blocks; calendars with holidays at the start, middle and end of a week and side by side; 17 days, so that
the window passes over every holiday; three failed lookups and reloads. The failing run has neither.

### RunningMean

Days of a few slots. `T_rm` is the set of days folded into it, each with the set of its samples: what the code
averages is told apart here. `room` is the memory, `disk` the store, `blob` an export; `Evaluated` is `_sample_outdoor`
followed by `_maybe_roll`, and in every slot a room that is up evaluates and saves before the next one.

| property | says |
|---|---|
| `EachDayOnce` | D7: a day is folded at most once, only its own samples, only when it is over |
| `NoDayIsLost` | samples leave unfolded only when no evaluation saw that state between the next day's 00:10 and its midnight |
| `HeldWhileStale` | the offset is held when an evaluation finds readings missing for too long, also right after an import; readings are soon sampled, and a sample lifts the hold unless an import put in a frozen mean |

**Bounds.** Four days, with the roll in the second of three slots and samples every second: a day can be promoted by a
sample or by the roll, wait for a roll, be folded late, and be met again in an older store or export. Five moves are an
outage, a stop, a crash, an export and an import.

### ComfortTarget

`core/comfort.py`'s pure functions in whole numbers of a small unit. The code's floats are decimal fractions, rounded to
six places after each multiplication; rounding errors are not modelled. It has no state and no run: its theorems are for
all values.

### OverrideDetection

Everything that changes the VTherm's preset or target arrives in the one callback `_on_vtherm_change` (`Change` with
`Verdict`), and all Hearth has to judge it by are the user on its context, the write log, the number's last change and
four windows of time.

* `task[t]` is an evaluation or a service's task: it reads the clock at `Begin`, and records a write with that
  reading before the call (`Write`), which lands later (`PresetLands`, `NumberLands`, then `TargetFollows`).
  So records can be older than the ones before them, and `made_by_us` stops at the first that is too old.
* `Window`, `Gone`, `Back`, `Restores` are the VTherm's own doing, `PersonSets`, `PersonEdits` and `AutomationSets`
  other people's, `SourceOn`, `Fires` and `Shows` the Scheduler's: the slot and the state event come in either order.
* `standdown.by` and `.why`, `word` are history: in truth whose doing it was, and what Hearth was misled by.
  `late` (a write lands after the match window), `hidden` (an old record in front of it), `pushed` (dropped from the log),
  `slow` (a restore after `reload_grace_s`), `edited` (a person's edit of the number within the match window makes the
  VTherm's own re-apply look like theirs), `stacked` (two changes within the undo window), `masked` (a person does what
  Hearth has just done), `scheduler` (within the grace of a source), `taken` (undone with the Scheduler's) and `folded`
  (`_coalesce` is left of a change that stood nobody down, and a person's next step, made where it would stand the room
  down, is folded into it: a finding).
* A stand-down ends with the next block, if that is sooner than the time-out (`StanddownUntil`). `NextBoundary` is
  what `next_boundary` answers at each tick; any function that looks ahead consistently will do.

| property | says |
|---|---|
| `EchoIsNobody` | D47: Hearth's own writes stand nobody down, but for `late`, `hidden`, `pushed` |
| `RestoreIsNobody` | D55, D58, D66: nor does what the VTherm does of itself, but for `slow`, `edited` and a late record |
| `PersonIsHeard` | D15, D26, D67: a person's change stands the room down until the next block or the time-out, but for `masked`, `scheduler`, `taken`, `folded` |
| `SlotIsTakenBack` | D48: a source's slot leaves no stand-down behind, but for `stacked` |

**Bounds.** Two tasks, two sources, a log of two records, and windows of one tick (the graces), two (the match window)
and three (the stand-down), in the code's order (15 s, 60 s, 3 min and 3 h); four ticks and three moves
besides what those set off reach every slip. A block begins with the third tick, so that of the stand-downs one runs
into the time-out and others into the block; the room is in comfort or in eco at first. Left out: boosts (they are in
`PresetTemps` and `PresetControl`), the learning switch, the grace after Home Assistant's own start, which is that of
a reload, the end of a pause, which clears a stand-down (D46, in `PresetControl`), and a schedule that is switched or
edited while a stand-down lasts.

### LearntBaseline and LearningLedger

`LearntBaseline` is what the learning promises: a room has learnt a set of facts - what people changed, each with the
time it was said -, and the evidence about each bucket is the sum of its facts, each halved with every half-life
since. Acts add facts, say one differently, clear a part, put a part back, replace all of them. `LearningLedger` is
the code: entries in a ring, per bucket the exponentially weighted statistics, which a stepped change takes back and
adds again (`Unlearn`, `Readd`), the stash of a reset, the blob of an export, the snapshot an undo puts back, the
store, and crashes between. `KeepsTheBaseline` is the refinement: every step is one of `LearntBaseline` under the
mapping that reads the facts off the entries and the evidence off the statistics. That holds only because the running
statistics always equal those recomputed from the entries.

History variables: `slip` names what has happened, `gone` what a reset has cleared and nothing has brought back since.
A folded change, an undo and a stash say by `alone` whether anything else has touched the ledger they belong to: a
stash is no longer `alone` once an import, a rolled back reset or a further step of its own change has brought back
some of what it holds.

| property | says |
|---|---|
| `KeepsTheBaseline` | every step is one of `LearntBaseline` or a stutter |
| `SteppedAsOne` | D67: a change in steps counts as its net change |
| `CountsOnce` | no fact counts twice, but for a stash put back beside facts that are back already (`doubled`) |
| `ResetStands` | a reset survives crashes and reloads, but for one rolled back by `undo_recent_override` (`rolled`) |
| `AppliedIsBacked` | D16: a correction rests on two changes in its direction whose weights come to three, or on a third |
| `StepsTouchTheirOwn` | a step amends the entry of its own change and no other |

Two slips bound what the statistics can promise. `doubled`: of a fact that is there twice the older is replayed as if
it were the newer. `dropped`: the ring is full, and what its oldest entry said stays in the statistics (`Ledger.add`
forgets the entry only), so that from then on they tell more than the entries do. The code means it so: the ring is a
display, the decay forgets.

D16 and the README speak of three changes. The code adds up weights, and a change after a skip weighs two, so that two
of them apply a correction: with three changes demanded TLC finds that, and a finding has it.

`Reset`, an undo and an import are one step with the save they await (`_async_commit_learning`): the memory changes
in one stretch before the await, and a crash within the save is one that comes before the act - the store is as it
was, the caller has had no answer.

**Bounds.** Five acts, three facts, a cold day (on which every change goes to one bucket) and a mild one after a skip, one
half-life; the rings (200 entries, 30 runs) are shortened to two entries and one run, so that they overflow. Two facts are
one to reset and one said since, and the third makes the ring drop one. The proofs have none of these bounds.

### Lifecycle

`Entry` are the config entries, `Caller` the loops that people's acts start.

* `phase` is where `async_setup_entry` or `async_unload_entry` awaits. `Rooms` is
  `hass.data["hearth"]["rooms"]`: a room is in it from before its settings are loaded until its
  platforms are gone.
* `loop[l]` is a loop over rooms, of a set-up or a caller: the store it may await first (`saving`), the rooms left, the
  evaluation it awaits. `Ask` is `async_evaluate`: it starts an
  evaluation, or sets `pending` and returns at once. `End` runs a pending one before it returns.
* `switches` is the entry whose switch platform shows the global switches.
* `observe` is the stored switch, `observing` the one in memory, which is the default
  (off) until `Load`.

| property | says |
|---|---|
| `RoomsAreServed` | the services are registered while there is a room, also one that is just being set up |
| `OwnerIsThere` | D3: the owner of the global switches is no entry that is gone, and only it shows them |
| `GlobalReachesEveryRoom` | when no loop is under way, every resting room last looked at the switches as they are |
| `CallsReturn` | every loop returns and every set-up comes to its end |
| `ObservedRoomIsNotWritten` | README on observe only; violated by the code |

**Fairness.** Weak on the steps of evaluations, set-ups, unloads, loops and the start; none
on people and the poll, which `MaxMoves` bounds. Without that bound a stream of events can keep
an evaluation pending for ever and the loop that awaits it waiting: `CallsReturn` is
about finitely many.

**Bounds.** Two rooms and two loops let a loop meet a set-up, an unload, and another loop. Four
moves are a set-up of each room and two acts.

Left out: what a loop does to a room that was popped meanwhile (the dead objects of
`SourceHandover`), a failing unload of the platforms, and of the settings all but observe.

## Disagreements with the documents

Three runs are expected to fail, each on one sentence of the repository's documents against the code:
`late_reassert`, `observed_write` and `forgotten_holiday`. The other entries of `findings` in `PROJECT.json` were met
while modelling and have no run; the models have what the code does in each of them, mostly as a named slip:
a hand-back that raised is not retried (`failed`), the pause writes a skip's restore, a change made during a
preheat outlives the boundary (`kept`), the forecast timer is not armed again (`timer`), a boost temperature is
not restored after a prolonged boost (`prolonged`), a forced recompute may be dropped, an undone
override rolls back the whole ledger, the undo of stacked changes (`stacked`), entries counted twice
after an undo (`doubled`), a lost day of samples, a person's step that is folded into a change nobody was stood down
for (`folded`), an edit that a boost's restore (`boosted`) or a crash (`crash`) has written over, and corrections on
two changes. One more: the comment at `__init__.py:145`
has it that unloading the last room removes the services, and `async_unload_services` leaves `hearth.boost` registered
(`services.py:170-181`); `Lifecycle` has it so.

## Proofs

`tlapm` checks the proof modules from nothing. Constants are arbitrary but for the named assumptions
(`ScheduleAssumption`, `SizesAssumption`, `PeopleAssumption`, `DaysAssumption`, `WeekAssumption`, `WindowsAssumption`,
`BoundaryAssumption`, `TempsAssumption`, `LearningAssumption`), which TLC evaluates on every run.

* `SourceHandover_proofs!TypesHold`, and `AccountedHolds`: `Spec => []Accounted` for any
  number of sources, lives, failures and moves. `Accounted` is not inductive: were a
  room still the owner while its evaluation is in a hand-back or a take-over, the end of the
  loop could let go of sources that nobody then settles. The invariant `AccInv` adds to `Accounted` the types and
  `Unowned`: in those two loops `_took_over` is not set. The lemmas are about the helpers: what
  a switch call, an event and a slip do to the fates and who settles them, then one
  lemma per action.
* `SourceHandover_proofs!RepairHolds`: `Spec => []RepairIsCurrent`, from the types alone. Whatever could make a
  repair stale - a source that changes, a switch of the user, a set-up - also asks every loaded room for an
  evaluation, and each evaluation ends with `_sync_issues`; only the 120 s timer sets the repair by itself.
* `Lifecycle_proofs!ServicesHold` and `OwnerHolds`: `Spec => []RoomsAreServed` and
  `Spec => []OwnerIsThere` for any number of entries and loops. The invariant `LifeInv`
  adds that `hearth.boost` is never removed, and in which phases an entry can show the switches.
* `Lifecycle_proofs!GlobalHolds`: `Spec => []GlobalReachesEveryRoom`. What a caller sees when no loop is under way says
  nothing of the states in between, so `ReachInv` has, beside the types (`TypesHold`), for each room in use: it
  has seen the switches as they are, or it is asked to look again while it evaluates, or some change is not stored yet
  or still has the room before it.

* `AdaptiveComfort_proofs!FoldsEachDayOnce` and `LosesNoDay`: `Spec => []EachDayOnce` and `Spec => NoDayIsLost` for
  any number of days, slots and moves. `EachDayOnce` alone is not inductive, for the next fold may come from the store
  or an export. The invariant `MeanInv` says of every copy of the mean - memory, store, export - that the days folded
  and those still held lie on their two sides of `t_rm_day`, that the completed day is before the current one, that
  samples lie in their day, and that nothing is held before a seed. One lemma each for `Seeded`, `AddSample` and
  `Roll` says that it keeps a copy so and what it drops; the evaluation composes them.
* `AdaptiveComfort_proofs!HoldsWhileStale` and `TypesHold`: `Spec => []HeldWhileStale` and `Spec => []TypeOK`. Whether
  a sample lifts the hold depends on what a later start or import puts back, so `HoldInv` says of memory and store
  that what they remember is of the past, that a sample of this very slot leaves no hold the export does not have, and
  that the memory is held if the store with that sample is. `SlotAfter` does the arithmetic of the clock.
* `PresetControl_proofs!SkipHolds`: `Spec => []SkipLeavesNothingBehind` for any day of blocks, any skip window and any
  number of moves. It speaks of settled states, and all that makes it true happens in between, so `SkipInv` follows
  the skip through its calls: a skip that starts is before its end time, and past it an evaluation is on its way
  (`Ending`); eco is a skip's only after the day's decision, and a boost goes back to it as to anything else
  (`Owned`); and once a skip is over or touched, its eco stays only while a restore is under way, a slip says why, or
  `applied_key` is dropped (`Left`). `PreheatHolds`: `Spec => PreheatIsNotUndone`, for a call of the schedule is for
  the latched block if there is one, and only the evaluation moves the latch. `TypesHold` needs that a block is always
  in force and that a stand-down always ends, both from the well-foundedness of the slots.
* `PresetControl_proofs!ObeyedHolds`: `Spec => []ScheduleObeyed`, whatever the day and the number of moves. A settled
  room has nothing under way, so the invariant says what each debt is while somebody still owes it. `ScopeKnown`:
  `dormant_reason` is what it would be now, or an evaluation is due. `Aimed`: `applied_key`, or the key of the call
  under way, is the block in force or latched, or an evaluation is due. `TouchEnds`: a change that ends a skip, or one
  that is about to start (`SkipOpen`), is of this very slot. `SkipKept`: under a skip the preset is eco or the
  person's. `PauseKept`: what was set in a pause is kept only while the pause or its resume lies ahead. `Justified`:
  the preset is that of `applied_key`, or its owner may keep it, or a slip is named. With `SkipInv`, which takes a
  skip's eco away, these are inductive.
* `WeekSchedule_proofs!InForceHolds` and `BoundaryHolds`: `Spec => []InForce` and `Spec => BoundaryIsHonest`, for
  every schedule and calendar, any number of days, and days of any length. The lemmas are about days and slots
  (division with a variable divisor), about instances - of two blocks of a day one is first, so a moment has one
  instance at most, and it is there because of what is known of its own day - and about the latest of a set of them.
  From these, two lookups that agree on every day from a block's start on agree on the block (`LatestAgrees`). The
  invariant `WeekInv` says what `force`, `due` and `warm` are in terms of the last evaluation; `HolidaysKnown` and
  `KnowledgeStands` say which days are known at this one, and `EvaluateAsDue` puts the two together. `WeekAssumption`
  starts the room more than seven days after day 0, so that the look-back window has no edge.
* `OverrideDetection_proofs`: `EchoHolds`, `RestoreHolds`, `HeardHolds`, `SlotHolds`, for any windows, log, tasks and
  sources. What `EchoIsNobody` and `RestoreIsNobody` say of the stand-down, the invariant `BlameInv` says also of the
  one an undo would put back; and that an open window means a frost target. `HeardInv`: the stand-down kept for an
  undo that was captured after a person's word lasts as long as that word, for which `BoundaryAssumption` has it that
  a later look finds no sooner block; and a number a person edited is followed within the same tick. `SlotInv`: while
  the event of a slot is still to come, the undo is of this very moment; and a slot after its event is within the
  grace. `WindowsAssumption` says how the windows are ordered.
* `PresetTemps_proofs`: `EcoHolds`, `BoostHolds`, `WrittenHolds`, `EditHolds`, for any temperatures, days and moves.
  All four speak of settled states or of single steps, and each has an invariant of its own for what is under way.
  `EcoKept`: people's eco is what the number has, or what the setback will put back, and a write of the setback finds
  eco as it was when decided. `BoostKept`: everything that is kept to be put back is people's own, and a temperature
  that is not theirs has a boost, a call or a task that will put it back. `Owed`: unless an evaluation is due, each
  affected preset is written, or the evaluation still has it before it. `Standing`: `met` is right about the record; an
  edit that is to stand is of a preset that was written, and a write of it on its way is of the same target and forced,
  or its record is lost.
* `AdaptiveComfort_proofs!QuantisedInBand`, `QuantisedOnStep`, `ColderIsWarmer`, about `ComfortTarget`: from lemmas
  about integer division (the largest multiple below, the smallest above, the nearest within half a step) by cases on
  where the nearest multiple falls.
* `LearningLedger_proofs`: `EveryFactOnce`, `ResetsStand`, `CorrectionsAreBacked`, `StepsAreOneChange`, `StepsKeepOut`
  and `TypesHold` for any nets, contexts and limits, and any number of half-lives, facts and moves. The properties are
  about one ledger, but ledgers come back: out of an undo, a stash, an export, the store. So none of them is
  inductive, and each invariant is about all the ledgers that are `Held` anywhere. `TimeInv`: what they know was said
  before now, later facts in later half-lives, and while a change is being folded no half-life passes: all that was
  said since is of this one. `OnceInv`: none says a thing twice, nor, beside the ledger it may be put back into, a
  stash that is still `alone`; `RunInv` is the same for heating runs. `SumInv`: the statistics of each are the sums of
  its facts, and those of a stash are no later than what was said since, which is what makes replaying them right.
  `GoneInv`: store and undo are as clear of what was reset as the ledger. `StepInv`: while a change is alone, the
  entries are those of before and its own.
* `LearningLedger_proofs!BaselineKept`: `Spec => KeepsTheBaseline`, the refinement. Up to `EveryStepIs`, one lemma per
  action says which step of `LearntBaseline` it is, or that it is not seen; that the evidence then is that of the
  facts is `SumInv` before and after the step. The lemmas under all this are about the operators. `Of` and `ByAge`
  arrange a sequence by rank, so a rank is taken once and every rank is taken. `Pow2`, `Total` and `Replay` are
  recursive functions; that they have values is proved from the well-foundedness of the numbers (`Recursion`,
  `StageExists`), by the least stage at which one would fail. Since a weight is a multiple of what all half-lives
  leave of it, each halving is exact (`UnitHalves`, `TotalHalves`), and `Update`, `Unlearn`, `Readd` and `Replay` turn
  sums of facts into sums of facts (`UpdateTallies`, `UnlearnTallies`, `ReplayTallies`).

Every safety property of the passing runs is so proved. Model-checked only are the four about what must happen in the end
(`HandsBack`, `TakesOver`, `ReenabledGoesOff`, `CallsReturn`): the prover does not reach liveness under fairness.

## Not modelled, and what is left

* The verdicts of `core/forecast.py`, the warming-rate fit and the lead of `core/preheat.py` are nondeterministic
  choices of the models that use them, which include every verdict and every lead the code can give. Their float
  arithmetic, and the patterns of `core/boost.py`, are shown to people and steer nothing else.
* The forecast manager's fetch keeps one cache per weather entity; only its timer is modelled.
* Several rooms that share sources are one switch in `SourceHandover`; `async_remove_source_entry` is not modelled.
* Entities, forms, diagnostics and translations present state. How the Scheduler's timeslots, a VTherm's attributes
  and an exported blob are parsed is left out.
* The 30 s save window is in `PresetTemps`, `LearningLedger` and `RunningMean`, not in `PresetControl`, whose reloads
  save first.
